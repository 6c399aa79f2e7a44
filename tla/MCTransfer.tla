----------------------------- MODULE MCTransfer -----------------------------
(* Instances of Transfer for TLC: the read requests clients make. *)
EXTENDS Transfer

Request(t, b, s, w) == [timeout |-> t, blksize |-> b, tsize |-> s, windowsize |-> w]

NoOptions == Request({}, {}, FALSE, {})

\* No option, refused options, and each accepted option on its own.
MCRequests ==
    {NoOptions,
     Request({0}, {7}, FALSE, {0}),
     Request({}, {}, TRUE, {}),
     Request({1}, {}, FALSE, {}),
     Request({}, {8}, FALSE, {1}),
     Request({256}, {}, FALSE, {2}),
     Request({}, {}, FALSE, {3}),
     Request({}, {}, TRUE, {4})}

MCWindowed == {Request({}, {}, FALSE, {2})}
=============================================================================
