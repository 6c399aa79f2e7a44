-------------------------- MODULE MCTimelyTransfer --------------------------
(* Instances of TimelyTransfer for TLC. *)
EXTENDS TimelyTransfer

Request(s, w) == [timeout |-> {}, blksize |-> {}, tsize |-> s, windowsize |-> w]

\* One block at a time, with and without an OACK.
MCLockStep == {Request(FALSE, {}), Request(TRUE, {}), Request(FALSE, {1})}

MCWindowOfTwo == {Request(FALSE, {2})}
=============================================================================
