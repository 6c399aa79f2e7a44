------------------------------ MODULE Delivery ------------------------------
(***************************************************************************)
(* What a read session promises its client: the blocks of a file arrive in *)
(* order, at most `size' of them ahead of what the session has seen        *)
(* confirmed; success is reported only if fewer than `size' blocks, the    *)
(* last ones, are unconfirmed.  There are no datagrams, indexes, attempts  *)
(* or slots here: module Transfer implements this specification.           *)
(***************************************************************************)
EXTENDS Naturals, Sequences

CONSTANT Blocks

VARIABLES
    delivered,  \* the blocks the client has, in the order it got them
    confirmed,  \* how many of them the session knows of
    size,       \* the window size agreed upon
    outcome     \* "open", "sent" or "failed"

vars == <<delivered, confirmed, size, outcome>>

Init ==
    /\ delivered = << >>
    /\ confirmed = 0
    /\ size = 1
    /\ outcome = "open"

\* negotiate_options settles the size before anything is sent.
Agree ==
    /\ outcome = "open" /\ delivered = << >>
    /\ size' \in Nat \ {0}
    /\ UNCHANGED <<delivered, confirmed, outcome>>

\* A late datagram is delivered also when the session has ended.
Deliver ==
    /\ Len(delivered) < Blocks
    /\ Len(delivered) < confirmed + size
    /\ delivered' = Append(delivered, Len(delivered) + 1)
    /\ UNCHANGED <<confirmed, size, outcome>>

Confirm ==
    /\ outcome = "open"
    /\ confirmed' \in confirmed + 1 .. Len(delivered)
    /\ UNCHANGED <<delivered, size, outcome>>

\* send_file returns.
Succeed ==
    /\ outcome = "open"
    /\ Blocks - confirmed < size
    /\ outcome' = "sent"
    /\ UNCHANGED <<delivered, confirmed, size>>

Fail ==
    /\ outcome = "open"
    /\ outcome' = "failed"
    /\ UNCHANGED <<delivered, confirmed, size>>

Next == Agree \/ Deliver \/ Confirm \/ Succeed \/ Fail

Spec == Init /\ [][Next]_vars
=============================================================================
