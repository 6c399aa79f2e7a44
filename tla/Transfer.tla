------------------------------ MODULE Transfer ------------------------------
(***************************************************************************)
(* A session (module Session) and the client it serves, over UDP.          *)
(*                                                                         *)
(* The network is the set of datagrams ever sent: a datagram may be        *)
(* received late, more than once, out of order, or never.                  *)
(*                                                                         *)
(* The client is not part of the repository.  It is any client that keeps  *)
(* the in-order prefix of the blocks and acknowledges the last block of    *)
(* that prefix, whenever it likes: after a block, after a window, after a  *)
(* gap, or after a timeout of its own.                                     *)
(***************************************************************************)
EXTENDS Session, Sequences

VARIABLES
    received,   \* the blocks the client has accepted, in order
    acks        \* every acknowledgement the client has sent

client == <<received, acks>>
vars   == <<session, client>>

TypeOK ==
    /\ SessionTypeOK
    /\ received \in Seq(0 .. Blocks)
    /\ acks \subseteq Index

TransferInit ==
    /\ Init
    /\ received = << >>
    /\ acks = {}
-----------------------------------------------------------------------------
(* The client *)

\* The short block ends the file for the client.
Complete == received # << >> /\ received[Len(received)] = Blocks

ClientAccept(datagram) ==
    /\ ~Complete
    /\ datagram.index = (Len(received) + 1) % Modulus
    /\ received' = Append(received, datagram.block)
    /\ UNCHANGED <<session, acks>>

\* ACK 0 answers an OACK, ACK n the n-th block.
ClientAcknowledge ==
    /\ received # << >> \/ "OACK" \in control
    /\ acks' = acks \cup {Len(received) % Modulus}
    /\ UNCHANGED <<session, received>>

Next ==
    \/ OwnStep /\ UNCHANGED client
    \/ StrayStep /\ UNCHANGED client
    \/ \E ack \in acks : AckStep(ack) /\ UNCHANGED client
    \/ \E datagram \in data : ClientAccept(datagram)
    \/ ClientAcknowledge

Spec == TransferInit /\ [][Next]_vars

(***************************************************************************)
(* The task is polled by its runtime, its timers fire, and the file and    *)
(* the socket answer: it never stops between two steps.  Nothing is        *)
(* assumed of the client or the network.                                   *)
(***************************************************************************)
FairSpec == Spec /\ WF_vars(OwnStep /\ UNCHANGED client)
-----------------------------------------------------------------------------
(* Properties *)

Unacknowledged == wrapping_sub(last_read_index, last_acknowledged_index)

\* The number of blocks the server has seen acknowledged.
Acknowledged == file_pos - Unacknowledged

Sending == pc \in {"top", "fill", "send", "wait"}

\* send_file asserts, when it enters the loop and before it sends, that it has
\* no more blocks to send than the window holds.
WindowBound == pc \in {"fill", "send", "wait"} => to_send <= window

\* The server moves its window only over blocks the client holds, whatever
\* acknowledgements the network delays, repeats or reorders.
AcknowledgedIsReceived ==
    Sending => Acknowledged \in 0 .. Len(received)

\* Every block that may have to be sent again is still in its slot of the
\* window: push_block has not overwritten it with a later one.
WindowIntact ==
    Sending => \A i \in 1 .. Unacknowledged :
        LET index == wrapping_add(last_acknowledged_index, i)
        IN  buffers[Slot(index)] = [index |-> index, block |-> Acknowledged + i]

\* What the client has assembled is a prefix of the file, in every mix of
\* retransmissions of send_reliably with late and repeated DATA datagrams.
ReceivedIsPrefix == \A i \in 1 .. Len(received) : received[i] = i

\* While the session waits, the acknowledgement of the newest block the client
\* holds is accepted, not reported as an ACK from the past.
FreshAckAccepted ==
    pc = "wait" /\ Len(received) > Acknowledged
        => Acceptable(Len(received) % Modulus)

\* When an OACK is due no DATA leaves before the client acknowledged the OACK.
DataAfterOackAcknowledged ==
    "OACK" \in control /\ data # {} => 0 \in acks

\* A transfer that send_file reports as done reached the client as a whole.
SentIsComplete == result = "sent" => Complete

\* It does when send_file sends one block at a time, the default.
LockStepComplete == window = 1 => SentIsComplete

\* No acknowledgement, however late, moves the window of send_file back to
\* blocks that were already acknowledged.
ForwardOnly ==
    [][Sending /\ Sending' => Acknowledged' >= Acknowledged]_vars

(***************************************************************************)
(* The transfer as the client sees it.                                     *)
(***************************************************************************)
Outcome == IF pc # "ended" THEN "open" ELSE IF result = "sent" THEN "sent" ELSE "failed"

D == INSTANCE Delivery WITH delivered <- received, confirmed <- Acknowledged,
                            size <- window, outcome <- Outcome

\* Windows, slots, retransmissions and the datagrams the network repeats or
\* delays amount to an in-order delivery with the flow control of module
\* Delivery; send_file reports success only as Delivery allows it.
ImplementsDelivery == D!Spec

\* Every session ends: bounded attempts and a bounded file leave no way for
\* the task to keep its socket and its file for ever.
SessionEnds == <>(pc = "ended")
=============================================================================
