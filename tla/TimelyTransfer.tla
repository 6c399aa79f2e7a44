--------------------------- MODULE TimelyTransfer ---------------------------
(***************************************************************************)
(* The transfer of module Transfer in the surroundings the protocol is     *)
(* made for: the file can be read, the socket can send, the client does    *)
(* not give up, a datagram arrives before the timeout or not at all, and   *)
(* at most `MaxLosses' timeouts are due to a loss.  No datagram is         *)
(* received after newer ones made it obsolete, so that here block indexes  *)
(* may wrap around.                                                        *)
(***************************************************************************)
EXTENDS Transfer

CONSTANT MaxLosses

ASSUME MaxLossesAssumption == MaxLosses \in 0 .. SEND_ATTEMPTS - 1

VARIABLE losses

timelyVars == <<vars, losses>>

TimelyInit == TransferInit /\ losses = 0

Undisturbed ==
    \/ Negotiate(TRUE)
    \/ SendOack
    \/ LoopHead
    \/ PushBlock
    \/ WindowFull
    \/ SendBlock

\* A datagram of the session or the answer to it got lost.
LossTimeout ==
    /\ losses < MaxLosses
    /\ losses' = losses + 1
    /\ OackTimeout \/ AckTimeout
    /\ UNCHANGED client

\* The blocks in the window are the ones on the wire.
TimelyAccept ==
    /\ \E datagram \in data \cap {buffers[s] : s \in DOMAIN buffers} :
           ClientAccept(datagram)
    /\ UNCHANGED losses

\* Only the acknowledgement of what the client holds now is on the wire, and
\* the session has not seen it yet.
TimelyAck ==
    /\ pc = "oack_wait" \/ Len(received) > Acknowledged
    /\ \E ack \in acks \cap {Len(received) % Modulus} : AckStep(ack)
    /\ UNCHANGED <<client, losses>>

TimelyNext ==
    \/ Undisturbed /\ UNCHANGED <<client, losses>>
    \/ LossTimeout
    \/ TimelyAccept
    \/ ClientAcknowledge /\ UNCHANGED losses
    \/ TimelyAck

\* Beyond Transfer's FairSpec: what is not lost arrives, and the client answers.
TimelySpec ==
    /\ TimelyInit
    /\ [][TimelyNext]_timelyVars
    /\ WF_timelyVars(Undisturbed /\ UNCHANGED <<client, losses>>)
    /\ WF_timelyVars(TimelyAccept)
    /\ WF_timelyVars(ClientAcknowledge /\ UNCHANGED losses)
    /\ WF_timelyVars(TimelyAck)
-----------------------------------------------------------------------------
\* The client ends up with the whole file and the session with success, also
\* when the file has more blocks than there are block indexes.
Delivered == <>(result = "sent" /\ Complete)
=============================================================================
