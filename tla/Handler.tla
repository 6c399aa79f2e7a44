------------------------------ MODULE Handler ------------------------------
(***************************************************************************)
(* What the server may expect of the handler of a peer: PeerHandler        *)
(* without its timers, its map and its capacity.  A handler is a record    *)
(*   phase     serving, leaving (the loop has been left), closed (the      *)
(*             channel has been closed) or finished (the thread has ended) *)
(*   attached  the server holds the sending end of the channel             *)
(*   queue     the requests, by port, fed and not yet taken                *)
(*   running   the ports that sessions serve                               *)
(* and each operator below is the set of the handlers a step leads to.     *)
(***************************************************************************)
EXTENDS Sequences, Naturals

CONSTANTS Ports, CHANNEL_SIZE

Phases == {"serving", "leaving", "closed", "finished"}

Handlers == [phase: Phases, attached: BOOLEAN, queue: Seq(Ports), running: SUBSET Ports]

NewHandler == [phase |-> "serving", attached |-> TRUE, queue |-> << >>, running |-> {}]

IsOpen(h) == h.phase \in {"serving", "leaving"}

HasRoom(h) == Len(h.queue) < CHANNEL_SIZE
-----------------------------------------------------------------------------
(* Steps of the server on a handler *)

Fed(h) ==
    {[h EXCEPT !.queue = Append(@, p)] : p \in {q \in Ports : h.attached /\ IsOpen(h) /\ HasRoom(h)}}

Detached(h) == [h EXCEPT !.attached = FALSE]
-----------------------------------------------------------------------------
(* Steps of the handler *)

\* A request is ignored, or a session is started for it unless one serves its port.
Taken(h) ==
    LET rest == [h EXCEPT !.queue = Tail(@)]
    IN  IF h.phase # "serving" \/ h.queue = << >> THEN {}
        ELSE {rest} \cup {[rest EXCEPT !.running = @ \cup {p}] : p \in {Head(h.queue)} \ h.running}

\* Mutant: only idleness ends the loop.
LeftWhenIdle(h) ==
    IF h.phase = "serving" /\ h.queue = << >> /\ h.attached /\ h.running = {}
    THEN {[h EXCEPT !.phase = "leaving"]} ELSE {}

\* The loop is left when the handler is idle, or detached with no request left.
Left(h) ==
    IF h.phase = "serving" /\ h.queue = << >> /\ (h.attached => h.running = {})
    THEN {[h EXCEPT !.phase = "leaving"]} ELSE {}

Closed(h) ==
    IF h.phase = "leaving" THEN {[h EXCEPT !.phase = "closed"]} ELSE {}

Finished(h) ==
    IF h.phase = "closed" /\ h.running = {}
    THEN {[h EXCEPT !.phase = "finished"]} ELSE {}

Ended(h) == {[h EXCEPT !.running = @ \ {p}] : p \in h.running}

HandlerSteps(h) == Taken(h) \cup Left(h) \cup Closed(h) \cup Finished(h) \cup Ended(h)
=============================================================================
