---------------------------- MODULE HandlerSpec ----------------------------
(***************************************************************************)
(* The handler of module Handler as a specification of its own: what       *)
(* module Server assumes of the handlers it creates, and module            *)
(* PeerHandler implements.                                                 *)
(***************************************************************************)
EXTENDS Handler

VARIABLE h

Init == h = NewHandler

ServerStep == h' \in Fed(h) \cup {Detached(h)}

OwnStep == h' \in HandlerSteps(h)

Spec == Init /\ [][ServerStep \/ OwnStep]_h
=============================================================================
