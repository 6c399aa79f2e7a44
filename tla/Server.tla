------------------------------- MODULE Server -------------------------------
(***************************************************************************)
(* TFTPServer of server.rs: one thread that takes read requests from the   *)
(* listening socket and modification events of the configuration files,    *)
(* and owns one handler (module Handler) for every peer address.           *)
(*                                                                         *)
(* Handlers are numbered in the order of their creation.  The server's     *)
(* thread blocks at two places: in feed, while the channel of a handler is *)
(* full, and in shutdown, which joins the thread of a handler.             *)
(***************************************************************************)
EXTENDS Handler, FiniteSets

CONSTANTS
    Addresses,    \* addresses of the peers
    MaxHandlers,  \* bound: handlers created
    MaxRequests   \* bound: read requests received

ASSUME ServerAssumption ==
    /\ CHANNEL_SIZE \in Nat \ {0}
    /\ MaxHandlers \in Nat /\ MaxRequests \in Nat

VARIABLES
    server,         \* "select", "feed", "join", "drop" or "stopped"
    pending,        \* the address and port whose request is being fed, or << >>
    joined,         \* the handler being joined, 0 for none
    peer_handlers,  \* address -> its handler, 0 for none
    handlers,       \* every handler created so far
    address,        \* the address each of them was created for
    requests,       \* number of requests received
    missed          \* history: handler -> requests it was sent once its loop was left

vars == <<server, pending, joined, peer_handlers, handlers, address, requests, missed>>

TypeOK ==
    /\ server \in {"select", "feed", "join", "drop", "stopped"}
    /\ pending \in {<< >>} \cup (Addresses \X Ports)
    /\ joined \in 0 .. Len(handlers)
    /\ peer_handlers \in [Addresses -> 0 .. Len(handlers)]
    /\ handlers \in Seq(Handlers) /\ Len(handlers) <= MaxHandlers
    /\ \A h \in DOMAIN handlers : Len(handlers[h].queue) <= CHANNEL_SIZE
    /\ address \in Seq(Addresses) /\ Len(address) = Len(handlers)
    /\ requests \in 0 .. MaxRequests
    /\ missed \in [1 .. MaxHandlers -> Nat]

Init ==
    /\ server = "select"
    /\ pending = << >>
    /\ joined = 0
    /\ peer_handlers = [a \in Addresses |-> 0]
    /\ handlers = << >>
    /\ address = << >>
    /\ requests = 0
    /\ missed = [h \in 1 .. MaxHandlers |-> 0]
-----------------------------------------------------------------------------
IsFinished(h) == handlers[h].phase = "finished"

\* PeerHandler::new for the address a.
Create(a) ==
    /\ Len(handlers) < MaxHandlers
    /\ address' = Append(address, a)

\* PeerHandler::shutdown(h): drops the sender; the join follows.
Shutdown(h, handles) ==
    /\ joined' = h
    /\ handlers' = [handles EXCEPT ![h] = Detached(@)]

\* The request that is being fed comes too late for the handler h.
Miss(h) == missed' = [missed EXCEPT ![h] = @ + 1]

\* Mutant: forgets the handlers that have not finished.
TurnForgetsRunning ==
    /\ server = "select"
    /\ peer_handlers' = [a \in Addresses |->
           IF peer_handlers[a] # 0 /\ IsFinished(peer_handlers[a]) THEN peer_handlers[a] ELSE 0]
    /\ UNCHANGED <<server, pending, joined, handlers, address, requests, missed>>

\* The turn of the loop: forgets the handlers that have finished.
Turn ==
    /\ server = "select"
    /\ peer_handlers' = [a \in Addresses |->
           IF peer_handlers[a] # 0 /\ IsFinished(peer_handlers[a]) THEN 0 ELSE peer_handlers[a]]
    /\ UNCHANGED <<server, pending, joined, handlers, address, requests, missed>>

\* The configuration of the peer a is modified: a new handler takes over, and
\* the previous one is shut down.
ConfigModified(a) ==
    /\ server = "select"
    /\ Create(a)
    /\ peer_handlers' = [peer_handlers EXCEPT ![a] = Len(handlers) + 1]
    /\ IF peer_handlers[a] = 0
         THEN /\ handlers' = Append(handlers, NewHandler)
              /\ UNCHANGED <<server, joined>>
         ELSE /\ server' = "join"
              /\ Shutdown(peer_handlers[a], Append(handlers, NewHandler))
    /\ UNCHANGED <<pending, requests, missed>>

\* A read request of the port p of the peer a, whose handler is created if it
\* has none.  A datagram that does not parse is answered with an ERROR and
\* changes nothing.
Receive(a, p) ==
    /\ server = "select"
    /\ requests < MaxRequests
    /\ requests' = requests + 1
    /\ server' = "feed"
    /\ pending' = <<a, p>>
    /\ IF peer_handlers[a] = 0
         THEN /\ Create(a)
              /\ handlers' = Append(handlers, NewHandler)
              /\ peer_handlers' = [peer_handlers EXCEPT ![a] = Len(handlers) + 1]
         ELSE UNCHANGED <<handlers, address, peer_handlers>>
    /\ UNCHANGED <<joined, missed>>

\* handler.feed(...).await waits for room in the channel.
Feed ==
    /\ server = "feed"
    /\ LET h == peer_handlers[pending[1]]
       IN  /\ IsOpen(handlers[h])
           /\ HasRoom(handlers[h])
           /\ handlers' = [handlers EXCEPT ![h].queue = Append(@, pending[2])]
           /\ IF handlers[h].phase = "serving" THEN UNCHANGED missed ELSE Miss(h)
    /\ server' = "select"
    /\ pending' = << >>
    /\ UNCHANGED <<joined, peer_handlers, address, requests>>

\* Mutant: the request is lost, and the handler stays.
FeedFailsOnly ==
    /\ server = "feed"
    /\ ~IsOpen(handlers[peer_handlers[pending[1]]])
    /\ Miss(peer_handlers[pending[1]])
    /\ server' = "select"
    /\ pending' = << >>
    /\ UNCHANGED <<joined, peer_handlers, handlers, address, requests>>

\* The channel is closed: the handler is removed and shut down, the request lost.
FeedFails ==
    /\ server = "feed"
    /\ ~IsOpen(handlers[peer_handlers[pending[1]]])
    /\ Shutdown(peer_handlers[pending[1]], handlers)
    /\ peer_handlers' = [peer_handlers EXCEPT ![pending[1]] = 0]
    /\ Miss(peer_handlers[pending[1]])
    /\ server' = "join"
    /\ pending' = << >>
    /\ UNCHANGED <<address, requests>>

\* Mutant: the thread is detached, not joined.
NotJoined ==
    /\ server = "join"
    /\ joined' = 0
    /\ server' = "select"
    /\ UNCHANGED <<pending, peer_handlers, handlers, address, requests, missed>>

\* join() returns.
Joined ==
    /\ server = "join"
    /\ IsFinished(joined)
    /\ joined' = 0
    /\ server' = "select"
    /\ UNCHANGED <<pending, peer_handlers, handlers, address, requests, missed>>

\* A read error of the listening socket ends the loop; the server is dropped.
SocketError ==
    /\ server = "select"
    /\ server' = "drop"
    /\ UNCHANGED <<pending, joined, peer_handlers, handlers, address, requests, missed>>

\* SIGINT: main drops the future of the loop, which may be awaiting a feed, but
\* not one that is blocked in a join.
Interrupt ==
    /\ server \in {"select", "feed"}
    /\ server' = "drop"
    /\ pending' = << >>
    /\ UNCHANGED <<joined, peer_handlers, handlers, address, requests, missed>>

\* Drop: the handlers are drained and shut down, one after the other.
DropHandler(a) ==
    /\ server = "drop"
    /\ joined = 0
    /\ peer_handlers[a] # 0
    /\ Shutdown(peer_handlers[a], handlers)
    /\ peer_handlers' = [peer_handlers EXCEPT ![a] = 0]
    /\ UNCHANGED <<server, pending, address, requests, missed>>

DropJoined ==
    /\ server = "drop"
    /\ joined # 0
    /\ IsFinished(joined)
    /\ joined' = 0
    /\ UNCHANGED <<server, pending, peer_handlers, handlers, address, requests, missed>>

Dropped ==
    /\ server = "drop"
    /\ joined = 0
    /\ \A a \in Addresses : peer_handlers[a] = 0
    /\ server' = "stopped"
    /\ UNCHANGED <<pending, joined, peer_handlers, handlers, address, requests, missed>>

HandlerStep(h) ==
    /\ \E next \in HandlerSteps(handlers[h]) : handlers' = [handlers EXCEPT ![h] = next]
    /\ UNCHANGED <<server, pending, joined, peer_handlers, address, requests, missed>>

\* What the server's thread does once it has left the select!.
Unblock ==
    \/ Feed
    \/ FeedFails
    \/ Joined
    \/ \E a \in Addresses : DropHandler(a)
    \/ DropJoined
    \/ Dropped

Next ==
    \/ Turn
    \/ \E a \in Addresses : ConfigModified(a)
    \/ \E a \in Addresses, p \in Ports : Receive(a, p)
    \/ SocketError
    \/ Interrupt
    \/ Unblock
    \/ \E h \in DOMAIN handlers : HandlerStep(h)

Spec == Init /\ [][Next]_vars

\* Every thread is scheduled, and every session ends (Transfer!SessionEnds).
FairSpec ==
    /\ Spec
    /\ WF_vars(Unblock)
    /\ \A h \in 1 .. MaxHandlers : WF_vars(h \in DOMAIN handlers /\ HandlerStep(h))
-----------------------------------------------------------------------------
(* Properties *)

\* No port of a peer is served by sessions of two handlers at once, although a
\* handler is replaced by another while its sessions run: the server feeds the
\* new one only after the join of the previous one.
OneSessionPerEndpoint ==
    \A g, h \in DOMAIN handlers :
        g # h /\ address[g] = address[h] => handlers[g].running \cap handlers[h].running = {}

\* No thread is left behind: a handler that has not finished is the one of its
\* address in peer_handlers, or the server is joining it.
NoStrayHandler ==
    \A h \in DOMAIN handlers :
        IsFinished(h) \/ peer_handlers[address[h]] = h \/ joined = h

\* A request is lost only when it comes after its handler has left the loop: a
\* handler that goes, idle or replaced, first takes all that it was fed before.
\* And one that has gone costs its peer no more requests than its channel holds
\* and one that is refused, however long the turn that forgets it is in coming.
OnlyLateLoss ==
    \A h \in DOMAIN handlers :
        handlers[h].phase # "serving" =>
            /\ Len(handlers[h].queue) <= missed[h]
            /\ missed[h] <= CHANNEL_SIZE + 1

\* The server comes back to its select!, or stops: neither a full channel nor
\* a join blocks it for ever.
ServerReturns == server # "select" ~> server \in {"select", "stopped"}
=============================================================================
