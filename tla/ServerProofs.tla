---------------------------- MODULE ServerProofs ----------------------------
(***************************************************************************)
(* Theorems about Server, for every set of addresses and ports, every      *)
(* channel size and every number of handlers and requests.                 *)
(*                                                                         *)
(* That no port is served twice rests on what a handler being joined and   *)
(* its successor have in common: the successor is not fed while the server *)
(* waits for the join, so that it has no request and no session.           *)
(***************************************************************************)
EXTENDS Server, SequenceTheorems, FiniteSetTheorems, WellFoundedInduction, TLAPS

Fresh(x) == x.queue = << >> /\ x.running = {}

ControlInv ==
    /\ server \in {"select", "feed", "stopped"} => joined = 0
    /\ server = "feed" => pending # << >> /\ peer_handlers[pending[1]] # 0

MapInv ==
    /\ \A a \in Addresses : peer_handlers[a] # 0 => address[peer_handlers[a]] = a
    /\ joined # 0 => peer_handlers[address[joined]] # joined

HandlersInv ==
    /\ \A h \in DOMAIN handlers : IsFinished(h) => handlers[h].running = {}
    /\ NoStrayHandler
    /\ joined # 0 /\ peer_handlers[address[joined]] # 0
           => Fresh(handlers[peer_handlers[address[joined]]])

ServerInv == TypeOK /\ ControlInv /\ MapInv /\ HandlersInv
-----------------------------------------------------------------------------
(***************************************************************************)
(* Handlers and sequences of handlers.                                     *)
(***************************************************************************)

\* What a step of a handler by itself keeps.
LEMMA StepFacts ==
    ASSUME NEW h \in Handlers, NEW n \in HandlerSteps(h)
    PROVE  /\ n \in Handlers
           /\ Len(n.queue) <= Len(h.queue)
           /\ h.phase = "finished" => n.phase = "finished"
           /\ (h.phase = "finished" => h.running = {}) => (n.phase = "finished" => n.running = {})
           /\ Fresh(h) => Fresh(n)
<1> USE DEF Handlers, Phases, Fresh
<1>1. CASE n \in Taken(h)
  <2> DEFINE rest == [h EXCEPT !.queue = Tail(@)]
  <2>1. h.phase = "serving" /\ h.queue # << >>
    BY ZenonT(40), <1>1 DEF Taken
  <2>2. n = rest \/ \E p \in {Head(h.queue)} \ h.running : n = [rest EXCEPT !.running = @ \cup {p}]
    BY Zenon, <1>1, <2>1 DEF Taken
  <2>3. /\ Head(h.queue) \in Ports /\ Tail(h.queue) \in Seq(Ports)
        /\ Len(Tail(h.queue)) = Len(h.queue) - 1
    BY <2>1, HeadTailProperties
  <2> DEFINE tail == Tail(h.queue)
  <2>a. rest = [h EXCEPT !.queue = tail] /\ tail \in Seq(Ports)
    BY <2>3
  <2> HIDE DEF tail, rest
  <2>4. /\ rest \in Handlers /\ rest.phase = "serving" /\ rest.queue = tail
        /\ rest.running = h.running
    BY SMTT(30), <2>1, <2>a
  <2>5. n \in Handlers /\ n.phase = "serving" /\ n.queue = tail
    BY SMTT(30), <2>2, <2>3, <2>4
  <2> QED BY SMTT(30), <2>1, <2>3, <2>5 DEF tail
<1>2. CASE n \in Left(h)
  BY <1>2 DEF Left
<1>3. CASE n \in Closed(h)
  BY <1>3 DEF Closed
<1>4. CASE n \in Finished(h)
  BY <1>4 DEF Finished
<1>5. CASE n \in Ended(h)
  BY <1>5 DEF Ended
<1> QED BY <1>1, <1>2, <1>3, <1>4, <1>5 DEF HandlerSteps

\* Dropping the sender leaves everything else of a handler alone.
LEMMA DetachedFacts ==
    ASSUME NEW h \in Handlers
    PROVE  /\ Detached(h) \in Handlers
           /\ Detached(h).phase = h.phase /\ Detached(h).queue = h.queue
           /\ Detached(h).running = h.running
BY Zenon DEF Detached, Handlers

\* A new handler is fresh, and serving.
LEMMA NewHandlerFacts ==
    /\ NewHandler \in Handlers /\ Fresh(NewHandler) /\ NewHandler.phase = "serving"
    /\ Len(NewHandler.queue) = 0
BY DEF NewHandler, Handlers, Phases, Fresh

\* Replacing one handler of a sequence.
LEMMA UpdateFacts ==
    ASSUME NEW s \in Seq(Handlers), NEW h \in 1 .. Len(s), NEW x \in Handlers, NEW t,
           t = [s EXCEPT ![h] = x]
    PROVE  /\ t \in Seq(Handlers) /\ Len(t) = Len(s) /\ DOMAIN t = 1 .. Len(s)
           /\ t[h] = x
           /\ \A j \in 1 .. Len(s) : j # h => t[j] = s[j]
BY ExceptSeq

\* Creating a handler for the address a.
LEMMA CreateFacts ==
    ASSUME TypeOK, NEW a \in Addresses, NEW s, s = Append(handlers, NewHandler), Create(a)
    PROVE  /\ s \in Seq(Handlers) /\ Len(s) = Len(handlers) + 1 /\ Len(s) <= MaxHandlers
           /\ s[Len(handlers) + 1] = NewHandler
           /\ \A h \in 1 .. Len(handlers) : s[h] = handlers[h]
           /\ address' \in Seq(Addresses) /\ Len(address') = Len(handlers) + 1
           /\ address'[Len(handlers) + 1] = a
           /\ \A h \in 1 .. Len(handlers) : address'[h] = address[h]
<1>1. Len(handlers) \in Nat /\ MaxHandlers \in Nat
  BY ServerAssumption DEF TypeOK
<1> QED BY <1>1, NewHandlerFacts, AppendProperties DEF TypeOK, Create

\* What the types say of the handlers, by their numbers.
LEMMA TypeFacts ==
    ASSUME TypeOK
    PROVE  /\ Len(handlers) \in Nat /\ DOMAIN handlers = 1 .. Len(handlers)
           /\ \A h \in 1 .. Len(handlers) : handlers[h] \in Handlers /\ address[h] \in Addresses
           /\ \A a \in Addresses : peer_handlers[a] # 0 => peer_handlers[a] \in 1 .. Len(handlers)
           /\ \A a \in Addresses : peer_handlers[a] \in 0 .. Len(handlers)
           /\ joined # 0 => joined \in 1 .. Len(handlers)
BY DEF TypeOK
-----------------------------------------------------------------------------
(***************************************************************************)
(* Steps that leave the handlers alone.                                    *)
(***************************************************************************)

\* The turn of the loop forgets finished handlers only.
LEMMA TurnInv ==
    ASSUME ServerInv, Turn
    PROVE  ServerInv'
<1> USE TypeFacts DEF ServerInv
<1>1. /\ UNCHANGED <<server, pending, joined, handlers, address, requests, missed>>
      /\ server = "select" /\ joined = 0
  BY DEF Turn, ControlInv
<1>2. \A a \in Addresses : \/ peer_handlers'[a] = peer_handlers[a]
                           \/ /\ peer_handlers'[a] = 0 /\ peer_handlers[a] # 0
                              /\ IsFinished(peer_handlers[a])
  BY DEF Turn
<1>3. TypeOK'
  BY <1>1 DEF TypeOK, Turn
<1>4. ControlInv' /\ HandlersInv'
  <2>1. \A h \in DOMAIN handlers : IsFinished(h)' = IsFinished(h)
    BY <1>1 DEF IsFinished
  <2>2. NoStrayHandler'
    BY <1>1, <1>2, <2>1 DEF NoStrayHandler, HandlersInv
  <2> QED BY <1>1, <2>1, <2>2 DEF ControlInv, HandlersInv
<1>5. MapInv'
  BY <1>1, <1>2 DEF MapInv
<1> QED BY <1>3, <1>4, <1>5

\* The loop is left, a join returns, or the server has been dropped.
LEMMA PassiveInv ==
    ASSUME ServerInv, Joined \/ SocketError \/ Interrupt \/ DropJoined \/ Dropped
    PROVE  ServerInv'
<1> USE TypeFacts DEF ServerInv
<1>1. /\ UNCHANGED <<peer_handlers, handlers, address, requests, missed>>
      /\ server' \in {"select", "drop", "stopped"}
      /\ pending' \in {pending, << >>}
  BY DEF Joined, SocketError, Interrupt, DropJoined, Dropped
<1>2. joined' = joined \/ (joined' = 0 /\ IsFinished(joined))
  BY DEF Joined, SocketError, Interrupt, DropJoined, Dropped
<1>3. server' \in {"select", "stopped"} => joined' = 0
  BY DEF Joined, SocketError, Interrupt, DropJoined, Dropped
<1>4. TypeOK' /\ ControlInv'
  BY <1>1, <1>2, <1>3 DEF TypeOK, ControlInv
<1>5. MapInv'
  BY <1>1, <1>2 DEF MapInv
<1>6. HandlersInv'
  <2>1. \A h \in DOMAIN handlers : IsFinished(h)' = IsFinished(h)
    BY <1>1 DEF IsFinished
  <2>2. NoStrayHandler'
    BY <1>1, <1>2, <2>1 DEF NoStrayHandler, HandlersInv
  <2> QED BY <1>1, <1>2, <2>1, <2>2 DEF HandlersInv
<1> QED BY <1>4, <1>5, <1>6
-----------------------------------------------------------------------------
(***************************************************************************)
(* Steps that create, replace or feed handlers.                            *)
(***************************************************************************)

\* A handler is created for an address that has none.
LEMMA CreatedInv ==
    ASSUME ServerInv, NEW a \in Addresses, Create(a), peer_handlers[a] = 0,
           joined = 0, UNCHANGED joined,
           handlers' = Append(handlers, NewHandler),
           peer_handlers' = [peer_handlers EXCEPT ![a] = Len(handlers) + 1]
    PROVE  MapInv' /\ HandlersInv'
<1> USE TypeFacts, CreateFacts, NewHandlerFacts DEF ServerInv
<1>1. /\ peer_handlers'[a] = Len(handlers) + 1
      /\ \A b \in Addresses : b # a => peer_handlers'[b] = peer_handlers[b]
  BY DEF TypeOK
<1>2. DOMAIN handlers' = 1 .. Len(handlers) + 1
  OBVIOUS
<1>3. MapInv'
  BY <1>1 DEF MapInv
<1>4. HandlersInv'
  <2>1. ASSUME NEW h \in 1 .. Len(handlers) PROVE IsFinished(h)' <=> IsFinished(h)
    BY DEF IsFinished
  <2>2. \A h \in DOMAIN handlers' : h \in 1 .. Len(handlers) \/ h = Len(handlers) + 1
    BY <1>2
  <2>3. NoStrayHandler'
    BY <1>1, <2>1, <2>2 DEF NoStrayHandler, HandlersInv
  <2>4. \A h \in DOMAIN handlers' : IsFinished(h)' => handlers'[h].running = {}
    BY <2>1, <2>2 DEF HandlersInv, Fresh
  <2> QED BY <2>3, <2>4 DEF HandlersInv
<1> QED BY <1>3, <1>4

\* The configuration of a peer with a handler is modified: the new handler is
\* fresh, and the previous one is joined before anything else happens.
LEMMA ReplacedInv ==
    ASSUME ServerInv, NEW a \in Addresses, ConfigModified(a), peer_handlers[a] # 0
    PROVE  ServerInv'
<1> USE TypeFacts DEF ServerInv
<1> DEFINE g == peer_handlers[a]
           n == Len(handlers) + 1
           s == Append(handlers, NewHandler)
<1>1. /\ Create(a) /\ server' = "join" /\ joined = 0 /\ joined' = g
      /\ peer_handlers' = [peer_handlers EXCEPT ![a] = n]
      /\ handlers' = [s EXCEPT ![g] = Detached(@)]
      /\ UNCHANGED <<pending, requests, missed>>
  BY DEF ConfigModified, Shutdown, ControlInv
<1>2. /\ s \in Seq(Handlers) /\ Len(s) = n /\ n <= MaxHandlers /\ s[n] = NewHandler
      /\ \A h \in 1 .. Len(handlers) : s[h] = handlers[h]
      /\ address' \in Seq(Addresses) /\ Len(address') = n /\ address'[n] = a
      /\ \A h \in 1 .. Len(handlers) : address'[h] = address[h]
  BY Zenon, <1>1, CreateFacts
<1>3. g \in 1 .. Len(handlers) /\ g \in 1 .. Len(s) /\ g # n /\ address[g] = a
  BY <1>2 DEF MapInv
<1> HIDE DEF g, n, s
<1>4. /\ Detached(handlers[g]) \in Handlers
      /\ Detached(handlers[g]).phase = handlers[g].phase
      /\ Detached(handlers[g]).queue = handlers[g].queue
      /\ Detached(handlers[g]).running = handlers[g].running
  BY <1>3, DetachedFacts
<1>5. /\ handlers' \in Seq(Handlers) /\ Len(handlers') = n /\ DOMAIN handlers' = 1 .. n
      /\ handlers'[g] = Detached(handlers[g])
      /\ \A h \in 1 .. n : h # g => handlers'[h] = s[h]
  BY <1>1, <1>2, <1>3, <1>4, UpdateFacts
<1>6. /\ n = Len(handlers) + 1 /\ n \in Nat /\ handlers'[n] = NewHandler
      /\ \A h \in 1 .. Len(handlers) : /\ handlers'[h].phase = handlers[h].phase
                                       /\ handlers'[h].queue = handlers[h].queue
                                       /\ handlers'[h].running = handlers[h].running
  BY <1>2, <1>3, <1>4, <1>5 DEF n
<1>7. /\ peer_handlers'[a] = n
      /\ \A b \in Addresses : b # a => peer_handlers'[b] = peer_handlers[b]
      /\ peer_handlers' \in [Addresses -> 0 .. n]
  BY <1>1, <1>6 DEF TypeOK
<1>8. TypeOK'
  <2>1. \A h \in 1 .. n : Len(handlers'[h].queue) <= CHANNEL_SIZE
    <3>1. \A h \in 1 .. n : h \in 1 .. Len(handlers) \/ h = n
      BY <1>6
    <3>2. Len(handlers'[n].queue) <= CHANNEL_SIZE
      BY <1>6, NewHandlerFacts, ServerAssumption
    <3> QED BY Zenon, <1>6, <3>1, <3>2 DEF TypeOK
  <2>2. joined' \in 0 .. n
    BY <1>1, <1>3, <1>6 DEF TypeOK
  <2> QED BY <1>1, <1>2, <1>5, <1>7, <2>1, <2>2 DEF TypeOK
<1>9. ControlInv'
  BY <1>1 DEF ControlInv
<1>10. MapInv'
  <2>1. ASSUME NEW b \in Addresses, peer_handlers'[b] # 0 PROVE address'[peer_handlers'[b]] = b
    BY <1>2, <1>7, <2>1 DEF MapInv
  <2>2. peer_handlers'[address'[joined']] # joined'
    BY <1>1, <1>2, <1>3, <1>7
  <2> QED BY <2>1, <2>2 DEF MapInv
<1>11. HandlersInv'
  <2>1. ASSUME NEW h \in 1 .. Len(handlers) PROVE IsFinished(h)' <=> IsFinished(h)
    BY <1>6 DEF IsFinished
  <2>2. \A h \in 1 .. n : h \in 1 .. Len(handlers) \/ h = n
    BY <1>6
  <2>3. NoStrayHandler'
    <3>1. ASSUME NEW h \in 1 .. Len(handlers)
          PROVE  IsFinished(h)' \/ peer_handlers'[address'[h]] = h \/ joined' = h
      BY <1>1, <1>2, <1>3, <1>7, <2>1 DEF NoStrayHandler, HandlersInv, g
    <3>2. peer_handlers'[address'[n]] = n
      BY <1>2, <1>7
    <3> QED BY <1>5, <2>2, <3>1, <3>2 DEF NoStrayHandler
  <2>4. \A h \in DOMAIN handlers' : IsFinished(h)' => handlers'[h].running = {}
    <3>1. handlers'[n].running = {}
      BY <1>6, NewHandlerFacts DEF Fresh
    <3> QED BY <1>5, <1>6, <2>1, <2>2, <3>1 DEF HandlersInv
  <2>5. Fresh(handlers'[peer_handlers'[address'[joined']]])
    BY <1>1, <1>2, <1>3, <1>6, <1>7, NewHandlerFacts
  <2> QED BY <2>3, <2>4, <2>5 DEF HandlersInv
<1> QED BY <1>8, <1>9, <1>10, <1>11

\* A configuration appears for a peer without a handler.
LEMMA AppearedInv ==
    ASSUME ServerInv, NEW a \in Addresses, ConfigModified(a), peer_handlers[a] = 0
    PROVE  ServerInv'
<1> USE TypeFacts DEF ServerInv
<1>1. /\ Create(a) /\ server = "select" /\ joined = 0
      /\ peer_handlers' = [peer_handlers EXCEPT ![a] = Len(handlers) + 1]
      /\ handlers' = Append(handlers, NewHandler)
      /\ UNCHANGED <<server, joined, pending, requests, missed>>
  BY DEF ConfigModified, ControlInv
<1>2. MapInv' /\ HandlersInv'
  BY Zenon, <1>1, CreatedInv
<1>3. TypeOK'
  <2>1. DOMAIN handlers' = 1 .. Len(handlers) + 1
    BY <1>1, CreateFacts
  <2>2. \A h \in 1 .. Len(handlers) + 1 : h \in 1 .. Len(handlers) \/ h = Len(handlers) + 1
    OBVIOUS
  <2>3. \A h \in DOMAIN handlers' : Len(handlers'[h].queue) <= CHANNEL_SIZE
    BY <1>1, <2>1, <2>2, CreateFacts, NewHandlerFacts, ServerAssumption DEF TypeOK
  <2>4. peer_handlers' \in [Addresses -> 0 .. Len(handlers) + 1] /\ 0 \in 0 .. Len(handlers) + 1
    BY <1>1 DEF TypeOK
  <2>5. /\ handlers' \in Seq(Handlers) /\ Len(handlers') = Len(handlers) + 1
        /\ Len(handlers') <= MaxHandlers
        /\ address' \in Seq(Addresses) /\ Len(address') = Len(handlers')
    BY Zenon, <1>1, CreateFacts
  <2> QED BY <1>1, <2>3, <2>4, <2>5 DEF TypeOK
<1> QED BY <1>1, <1>2, <1>3 DEF ControlInv

\* A request arrives, from a peer with or without a handler.
LEMMA ReceiveInv ==
    ASSUME ServerInv, NEW a \in Addresses, NEW p \in Ports, Receive(a, p)
    PROVE  ServerInv'
<1> USE TypeFacts DEF ServerInv
<1>1. /\ server = "select" /\ joined = 0 /\ server' = "feed" /\ pending' = <<a, p>>
      /\ requests' \in 0 .. MaxRequests /\ UNCHANGED <<joined, missed>>
  BY ServerAssumption DEF Receive, ControlInv, TypeOK
<1>2. pending' \in Addresses \X Ports /\ pending' # << >> /\ pending'[1] = a
  BY <1>1
<1>3. CASE peer_handlers[a] = 0
  <2>1. /\ Create(a) /\ handlers' = Append(handlers, NewHandler)
        /\ peer_handlers' = [peer_handlers EXCEPT ![a] = Len(handlers) + 1]
    BY <1>3 DEF Receive
  <2>2. MapInv' /\ HandlersInv'
    BY Zenon, <1>1, <1>3, <2>1, CreatedInv
  <2>3. DOMAIN handlers' = 1 .. Len(handlers) + 1 /\ peer_handlers'[a] = Len(handlers) + 1
    BY <2>1, CreateFacts DEF TypeOK
  <2>4. \A h \in 1 .. Len(handlers) + 1 : h \in 1 .. Len(handlers) \/ h = Len(handlers) + 1
    OBVIOUS
  <2>5. \A h \in DOMAIN handlers' : Len(handlers'[h].queue) <= CHANNEL_SIZE
    BY <2>1, <2>3, <2>4, CreateFacts, NewHandlerFacts, ServerAssumption DEF TypeOK
  <2>6. TypeOK'
    <3>1. peer_handlers' \in [Addresses -> 0 .. Len(handlers) + 1] /\ 0 \in 0 .. Len(handlers) + 1
      BY <2>1 DEF TypeOK
    <3>2. /\ handlers' \in Seq(Handlers) /\ Len(handlers') = Len(handlers) + 1
          /\ Len(handlers') <= MaxHandlers
          /\ address' \in Seq(Addresses) /\ Len(address') = Len(handlers')
      BY Zenon, <2>1, CreateFacts
    <3> QED BY <1>1, <1>2, <2>5, <3>1, <3>2 DEF TypeOK
  <2>7. ControlInv'
    BY <1>1, <1>2, <2>3 DEF ControlInv
  <2> QED BY <2>2, <2>6, <2>7
<1>4. CASE peer_handlers[a] # 0
  <2>1. UNCHANGED <<handlers, address, peer_handlers>>
    BY <1>4 DEF Receive
  <2>2. TypeOK' /\ ControlInv'
    BY <1>1, <1>2, <1>4, <2>1 DEF TypeOK, ControlInv
  <2>3. MapInv' /\ HandlersInv'
    BY <1>1, <2>1 DEF MapInv, HandlersInv, NoStrayHandler, IsFinished, Fresh
  <2> QED BY <2>2, <2>3
<1> QED BY <1>3, <1>4

\* A handler of peer_handlers is removed and shut down.
LEMMA ShutdownInv ==
    ASSUME ServerInv, NEW a \in Addresses, peer_handlers[a] # 0, joined = 0,
           Shutdown(peer_handlers[a], handlers),
           peer_handlers' = [peer_handlers EXCEPT ![a] = 0],
           missed' = missed \/ Miss(peer_handlers[a]),
           server' \in {"join", "drop"}, pending' \in {pending, << >>},
           UNCHANGED <<address, requests>>
    PROVE  ServerInv'
<1> USE TypeFacts DEF ServerInv
<1> DEFINE g == peer_handlers[a]
<1>1. joined' = g /\ handlers' = [handlers EXCEPT ![g] = Detached(@)]
  BY DEF Shutdown
<1>2. g \in 1 .. Len(handlers) /\ address[g] = a
  BY DEF MapInv
<1>3. /\ Detached(handlers[g]) \in Handlers
      /\ Detached(handlers[g]).phase = handlers[g].phase
      /\ Detached(handlers[g]).queue = handlers[g].queue
      /\ Detached(handlers[g]).running = handlers[g].running
  BY <1>2, DetachedFacts
<1>4. handlers \in Seq(Handlers)
  BY DEF TypeOK
<1>5. /\ handlers' \in Seq(Handlers) /\ Len(handlers') = Len(handlers)
      /\ DOMAIN handlers' = 1 .. Len(handlers)
      /\ \A h \in 1 .. Len(handlers) : /\ handlers'[h].phase = handlers[h].phase
                                       /\ handlers'[h].queue = handlers[h].queue
                                       /\ handlers'[h].running = handlers[h].running
  BY <1>1, <1>2, <1>3, <1>4, UpdateFacts
<1>6. /\ peer_handlers'[a] = 0 /\ peer_handlers' \in [Addresses -> 0 .. Len(handlers)]
      /\ \A b \in Addresses : b # a => peer_handlers'[b] = peer_handlers[b]
  BY DEF TypeOK
<1>7. TypeOK'
  <2>1. \A h \in DOMAIN handlers' : Len(handlers'[h].queue) <= CHANNEL_SIZE
    BY <1>5 DEF TypeOK
  <2>2. missed' \in [1 .. MaxHandlers -> Nat]
    BY DEF TypeOK, Miss
  <2> QED BY <1>1, <1>2, <1>5, <1>6, <2>1, <2>2 DEF TypeOK
<1>8. MapInv'
  BY <1>1, <1>2, <1>6 DEF MapInv
<1>9. HandlersInv'
  <2>1. \A h \in 1 .. Len(handlers) : IsFinished(h)' <=> IsFinished(h)
    BY <1>5 DEF IsFinished
  <2>2. NoStrayHandler'
    BY <1>1, <1>5, <1>6, <2>1 DEF NoStrayHandler, HandlersInv
  <2> QED BY <1>1, <1>2, <1>5, <1>6, <2>1, <2>2 DEF HandlersInv
<1> QED BY <1>7, <1>8, <1>9 DEF ControlInv

\* feed finds the channel of a handler closed.
LEMMA FeedFailsInv ==
    ASSUME ServerInv, FeedFails
    PROVE  ServerInv'
<1>1. /\ pending \in Addresses \X Ports /\ joined = 0 /\ peer_handlers[pending[1]] # 0
      /\ pending[1] \in Addresses
  BY DEF ServerInv, TypeOK, ControlInv, FeedFails
<1> QED BY Zenon, <1>1, ShutdownInv DEF FeedFails

\* The server is dropped, and with it the handler of an address.
LEMMA DropHandlerInv ==
    ASSUME ServerInv, NEW a \in Addresses, DropHandler(a)
    PROVE  ServerInv'
BY Zenon, ShutdownInv DEF DropHandler

\* One handler changes: by a step of its own, or because it is fed.
LEMMA ChangedInv ==
    ASSUME ServerInv, NEW h \in DOMAIN handlers, NEW x \in Handlers,
           handlers' = [handlers EXCEPT ![h] = x],
           Len(x.queue) <= CHANNEL_SIZE,
           handlers[h].phase = "finished" => x.phase = "finished",
           x.phase = "finished" => x.running = {},
           joined # 0 /\ Fresh(handlers[h]) => Fresh(x),
           server' \in {server, "select"}, pending' \in {pending, << >>},
           server' = "select" => joined = 0, server' = "feed" => pending' = pending,
           missed' \in [1 .. MaxHandlers -> Nat],
           UNCHANGED <<joined, peer_handlers, address, requests>>
    PROVE  ServerInv'
<1> USE TypeFacts DEF ServerInv
<1>1. handlers \in Seq(Handlers) /\ h \in 1 .. Len(handlers)
  BY DEF TypeOK
<1>2. /\ handlers' \in Seq(Handlers) /\ Len(handlers') = Len(handlers)
      /\ DOMAIN handlers' = 1 .. Len(handlers) /\ handlers'[h] = x
      /\ \A j \in 1 .. Len(handlers) : j # h => handlers'[j] = handlers[j]
  BY <1>1, UpdateFacts
<1>3. TypeOK'
  <2>1. \A j \in DOMAIN handlers' : Len(handlers'[j].queue) <= CHANNEL_SIZE
    BY <1>2 DEF TypeOK
  <2> QED BY <1>2, <2>1 DEF TypeOK
<1>4. ControlInv' /\ MapInv'
  BY DEF ControlInv, MapInv
<1>5. HandlersInv'
  <2>1. \A j \in 1 .. Len(handlers) : IsFinished(j) => IsFinished(j)'
    BY <1>2 DEF IsFinished
  <2>2. NoStrayHandler'
    BY <1>2, <2>1 DEF NoStrayHandler, HandlersInv
  <2>3. \A j \in DOMAIN handlers' : IsFinished(j)' => handlers'[j].running = {}
    BY <1>2 DEF IsFinished, HandlersInv
  <2>4. joined' # 0 /\ peer_handlers'[address'[joined']] # 0
            => Fresh(handlers'[peer_handlers'[address'[joined']]])
    BY <1>2 DEF HandlersInv
  <2> QED BY <2>2, <2>3, <2>4 DEF HandlersInv
<1> QED BY <1>3, <1>4, <1>5

\* A handler takes a request: it is open, so that it has not finished, and the
\* server is joining none.
LEMMA FeedInv ==
    ASSUME ServerInv, Feed
    PROVE  ServerInv'
<1> USE TypeFacts DEF ServerInv
<1> DEFINE h == peer_handlers[pending[1]]
           longer == Append(handlers[h].queue, pending[2])
           x == [handlers[h] EXCEPT !.queue = longer]
<1>1. /\ pending \in Addresses \X Ports /\ joined = 0
      /\ pending[1] \in Addresses /\ pending[2] \in Ports /\ h \in DOMAIN handlers
      /\ handlers[h] \in Handlers
  BY DEF TypeOK, ControlInv, Feed
<1>2. IsOpen(handlers[h]) /\ Len(handlers[h].queue) < CHANNEL_SIZE
  BY DEF Feed, HasRoom
<1>3. handlers' = [handlers EXCEPT ![h] = x]
  BY <1>1 DEF Feed
<1>4. longer \in Seq(Ports) /\ Len(longer) = Len(handlers[h].queue) + 1
  BY <1>1, AppendProperties DEF Handlers
<1> HIDE DEF longer, h
<1>5. x \in Handlers /\ x.queue = longer /\ x.phase = handlers[h].phase
  BY Zenon, <1>1, <1>4 DEF Handlers
<1>6. Len(x.queue) <= CHANNEL_SIZE
  BY <1>1, <1>2, <1>4, <1>5, ServerAssumption DEF Handlers
<1>7. x.phase # "finished"
  BY <1>2, <1>5 DEF IsOpen
<1>8. /\ server' = "select" /\ pending' = << >>
      /\ UNCHANGED <<joined, peer_handlers, address, requests>>
      /\ missed' \in [1 .. MaxHandlers -> Nat]
  BY DEF Feed, Miss, TypeOK
<1> HIDE DEF x
<1> QED BY Zenon, <1>1, <1>2, <1>3, <1>5, <1>6, <1>7, <1>8, ChangedInv

\* A handler makes a step of its own.
LEMMA HandlerStepInv ==
    ASSUME ServerInv, NEW h \in DOMAIN handlers, HandlerStep(h)
    PROVE  ServerInv'
<1> USE TypeFacts DEF ServerInv
<1>1. PICK n \in HandlerSteps(handlers[h]) : handlers' = [handlers EXCEPT ![h] = n]
  BY Zenon DEF HandlerStep
<1>2. handlers[h] \in Handlers
  OBVIOUS
<1>3. /\ n \in Handlers
      /\ Len(n.queue) <= Len(handlers[h].queue)
      /\ handlers[h].phase = "finished" => n.phase = "finished"
      /\ (handlers[h].phase = "finished" => handlers[h].running = {})
             => (n.phase = "finished" => n.running = {})
      /\ Fresh(handlers[h]) => Fresh(n)
  BY <1>2, StepFacts
<1>4. n.phase = "finished" => n.running = {}
  BY <1>3 DEF HandlersInv, IsFinished
<1>5. Len(n.queue) <= CHANNEL_SIZE
  BY <1>2, <1>3, ServerAssumption DEF TypeOK, Handlers
<1>6. /\ UNCHANGED <<server, pending, joined, peer_handlers, address, requests>>
      /\ missed' \in [1 .. MaxHandlers -> Nat]
      /\ server = "select" => joined = 0
  BY DEF HandlerStep, ControlInv, TypeOK
<1> QED BY Zenon, <1>1, <1>3, <1>4, <1>5, <1>6, ChangedInv

\* Every step.
LEMMA NextInv ==
    ASSUME ServerInv, [Next]_vars
    PROVE  ServerInv'
<1>1. ASSUME NEW a \in Addresses, ConfigModified(a) PROVE ServerInv'
  BY <1>1, AppearedInv, ReplacedInv
<1>2. CASE UNCHANGED vars
  BY <1>2 DEF vars, ServerInv, TypeOK, ControlInv, MapInv, HandlersInv,
              NoStrayHandler, IsFinished, Fresh
<1> QED BY <1>1, <1>2, TurnInv, ReceiveInv, PassiveInv, FeedInv, FeedFailsInv, DropHandlerInv,
           HandlerStepInv DEF Next, Unblock

\* The initial states.
LEMMA InitInv == Init => ServerInv
<1> SUFFICES ASSUME Init PROVE ServerInv
  OBVIOUS
<1>1. Len(handlers) = 0 /\ DOMAIN handlers = {} /\ 0 \in 0 .. 0
  BY DEF Init
<1>2. handlers \in Seq(Handlers) /\ address \in Seq(Addresses) /\ Len(address) = 0
  BY DEF Init
<1>3. TypeOK
  BY <1>1, <1>2, ServerAssumption DEF Init, TypeOK
<1> QED BY <1>1, <1>3 DEF Init, ServerInv, ControlInv, MapInv, HandlersInv, NoStrayHandler

\* The inductive invariant.
LEMMA ServerInvariance == Spec => []ServerInv
BY InitInv, NextInv, PTL DEF Spec
-----------------------------------------------------------------------------
(***************************************************************************)
(* Theorems.                                                               *)
(***************************************************************************)

\* The server's state is always well typed: no channel holds more requests
\* than PeerHandler::new made room for.
THEOREM TypeCorrect == Spec => []TypeOK
BY ServerInvariance, PTL DEF ServerInv

\* Two handlers of one address never serve one port: one of them has finished,
\* or one is being joined, and then the other has not been fed.
THEOREM OneSessionPerEndpointHolds == Spec => []OneSessionPerEndpoint
<1>1. ServerInv => OneSessionPerEndpoint
  <2> USE TypeFacts DEF ServerInv
  <2> SUFFICES ASSUME ServerInv, NEW g \in DOMAIN handlers, NEW h \in DOMAIN handlers,
                      g # h, address[g] = address[h]
               PROVE  handlers[g].running = {} \/ handlers[h].running = {}
    BY DEF OneSessionPerEndpoint
  <2>1. CASE IsFinished(g) \/ IsFinished(h)
    BY <2>1 DEF HandlersInv
  <2>2. CASE ~IsFinished(g) /\ ~IsFinished(h)
    <3>1. \/ peer_handlers[address[g]] = g /\ joined = h
          \/ peer_handlers[address[h]] = h /\ joined = g
      BY <2>2 DEF HandlersInv, NoStrayHandler
    <3> QED BY <3>1 DEF HandlersInv, Fresh
  <2> QED BY <2>1, <2>2
<1> QED BY <1>1, ServerInvariance, PTL

\* No thread is ever left behind: one that runs is in peer_handlers or joined.
THEOREM NoStrayHandlerHolds == Spec => []NoStrayHandler
<1>1. ServerInv => NoStrayHandler
  BY DEF ServerInv, HandlersInv
<1> QED BY <1>1, ServerInvariance, PTL

-----------------------------------------------------------------------------
(***************************************************************************)
(* Why the server comes back.  While it is blocked, the handler it waits   *)
(* for can always move (NeverStuck), and every move of a handler lowers a  *)
(* rank: its phase, the requests in its channel, and its sessions.         *)
(***************************************************************************)
Stage(x) ==
    CASE x.phase = "serving" -> 3 [] x.phase = "leaving" -> 2
      [] x.phase = "closed"  -> 1 [] OTHER -> 0

Rank(x) == <<Stage(x), Len(x.queue), Cardinality(x.running)>>

\* The lexicographic order of ranks.
Lower == LexProductOrdering(OpToRel(<, Nat), Nat, 3)

\* No descent in that order goes on for ever.
LEMMA LowerWellFounded == IsWellFoundedOn(Lower, [1 .. 3 -> Nat])
BY NatLessThanWellFounded, WFLexProductOrdering DEF Lower

\* A rank is lower than another one at the first place where they differ.
LEMMA LowerAt ==
    ASSUME NEW r \in [1 .. 3 -> Nat], NEW s \in [1 .. 3 -> Nat],
           \/ r[1] < s[1]
           \/ r[1] = s[1] /\ r[2] < s[2]
           \/ r[1] = s[1] /\ r[2] = s[2] /\ r[3] < s[3]
    PROVE  <<r, s>> \in Lower
<1>1. PICK j \in 1 .. 3 : (\A i \in 1 .. j - 1 : r[i] = s[i]) /\ r[j] < s[j]
  OBVIOUS
<1> QED BY <1>1 DEF Lower, LexProductOrdering, OpToRel

\* The rank is made of natural numbers.
LEMMA RankType ==
    ASSUME NEW x \in Handlers, IsFiniteSet(x.running)
    PROVE  Rank(x) \in [1 .. 3 -> Nat]
<1>1. Stage(x) \in Nat /\ Len(x.queue) \in Nat /\ Cardinality(x.running) \in Nat
  BY FS_CardinalityType DEF Handlers, Stage
<1> QED BY <1>1 DEF Rank

\* The ways a handler gets on.
LEMMA HandlerLowers ==
    ASSUME NEW x \in Handlers, NEW y \in Handlers, IsFiniteSet(x.running), IsFiniteSet(y.running),
           \/ Stage(y) < Stage(x)
           \/ Stage(y) = Stage(x) /\ Len(y.queue) < Len(x.queue)
           \/ /\ Stage(y) = Stage(x) /\ Len(y.queue) = Len(x.queue)
              /\ Cardinality(y.running) < Cardinality(x.running)
    PROVE  <<Rank(y), Rank(x)>> \in Lower
<1>1. Rank(x) \in [1 .. 3 -> Nat] /\ Rank(y) \in [1 .. 3 -> Nat]
  BY RankType
<1>2. /\ Rank(x)[1] = Stage(x) /\ Rank(x)[2] = Len(x.queue) /\ Rank(x)[3] = Cardinality(x.running)
      /\ Rank(y)[1] = Stage(y) /\ Rank(y)[2] = Len(y.queue) /\ Rank(y)[3] = Cardinality(y.running)
  BY DEF Rank
<1> QED BY <1>1, <1>2, LowerAt

\* Every step of a handler by itself enters a later phase, takes a request, or
\* ends a session; and a handler starts one session at a time.
LEMMA StepDescends ==
    ASSUME NEW x \in Handlers, IsFiniteSet(x.running), NEW y \in HandlerSteps(x)
    PROVE  IsFiniteSet(y.running) /\ <<Rank(y), Rank(x)>> \in Lower
<1>0. y \in Handlers /\ x.queue \in Seq(Ports) /\ x.running \subseteq Ports
  BY StepFacts DEF Handlers
<1>1. CASE y \in Taken(x)
  <2>1. x.phase = "serving" /\ x.queue # << >>
    BY <1>1, Zenon DEF Taken
  <2> DEFINE rest == [x EXCEPT !.queue = Tail(@)]
  <2>2. y = rest \/ \E p \in {Head(x.queue)} \ x.running : y = [rest EXCEPT !.running = @ \cup {p}]
    BY <1>1, <2>1, Zenon DEF Taken
  <2>3. rest.phase = "serving" /\ rest.queue = Tail(x.queue) /\ rest.running = x.running
    BY <2>1 DEF Handlers
  <2>4. y.phase = "serving" /\ y.queue = Tail(x.queue)
        /\ \/ y.running = x.running
           \/ \E p : y.running = x.running \cup {p}
    <3> HIDE DEF rest
    <3>1. rest \in [phase: Phases, attached: BOOLEAN, queue: Seq(Ports), running: SUBSET Ports]
      BY <1>0, <2>1, HeadTailProperties, Zenon DEF rest, Handlers
    <3>2. CASE y = rest
      BY <2>3, <3>2
    <3>3. ASSUME NEW p, y = [rest EXCEPT !.running = @ \cup {p}]
          PROVE  y.phase = rest.phase /\ y.queue = rest.queue /\ y.running = rest.running \cup {p}
      BY <3>1, <3>3
    <3> QED BY <2>2, <2>3, <3>2, <3>3, Zenon
  <2>5. IsFiniteSet(y.running)
    BY <2>4, FS_AddElement, Zenon
  <2>6. Len(y.queue) < Len(x.queue)
    <3>1. Len(Tail(x.queue)) = Len(x.queue) - 1 /\ Len(x.queue) \in Nat
      BY <1>0, <2>1, HeadTailProperties
    <3> QED BY <2>4, <3>1
  <2>7. Stage(y) = Stage(x)
    BY <2>1, <2>4 DEF Stage
  <2> QED BY <1>0, <2>5, <2>6, <2>7, HandlerLowers, ZenonT(40)
<1>2. CASE y \in Left(x) \cup Closed(x) \cup Finished(x)
  <2>1. Stage(y) < Stage(x) /\ y.running = x.running
    BY <1>2 DEF Left, Closed, Finished, Stage, Handlers
  <2> QED BY <1>0, <2>1, HandlerLowers
<1>3. CASE y \in Ended(x)
  <2>1. PICK p \in x.running : y = [x EXCEPT !.running = @ \ {p}]
    BY <1>3 DEF Ended
  <2>2. y.phase = x.phase /\ y.queue = x.queue /\ y.running = x.running \ {p}
    BY <2>1 DEF Handlers
  <2>3. IsFiniteSet(y.running) /\ Cardinality(y.running) = Cardinality(x.running) - 1
    BY <2>2, FS_RemoveElement
  <2>4. Cardinality(y.running) < Cardinality(x.running) /\ Stage(y) = Stage(x)
    BY <2>2, <2>3, FS_CardinalityType DEF Stage
  <2> QED BY <1>0, <2>2, <2>3, <2>4, HandlerLowers, Zenon
<1> QED BY <1>1, <1>2, <1>3 DEF HandlerSteps

\* A handler that the server feeds is fed; all others are left alone, detached,
\* or make a step of their own; and new ones are added at the end.
LEMMA HandlersChange ==
    ASSUME ServerInv, [Next]_vars
    PROVE  /\ Len(handlers') \in Nat /\ DOMAIN handlers' = 1 .. Len(handlers')
           /\ \A h \in DOMAIN handlers :
                 /\ h \in DOMAIN handlers'
                 /\ \/ handlers'[h] = handlers[h]
                    \/ handlers'[h] = Detached(handlers[h])
                    \/ handlers'[h] \in HandlerSteps(handlers[h])
                    \/ /\ server = "feed" /\ server' = "select" /\ joined' = joined
                       /\ handlers'[h].running = handlers[h].running
                       /\ handlers'[h].attached = handlers[h].attached
           /\ \A h \in DOMAIN handlers' : h \notin DOMAIN handlers => handlers'[h] = NewHandler
<1> USE TypeFacts DEF ServerInv
<1>0. handlers \in Seq(Handlers) /\ TypeOK
  BY DEF TypeOK
<1>1. ASSUME UNCHANGED handlers PROVE Len(handlers') = Len(handlers) /\ DOMAIN handlers' = DOMAIN handlers
  BY <1>1
<1>2. ASSUME NEW h \in 1 .. Len(handlers), NEW x \in Handlers, handlers' = [handlers EXCEPT ![h] = x]
      PROVE  /\ Len(handlers') = Len(handlers) /\ DOMAIN handlers' = 1 .. Len(handlers)
             /\ handlers'[h] = x /\ \A j \in 1 .. Len(handlers) : j # h => handlers'[j] = handlers[j]
  <2>1. PICK t : t = handlers'
    OBVIOUS
  <2>2. t = [handlers EXCEPT ![h] = x]
    BY <1>2, <2>1
  <2> QED BY <1>0, <2>1, <2>2, UpdateFacts
<1>3. ASSUME NEW a \in Addresses, Create(a), NEW t, t = Append(handlers, NewHandler)
      PROVE  /\ t \in Seq(Handlers) /\ Len(t) = Len(handlers) + 1 /\ t[Len(handlers) + 1] = NewHandler
             /\ \A h \in 1 .. Len(handlers) : t[h] = handlers[h]
             /\ DOMAIN t = 1 .. Len(handlers) + 1
  BY <1>0, <1>3, CreateFacts
<1>4. CASE Turn \/ SocketError \/ Interrupt \/ Joined \/ DropJoined \/ Dropped \/ UNCHANGED vars
  <2>1. UNCHANGED handlers
    BY <1>4 DEF Turn, SocketError, Interrupt, Joined, DropJoined, Dropped, vars
  <2> QED BY <1>0, <1>1, <2>1
<1>5. ASSUME NEW a \in Addresses, ConfigModified(a) \/ \E p \in Ports : Receive(a, p)
      PROVE  /\ DOMAIN handlers' = 1 .. Len(handlers') /\ Len(handlers') \in Nat
             /\ \A h \in DOMAIN handlers : /\ h \in DOMAIN handlers'
                                          /\ handlers'[h] \in {handlers[h], Detached(handlers[h])}
             /\ \A h \in DOMAIN handlers' : h \notin DOMAIN handlers => handlers'[h] = NewHandler
  <2> DEFINE t == Append(handlers, NewHandler)
  <2>1. CASE UNCHANGED handlers
    BY <1>0, <2>1
  <2>2. CASE handlers' = t /\ Create(a)
    <3> HIDE DEF t
    <3>1. /\ Len(t) = Len(handlers) + 1 /\ t[Len(handlers) + 1] = NewHandler
          /\ \A h \in 1 .. Len(handlers) : t[h] = handlers[h]
          /\ DOMAIN t = 1 .. Len(handlers) + 1
      BY <1>3, <2>2 DEF t
    <3> QED BY <1>0, <2>2, <3>1
  <2>3. CASE /\ Create(a) /\ peer_handlers[a] # 0
             /\ handlers' = [t EXCEPT ![peer_handlers[a]] = Detached(@)]
    <3>1. /\ t \in Seq(Handlers)
          /\ Len(t) = Len(handlers) + 1 /\ t[Len(handlers) + 1] = NewHandler
          /\ \A h \in 1 .. Len(handlers) : t[h] = handlers[h]
          /\ DOMAIN t = 1 .. Len(handlers) + 1
      BY Zenon, <1>3, <2>3
    <3> HIDE DEF t
    <3>2. PICK g \in 1 .. Len(handlers) : g = peer_handlers[a]
      BY <1>0, <2>3
    <3> DEFINE x == Detached(t[g])
    <3>3. x \in Handlers /\ x = Detached(handlers[g]) /\ g \in 1 .. Len(t)
      BY <1>0, <3>1, DetachedFacts
    <3>4. handlers' = [t EXCEPT ![g] = x]
      BY <2>3, <3>2
    <3> HIDE DEF x
    <3>5. /\ Len(handlers') = Len(t) /\ DOMAIN handlers' = 1 .. Len(t) /\ handlers'[g] = x
          /\ \A j \in 1 .. Len(t) : j # g => handlers'[j] = t[j]
      <4>1. PICK u : u = handlers'
        OBVIOUS
      <4>2. u = [t EXCEPT ![g] = x]
        BY <3>4, <4>1
      <4> QED BY <3>1, <3>3, <4>1, <4>2, UpdateFacts
    <3> QED BY <1>0, <3>1, <3>3, <3>5
  <2> QED BY SMTT(30), <1>5, <2>1, <2>2, <2>3 DEF ConfigModified, Receive, Shutdown
<1>6. ASSUME NEW g \in 1 .. Len(handlers), handlers' = [handlers EXCEPT ![g] = Detached(@)]
      PROVE  /\ Len(handlers') = Len(handlers) /\ DOMAIN handlers' = 1 .. Len(handlers)
             /\ \A h \in DOMAIN handlers : handlers'[h] \in {handlers[h], Detached(handlers[h])}
  <2> DEFINE x == Detached(handlers[g])
  <2>1. x \in Handlers /\ handlers' = [handlers EXCEPT ![g] = x]
    BY <1>0, <1>6, DetachedFacts
  <2> HIDE DEF x
  <2>2. /\ Len(handlers') = Len(handlers) /\ DOMAIN handlers' = 1 .. Len(handlers)
        /\ handlers'[g] = x /\ \A j \in 1 .. Len(handlers) : j # g => handlers'[j] = handlers[j]
    BY <1>2, <2>1, Zenon
  <2> QED BY <1>0, <2>2 DEF x
<1>7. CASE FeedFails \/ \E a \in Addresses : DropHandler(a)
  <2>1. PICK g \in 1 .. Len(handlers) : handlers' = [handlers EXCEPT ![g] = Detached(@)]
    <3>1. CASE FeedFails
      <4>1. pending \in Addresses \X Ports /\ peer_handlers[pending[1]] # 0
        BY <1>0, <3>1 DEF FeedFails, ControlInv, TypeOK
      <4> QED BY Zenon, <1>0, <3>1, <4>1 DEF FeedFails, Shutdown
    <3>2. ASSUME NEW a \in Addresses, DropHandler(a)
          PROVE  \E g \in 1 .. Len(handlers) : handlers' = [handlers EXCEPT ![g] = Detached(@)]
      BY Zenon, <1>0, <3>2 DEF DropHandler, Shutdown
    <3> QED BY <1>7, <3>1, <3>2
  <2> QED BY <1>0, <1>6, <2>1
<1>8. ASSUME NEW h \in DOMAIN handlers, HandlerStep(h)
      PROVE  /\ Len(handlers') = Len(handlers) /\ DOMAIN handlers' = 1 .. Len(handlers)
             /\ \A j \in DOMAIN handlers : \/ handlers'[j] = handlers[j]
                                          \/ handlers'[j] \in HandlerSteps(handlers[j])
  <2>1. PICK n \in HandlerSteps(handlers[h]) : handlers' = [handlers EXCEPT ![h] = n]
    BY Zenon, <1>8 DEF HandlerStep
  <2>2. n \in Handlers /\ h \in 1 .. Len(handlers)
    BY <1>0, StepFacts
  <2> QED BY <1>0, <1>2, <2>1, <2>2, Zenon
<1>9. CASE Feed
  <2> DEFINE g == peer_handlers[pending[1]]
             x == [handlers[g] EXCEPT !.queue = Append(@, pending[2])]
  <2>1. pending \in Addresses \X Ports /\ g # 0
    BY <1>0, <1>9 DEF Feed, ControlInv, TypeOK
  <2>2. g \in 1 .. Len(handlers) /\ handlers[g] \in Handlers
    BY <1>0, <2>1
  <2>3. x \in Handlers /\ x.running = handlers[g].running /\ x.attached = handlers[g].attached
    <3>1. pending[2] \in Ports
      BY <2>1
    <3>2. PICK y \in Handlers, q \in Ports : y = handlers[g] /\ q = pending[2]
      BY <2>2, <3>1, Zenon
    <3>3. Append(y.queue, q) \in Seq(Ports)
      BY DEF Handlers
    <3>4. [y EXCEPT !.queue = Append(@, q)] \in Handlers
          /\ [y EXCEPT !.queue = Append(@, q)].running = y.running
          /\ [y EXCEPT !.queue = Append(@, q)].attached = y.attached
      BY Zenon, <3>3 DEF Handlers
    <3> QED BY <3>2, <3>4
  <2>4. /\ handlers' = [handlers EXCEPT ![g] = x]
        /\ server = "feed" /\ server' = "select" /\ joined' = joined
    BY <1>9 DEF Feed
  <2> HIDE DEF x, g
  <2>5. /\ Len(handlers') = Len(handlers) /\ DOMAIN handlers' = 1 .. Len(handlers)
        /\ handlers'[g] = x /\ \A j \in 1 .. Len(handlers) : j # g => handlers'[j] = handlers[j]
    BY <1>2, <2>2, <2>3, <2>4, Zenon
  <2> QED BY <1>0, <2>3, <2>4, <2>5
<1> QED BY <1>0, <1>4, <1>5, <1>7, <1>8, <1>9 DEF Next, Unblock

\* A handler by itself never gets its sender back.
LEMMA StepAttached ==
    ASSUME NEW x \in Handlers, NEW y \in HandlerSteps(x)
    PROVE  y.attached = x.attached
<1>1. CASE y \in Taken(x)
  <2> DEFINE rest == [x EXCEPT !.queue = Tail(@)]
  <2>1. y = rest \/ \E p : y = [rest EXCEPT !.running = @ \cup {p}]
    BY <1>1, Zenon DEF Taken
  <2>2. rest \in [phase: Phases, attached: BOOLEAN, queue: {Tail(x.queue)}, running: SUBSET Ports]
        /\ rest.attached = x.attached
    BY DEF Handlers
  <2> HIDE DEF rest
  <2>3. ASSUME NEW p, y = [rest EXCEPT !.running = @ \cup {p}] PROVE y.attached = rest.attached
    BY <2>2, <2>3
  <2> QED BY <2>1, <2>2, <2>3, Zenon
<1>2. CASE y \in Left(x) \cup Closed(x) \cup Finished(x)
  BY <1>2 DEF Left, Closed, Finished, Handlers
<1>3. CASE y \in Ended(x)
  BY <1>3 DEF Ended, Handlers
<1> QED BY <1>1, <1>2, <1>3 DEF HandlerSteps

\* What the server joins has lost its sender, and every handler runs finitely
\* many sessions.
BlockInv ==
    /\ joined # 0 => ~handlers[joined].attached
    /\ server = "join" => joined # 0
    /\ \A h \in DOMAIN handlers : IsFiniteSet(handlers[h].running)

\* Shutdown leaves the handler it joins without its sender.
LEMMA ShutdownDetaches ==
    ASSUME ServerInv, NEW g, NEW s, Shutdown(g, s), g \in 1 .. Len(s), s \in Seq(Handlers)
    PROVE  joined' # 0 /\ ~handlers'[joined'].attached
<1>1. PICK t : t = handlers'
  OBVIOUS
<1>2. joined' = g /\ t = [s EXCEPT ![g] = Detached(s[g])]
  BY <1>1 DEF Shutdown
<1>3. s[g] \in Handlers
  OBVIOUS
<1>4. Detached(s[g]) \in Handlers /\ ~Detached(s[g]).attached
  BY Zenon, <1>3, DetachedFacts DEF Detached, Handlers
<1>5. t[g] = Detached(s[g])
  BY <1>2, <1>4, UpdateFacts
<1> QED BY <1>1, <1>2, <1>4, <1>5

\* The handler being joined after a step is the one before it, or was just shut
\* down.
LEMMA JoinedChange ==
    ASSUME ServerInv, [Next]_vars
    PROVE  \/ joined' \in {0, joined} /\ (server' = "join" => server = "join" /\ joined' = joined)
           \/ joined' # 0 /\ ~handlers'[joined'].attached
<1> USE TypeFacts DEF ServerInv
<1>0. handlers \in Seq(Handlers) /\ TypeOK
  BY DEF TypeOK
<1>1. CASE FeedFails
  <2>1. pending \in Addresses \X Ports /\ peer_handlers[pending[1]] # 0
    BY <1>0, <1>1 DEF FeedFails, ControlInv, TypeOK
  <2>2. peer_handlers[pending[1]] \in 1 .. Len(handlers)
    BY <1>0, <2>1
  <2>3. Shutdown(peer_handlers[pending[1]], handlers)
    BY <1>1 DEF FeedFails
  <2> QED BY <1>0, <2>2, <2>3, ShutdownDetaches
<1>2. ASSUME NEW a \in Addresses, DropHandler(a) PROVE joined' # 0 /\ ~handlers'[joined'].attached
  <2>1. peer_handlers[a] \in 1 .. Len(handlers) /\ Shutdown(peer_handlers[a], handlers)
    BY <1>0, <1>2 DEF DropHandler
  <2> QED BY <1>0, <2>1, ShutdownDetaches
<1>3. ASSUME NEW a \in Addresses, ConfigModified(a), peer_handlers[a] # 0
      PROVE  joined' # 0 /\ ~handlers'[joined'].attached
  <2> DEFINE s == Append(handlers, NewHandler)
  <2>1. s \in Seq(Handlers) /\ Len(s) = Len(handlers) + 1
    BY Zenon, <1>0, <1>3, CreateFacts DEF ConfigModified
  <2>2. Shutdown(peer_handlers[a], s) /\ peer_handlers[a] \in 1 .. Len(handlers)
    BY <1>0, <1>3 DEF ConfigModified
  <2> HIDE DEF s
  <2>3. peer_handlers[a] \in 1 .. Len(s)
    BY <1>0, <2>1, <2>2
  <2> QED BY <2>1, <2>2, <2>3, ShutdownDetaches
<1>4. ASSUME NEW a \in Addresses, ConfigModified(a), peer_handlers[a] = 0
      PROVE  joined' = joined /\ server' = server
  BY <1>4 DEF ConfigModified
<1>5. ASSUME NEW a \in Addresses, NEW p \in Ports, Receive(a, p)
      PROVE  joined' = joined /\ server' # "join"
  BY <1>5 DEF Receive
<1>6. CASE Turn \/ SocketError \/ Interrupt \/ Feed \/ Joined \/ DropJoined \/ Dropped \/ UNCHANGED vars
  BY <1>6 DEF Turn, SocketError, Interrupt, Feed, Joined, DropJoined, Dropped, vars
<1>7. ASSUME NEW h \in DOMAIN handlers, HandlerStep(h)
      PROVE  joined' = joined /\ server' = server
  BY <1>7 DEF HandlerStep
<1> QED BY <1>1, <1>2, <1>3, <1>4, <1>5, <1>6, <1>7 DEF Next, Unblock

\* Every step keeps the invariant.
LEMMA BlockStep ==
    ASSUME ServerInv, BlockInv, [Next]_vars
    PROVE  BlockInv'
<1> USE TypeFacts DEF ServerInv
<1>1. ASSUME NEW h \in DOMAIN handlers' PROVE IsFiniteSet(handlers'[h].running)
  <2>1. CASE h \notin DOMAIN handlers
    <3>1. handlers'[h] = NewHandler
      BY <1>1, <2>1, HandlersChange
    <3>2. NewHandler.running = {}
      BY NewHandlerFacts DEF Fresh
    <3> QED BY <3>1, <3>2, FS_EmptySet
  <2>2. CASE h \in DOMAIN handlers
    <3>1. PICK x \in Handlers : x = handlers[h] /\ IsFiniteSet(x.running)
      BY <2>2 DEF BlockInv
    <3>2. \/ handlers'[h] = x \/ handlers'[h] = Detached(x) \/ handlers'[h] \in HandlerSteps(x)
          \/ handlers'[h].running = x.running
      BY <2>2, <3>1, HandlersChange
    <3>3. Detached(x).running = x.running
      BY DetachedFacts
    <3> QED BY Zenon, <3>1, <3>2, <3>3, StepDescends
  <2> QED BY <2>1, <2>2
<1>2. ASSUME joined' = joined, joined # 0 PROVE ~handlers'[joined].attached
  <2>1. PICK x \in Handlers : x = handlers[joined] /\ ~x.attached /\ joined \in DOMAIN handlers
    BY <1>2 DEF BlockInv
  <2>2. server # "feed"
    BY <1>2 DEF ControlInv
  <2>3. handlers'[joined] = x \/ handlers'[joined] = Detached(x) \/ handlers'[joined] \in HandlerSteps(x)
    BY <2>1, <2>2, HandlersChange
  <2>4. ~Detached(x).attached
    BY DEF Detached, Handlers
  <2> QED BY <2>1, <2>3, <2>4, StepAttached
<1>3. (joined' # 0 => ~handlers'[joined'].attached) /\ (server' = "join" => joined' # 0)
  BY <1>2, JoinedChange DEF BlockInv
<1> QED BY <1>1, <1>3 DEF BlockInv

\* The inductive invariant.
LEMMA BlockInvariance == Spec => []BlockInv
<1>1. Init => BlockInv
  BY DEF Init, BlockInv
<1> QED BY <1>1, BlockStep, ServerInvariance, PTL DEF Spec

\* A handler that has lost its sender and has not finished can move, and so can
\* one with a full channel that is still open.
LEMMA CanMove ==
    ASSUME NEW x \in Handlers
    PROVE  /\ ~x.attached /\ x.phase # "finished" => HandlerSteps(x) # {}
           /\ IsOpen(x) /\ x.queue # << >> => HandlerSteps(x) # {}
<1>1. x.phase = "serving" /\ x.queue # << >> => Taken(x) # {}
  BY Zenon DEF Taken
<1>2. x.phase = "serving" /\ x.queue = << >> /\ ~x.attached => Left(x) # {}
  BY Zenon DEF Left
<1>3. x.phase = "leaving" => Closed(x) # {}
  BY DEF Closed
<1>4. x.phase = "closed" => Finished(x) # {} \/ Ended(x) # {}
  BY Zenon DEF Finished, Ended
<1>5. x.phase \in Phases
  BY DEF Handlers
<1>6. Taken(x) # {} \/ Left(x) # {} \/ Closed(x) # {} \/ Finished(x) # {} \/ Ended(x) # {}
         => HandlerSteps(x) # {}
  BY Zenon DEF HandlerSteps
<1> QED BY <1>1, <1>2, <1>3, <1>4, <1>5, <1>6, ZenonT(40) DEF IsOpen, Phases

\* Wherever the server's thread blocks, it can go on or the handler it waits for
\* can move.
Moves ==
    /\ server = "feed" =>
          LET x == handlers[peer_handlers[pending[1]]]
          IN  IsOpen(x) /\ ~HasRoom(x) => HandlerSteps(x) # {}
    /\ joined # 0 => IsFinished(joined) \/ HandlerSteps(handlers[joined]) # {}
    /\ server = "join" => joined # 0

\* Nobody waits for nobody: while feed waits for room in a channel, the handler
\* on its other end can take a request or close it, and while shutdown joins a
\* thread, that handler has lost its sender and can go on to its end.
THEOREM NeverStuck == Spec => []Moves
<1>1. ASSUME ServerInv, BlockInv PROVE Moves
  <2> USE TypeFacts DEF ServerInv
  <2>1. ASSUME server = "feed", NEW x, x = handlers[peer_handlers[pending[1]]],
               IsOpen(x), ~HasRoom(x)
        PROVE  HandlerSteps(x) # {}
    <3>1. pending \in Addresses \X Ports /\ peer_handlers[pending[1]] # 0
      BY <1>1, <2>1 DEF ControlInv, TypeOK
    <3>2. x \in Handlers
      BY <1>1, <2>1, <3>1
    <3>3. x.queue # << >>
      BY <2>1, ServerAssumption DEF HasRoom
    <3> QED BY <2>1, <3>2, <3>3, CanMove
  <2>2. ASSUME joined # 0 PROVE IsFinished(joined) \/ HandlerSteps(handlers[joined]) # {}
    <3>1. handlers[joined] \in Handlers /\ ~handlers[joined].attached
      BY <1>1, <2>2 DEF BlockInv
    <3> QED BY <3>1, CanMove DEF IsFinished
  <2> QED BY <1>1, <2>1, <2>2 DEF Moves, BlockInv
<1>2. ServerInv /\ BlockInv => Moves
  BY <1>1
<1> QED BY <1>2, ServerInvariance, BlockInvariance, PTL

\* While the server's thread stays where it is, every step of a handler lowers
\* its rank, in an order in which no descent goes on for ever, and leaves the
\* others alone: the handler that feed or shutdown waits for takes no endless
\* run of steps.
THEOREM HandlersDescend ==
    /\ IsWellFoundedOn(Lower, [1 .. 3 -> Nat])
    /\ Spec => [](\A h \in DOMAIN handlers : Rank(handlers[h]) \in [1 .. 3 -> Nat])
    /\ Spec => [][server' = server =>
                     \A h \in DOMAIN handlers :
                         \/ handlers'[h] \in {handlers[h], Detached(handlers[h])}
                         \/ <<Rank(handlers'[h]), Rank(handlers[h])>> \in Lower]_vars
<1>1. ServerInv /\ BlockInv => \A h \in DOMAIN handlers : Rank(handlers[h]) \in [1 .. 3 -> Nat]
  BY TypeFacts, RankType DEF ServerInv, BlockInv
<1>2. ASSUME ServerInv, BlockInv, Next, server' = server, NEW h \in DOMAIN handlers
      PROVE  \/ handlers'[h] \in {handlers[h], Detached(handlers[h])}
             \/ <<Rank(handlers'[h]), Rank(handlers[h])>> \in Lower
  <2>1. handlers[h] \in Handlers /\ IsFiniteSet(handlers[h].running)
    BY <1>2, TypeFacts DEF ServerInv, BlockInv
  <2>2. \/ handlers'[h] \in {handlers[h], Detached(handlers[h])}
        \/ handlers'[h] \in HandlerSteps(handlers[h])
    BY <1>2, HandlersChange
  <2>3. ASSUME NEW y \in HandlerSteps(handlers[h]) PROVE <<Rank(y), Rank(handlers[h])>> \in Lower
    BY <2>1, StepDescends
  <2> QED BY <2>2, <2>3
<1>3. ServerInv /\ BlockInv /\ [Next]_vars
         => [server' = server =>
                \A h \in DOMAIN handlers :
                    \/ handlers'[h] \in {handlers[h], Detached(handlers[h])}
                    \/ <<Rank(handlers'[h]), Rank(handlers[h])>> \in Lower]_vars
  BY <1>2, Zenon
<1>4. Spec => [](\A h \in DOMAIN handlers : Rank(handlers[h]) \in [1 .. 3 -> Nat])
  BY <1>1, ServerInvariance, BlockInvariance, PTL
<1>5. Spec => [][server' = server =>
                   \A h \in DOMAIN handlers :
                       \/ handlers'[h] \in {handlers[h], Detached(handlers[h])}
                       \/ <<Rank(handlers'[h]), Rank(handlers[h])>> \in Lower]_vars
  BY <1>3, ServerInvariance, BlockInvariance, PTL DEF Spec
<1> QED BY <1>4, <1>5, LowerWellFounded, PTL
-----------------------------------------------------------------------------
(***************************************************************************)
(* What a handler that goes may lose.  It leaves its loop with an empty    *)
(* channel, so that what the channel holds from then on are requests that  *)
(* came late; and the one request it refuses takes it out of               *)
(* peer_handlers, from where it is fed.                                    *)
(***************************************************************************)
Loss(x, lost, mapped) ==
    /\ x.phase = "serving" => lost = 0
    /\ x.phase # "serving" => Len(x.queue) <= lost
    /\ lost <= Len(x.queue) \/ (lost <= Len(x.queue) + 1 /\ ~mapped)

LossInv ==
    /\ \A h \in DOMAIN handlers : Loss(handlers[h], missed[h], peer_handlers[address[h]] = h)
    /\ \A h \in 1 .. MaxHandlers : h > Len(handlers) => missed[h] = 0

\* A step of the handler by itself loses nothing: it takes requests only while
\* it serves, and leaves its loop when there are none.
LEMMA StepLoss ==
    ASSUME NEW x \in Handlers, NEW y \in HandlerSteps(x), NEW lost \in Nat,
           NEW mapped, Loss(x, lost, mapped)
    PROVE  Loss(y, lost, mapped)
<1>0. y \in Handlers /\ x.queue \in Seq(Ports) /\ Len(x.queue) \in Nat /\ Len(y.queue) \in Nat
  BY StepFacts DEF Handlers
<1>1. CASE y \in Taken(x)
  <2>1. x.phase = "serving"
    BY <1>1, Zenon DEF Taken
  <2>2. y.phase = "serving"
    <3> DEFINE rest == [x EXCEPT !.queue = Tail(@)]
    <3>1. y = rest \/ \E p : y = [rest EXCEPT !.running = @ \cup {p}]
      BY <1>1, Zenon DEF Taken
    <3>2. rest \in [phase: {"serving"}, attached: BOOLEAN, queue: {Tail(x.queue)}, running: SUBSET Ports]
      BY <2>1 DEF Handlers
    <3> HIDE DEF rest
    <3>3. ASSUME NEW p, y = [rest EXCEPT !.running = @ \cup {p}] PROVE y.phase = "serving"
      BY <3>2, <3>3
    <3> QED BY <3>1, <3>2, <3>3
  <2> QED BY <1>0, <2>1, <2>2 DEF Loss
<1>2. CASE y \in Left(x)
  <2>1. x.phase = "serving" /\ x.queue = << >> /\ y.phase = "leaving" /\ y.queue = x.queue
    BY <1>2 DEF Left, Handlers
  <2> QED BY <1>0, <2>1 DEF Loss
<1>3. CASE y \in Closed(x) \cup Finished(x)
  <2>1. x.phase # "serving" /\ y.phase # "serving" /\ y.queue = x.queue
    BY <1>3 DEF Closed, Finished, Handlers
  <2> QED BY <1>0, <2>1 DEF Loss
<1>4. CASE y \in Ended(x)
  <2>1. y.phase = x.phase /\ y.queue = x.queue
    BY <1>4 DEF Ended, Handlers
  <2> QED BY <1>0, <2>1 DEF Loss
<1> QED BY <1>1, <1>2, <1>3, <1>4 DEF HandlerSteps

\* The address of a handler stays, and one that is not in peer_handlers does not
\* come back.
LEMMA NotMappedAgain ==
    ASSUME ServerInv, [Next]_vars, NEW h \in DOMAIN handlers
    PROVE  /\ address'[h] = address[h]
           /\ peer_handlers'[address[h]] = h => peer_handlers[address[h]] = h
<1> USE TypeFacts DEF ServerInv
<1>0. /\ h \in 1 .. Len(handlers) /\ address[h] \in Addresses
      /\ peer_handlers \in [Addresses -> 0 .. Len(handlers)] /\ TypeOK
  BY DEF TypeOK
<1>1. ASSUME UNCHANGED address,
             \/ UNCHANGED peer_handlers
             \/ \E a \in Addresses : peer_handlers' = [peer_handlers EXCEPT ![a] = 0]
      PROVE  /\ address'[h] = address[h]
             /\ peer_handlers'[address[h]] = h => peer_handlers[address[h]] = h
  BY <1>0, <1>1
<1>2. ASSUME NEW a \in Addresses, Create(a),
             peer_handlers' = [peer_handlers EXCEPT ![a] = Len(handlers) + 1]
      PROVE  /\ address'[h] = address[h]
             /\ peer_handlers'[address[h]] = h => peer_handlers[address[h]] = h
  <2>1. address'[h] = address[h]
    BY Zenon, <1>0, <1>2, CreateFacts
  <2> QED BY <1>0, <1>2, <2>1
<1>3. CASE Turn
  BY <1>0, <1>3 DEF Turn
<1>4. ASSUME NEW a \in Addresses, ConfigModified(a) \/ \E p \in Ports : Receive(a, p)
      PROVE  \/ UNCHANGED <<address, peer_handlers>>
             \/ Create(a) /\ peer_handlers' = [peer_handlers EXCEPT ![a] = Len(handlers) + 1]
  BY <1>4, Zenon DEF ConfigModified, Receive
<1>5. CASE FeedFails
  <2>1. pending[1] \in Addresses
    BY <1>0, <1>5 DEF FeedFails, ControlInv, TypeOK
  <2> QED BY <1>1, <1>5, <2>1 DEF FeedFails
<1>6. ASSUME NEW a \in Addresses, DropHandler(a)
      PROVE  UNCHANGED address /\ peer_handlers' = [peer_handlers EXCEPT ![a] = 0]
  BY <1>6 DEF DropHandler
<1>7. CASE SocketError \/ Interrupt \/ Feed \/ Joined \/ DropJoined \/ Dropped \/ UNCHANGED vars
  <2>1. UNCHANGED <<address, peer_handlers>>
    BY <1>7 DEF SocketError, Interrupt, Feed, Joined, DropJoined, Dropped, vars
  <2> QED BY <1>1, <2>1
<1>8. ASSUME NEW g \in DOMAIN handlers, HandlerStep(g) PROVE UNCHANGED <<address, peer_handlers>>
  BY <1>8 DEF HandlerStep
<1> QED BY <1>1, <1>2, <1>3, <1>4, <1>5, <1>6, <1>7, <1>8 DEF Next, Unblock

\* A request that is fed to a handler which has left its loop is counted.
LEMMA FeedLoss ==
    ASSUME ServerInv, LossInv, Feed
    PROVE  LossInv'
<1> USE TypeFacts DEF ServerInv
<1> DEFINE g == peer_handlers[pending[1]]
           longer == Append(handlers[g].queue, pending[2])
           x == [handlers[g] EXCEPT !.queue = longer]
<1>1. /\ pending \in Addresses \X Ports /\ pending[1] \in Addresses /\ pending[2] \in Ports
      /\ g \in 1 .. Len(handlers) /\ handlers[g] \in Handlers /\ address[g] = pending[1]
  BY DEF TypeOK, ControlInv, MapInv, Feed
<1>2. handlers' = [handlers EXCEPT ![g] = x] /\ UNCHANGED <<peer_handlers, address>>
  BY <1>1 DEF Feed
<1>3. missed' = IF handlers[g].phase = "serving" THEN missed ELSE [missed EXCEPT ![g] = @ + 1]
  BY DEF Feed, Miss
<1>4. longer \in Seq(Ports) /\ Len(longer) = Len(handlers[g].queue) + 1 /\ Len(handlers[g].queue) \in Nat
  BY <1>1, AppendProperties DEF Handlers
<1> HIDE DEF longer
<1>5. x \in Handlers /\ x.queue = longer /\ x.phase = handlers[g].phase
  BY Zenon, <1>1, <1>4 DEF Handlers
<1>6. handlers \in Seq(Handlers) /\ missed \in [1 .. MaxHandlers -> Nat] /\ g \in 1 .. MaxHandlers
  BY <1>1, ServerAssumption DEF TypeOK
<1>7. peer_handlers[address[g]] = g
  BY <1>1
<1> HIDE DEF x, g
<1>8. /\ Len(handlers') = Len(handlers) /\ DOMAIN handlers' = 1 .. Len(handlers) /\ handlers'[g] = x
      /\ \A j \in 1 .. Len(handlers) : j # g => handlers'[j] = handlers[j]
  BY <1>1, <1>2, <1>5, <1>6, UpdateFacts
<1>9. /\ missed[g] \in Nat /\ missed'[g] = IF handlers[g].phase = "serving" THEN missed[g] ELSE missed[g] + 1
      /\ \A j \in 1 .. MaxHandlers : j # g => missed'[j] = missed[j]
  BY <1>3, <1>6
<1>10. Loss(handlers[g], missed[g], TRUE)
  BY Zenon, <1>1, <1>7 DEF LossInv
<1>11. Loss(x, missed'[g], TRUE)
  BY <1>4, <1>5, <1>9, <1>10 DEF Loss
<1>12. \A j \in 1 .. Len(handlers) : j \in 1 .. MaxHandlers
  BY ServerAssumption DEF TypeOK
<1>13. ASSUME NEW j \in 1 .. Len(handlers)
       PROVE  Loss(handlers'[j], missed'[j], peer_handlers'[address'[j]] = j)
  <2>1. CASE j = g
    BY <1>2, <1>7, <1>8, <1>11, <2>1 DEF Loss
  <2>2. CASE j # g
    <3>1. handlers'[j] = handlers[j] /\ missed'[j] = missed[j]
      BY <1>8, <1>9, <1>12, <1>13, <2>2
    <3>2. Loss(handlers[j], missed[j], peer_handlers[address[j]] = j)
      BY Zenon, <1>13 DEF LossInv
    <3> QED BY <1>2, <3>1, <3>2 DEF Loss
  <2> QED BY <2>1, <2>2
<1>14. \A j \in 1 .. MaxHandlers : j > Len(handlers') => missed'[j] = 0
  BY <1>1, <1>8, <1>9 DEF LossInv
<1> QED BY <1>8, <1>13, <1>14 DEF LossInv

\* A request that is refused is counted, and the handler is removed.
LEMMA FeedFailsLoss ==
    ASSUME ServerInv, LossInv, FeedFails
    PROVE  LossInv'
<1> USE TypeFacts DEF ServerInv
<1> DEFINE g == peer_handlers[pending[1]]
           x == Detached(handlers[g])
<1>1. /\ pending \in Addresses \X Ports /\ pending[1] \in Addresses
      /\ g \in 1 .. Len(handlers) /\ handlers[g] \in Handlers /\ address[g] = pending[1]
  BY DEF TypeOK, ControlInv, MapInv, FeedFails
<1>2. /\ handlers' = [handlers EXCEPT ![g] = x] /\ address' = address
      /\ peer_handlers' = [peer_handlers EXCEPT ![pending[1]] = 0]
      /\ missed' = [missed EXCEPT ![g] = @ + 1]
  BY DEF FeedFails, Shutdown, Miss
<1>3. x \in Handlers /\ x.phase = handlers[g].phase /\ x.queue = handlers[g].queue
  BY <1>1, DetachedFacts
<1>4. /\ handlers \in Seq(Handlers) /\ missed \in [1 .. MaxHandlers -> Nat] /\ g \in 1 .. MaxHandlers
      /\ peer_handlers \in [Addresses -> 0 .. Len(handlers)]
  BY <1>1, ServerAssumption DEF TypeOK
<1>5. handlers[g].phase # "serving" /\ Len(handlers[g].queue) \in Nat
  BY <1>1 DEF FeedFails, IsOpen, Handlers
<1>6. peer_handlers[address[g]] = g /\ peer_handlers'[address[g]] = 0 /\ g # 0
  BY <1>1, <1>2, <1>4
<1> HIDE DEF x, g
<1>7. /\ Len(handlers') = Len(handlers) /\ DOMAIN handlers' = 1 .. Len(handlers) /\ handlers'[g] = x
      /\ \A j \in 1 .. Len(handlers) : j # g => handlers'[j] = handlers[j]
  BY <1>1, <1>2, <1>3, <1>4, UpdateFacts
<1>8. /\ missed[g] \in Nat /\ missed'[g] = missed[g] + 1
      /\ \A j \in 1 .. MaxHandlers : j # g => missed'[j] = missed[j]
  BY <1>2, <1>4
<1>9. Loss(handlers[g], missed[g], TRUE)
  BY Zenon, <1>1, <1>6 DEF LossInv
<1>10. Loss(x, missed'[g], FALSE)
  BY <1>3, <1>5, <1>8, <1>9 DEF Loss
<1>11. \A j \in 1 .. Len(handlers) : j \in 1 .. MaxHandlers
  BY ServerAssumption DEF TypeOK
<1>12. ASSUME NEW j \in 1 .. Len(handlers), j # g
       PROVE  Loss(handlers'[j], missed'[j], peer_handlers'[address'[j]] = j)
  <2>1. Loss(handlers[j], missed[j], peer_handlers[address[j]] = j)
    BY <1>12 DEF LossInv
  <2>2. handlers'[j] = handlers[j] /\ missed'[j] = missed[j] /\ address'[j] = address[j]
    BY <1>2, <1>7, <1>8, <1>11, <1>12
  <2>3. peer_handlers'[address[j]] = j => peer_handlers[address[j]] = j
    BY <1>1, <1>2, <1>4, <1>12
  <2> QED BY <2>1, <2>2, <2>3 DEF Loss
<1>13. Loss(handlers'[g], missed'[g], peer_handlers'[address'[g]] = g)
  BY <1>2, <1>6, <1>7, <1>10 DEF Loss
<1>14. \A j \in 1 .. MaxHandlers : j > Len(handlers') => missed'[j] = 0
  BY <1>1, <1>7, <1>8 DEF LossInv
<1> QED BY <1>7, <1>12, <1>13, <1>14 DEF LossInv

\* The other steps leave the count alone, and the channels but for what is taken.
LEMMA OtherLoss ==
    ASSUME ServerInv, LossInv, [Next]_vars, ~Feed, ~FeedFails
    PROVE  LossInv'
<1>0. ServerInv'
  BY NextInv
<1> USE TypeFacts DEF ServerInv
<1>1. missed' = missed /\ ~(server = "feed" /\ server' = "select")
  <2>1. ASSUME NEW a \in Addresses, ConfigModified(a) \/ (\E p \in Ports : Receive(a, p)) \/ DropHandler(a)
        PROVE  missed' = missed /\ server # "feed"
    BY <2>1 DEF ConfigModified, Receive, DropHandler
  <2>2. ASSUME NEW h \in DOMAIN handlers, HandlerStep(h) PROVE missed' = missed /\ server' = server
    BY <2>2 DEF HandlerStep
  <2>3. CASE Turn \/ SocketError \/ Interrupt \/ Joined \/ DropJoined \/ Dropped \/ UNCHANGED vars
    BY <2>3 DEF Turn, SocketError, Interrupt, Joined, DropJoined, Dropped, vars
  <2> QED BY <2>1, <2>2, <2>3 DEF Next, Unblock
<1>2. missed \in [1 .. MaxHandlers -> Nat] /\ Len(handlers) <= MaxHandlers /\ MaxHandlers \in Nat
  BY ServerAssumption DEF TypeOK
<1>3. ASSUME NEW h \in DOMAIN handlers
      PROVE  Loss(handlers'[h], missed'[h], peer_handlers'[address'[h]] = h)
  <2> DEFINE mapped == peer_handlers[address[h]] = h
  <2>0. handlers[h] \in Handlers /\ missed[h] \in Nat
    BY <1>2, <1>3
  <2>1. PICK x \in Handlers, lost \in Nat : x = handlers[h] /\ lost = missed[h]
    BY Zenon, <2>0
  <2>2. Loss(x, lost, mapped)
    BY Zenon, <1>3, <2>1 DEF LossInv
  <2> HIDE DEF mapped
  <2>3. handlers'[h] = x \/ handlers'[h] = Detached(x) \/ handlers'[h] \in HandlerSteps(x)
    BY <1>1, <1>3, <2>1, HandlersChange
  <2>4. Detached(x).phase = x.phase /\ Detached(x).queue = x.queue
    BY DetachedFacts
  <2>5. Loss(handlers'[h], lost, mapped)
    BY <2>2, <2>3, <2>4, StepLoss DEF Loss
  <2>6. address'[h] = address[h] /\ (peer_handlers'[address'[h]] = h => mapped)
    BY Zenon, <1>3, NotMappedAgain DEF mapped
  <2>7. missed'[h] = lost
    BY <1>1, <2>1
  <2> QED BY <2>5, <2>6, <2>7 DEF Loss
<1>4. ASSUME NEW h \in DOMAIN handlers', h \notin DOMAIN handlers
      PROVE  Loss(handlers'[h], missed'[h], peer_handlers'[address'[h]] = h)
  <2>1. handlers'[h] = NewHandler /\ h > Len(handlers)
    BY <1>4, HandlersChange
  <2>2. h \in 1 .. MaxHandlers
    <3>1. Len(handlers') <= MaxHandlers
      BY <1>0 DEF TypeOK
    <3> QED BY <1>2, <1>4, <3>1, HandlersChange
  <2>3. missed'[h] = 0
    BY <1>1, <2>1, <2>2 DEF LossInv
  <2> QED BY <2>1, <2>3, NewHandlerFacts DEF Loss
<1>5. ASSUME NEW h \in 1 .. MaxHandlers, h > Len(handlers') PROVE missed'[h] = 0
  BY <1>1, <1>5, HandlersChange DEF LossInv
<1> QED BY <1>3, <1>4, <1>5 DEF LossInv

\* A request is lost only when it comes after its handler has left the loop, and
\* a handler that has gone costs its peer no more than its channel holds and one.
THEOREM OnlyLateLossHolds == Spec => []OnlyLateLoss
<1>1. Init => LossInv
  BY DEF Init, LossInv
<1>2. ServerInv /\ LossInv /\ [Next]_vars => LossInv'
  BY FeedLoss, FeedFailsLoss, OtherLoss
<1>3. ServerInv /\ LossInv => OnlyLateLoss
  <2> SUFFICES ASSUME ServerInv, LossInv, NEW h \in DOMAIN handlers, handlers[h].phase # "serving"
               PROVE  Len(handlers[h].queue) <= missed[h] /\ missed[h] <= CHANNEL_SIZE + 1
    BY DEF OnlyLateLoss
  <2>1. /\ Len(handlers[h].queue) \in Nat /\ Len(handlers[h].queue) <= CHANNEL_SIZE
        /\ CHANNEL_SIZE \in Nat /\ missed[h] \in Nat
    BY ServerAssumption, TypeFacts DEF ServerInv, TypeOK, Handlers
  <2> QED BY <2>1 DEF LossInv, Loss
<1> QED BY <1>1, <1>2, <1>3, ServerInvariance, PTL DEF Spec
=============================================================================
