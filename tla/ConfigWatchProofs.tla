------------------------- MODULE ConfigWatchProofs -------------------------
(***************************************************************************)
(* Theorems about ConfigWatch, for all files and addresses, however the    *)
(* names of the ones relate to the others, every limit of the kernel's     *)
(* queue and every number of writes, handlers and requests.                *)
(*                                                                         *)
(* Every step of ConfigWatch is a step of Server or leaves its variables   *)
(* alone, so that what ServerProofs shows of the server also holds with    *)
(* its events delivered by the kernel and read_loop.                       *)
(***************************************************************************)
EXTENDS ConfigWatch, ServerProofs

\* No file has changed more often than writes have begun.
DiskInv == \A f \in Files : content[f] <= 2 * writes

\* The kernel says that it lost events when its queue is longer than its limit,
\* and says so only when it did.
KernelInv ==
    /\ Len(kernel) > KernelLimit => Overflow \in ToSet(kernel)
    /\ \A event \in ToSet(kernel) \cup ToSet(queue) : event.mask = "IN_Q_OVERFLOW" => lost

\* A handler that has not been created has seen nothing.
SeenInv ==
    \A h \in 1 .. MaxHandlers : h > Len(handlers) => \A f \in Files : seen[h][f] = Unread

WatchInv ==
    /\ ServerInv /\ WatchTypeOK
    /\ DiskInv /\ KernelInv /\ SeenInv
    /\ NoSleepingEvent /\ StaleIsAnnounced
-----------------------------------------------------------------------------
(***************************************************************************)
(* The server's part of every step.                                        *)
(***************************************************************************)

\* Every step is a step of the server, of one of its handlers, or of neither.
LEMMA WatchStepIsServerStep ==
    ASSUME [WatchNext]_allvars
    PROVE  [Next]_vars
<1>1. ASSUME NEW f \in Files, OpenWrite(f) \/ CloseWrite(f) \/ MoveTo(f) \/ Unlink(f)
      PROVE  UNCHANGED vars
  BY <1>1 DEF OpenWrite, CloseWrite, MoveTo, Unlink
<1>2. ASSUME NEW h \in DOMAIN handlers, List(h) \/ ReadFile(h) \/ ScannedStep(h)
      PROVE  [Next]_vars
  BY <1>2 DEF List, ReadFile, ScannedStep, Next
<1>3. ASSUME TakeEvent PROVE [Next]_vars
  BY <1>3 DEF TakeEvent, Recognised, Next
<1>4. ASSUME ServerStep PROVE Next
  BY <1>4 DEF ServerStep, Next
<1>5. ASSUME read_loop \/ Poll \/ UNCHANGED allvars PROVE UNCHANGED vars
  BY <1>5 DEF read_loop, Poll, allvars
<1> QED BY <1>1, <1>2, <1>3, <1>4, <1>5 DEF WatchNext

\* The handlers a step of the server leaves in use are those that were, or the
\* one it creates, with the next number.
LEMMA InUseFacts ==
    ASSUME ServerInv, [Next]_vars
    PROVE  /\ Len(handlers') \in {Len(handlers), Len(handlers) + 1}
           /\ \A a \in Addresses :
                  \/ peer_handlers'[a] \in {peer_handlers[a], 0}
                  \/ peer_handlers'[a] = Len(handlers) + 1 /\ Len(handlers') = Len(handlers) + 1
<1> USE TypeFacts DEF ServerInv
<1> DEFINE Kept == /\ Len(handlers') = Len(handlers)
                   /\ \A a \in Addresses : peer_handlers'[a] \in {peer_handlers[a], 0}
<1>1. ASSUME NEW a \in Addresses, Create(a),
             peer_handlers' = [peer_handlers EXCEPT ![a] = Len(handlers) + 1],
             Len(handlers') = Len(handlers) + 1
      PROVE  \A b \in Addresses : \/ peer_handlers'[b] = peer_handlers[b]
                                  \/ peer_handlers'[b] = Len(handlers) + 1
  BY <1>1 DEF TypeOK
<1>2. ASSUME NEW a \in Addresses, Create(a) PROVE Len(Append(handlers, NewHandler)) = Len(handlers) + 1
  BY <1>2, CreateFacts
<1>3. ASSUME NEW h \in 1 .. Len(handlers), NEW x, handlers' = [handlers EXCEPT ![h] = x]
      PROVE  Len(handlers') = Len(handlers)
  BY <1>3 DEF TypeOK
<1>4. ASSUME NEW a \in Addresses, ConfigModified(a) PROVE Len(handlers') = Len(handlers) + 1
  <2>1. Create(a) /\ Append(handlers, NewHandler) \in Seq(Handlers)
    BY Zenon, <1>4, CreateFacts DEF ConfigModified
  <2>2. \/ handlers' = Append(handlers, NewHandler)
        \/ handlers' = [Append(handlers, NewHandler) EXCEPT ![peer_handlers[a]] = Detached(@)]
    BY <1>4 DEF ConfigModified, Shutdown
  <2> QED BY <1>2, <2>1, <2>2
<1>5. ASSUME NEW a \in Addresses, peer_handlers' = [peer_handlers EXCEPT ![a] = 0]
      PROVE  \A b \in Addresses : peer_handlers'[b] \in {peer_handlers[b], 0}
  BY <1>5 DEF TypeOK
<1>6. CASE Turn
  BY <1>6 DEF Turn
<1>7. ASSUME NEW a \in Addresses, ConfigModified(a)
      PROVE  \A b \in Addresses : \/ peer_handlers'[b] = peer_handlers[b]
                                  \/ peer_handlers'[b] = Len(handlers) + 1
  BY <1>1, <1>4, <1>7 DEF ConfigModified
<1>8. ASSUME NEW a \in Addresses, NEW p \in Ports, Receive(a, p), peer_handlers[a] = 0
      PROVE  /\ Len(handlers') = Len(handlers) + 1
             /\ \A b \in Addresses : \/ peer_handlers'[b] = peer_handlers[b]
                                     \/ peer_handlers'[b] = Len(handlers) + 1
  BY <1>1, <1>2, <1>8 DEF Receive
<1>9. ASSUME NEW a \in Addresses, NEW p \in Ports, Receive(a, p), peer_handlers[a] # 0 PROVE Kept
  BY <1>9 DEF Receive
<1>10. CASE SocketError \/ Interrupt \/ Joined \/ DropJoined \/ Dropped \/ UNCHANGED vars
  BY SMTT(30), <1>10 DEF SocketError, Interrupt, Joined, DropJoined, Dropped, vars
<1>11. ASSUME Feed PROVE Kept
  <2>1. pending[1] \in Addresses /\ peer_handlers[pending[1]] \in 1 .. Len(handlers)
    BY <1>11 DEF Feed, ControlInv, TypeOK
  <2> QED BY SMTT(30), <1>3, <1>11, <2>1 DEF Feed
<1>12. ASSUME FeedFails PROVE Kept
  <2>1. pending[1] \in Addresses /\ peer_handlers[pending[1]] \in 1 .. Len(handlers)
    BY <1>12 DEF FeedFails, ControlInv, TypeOK
  <2> QED BY SMTT(30), <1>3, <1>5, <1>12, <2>1 DEF FeedFails, Shutdown
<1>13. ASSUME NEW a \in Addresses, DropHandler(a) PROVE Kept
  BY <1>3, <1>5, <1>13 DEF DropHandler, Shutdown
<1>14. ASSUME NEW h \in DOMAIN handlers, HandlerStep(h) PROVE Kept
  BY <1>3, <1>14 DEF HandlerStep
<1> QED BY <1>4, <1>6, <1>7, <1>8, <1>9, <1>10, <1>11, <1>12, <1>13, <1>14 DEF Next, Unblock
-----------------------------------------------------------------------------
(***************************************************************************)
(* Queues of events.                                                       *)
(***************************************************************************)

\* An event added at the end.
LEMMA AppendedFacts ==
    ASSUME NEW s \in Seq(Events), NEW event \in Events
    PROVE  /\ Append(s, event) \in Seq(Events) /\ Len(Append(s, event)) = Len(s) + 1
           /\ ToSet(Append(s, event)) = ToSet(s) \cup {event}
<1>1. /\ Append(s, event) \in Seq(Events) /\ Len(Append(s, event)) = Len(s) + 1
      /\ \A i \in 1 .. Len(s) : Append(s, event)[i] = s[i]
      /\ Append(s, event)[Len(s) + 1] = event
  BY AppendProperties
<1>2. \A i \in 1 .. Len(s) + 1 : i \in 1 .. Len(s) \/ i = Len(s) + 1
  OBVIOUS
<1>3. \A i \in 1 .. Len(s) : i \in 1 .. Len(s) + 1
  OBVIOUS
<1>4. Len(s) + 1 \in 1 .. Len(s) + 1 /\ DOMAIN s = 1 .. Len(s)
  OBVIOUS
<1>5. DOMAIN Append(s, event) = 1 .. Len(s) + 1
  BY <1>1
<1> HIDE DEF Events
<1>6. ASSUME NEW e PROVE e \in ToSet(Append(s, event)) <=> e \in ToSet(s) \cup {event}
  BY <1>1, <1>2, <1>3, <1>4, <1>5 DEF ToSet
<1> QED BY <1>1, <1>6

\* The first n events moved from one queue to the end of another.
LEMMA MovedFacts ==
    ASSUME NEW s \in Seq(Events), NEW t \in Seq(Events), NEW n \in 1 .. Len(s)
    PROVE  LET s1 == SubSeq(s, n + 1, Len(s))
               t1 == t \o SubSeq(s, 1, n)
           IN  /\ s1 \in Seq(Events) /\ t1 \in Seq(Events)
               /\ Len(s1) = Len(s) - n /\ Len(t1) = Len(t) + n
               /\ ToSet(s1) \cup ToSet(t1) = ToSet(s) \cup ToSet(t)
<1> DEFINE s1 == SubSeq(s, n + 1, Len(s))
           t1 == t \o SubSeq(s, 1, n)
<1> DEFINE f == SubSeq(s, 1, n)
<1>1. /\ f \in Seq(Events) /\ Len(f) = n /\ \A i \in 1 .. n : f[i] = s[i]
  <2>1. \A i \in 1 .. n : i \in 1 .. Len(s) /\ 1 + i - 1 = i
    OBVIOUS
  <2> QED BY <2>1, SubSeqProperties
<1>2. /\ s1 \in Seq(Events) /\ Len(s1) = Len(s) - n
      /\ \A i \in 1 .. Len(s) - n : s1[i] = s[n + i]
  <2>1. CASE n < Len(s)
    BY <2>1, SubSeqProperties
  <2>2. CASE n = Len(s)
    BY <2>2, SubSeqProperties
  <2> QED BY <2>1, <2>2
<1> HIDE DEF f
<1>3. t1 = t \o f
  BY DEF f
<1> HIDE DEF s1, t1
<1>4. /\ t1 \in Seq(Events) /\ Len(t1) = Len(t) + n
      /\ \A i \in 1 .. Len(t) : t1[i] = t[i]
      /\ \A i \in 1 .. n : t1[Len(t) + i] = f[i]
  <2>1. /\ t \o f \in Seq(Events) /\ Len(t \o f) = Len(t) + Len(f)
        /\ \A i \in 1 .. Len(t) : (t \o f)[i] = t[i]
        /\ \A i \in 1 .. Len(f) : (t \o f)[Len(t) + i] = f[i]
    <3>1. /\ t \o f \in Seq(Events) /\ Len(t \o f) = Len(t) + Len(f)
          /\ \A i \in 1 .. Len(t) + Len(f) :
                 (t \o f)[i] = IF i <= Len(t) THEN t[i] ELSE f[i - Len(t)]
      BY ONLY <1>1, t \in Seq(Events), ConcatProperties, ZenonT(60)
    <3>2. Len(t) \in Nat /\ Len(f) \in Nat
      BY <1>1
    <3>3. ASSUME NEW i \in 1 .. Len(f)
          PROVE  /\ Len(t) + i \in 1 .. Len(t) + Len(f) /\ ~(Len(t) + i <= Len(t))
                 /\ Len(t) + i - Len(t) = i
      BY ONLY <3>2, i \in 1 .. Len(f)
    <3>4. \A i \in 1 .. Len(t) : i \in 1 .. Len(t) + Len(f) /\ i <= Len(t)
      BY ONLY <3>2
    <3> QED BY ONLY <3>1, <3>3, <3>4
  <2> QED BY <1>1, <1>3, <2>1
<1> DEFINE N == Len(s)
           M == Len(t)
<1>5. /\ N \in Nat /\ M \in Nat /\ DOMAIN s = 1 .. N /\ DOMAIN t = 1 .. M
      /\ DOMAIN s1 = 1 .. N - n /\ DOMAIN t1 = 1 .. M + n /\ n \in 1 .. N
  BY <1>2, <1>4
<1>6. /\ \A i \in 1 .. N - n : s1[i] = s[n + i]
      /\ \A i \in 1 .. M : t1[i] = t[i]
      /\ \A i \in 1 .. n : t1[M + i] = s[i]
  BY <1>1, <1>2, <1>4
<1> HIDE DEF N, M
<1>7. ASSUME NEW e PROVE e \in ToSet(s1) \cup ToSet(t1) <=> e \in ToSet(s) \cup ToSet(t)
  <2>1. ASSUME NEW i \in 1 .. N - n, e = s1[i] PROVE e \in ToSet(s)
    <3>1. n + i \in 1 .. N
      BY <1>5
    <3> QED BY Zenon, <1>5, <1>6, <2>1, <3>1 DEF ToSet
  <2>2. ASSUME NEW i \in 1 .. M + n, e = t1[i] PROVE e \in ToSet(s) \cup ToSet(t)
    <3>1. CASE i \in 1 .. M
      BY Zenon, <1>5, <1>6, <2>2, <3>1 DEF ToSet
    <3>2. CASE i \notin 1 .. M
      <4>1. i - M \in 1 .. n /\ i - M \in 1 .. N /\ M + (i - M) = i
        BY <1>5, <3>2
      <4>2. e = s[i - M]
        BY <1>6, <2>2, <4>1
      <4> QED BY <1>5, <4>1, <4>2 DEF ToSet
    <3> QED BY <3>1, <3>2
  <2>3. ASSUME NEW i \in 1 .. N, e = s[i] PROVE e \in ToSet(s1) \cup ToSet(t1)
    <3>1. CASE i <= n
      <4>1. i \in 1 .. n /\ M + i \in 1 .. M + n
        BY <1>5, <3>1
      <4> QED BY <1>5, <1>6, <2>3, <4>1 DEF ToSet
    <3>2. CASE i > n
      <4>1. i - n \in 1 .. N - n /\ n + (i - n) = i
        BY <1>5, <3>2
      <4>2. e = s1[i - n]
        BY <1>6, <2>3, <4>1
      <4> QED BY <1>5, <4>1, <4>2 DEF ToSet
    <3> QED BY <1>5, <3>1, <3>2
  <2>4. ASSUME NEW i \in 1 .. M, e = t[i] PROVE e \in ToSet(t1)
    <3>1. i \in 1 .. M + n
      BY <1>5
    <3> QED BY <1>5, <1>6, <2>4, <3>1 DEF ToSet
  <2> QED BY <1>5, <2>1, <2>2, <2>3, <2>4 DEF ToSet
<1> QED BY <1>2, <1>4, <1>7 DEF s1, t1

\* The first event taken from a queue.
LEMMA TakenFacts ==
    ASSUME NEW s \in Seq(Events), s # << >>
    PROVE  /\ Head(s) \in Events /\ Head(s) \in ToSet(s)
           /\ Tail(s) \in Seq(Events) /\ Len(Tail(s)) = Len(s) - 1
           /\ ToSet(s) = ToSet(Tail(s)) \cup {Head(s)}
<1>1. /\ Head(s) \in Events /\ Head(s) = s[1]
      /\ Tail(s) \in Seq(Events) /\ Len(Tail(s)) = Len(s) - 1
      /\ \A i \in 1 .. Len(s) - 1 : Tail(s)[i] = s[i + 1]
  BY HeadTailProperties
<1> DEFINE N == Len(s)
           t == Tail(s)
<1>2. /\ N \in Nat \ {0} /\ DOMAIN s = 1 .. N /\ DOMAIN t = 1 .. N - 1
      /\ \A i \in 1 .. N - 1 : t[i] = s[i + 1]
  BY <1>1
<1> HIDE DEF N, t
<1>3. ASSUME NEW e PROVE e \in ToSet(s) <=> e \in ToSet(t) \/ e = s[1]
  <2>1. ASSUME NEW i \in 1 .. N - 1, e = t[i] PROVE e \in ToSet(s)
    <3>1. i + 1 \in 1 .. N
      BY <1>2
    <3> QED BY <1>2, <2>1, <3>1 DEF ToSet
  <2>2. ASSUME NEW i \in 1 .. N, e = s[i], i # 1 PROVE e \in ToSet(t)
    <3>1. i - 1 \in 1 .. N - 1 /\ (i - 1) + 1 = i
      BY <1>2, <2>2
    <3>2. e = t[i - 1]
      BY <1>2, <2>2, <3>1
    <3> QED BY <1>2, <3>1, <3>2 DEF ToSet
  <2>3. 1 \in 1 .. N
    BY <1>2
  <2> QED BY <1>2, <2>1, <2>2, <2>3 DEF ToSet
<1>4. s[1] \in ToSet(s)
  BY <1>3
<1> QED BY <1>1, <1>3, <1>4 DEF t
-----------------------------------------------------------------------------
(***************************************************************************)
(* The inductive invariant.                                                *)
(***************************************************************************)

\* The kernel is told of a change: an event for the file is queued, or the
\* kernel has lost events.
LEMMA AnnounceFacts ==
    ASSUME WatchInv, NEW f \in Files, NEW mask \in {"IN_CLOSE_WRITE", "IN_MOVED_TO"},
           Announce(f, mask)
    PROVE  /\ kernel' \in Seq(Events) /\ Len(kernel') <= KernelLimit + 1
           /\ changes' = changes + 1 /\ Len(kernel') + Len(queue') <= changes'
           /\ ToSet(kernel) \subseteq ToSet(kernel')
           /\ lost' \/ [name |-> f, mask |-> mask] \in ToSet(kernel')
           /\ lost' \in BOOLEAN /\ (lost => lost')
           /\ KernelInv'
           /\ UNCHANGED <<queue, waker, asleep>>
<1> DEFINE event == [name |-> f, mask |-> mask]
           full == Len(kernel) >= KernelLimit
           merged == kernel # << >> /\ Last(kernel) = event /\ mask = "IN_CLOSE_WRITE"
           added == IF full THEN Overflow ELSE event
<1>1. /\ lost' = (lost \/ full) /\ changes' = changes + 1
      /\ UNCHANGED <<queue, waker, asleep>>
      /\ \/ kernel' = kernel /\ full /\ Overflow \in ToSet(kernel)
         \/ kernel' = kernel /\ ~full /\ merged
         \/ kernel' = Append(kernel, added) /\ (full => Overflow \notin ToSet(kernel))
  BY DEF Announce
<1>2. /\ kernel \in Seq(Events) /\ queue \in Seq(Events) /\ changes \in Nat /\ lost \in BOOLEAN
      /\ Len(kernel) <= KernelLimit + 1 /\ Len(kernel) + Len(queue) <= changes
      /\ KernelLimit \in Nat /\ KernelInv
  BY ConfigWatchAssumption DEF WatchInv, WatchTypeOK
<1>3. Overflow \in Events /\ event \in Events /\ added \in Events
  BY DEF Overflow, Events, Masks
<1>4. CASE kernel' = kernel
  <2>1. lost' \/ event \in ToSet(kernel)
    <3>1. CASE merged
      <4>1. event = kernel[Len(kernel)] /\ Len(kernel) \in DOMAIN kernel
        BY <1>2, <3>1 DEF Last
      <4> QED BY <4>1 DEF ToSet
    <3>2. CASE full
      BY ZenonT(40), <1>1, <3>2
    <3>3. merged \/ full
      <4>1. CASE kernel' = Append(kernel, added)
        BY <1>2, <1>3, <1>4, <4>1, AppendedFacts
      <4> QED BY <1>1, <4>1
    <3> QED BY <3>1, <3>2, <3>3
  <2>2. Len(kernel) + Len(queue) <= changes + 1
    BY <1>2
  <2> QED BY <1>1, <1>2, <1>4, <2>1, <2>2 DEF KernelInv
<1>5. CASE kernel' = Append(kernel, added) /\ (full => Overflow \notin ToSet(kernel))
  <2>1. /\ kernel' \in Seq(Events) /\ Len(kernel') = Len(kernel) + 1
        /\ ToSet(kernel') = ToSet(kernel) \cup {added}
    BY <1>2, <1>3, <1>5, AppendedFacts
  <2> HIDE DEF added
  <2>2. Len(kernel) <= KernelLimit
    BY <1>2, <1>5 DEF KernelInv
  <2>3. lost' \/ event \in ToSet(kernel')
    BY Zenon, <1>1, <2>1 DEF added
  <2>4. KernelInv'
    <3>1. Len(kernel') > KernelLimit => Overflow \in ToSet(kernel')
      BY <1>2, <2>1 DEF added
    <3>2. added.mask = "IN_Q_OVERFLOW" => lost'
      BY Zenon, <1>1 DEF added
    <3> QED BY <1>1, <1>2, <2>1, <3>1, <3>2 DEF KernelInv
  <2> QED BY SMTT(30), <1>1, <1>2, <2>1, <2>2, <2>3, <2>4
<1> QED BY <1>1, <1>4, <1>5

\* A step of the writer changes one file.
LEMMA WriterStepInv ==
    ASSUME WatchInv, NEW f \in Files, OpenWrite(f) \/ CloseWrite(f) \/ MoveTo(f) \/ Unlink(f)
    PROVE  WatchInv'
<1>1. /\ content \in [Files -> 0 .. 2 * MaxWrites] /\ MaxWrites \in Nat
      /\ writes \in 0 .. MaxWrites /\ content[f] \in 0 .. 2 * MaxWrites
      /\ content[f] <= 2 * writes /\ UNCHANGED vars /\ UNCHANGED scan
  BY ConfigWatchAssumption
     DEF WatchInv, WatchTypeOK, DiskInv, OpenWrite, CloseWrite, MoveTo, Unlink
<1>2. ServerInv'
  BY <1>1, NextInv DEF WatchInv
<1>3. PICK k \in {1, 2} : content' = [content EXCEPT ![f] = content[f] + k]
  BY DEF OpenWrite, CloseWrite, MoveTo, Unlink, Begin
<1>4. writes' \in 0 .. MaxWrites /\ writes <= writes' /\ content[f] + k <= 2 * writes'
  <2>1. CASE OpenWrite(f) \/ MoveTo(f) \/ Unlink(f)
    <3>1. writes < MaxWrites /\ writes' = writes + 1
      BY <2>1 DEF OpenWrite, MoveTo, Unlink, Begin
    <3> QED BY <1>1, <3>1
  <2>2. CASE CloseWrite(f)
    <3>1. content[f] % 2 # 0 /\ content' = [content EXCEPT ![f] = content[f] + 1] /\ writes' = writes
      BY <2>2 DEF CloseWrite, Written
    <3>2. k = 1
      BY <1>1, <1>3, <3>1
    <3> QED BY <1>1, <3>1, <3>2
  <2> QED BY <2>1, <2>2
<1>5. /\ content' \in [Files -> 0 .. 2 * MaxWrites] /\ DiskInv'
      /\ \A a \in Files : a # f => content'[a] = content[a]
  BY <1>1, <1>3, <1>4 DEF WatchInv, DiskInv
<1>6. SeenInv' /\ present' \subseteq Files /\ present' \subseteq present \cup {f}
  <2>1. present' \in {present, present \cup {f}, present \ {f}}
    BY DEF OpenWrite, CloseWrite, MoveTo, Unlink, Begin
  <2> QED BY <1>1, <2>1 DEF WatchInv, WatchTypeOK, SeenInv, vars, scan
<1>7. /\ kernel' \in Seq(Events) /\ Len(kernel') <= KernelLimit + 1
      /\ changes' \in Nat /\ Len(kernel') + Len(queue') <= changes'
      /\ ToSet(kernel) \subseteq ToSet(kernel')
      /\ lost' \in BOOLEAN /\ (lost => lost')
      /\ KernelInv' /\ UNCHANGED <<queue, waker, asleep>>
  <2>1. CASE OpenWrite(f) \/ Unlink(f)
    BY <2>1 DEF OpenWrite, Unlink, watch, WatchInv, WatchTypeOK, KernelInv
  <2>2. ASSUME NEW mask \in {"IN_CLOSE_WRITE", "IN_MOVED_TO"}, Announce(f, mask)
        PROVE  /\ kernel' \in Seq(Events) /\ Len(kernel') <= KernelLimit + 1
               /\ changes' = changes + 1 /\ Len(kernel') + Len(queue') <= changes'
               /\ ToSet(kernel) \subseteq ToSet(kernel')
               /\ lost' \in BOOLEAN /\ (lost => lost')
               /\ KernelInv' /\ UNCHANGED <<queue, waker, asleep>>
    BY Zenon, <2>2, AnnounceFacts
  <2>3. CASE CloseWrite(f) \/ MoveTo(f)
    <3>1. PICK mask \in {"IN_CLOSE_WRITE", "IN_MOVED_TO"} : Announce(f, mask)
      BY <2>3 DEF CloseWrite, MoveTo
    <3>2. changes \in Nat
      BY DEF WatchInv, WatchTypeOK
    <3> QED BY <2>2, <3>1, <3>2
  <2> QED BY <2>1, <2>3
<1>8. f \notin present' \/ ~Written(f)' \/ lost' \/ \E event \in ToSet(kernel') : event.name = f
  <2>1. CASE OpenWrite(f)
    BY <1>1, <2>1 DEF OpenWrite, Begin, Written
  <2>2. ASSUME NEW mask \in {"IN_CLOSE_WRITE", "IN_MOVED_TO"}, Announce(f, mask)
        PROVE  lost' \/ [name |-> f, mask |-> mask] \in ToSet(kernel')
    BY Zenon, <2>2, AnnounceFacts
  <2>3. CASE CloseWrite(f) \/ MoveTo(f)
    <3>1. PICK mask \in {"IN_CLOSE_WRITE", "IN_MOVED_TO"} : Announce(f, mask)
      BY <2>3 DEF CloseWrite, MoveTo
    <3> QED BY <2>2, <3>1
  <2>4. CASE Unlink(f)
    BY <2>4 DEF Unlink, Begin
  <2> QED BY <2>1, <2>3, <2>4
<1>9. WatchTypeOK'
  BY ZenonT(40), <1>1, <1>2, <1>4, <1>5, <1>6, <1>7 DEF WatchInv, WatchTypeOK, ServerInv, scan, vars
<1>10. StaleIsAnnounced'
  <2> SUFFICES ASSUME NEW g \in Recognised \cap present', peer_handlers[Stems[g]] # 0,
                      seen[peer_handlers[Stems[g]]][g] \notin {Unread, content'[g]}
               PROVE  ~Written(g)' \/ Announced(g)' \/ lost'
    BY <1>1 DEF StaleIsAnnounced, Recognised, vars, scan
  <2>1. CASE g = f
    BY <1>8, <2>1 DEF Announced
  <2>2. CASE g # f
    <3>1. content'[g] = content[g] /\ g \in present
      BY SMTT(30), <1>5, <1>6, <2>2 DEF Recognised
    <3>2. ~Written(g) \/ Announced(g) \/ lost
      BY <3>1 DEF WatchInv, StaleIsAnnounced
    <3> QED BY <1>7, <3>1, <3>2 DEF Written, Announced
  <2> QED BY SMTT(30), <2>1, <2>2
<1> QED BY SMTT(30), <1>2, <1>5, <1>6, <1>7, <1>9, <1>10 DEF WatchInv, NoSleepingEvent

\* read_loop moves events and wakes a server that sleeps.
LEMMA ReadLoopInv ==
    ASSUME WatchInv, read_loop
    PROVE  WatchInv'
<1> USE DEF WatchInv
<1>1. PICK n \in 1 .. Len(kernel) : /\ push(parse_events(n))
                                    /\ kernel' = SubSeq(kernel, n + 1, Len(kernel))
  BY DEF read_loop
<1>2. queue' = queue \o SubSeq(kernel, 1, n) /\ waker' = FALSE /\ asleep' = (asleep /\ ~waker)
  BY <1>1 DEF push, parse_events
<1>3. /\ kernel \in Seq(Events) /\ queue \in Seq(Events) /\ asleep \in BOOLEAN /\ waker \in BOOLEAN
      /\ Len(kernel) <= KernelLimit + 1 /\ Len(kernel) + Len(queue) <= changes
      /\ changes \in Nat /\ KernelLimit \in Nat
  BY ConfigWatchAssumption DEF WatchTypeOK
<1>4. /\ kernel' \in Seq(Events) /\ queue' \in Seq(Events)
      /\ Len(kernel') = Len(kernel) - n /\ Len(queue') = Len(queue) + n
      /\ ToSet(kernel') \cup ToSet(queue') = ToSet(kernel) \cup ToSet(queue)
  BY ONLY <1>1, <1>2, <1>3, MovedFacts, ZenonT(60)
<1>5. UNCHANGED vars /\ UNCHANGED disk /\ UNCHANGED <<lost, scan>>
  BY DEF read_loop
<1>6. ServerInv'
  BY <1>5, NextInv
<1>7. Len(kernel') <= KernelLimit /\ Len(kernel') + Len(queue') <= changes
  BY <1>3, <1>4
<1>8. WatchTypeOK'
  <2>1. waker' \in BOOLEAN /\ asleep' \in BOOLEAN
    BY <1>2, <1>3, ZenonT(40)
  <2>2. Len(kernel') <= KernelLimit + 1
    BY SMTT(30), <1>3, <1>4
  <2> QED BY <1>4, <1>5, <1>6, <1>7, <2>1, <2>2 DEF WatchTypeOK, ServerInv, disk, scan, vars
<1>9. DiskInv' /\ SeenInv'
  BY <1>5 DEF DiskInv, SeenInv, disk, scan, vars
<1>10. KernelInv'
  <2>1. ~(Len(kernel') > KernelLimit)
    BY <1>3, <1>4
  <2> QED BY <1>4, <1>5, <2>1 DEF KernelInv
<1>11. NoSleepingEvent'
  BY <1>2, <1>3, ZenonT(40) DEF NoSleepingEvent
<1>12. StaleIsAnnounced'
  <2>1. \A f : Announced(f)' = Announced(f)
    BY <1>4 DEF Announced
  <2> QED BY <1>5, <2>1 DEF StaleIsAnnounced, Recognised, Written, vars, disk, scan
<1> QED BY <1>6, <1>8, <1>9, <1>10, <1>11, <1>12

\* The server falls asleep with the queue empty.
LEMMA PollInv ==
    ASSUME WatchInv, Poll
    PROVE  WatchInv'
<1>1. /\ queue = << >> /\ waker' = TRUE /\ asleep' = TRUE
      /\ UNCHANGED vars /\ UNCHANGED disk /\ UNCHANGED <<kernel, lost, queue, scan>>
  BY DEF Poll
<1>2. ServerInv'
  BY <1>1, NextInv DEF WatchInv
<1>3. WatchTypeOK' /\ DiskInv' /\ KernelInv' /\ SeenInv'
  BY <1>1, <1>2 DEF WatchInv, WatchTypeOK, DiskInv, KernelInv, SeenInv, ServerInv, disk, scan, vars
<1>4. NoSleepingEvent'
  BY ZenonT(40), <1>1 DEF NoSleepingEvent
<1>5. StaleIsAnnounced'
  BY ZenonT(40), <1>1 DEF WatchInv, StaleIsAnnounced, Recognised, Announced, Written, disk, scan, vars
<1> QED BY <1>2, <1>3, <1>4, <1>5 DEF WatchInv

\* The handlers in use after a step of the server: one that is new has seen
\* nothing, so that only one that was in use may be stale.
LEMMA StaleWasInUse ==
    ASSUME WatchInv, [Next]_vars, ServerInv', UNCHANGED scan
    PROVE  /\ SeenInv' /\ listed' \subseteq DOMAIN handlers'
           /\ \A a \in Addresses, f \in Files :
                  peer_handlers'[a] # 0 /\ seen'[peer_handlers'[a]][f] # Unread
                      => peer_handlers'[a] = peer_handlers[a]
<1>1. /\ Len(handlers') \in {Len(handlers), Len(handlers) + 1}
      /\ \A a \in Addresses :
             \/ peer_handlers'[a] \in {peer_handlers[a], 0}
             \/ peer_handlers'[a] = Len(handlers) + 1 /\ Len(handlers') = Len(handlers) + 1
  BY InUseFacts DEF WatchInv
<1>2. Len(handlers) \in Nat /\ Len(handlers') \in Nat /\ Len(handlers') <= MaxHandlers
  BY DEF WatchInv, ServerInv, TypeOK
<1>3. SeenInv /\ seen' = seen /\ listed' = listed
  BY DEF WatchInv, scan
<1>4. \A h \in 1 .. MaxHandlers : h > Len(handlers') => h > Len(handlers)
  BY <1>1, <1>2, ServerAssumption
<1>5. SeenInv'
  BY <1>3, <1>4 DEF SeenInv
<1>6. listed' \subseteq DOMAIN handlers'
  <2>1. DOMAIN handlers = 1 .. Len(handlers) /\ DOMAIN handlers' = 1 .. Len(handlers')
    BY DEF WatchInv, ServerInv, TypeOK
  <2>2. listed \subseteq 1 .. Len(handlers)
    BY <2>1 DEF WatchInv, WatchTypeOK
  <2>3. 1 .. Len(handlers) \subseteq 1 .. Len(handlers')
    BY <1>1, <1>2
  <2> QED BY SMTT(30), <1>3, <2>1, <2>2, <2>3
<1>7. Len(handlers') = Len(handlers) + 1
          => Len(handlers) + 1 \in 1 .. MaxHandlers /\ Len(handlers) + 1 > Len(handlers)
  BY <1>2, ServerAssumption
<1> QED BY <1>1, <1>3, <1>5, <1>6, <1>7 DEF SeenInv

\* The server takes an event: the handler of the peer it names is replaced by
\* one that has seen nothing.
LEMMA TakeEventInv ==
    ASSUME WatchInv, TakeEvent
    PROVE  WatchInv'
<1> DEFINE event == Head(queue)
<1>1. /\ ~asleep /\ queue # << >> /\ queue' = Tail(queue)
      /\ UNCHANGED disk /\ UNCHANGED <<kernel, lost, waker, asleep, scan>>
      /\ IF event.name \in Recognised /\ is_modify(event)
           THEN ConfigModified(Stems[event.name]) ELSE UNCHANGED vars
  BY DEF TakeEvent
<1>2. [Next]_vars
  BY WatchStepIsServerStep DEF WatchNext
<1>3. ServerInv'
  BY <1>2, NextInv DEF WatchInv
<1>4. /\ event \in Events /\ event \in ToSet(queue)
      /\ queue' \in Seq(Events) /\ Len(queue') = Len(queue) - 1
      /\ ToSet(queue) = ToSet(queue') \cup {event}
  BY <1>1, TakenFacts DEF WatchInv, WatchTypeOK
<1> HIDE DEF event
<1>5. SeenInv' /\ listed' \subseteq DOMAIN handlers'
  BY Zenon, <1>1, <1>2, <1>3, StaleWasInUse
<1>6. WatchTypeOK'
  <2>1. Len(kernel') + Len(queue') <= changes'
    BY <1>1, <1>4 DEF WatchInv, WatchTypeOK, disk
  <2> QED BY ZenonT(40), <1>1, <1>3, <1>4, <1>5, <2>1 DEF WatchInv, WatchTypeOK, ServerInv, disk, scan
<1>7. DiskInv' /\ KernelInv'
  BY <1>1, <1>4 DEF WatchInv, DiskInv, KernelInv, disk
<1>8. NoSleepingEvent'
  BY <1>1 DEF NoSleepingEvent
<1>9. StaleIsAnnounced'
  <2> SUFFICES ASSUME NEW f \in Recognised \cap present', peer_handlers'[Stems[f]] # 0,
                      seen'[peer_handlers'[Stems[f]]][f] \notin {Unread, content'[f]}
               PROVE  ~Written(f)' \/ Announced(f)' \/ lost'
    BY DEF StaleIsAnnounced, Recognised
  <2> DEFINE a == Stems[f]
  <2>1. a \in Addresses /\ f \in Files /\ f \in present
    BY <1>1 DEF Recognised, disk
  <2>2. peer_handlers'[a] = peer_handlers[a]
    BY Zenon, <1>1, <1>2, <1>3, <2>1, StaleWasInUse
  <2>3. ~Written(f) \/ Announced(f) \/ lost
    BY <1>1, <2>1, <2>2 DEF WatchInv, StaleIsAnnounced, disk, scan
  <2>4. ASSUME Announced(f) PROVE Announced(f)' \/ lost'
    <3>1. CASE event.name # f
      BY SMTT(30), <1>1, <1>4, <2>4, <3>1 DEF Announced
    <3>2. CASE event.name = f /\ ~is_modify(event)
      <4>1. event.mask = "IN_Q_OVERFLOW"
        BY <1>4, <3>2 DEF is_modify, Events, Masks
      <4> QED BY <1>1, <1>4, <4>1 DEF WatchInv, KernelInv
    <3>3. event.name = f /\ is_modify(event) => FALSE
      <4> SUFFICES ASSUME event.name = f, is_modify(event) PROVE FALSE
        OBVIOUS
      <4>1. peer_handlers'[a] = Len(handlers) + 1
        BY <1>1, <2>1 DEF ConfigModified, WatchInv, ServerInv, TypeOK
      <4>2. peer_handlers[a] \in 0 .. Len(handlers) /\ Len(handlers) \in Nat
        BY <2>1 DEF WatchInv, ServerInv, TypeOK
      <4> QED BY <2>2, <4>1, <4>2
    <3> QED BY SMTT(30), <3>1, <3>2, <3>3
  <2> QED BY <1>1, <2>3, <2>4 DEF Written, disk
<1> QED BY <1>3, <1>5, <1>6, <1>7, <1>8, <1>9 DEF WatchInv

\* Another step of the server, or of a handler.
LEMMA OtherStepInv ==
    ASSUME WatchInv, [Next]_vars, UNCHANGED disk, UNCHANGED <<kernel, lost, queue, waker, scan>>,
           asleep' \in {asleep, FALSE}
    PROVE  WatchInv'
<1>1. ServerInv'
  BY NextInv DEF WatchInv
<1>2. SeenInv' /\ listed' \subseteq DOMAIN handlers'
  BY <1>1, StaleWasInUse
<1>3. WatchTypeOK' /\ DiskInv' /\ KernelInv'
  BY Zenon, <1>1, <1>2 DEF WatchInv, WatchTypeOK, DiskInv, KernelInv, ServerInv, disk, scan
<1>4. NoSleepingEvent'
  BY Zenon DEF WatchInv, NoSleepingEvent
<1>5. StaleIsAnnounced'
  <2>1. \A a \in Addresses, f \in Files :
            peer_handlers'[a] # 0 /\ seen'[peer_handlers'[a]][f] # Unread
                => peer_handlers'[a] = peer_handlers[a]
    BY <1>1, StaleWasInUse
  <2> QED BY <2>1 DEF WatchInv, StaleIsAnnounced, Recognised, Announced, Written, disk, scan
<1> QED BY <1>1, <1>2, <1>3, <1>4, <1>5 DEF WatchInv

\* A step of the scan changes what one handler has seen, and of every file that
\* is there to what it is now, or to nothing.
LEMMA ScanInv ==
    ASSUME WatchInv, NEW h \in DOMAIN handlers, List(h) \/ ReadFile(h)
    PROVE  WatchInv'
<1>1. UNCHANGED vars /\ UNCHANGED disk /\ UNCHANGED watch
  BY DEF List, ReadFile
<1>2. ServerInv'
  BY <1>1, NextInv DEF WatchInv
<1>3. /\ h \in 1 .. Len(handlers) /\ h \in 1 .. MaxHandlers /\ MaxHandlers \in Nat
      /\ Len(handlers) \in Nat /\ Len(handlers) <= MaxHandlers
      /\ \A a \in Addresses : peer_handlers[a] \in 0 .. Len(handlers)
  BY ServerAssumption DEF WatchInv, ServerInv, TypeOK
<1>4. /\ seen \in [1 .. MaxHandlers -> [Files -> Unread .. 2 * MaxWrites]]
      /\ unread \in [1 .. MaxHandlers -> SUBSET Files]
      /\ listed \subseteq DOMAIN handlers /\ Unread \in Unread .. 2 * MaxWrites
      /\ \A f \in Files : content[f] \in Unread .. 2 * MaxWrites
  BY ConfigWatchAssumption DEF WatchInv, WatchTypeOK, Unread
<1>5. PICK s \in [Files -> Unread .. 2 * MaxWrites] :
          /\ seen' = [seen EXCEPT ![h] = s]
          /\ \A f \in present : s[f] \in {seen[h][f], Unread, content[f]}
  <2>1. CASE List(h)
    <3> DEFINE mine == {f \in Files : match_ip(f, address[h])}
               s == [f \in Files |-> IF f \in mine \ present THEN content[f] ELSE Unread]
    <3>1. seen' = [seen EXCEPT ![h] = s]
      BY <2>1 DEF List
    <3>2. s \in [Files -> Unread .. 2 * MaxWrites] /\ \A f \in Files : s[f] \in {Unread, content[f]}
      BY <1>4
    <3>3. present \subseteq Files
      BY DEF WatchInv, WatchTypeOK
    <3> QED BY ZenonT(40), <3>1, <3>2, <3>3
  <2>2. CASE ReadFile(h)
    <3>1. PICK f \in unread[h] : seen' = [seen EXCEPT ![h] = [seen[h] EXCEPT ![f] = content[f]]]
      BY Zenon, <2>2 DEF ReadFile
    <3>2. f \in Files /\ seen[h] \in [Files -> Unread .. 2 * MaxWrites] /\ present \subseteq Files
      BY <1>3, <1>4 DEF WatchInv, WatchTypeOK
    <3> DEFINE s == [seen[h] EXCEPT ![f] = content[f]]
    <3>3. s \in [Files -> Unread .. 2 * MaxWrites] /\ \A g \in Files : s[g] \in {seen[h][g], content[g]}
      BY <1>4, <3>2
    <3> QED BY Zenon, <3>1, <3>2, <3>3
  <2> QED BY <2>1, <2>2
<1>6. /\ seen' \in [1 .. MaxHandlers -> [Files -> Unread .. 2 * MaxWrites]] /\ seen'[h] = s
      /\ \A k \in 1 .. MaxHandlers : k # h => seen'[k] = seen[k]
  BY <1>3, <1>4, <1>5
<1>7. listed' \subseteq DOMAIN handlers /\ unread' \in [1 .. MaxHandlers -> SUBSET Files]
  <2>1. CASE List(h)
    BY <1>3, <1>4, <2>1 DEF List
  <2>2. CASE ReadFile(h)
    <3>1. PICK left \in SUBSET Files : unread' = [unread EXCEPT ![h] = left]
      BY <1>3, <1>4, <2>2 DEF ReadFile
    <3> QED BY SMTT(30), <1>3, <1>4, <2>2, <3>1 DEF ReadFile
  <2> QED BY <2>1, <2>2
<1>8. WatchTypeOK'
  BY ZenonT(40), <1>1, <1>2, <1>6, <1>7 DEF WatchInv, WatchTypeOK, ServerInv, disk, watch, vars
<1>9. DiskInv' /\ KernelInv' /\ NoSleepingEvent'
  BY <1>1 DEF WatchInv, DiskInv, KernelInv, NoSleepingEvent, disk, watch
<1>10. SeenInv'
  <2>1. SeenInv /\ handlers' = handlers
    BY <1>1 DEF WatchInv, vars
  <2>2. ~(h > Len(handlers))
    BY <1>3
  <2> QED BY ONLY <1>6, <2>1, <2>2 DEF SeenInv
<1>11. StaleIsAnnounced'
  <2> SUFFICES ASSUME NEW f \in Recognised \cap present, peer_handlers[Stems[f]] # 0,
                      seen'[peer_handlers[Stems[f]]][f] \notin {Unread, content[f]}
               PROVE  ~Written(f) \/ Announced(f) \/ lost
    BY <1>1 DEF StaleIsAnnounced, Recognised, Written, Announced, vars, disk, watch
  <2> DEFINE k == peer_handlers[Stems[f]]
  <2>1. k \in 1 .. MaxHandlers
    <3>1. Stems[f] \in Addresses
      BY Zenon DEF Recognised
    <3>2. k \in 0 .. Len(handlers) /\ k # 0
      BY ZenonT(40), <1>3, <3>1
    <3> QED BY ONLY <1>3, <3>2
  <2>2. seen[k][f] \notin {Unread, content[f]}
    BY <1>5, <1>6, <2>1
  <2> QED BY <2>2 DEF WatchInv, StaleIsAnnounced
<1> QED BY <1>2, <1>8, <1>9, <1>10, <1>11 DEF WatchInv

\* Every step.
LEMMA WatchNextInv ==
    ASSUME WatchInv, [WatchNext]_allvars
    PROVE  WatchInv'
<1>1. [Next]_vars
  BY WatchStepIsServerStep
<1>2. ASSUME NEW f \in Files, OpenWrite(f) \/ CloseWrite(f) \/ MoveTo(f) \/ Unlink(f)
      PROVE  WatchInv'
  BY <1>2, WriterStepInv
<1>3. ASSUME ServerStep \/ UNCHANGED allvars PROVE WatchInv'
  BY Zenon, <1>1, <1>3, OtherStepInv DEF ServerStep, allvars, watch
<1>4. ASSUME NEW h \in DOMAIN handlers, ScannedStep(h) PROVE WatchInv'
  BY <1>1, <1>4, OtherStepInv DEF ScannedStep, watch
<1> QED BY <1>2, <1>3, <1>4, ReadLoopInv, PollInv, TakeEventInv, ScanInv DEF WatchNext

\* The initial states.
LEMMA WatchInitInv == WatchInit => WatchInv
<1> SUFFICES ASSUME WatchInit PROVE WatchInv
  OBVIOUS
<1>1. ServerInv
  BY InitInv DEF WatchInit
<1>2. /\ kernel \in Seq(Events) /\ queue \in Seq(Events) /\ Len(kernel) = 0 /\ Len(queue) = 0
      /\ ToSet(kernel) = {} /\ ToSet(queue) = {}
  BY DEF WatchInit, ToSet
<1>3. WatchTypeOK
  <2>1. /\ content \in [Files -> 0 .. 2 * MaxWrites] /\ writes \in 0 .. MaxWrites
        /\ seen \in [1 .. MaxHandlers -> [Files -> Unread .. 2 * MaxWrites]]
        /\ unread \in [1 .. MaxHandlers -> SUBSET Files]
        /\ present \subseteq Files /\ listed \subseteq DOMAIN handlers
    BY ConfigWatchAssumption DEF WatchInit, Unread
  <2>2. Len(kernel) <= KernelLimit + 1 /\ changes \in Nat /\ Len(kernel) + Len(queue) <= changes
    BY <1>2, ConfigWatchAssumption DEF WatchInit
  <2> QED BY Zenon, <1>1, <1>2, <2>1, <2>2 DEF WatchInit, WatchTypeOK, ServerInv
<1>4. DiskInv /\ KernelInv /\ SeenInv /\ NoSleepingEvent
  BY <1>2, ConfigWatchAssumption DEF WatchInit, DiskInv, KernelInv, SeenInv, NoSleepingEvent
<1>5. StaleIsAnnounced
  BY DEF WatchInit, Init, StaleIsAnnounced, Recognised
<1> QED BY <1>1, <1>3, <1>4, <1>5 DEF WatchInv

\* The inductive invariant.
LEMMA WatchInvariance == WatchSpec => []WatchInv
BY WatchInitInv, WatchNextInv, PTL DEF WatchSpec
-----------------------------------------------------------------------------
(***************************************************************************)
(* Theorems.                                                               *)
(***************************************************************************)

\* The state of the watch is always well typed: the queues never hold more
\* events than there were changes, and the kernel's no more than its limit and
\* the event that says it lost some.
THEOREM WatchTypeCorrect == WatchSpec => []WatchTypeOK
BY WatchInvariance, PTL DEF WatchInv

\* The server never sleeps on a queue that holds an event.
THEOREM NoSleepingEventHolds == WatchSpec => []NoSleepingEvent
BY WatchInvariance, PTL DEF WatchInv

\* A handler in use that has seen an outdated content of a file which bears the
\* address of its peer will hear of it, unless the file was removed or the kernel
\* lost events.
THEOREM StaleIsAnnouncedHolds == WatchSpec => []StaleIsAnnounced
BY WatchInvariance, PTL DEF WatchInv

\* The server with its events delivered one by one by read_loop implements the
\* server that may be told of a modification at any time.
THEOREM WatchImplementsServer == WatchSpec => Spec
<1>1. WatchInit => Init
  BY DEF WatchInit
<1> QED BY <1>1, WatchStepIsServerStep, PTL DEF WatchSpec, Spec
=============================================================================
