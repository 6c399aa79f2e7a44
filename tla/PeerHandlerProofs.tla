------------------------- MODULE PeerHandlerProofs -------------------------
(***************************************************************************)
(* Theorems about PeerHandler, for every set of ports, every capacity and  *)
(* every bound.                                                            *)
(*                                                                         *)
(* That no port has two sessions is not inductive: Schedule looks at the   *)
(* map, not at the tasks.  The strengthening says that the map is right    *)
(* about every running task (RunningIsTracked), that identifiers are not   *)
(* used twice, and that a request is counted once.                         *)
(***************************************************************************)
EXTENDS PeerHandler, FiniteSetTheorems, WellFoundedInduction, TLAPS

TypeInv ==
    /\ TypeOK
    /\ scheduled + Len(channel) <= fed
    /\ open <=> handler \in {"starting", "running", "idle", "stopping"}

TaskInv ==
    /\ RunningIsTracked
    /\ \A t \in tasks : t.id <= scheduled
    /\ ReturnedIsQuiet

\* Every action keeps the type invariant: the thread takes no more requests
\* than the server fed, and the channel is never longer than its bound.
LEMMA NextType ==
    ASSUME TypeInv, [Next]_vars
    PROVE  TypeInv'
<1> USE PeerHandlerAssumption DEF TypeInv, TypeOK, Tasks
<1> CASE UNCHANGED vars
  BY DEF vars, thread, sessions, timers
<1> CASE Next
  <2>1. ASSUME NEW p \in Ports, Feed(p)
        PROVE  TypeInv'
    BY <2>1 DEF Feed, thread, sessions, timers
  <2>2. CASE FeedFails
    <3>1. sender' \in BOOLEAN /\ UNCHANGED open
      BY Zenon, <2>2 DEF FeedFails
    <3>2. fed' = fed + 1 /\ fed' \in 0 .. MaxRequests /\ UNCHANGED <<channel, now, thread>>
      BY <2>2 DEF FeedFails
    <3> QED
      BY <3>1, <3>2 DEF thread, sessions, timers
  <2>3. CASE Shutdown
    BY Zenon, <2>3 DEF Shutdown, thread, sessions, timers
  <2>4. CASE Start
    BY <2>4 DEF Start, sessions
  <2>5. CASE IgnoreRepeated
    BY <2>5 DEF IgnoreRepeated, sessions
  <2>6. CASE Schedule
    <3>1. Len(channel) >= 1 /\ Head(channel) \in Ports /\ Tail(channel) \in Seq(Ports)
          /\ Len(Tail(channel)) = Len(channel) - 1
      BY <2>6 DEF Schedule
    <3>2. scheduled + 1 \in 1 .. MaxRequests
      BY <3>1
    <3>3. Retained \in [Ports -> 0 .. MaxRequests]
      BY DEF Retained
    <3>4. send_sessions' \in [Ports -> 0 .. MaxRequests] /\ tasks' \subseteq Tasks
      BY <2>6, <3>1, <3>2, <3>3 DEF Schedule
    <3>5. capacity' \in Nat
      BY <2>6 DEF Schedule
    <3> QED
      BY <2>6, <3>1, <3>2, <3>4, <3>5 DEF Schedule
  <2>7. CASE Elapsed
    <3>1. Retained \in [Ports -> 0 .. MaxRequests]
      BY DEF Retained
    <3> QED
      BY <2>7, <3>1 DEF Elapsed
  <2>8. CASE SenderGone
    BY <2>8 DEF SenderGone, sessions, timers
  <2>9. CASE Close
    BY Zenon, <2>9 DEF Close, sessions, timers
  <2>10. CASE HandlerReturns
    BY <2>10 DEF HandlerReturns, sessions, timers
  <2>11. CASE ThreadEnds
    BY <2>11 DEF ThreadEnds, sessions, timers
  <2>12. ASSUME NEW t \in tasks, TaskEnds(t)
         PROVE  TypeInv'
    BY <2>12 DEF TaskEnds, sessions, timers
  <2>13. CASE Tick
    BY <2>13 DEF Tick, thread, sessions, timers
  <2> QED
    BY Zenon, <2>1, <2>2, <2>3, <2>4, <2>5, <2>6, <2>7, <2>8, <2>9, <2>10, <2>11, <2>12, <2>13
    DEF Next, HandlerStep
<1> QED
  OBVIOUS

\* Type correctness of the handler, the bound of the channel included.
THEOREM TypeCorrect == Spec => []TypeOK
<1>1. Init => TypeInv
  BY PeerHandlerAssumption DEF Init, TypeInv, TypeOK
<1>2. TypeInv /\ [Next]_vars => TypeInv'
  BY NextType
<1>3. TypeInv => TypeOK
  BY DEF TypeInv
<1> QED
  BY <1>1, <1>2, <1>3, PTL DEF Spec
-----------------------------------------------------------------------------
\* retain keeps the entries of the tasks that run.
LEMMA RetainedRunning ==
    ASSUME TypeInv, RunningIsTracked, NEW t \in tasks
    PROVE  t.port \in Ports /\ t.id # 0 /\ Retained[t.port] = t.id
BY DEF TypeInv, TypeOK, Tasks, RunningIsTracked, Retained, IsRunning

\* An empty map, after retain, means that nothing runs.
LEMMA EmptyIsQuiet ==
    ASSUME TypeInv, RunningIsTracked, is_empty
    PROVE  tasks = {}
BY RetainedRunning DEF is_empty, Entries

LEMMA NextTasks ==
    ASSUME TypeInv, TaskInv, [Next]_vars
    PROVE  TaskInv'
<1> USE DEF TaskInv, RunningIsTracked, ReturnedIsQuiet
<1> CASE UNCHANGED vars
  BY DEF vars, thread, sessions, timers
<1> CASE Next
  <2>1. ASSUME NEW p \in Ports, Feed(p)
        PROVE  TaskInv'
    BY <2>1 DEF Feed, thread, sessions
  <2>2. CASE FeedFails \/ Shutdown \/ Tick
    BY <2>2 DEF FeedFails, Shutdown, Tick, thread, sessions
  <2>3. CASE Start \/ IgnoreRepeated \/ SenderGone \/ Close
    BY <2>3 DEF Start, IgnoreRepeated, SenderGone, Close, sessions
  <2>4. CASE Schedule
    <3> DEFINE port == Head(channel)
               task == [id |-> scheduled + 1, port |-> port]
    <3>1. port \in Ports /\ send_sessions[port] = 0
      BY <2>4 DEF Schedule, contains_key, TypeInv, TypeOK
    <3>2. Retained \in [Ports -> Nat] /\ scheduled \in Nat
      BY DEF Retained, TypeInv, TypeOK
    <3>3. tasks' = tasks \cup {task} /\ scheduled' = scheduled + 1
          /\ send_sessions' = [Retained EXCEPT ![port] = scheduled + 1]
          /\ handler' = "running"
      BY <2>4 DEF Schedule
    <3>4. ASSUME NEW t \in tasks
          PROVE  send_sessions'[t.port] = t.id /\ t.id <= scheduled'
      <4>1. t.port \in Ports /\ t.id # 0 /\ Retained[t.port] = t.id /\ t.id \in Nat
        BY RetainedRunning DEF TypeInv, TypeOK, Tasks
      <4>2. t.port # port
        BY <3>1, <4>1
      <4> QED
        BY <3>1, <3>2, <3>3, <4>1, <4>2
    <3>5. send_sessions'[task.port] = task.id /\ task.id <= scheduled'
      BY <3>1, <3>2, <3>3
    <3> QED
      BY <3>3, <3>4, <3>5
  <2>5. CASE Elapsed
    BY <2>5, RetainedRunning DEF Elapsed
  <2>6. CASE HandlerReturns
    <3>1. tasks = {}
      BY <2>6 DEF HandlerReturns, IsRunning, TypeInv, TypeOK, Tasks
    <3> QED
      BY <2>6, <3>1 DEF HandlerReturns, sessions
  <2>7. CASE ThreadEnds
    BY <2>7 DEF ThreadEnds, sessions
  <2>8. ASSUME NEW t \in tasks, TaskEnds(t)
        PROVE  TaskInv'
    BY <2>8 DEF TaskEnds, sessions
  <2> QED
    BY <2>1, <2>2, <2>3, <2>4, <2>5, <2>6, <2>7, <2>8 DEF Next, HandlerStep
<1> QED
  OBVIOUS

LEMMA HandlerInvariance == Spec => [](TypeInv /\ TaskInv)
<1>1. Init => TypeInv /\ TaskInv
  BY PeerHandlerAssumption
  DEF Init, TypeInv, TypeOK, TaskInv, RunningIsTracked, ReturnedIsQuiet
<1>2. TypeInv /\ TaskInv /\ [Next]_vars => (TypeInv /\ TaskInv)'
  BY NextType, NextTasks
<1> QED
  BY <1>1, <1>2, PTL DEF Spec

\* Every running session has its handle in send_sessions, after any sequence of
\* retain, insert and finished tasks.
THEOREM RunningIsTrackedHolds == Spec => []RunningIsTracked
<1>1. TypeInv /\ TaskInv => RunningIsTracked
  BY DEF TaskInv
<1> QED
  BY <1>1, HandlerInvariance, PTL

\* The check of contains_key, made against a map that may hold stale entries,
\* is enough to keep a port from being served twice at once.
THEOREM OneSessionPerPortHolds == Spec => []OneSessionPerPort
<1>1. TypeInv /\ TaskInv => OneSessionPerPort
  BY DEF TypeInv, TypeOK, Tasks, TaskInv, RunningIsTracked, OneSessionPerPort
<1> QED
  BY <1>1, HandlerInvariance, PTL

\* peer_requests_handler returns, and drops its roots, only when no session runs.
THEOREM ReturnedIsQuietHolds == Spec => []ReturnedIsQuiet
<1>1. TypeInv /\ TaskInv => ReturnedIsQuiet
  BY DEF TaskInv
<1> QED
  BY <1>1, HandlerInvariance, PTL

\* The idle timeout never ends a handler that serves a session.
THEOREM NoIdleCloseWhileServingHolds == Spec => NoIdleCloseWhileServing
<1>1. TypeInv /\ TaskInv /\ [Next]_vars
      => [handler = "running" /\ handler' = "idle" => tasks = {}]_vars
  <2> SUFFICES ASSUME TypeInv, TaskInv, Next, handler = "running", handler' = "idle"
               PROVE  tasks = {}
    OBVIOUS
  <2>1. Elapsed
    BY DEF Next, HandlerStep, Feed, FeedFails, Shutdown, Start, IgnoreRepeated, Schedule,
           SenderGone, Close, HandlerReturns, ThreadEnds, TaskEnds, Tick, thread
  <2>2. is_empty
    BY <2>1 DEF Elapsed
  <2> QED
    BY <2>2, EmptyIsQuiet DEF TaskInv
<1> QED
  BY <1>1, HandlerInvariance, PTL DEF Spec, NoIdleCloseWhileServing
-----------------------------------------------------------------------------
(***************************************************************************)
(* PeerHandler implements HandlerSpec.                                     *)
(***************************************************************************)
Abstract == [phase |-> Phase, attached |-> sender, queue |-> channel, running |-> Serving]

\* The ports that are served depend on the tasks only.
LEMMA ServingUnchanged == UNCHANGED tasks => UNCHANGED Serving
BY Zenon DEF Serving

\* What the server does to the handler.
LEMMA ServerStepRefines ==
    ASSUME TypeInv, FeedFails \/ Shutdown \/ (\E p \in Ports : Feed(p))
    PROVE  H!ServerStep
<1>1. UNCHANGED <<Phase, Serving>>
  BY Zenon, ServingUnchanged DEF Feed, FeedFails, Shutdown, thread, Phase
<1>2. ASSUME NEW p \in Ports, Feed(p) PROVE H!ServerStep
  <2>1. Phase \in {"serving", "leaving"}
    BY <1>2 DEF Feed, TypeInv, Phase
  <2>2. sender /\ Len(channel) < CHANNEL_SIZE
    BY <1>2 DEF Feed
  <2>3. Abstract' = [Abstract EXCEPT !.queue = Append(@, p)]
    <3>1. channel' = Append(channel, p) /\ UNCHANGED <<Phase, sender, Serving>>
      BY <1>1, <1>2 DEF Feed
    <3>2. [Abstract EXCEPT !.queue = Append(@, p)] =
              [phase |-> Phase, attached |-> sender, queue |-> Append(channel, p), running |-> Serving]
      BY DEF Abstract
    <3> QED BY <3>1, <3>2 DEF Abstract
  <2>4. Abstract.attached /\ H!IsOpen(Abstract) /\ H!HasRoom(Abstract)
    BY <2>1, <2>2 DEF H!IsOpen, H!HasRoom, Abstract
  <2>5. Abstract' \in H!Fed(Abstract)
    BY ZenonT(40), <2>3, <2>4 DEF H!Fed
  <2> QED BY <2>5 DEF H!ServerStep, Abstract
<1>3. CASE FeedFails \/ Shutdown
  <2>1. sender' = FALSE /\ UNCHANGED channel
    BY <1>3 DEF FeedFails, Shutdown
  <2>2. Abstract' = [Abstract EXCEPT !.attached = FALSE]
    <3> DEFINE gone == FALSE
    <3> HIDE DEF gone
    <3>1. [Abstract EXCEPT !.attached = gone] =
              [phase |-> Phase, attached |-> gone, queue |-> channel, running |-> Serving]
      BY SMTT(30) DEF Abstract
    <3>2. sender' = gone /\ UNCHANGED <<Phase, channel, Serving>>
      BY <1>1, <2>1 DEF gone
    <3>3. Abstract' = [Abstract EXCEPT !.attached = gone]
      BY <3>1, <3>2 DEF Abstract
    <3> QED BY <3>3 DEF gone
  <2> QED BY <2>2 DEF H!ServerStep, H!Detached, Abstract
<1> QED BY <1>2, <1>3

\* A step that only the handler's timers, map or clock take part in.
LEMMA QuietRefines ==
    ASSUME UNCHANGED <<Phase, sender, channel, tasks>>
    PROVE  UNCHANGED Abstract
BY ServingUnchanged DEF Abstract

\* The handler takes a request: it ignores it, or starts a session for a port
\* that no session serves.
LEMMA TakenRefines ==
    ASSUME TypeInv, TaskInv, IgnoreRepeated \/ Schedule
    PROVE  Abstract' \in H!Taken(Abstract)
<1> DEFINE port == Head(channel)
           rest == [Abstract EXCEPT !.queue = Tail(@)]
<1>1. /\ Phase = "serving" /\ Phase' = "serving"
      /\ channel # << >> /\ channel' = Tail(channel) /\ sender' = sender
  BY DEF IgnoreRepeated, Schedule, Phase
<1>2. Abstract.phase = "serving" /\ Abstract.queue = channel
  BY <1>1 DEF Abstract
<1>3. CASE IgnoreRepeated
  <2>1. Abstract' = rest
    BY <1>1, <1>3, ServingUnchanged DEF IgnoreRepeated, Abstract
  <2> QED BY <1>1, <1>2, <2>1 DEF H!Taken
<1>4. CASE Schedule
  <2>1. port \in Ports /\ send_sessions[port] = 0
    BY <1>4 DEF Schedule, contains_key, TypeInv, TypeOK
  <2>2. port \notin Abstract.running
    BY <2>1, RetainedRunning DEF TaskInv, RunningIsTracked, Abstract, Serving
  <2>3. tasks' = tasks \cup {[id |-> scheduled + 1, port |-> port]}
    BY <1>4 DEF Schedule
  <2>4. Serving' = Serving \cup {port}
    <3> DEFINE task == [id |-> scheduled + 1, port |-> port]
    <3>1. task.port = port /\ tasks' = tasks \cup {task}
      BY <2>3
    <3> HIDE DEF task
    <3> QED BY <3>1 DEF Serving
  <2>5. Abstract' = [rest EXCEPT !.running = @ \cup {port}]
    <3> DEFINE tail == Tail(channel)
               ports == Serving \cup {port}
    <3>1. Abstract.queue = channel /\ Abstract.running = Serving
      BY DEF Abstract
    <3>2. channel' = tail /\ Serving' = ports /\ UNCHANGED <<Phase, sender>>
      BY <1>1, <2>4
    <3>3. rest = [Abstract EXCEPT !.queue = tail]
      BY <3>1
    <3> HIDE DEF tail, ports, rest
    <3>4. rest = [phase |-> Phase, attached |-> sender, queue |-> tail, running |-> Serving]
      BY SMTT(30), <3>3 DEF Abstract
    <3>5. [rest EXCEPT !.running = ports] =
              [phase |-> Phase, attached |-> sender, queue |-> tail, running |-> ports]
      BY SMTT(30), <3>4
    <3>6. rest.running = Serving
      BY <3>4
    <3>7. Abstract' = [rest EXCEPT !.running = ports]
      BY <3>2, <3>5 DEF Abstract
    <3> QED BY <3>6, <3>7 DEF ports
  <2> HIDE DEF rest
  <2>6. Abstract' \in {[rest EXCEPT !.running = @ \cup {p}] : p \in {port} \ Abstract.running}
    BY <2>2, <2>5
  <2> QED BY Zenon, <1>1, <1>2, <2>6 DEF H!Taken, rest
<1> QED BY <1>3, <1>4

\* A task ends: its port is served no more, as it had no other task.
LEMMA TaskEndsRefines ==
    ASSUME TypeInv, TaskInv, NEW t \in tasks, TaskEnds(t)
    PROVE  Abstract' \in H!Ended(Abstract)
<1>1. ASSUME NEW s \in tasks, s.port = t.port PROVE s = t
  BY <1>1 DEF TypeInv, TypeOK, Tasks, TaskInv, RunningIsTracked
<1>2. UNCHANGED <<Phase, sender, channel>> /\ tasks' = tasks \ {t}
  BY DEF TaskEnds, Phase
<1>3. Serving' = Serving \ {t.port}
  BY <1>1, <1>2 DEF Serving
<1>4. Abstract' = [Abstract EXCEPT !.running = @ \ {t.port}]
  BY <1>2, <1>3 DEF Abstract
<1>5. t.port \in Abstract.running
  BY DEF Abstract, Serving
<1> QED BY <1>4, <1>5 DEF H!Ended

\* Every step of the handler is one that HandlerSpec allows, or invisible.
LEMMA NextRefines ==
    ASSUME TypeInv, TaskInv, [Next]_vars
    PROVE  H!ServerStep \/ Abstract' \in H!HandlerSteps(Abstract) \/ UNCHANGED Abstract
<1> USE DEF H!HandlerSteps
<1>1. CASE FeedFails \/ Shutdown \/ (\E p \in Ports : Feed(p))
  BY <1>1, ServerStepRefines
<1>2. CASE IgnoreRepeated \/ Schedule
  BY <1>2, TakenRefines
<1>3. ASSUME NEW t \in tasks, TaskEnds(t) PROVE Abstract' \in H!Ended(Abstract)
  BY <1>3, TaskEndsRefines
<1>4. CASE UNCHANGED vars \/ Start \/ Tick \/ HandlerReturns
  <2>1. UNCHANGED <<Phase, sender, channel, tasks>>
    BY Zenon, <1>4 DEF vars, thread, Start, Tick, HandlerReturns, Phase
  <2> QED BY <2>1, QuietRefines
<1>5. CASE Elapsed /\ handler' = handler
  BY <1>5, QuietRefines DEF Elapsed, Phase
<1>6. CASE (Elapsed /\ handler' # handler) \/ SenderGone
  <2>1. /\ Phase = "serving" /\ Phase' = "leaving" /\ channel = << >>
        /\ UNCHANGED <<sender, channel, Serving>>
    BY <1>6, ServingUnchanged DEF Elapsed, SenderGone, Phase
  <2>2. sender => Serving = {}
    BY <1>6, EmptyIsQuiet DEF Elapsed, SenderGone, TaskInv, Serving
  <2>3. Abstract' = [Abstract EXCEPT !.phase = "leaving"]
    BY <2>1 DEF Abstract
  <2>4. /\ Abstract.phase = "serving" /\ Abstract.queue = << >>
        /\ Abstract.attached => Abstract.running = {}
    BY <2>1, <2>2 DEF Abstract
  <2> QED BY <2>3, <2>4 DEF H!Left
<1>7. CASE Close
  <2>1. Phase = "leaving" /\ Phase' = "closed" /\ UNCHANGED <<sender, channel, Serving>>
    BY <1>7, ServingUnchanged DEF Close, Phase
  <2>2. Abstract' = [Abstract EXCEPT !.phase = "closed"] /\ Abstract.phase = "leaving"
    BY <2>1 DEF Abstract
  <2> QED BY <2>2 DEF H!Closed
<1>8. CASE ThreadEnds
  <2>1. /\ Phase = "closed" /\ Phase' = "finished" /\ Serving = {}
        /\ UNCHANGED <<sender, channel, Serving>>
    BY <1>8, ServingUnchanged DEF ThreadEnds, Phase, Serving
  <2>2. /\ Abstract' = [Abstract EXCEPT !.phase = "finished"]
        /\ Abstract.phase = "closed" /\ Abstract.running = {}
    BY <2>1 DEF Abstract
  <2> QED BY <2>2 DEF H!Finished
<1> QED BY <1>1, <1>2, <1>3, <1>4, <1>5, <1>6, <1>7, <1>8 DEF Next, HandlerStep

\* What the server assumes of its handlers is what PeerHandler does, for every
\* set of ports, channel size, capacity and idle timeout.
THEOREM ImplementsHandlerHolds == Spec => ImplementsHandler
<1>1. Init => H!Init
  BY Zenon DEF Init, Phase, Serving, H!Init, H!NewHandler
<1>2. TypeInv /\ TaskInv /\ [Next]_vars => [H!ServerStep \/ H!OwnStep]_Abstract
  BY NextRefines DEF H!OwnStep, Abstract
<1>3. TypeInv /\ TaskInv /\ [Next]_vars
      => [H!ServerStep \/ H!OwnStep]_[phase |-> Phase, attached |-> sender,
                                      queue |-> channel, running |-> Serving]
  BY <1>2 DEF Abstract
<1> QED BY <1>1, <1>3, HandlerInvariance, PTL DEF Spec, ImplementsHandler, H!Spec
-----------------------------------------------------------------------------
(***************************************************************************)
(* Why a shutdown completes.  Once the sender is dropped, every step lowers*)
(* a rank: the stage of the thread, the requests left in the channel, and  *)
(* the tasks that run.                                                     *)
(***************************************************************************)
Stage ==
    CASE handler = "starting"            -> 5
      [] handler = "running"             -> 4
      [] handler \in {"idle", "stopping"} -> 3
      [] handler = "draining"            -> 2
      [] handler = "returned"            -> 1
      [] handler = "finished"            -> 0

Rank == <<Stage, Len(channel), Cardinality(tasks)>>

\* The lexicographic order of ranks.
Lower == LexProductOrdering(OpToRel(<, Nat), Nat, 3)

\* No descent in that order goes on for ever.
LEMMA LowerWellFounded == IsWellFoundedOn(Lower, [1 .. 3 -> Nat])
BY NatLessThanWellFounded, WFLexProductOrdering DEF Lower

\* The tasks are finitely many.
LEMMA TasksFinite == Spec => []IsFiniteSet(tasks)
<1>1. Init => IsFiniteSet(tasks)
  BY FS_EmptySet DEF Init
<1>2. ASSUME IsFiniteSet(tasks), [Next]_vars
      PROVE  IsFiniteSet(tasks)'
  <2>1. CASE Schedule
    <3>1. PICK t : tasks' = tasks \cup {t}
      BY Zenon, <2>1 DEF Schedule
    <3> QED BY <1>2, <3>1, FS_AddElement
  <2>2. ASSUME NEW t \in tasks, TaskEnds(t) PROVE IsFiniteSet(tasks')
    BY <1>2, <2>2, FS_RemoveElement DEF TaskEnds
  <2>3. ASSUME ~Schedule, \A t \in tasks : ~TaskEnds(t) PROVE UNCHANGED tasks
    BY <1>2, <2>3 DEF Next, vars, thread, Feed, FeedFails, Shutdown, HandlerStep, Start,
       IgnoreRepeated, Elapsed, SenderGone, Close, HandlerReturns, ThreadEnds, Tick
  <2> QED BY <1>2, <2>1, <2>2, <2>3
<1> QED BY <1>1, <1>2, PTL DEF Spec

\* The rank is made of natural numbers.
LEMMA RankType == TypeInv /\ IsFiniteSet(tasks) => Rank \in [1 .. 3 -> Nat]
<1>1. ASSUME TypeInv, IsFiniteSet(tasks)
      PROVE  Stage \in Nat /\ Len(channel) \in Nat /\ Cardinality(tasks) \in Nat
  BY <1>1, FS_CardinalityType DEF TypeInv, TypeOK, Stage
<1> QED BY <1>1 DEF Rank

\* A rank is lower than another one at the first place where they differ.
LEMMA LowerAt ==
    ASSUME NEW r \in [1 .. 3 -> Nat], NEW s \in [1 .. 3 -> Nat],
           \/ r[1] < s[1]
           \/ r[1] = s[1] /\ r[2] < s[2]
           \/ r[1] = s[1] /\ r[2] = s[2] /\ r[3] < s[3]
    PROVE  <<r, s>> \in Lower
<1>1. PICK j \in 1 .. 3 : (\A i \in 1 .. j - 1 : r[i] = s[i]) /\ r[j] < s[j]
  OBVIOUS
<1> QED BY <1>1 DEF Lower, LexProductOrdering, OpToRel

\* The ways a step gets on: the thread enters a later stage, takes a request from
\* the channel, or a task ends.
Descent ==
    \/ Stage' < Stage
    \/ Stage' = Stage /\ Len(channel') < Len(channel)
    \/ Stage' = Stage /\ Len(channel') = Len(channel) /\ Cardinality(tasks') < Cardinality(tasks)

\* Without the sender, every step but the passing of time gets on.
LEMMA ShutdownDescends ==
    ASSUME TypeInv, IsFiniteSet(tasks), ~sender, Next
    PROVE  Tick \/ (now' = now /\ Descent)
<1>0. now \in Nat /\ channel \in Seq(Ports) /\ Cardinality(tasks) \in Nat
      /\ handler \in {"starting", "running", "idle", "stopping", "draining", "returned", "finished"}
  BY PeerHandlerAssumption, FS_CardinalityType DEF TypeInv, TypeOK
<1>1. CASE Start \/ SenderGone \/ Close \/ HandlerReturns \/ ThreadEnds
  BY <1>0, <1>1 DEF Start, SenderGone, Close, HandlerReturns, ThreadEnds, Descent, Stage
<1>2. CASE IgnoreRepeated \/ Schedule
  <2>1. channel # << >> /\ channel' = Tail(channel) /\ now' = now /\ handler' = handler
    BY <1>2 DEF IgnoreRepeated, Schedule
  <2>2. Len(channel') < Len(channel)
    BY <1>0, <2>1
  <2> QED BY <2>1, <2>2 DEF Descent, Stage
<1>3. ASSUME NEW t \in tasks, TaskEnds(t) PROVE now' = now /\ Descent
  <2>1. tasks' = tasks \ {t} /\ now' = now /\ handler' = handler /\ channel' = channel
    BY <1>3 DEF TaskEnds
  <2>2. Cardinality(tasks \ {t}) = Cardinality(tasks) - 1
    BY FS_RemoveElement
  <2>3. Cardinality(tasks') < Cardinality(tasks)
    BY <1>0, <2>1, <2>2
  <2> QED BY <2>1, <2>3 DEF Descent, Stage
<1>4. ~FeedFails /\ ~Shutdown /\ ~Elapsed /\ \A p \in Ports : ~Feed(p)
  BY DEF FeedFails, Shutdown, Elapsed, Feed
<1> QED BY <1>1, <1>2, <1>3, <1>4 DEF Next, HandlerStep

\* Once the server has dropped its end of the channel, every step of the thread
\* and of its tasks lowers the rank, in an order in which no descent goes on for
\* ever: the loop of peer_requests_handler and the joins that follow it cannot
\* keep the server's thread for an endless run of steps.  The requests that are
\* still in the channel are among them: they are taken, not dropped.
THEOREM ShutdownDescendsAlways ==
    /\ IsWellFoundedOn(Lower, [1 .. 3 -> Nat])
    /\ Spec => [](Rank \in [1 .. 3 -> Nat])
    /\ Spec => [][~sender => /\ ~sender'
                            /\ IF now' = now THEN <<Rank', Rank>> \in Lower ELSE Rank' = Rank]_vars
<1>1. Spec => [](Rank \in [1 .. 3 -> Nat])
  BY RankType, HandlerInvariance, TasksFinite, PTL
<1>2. ASSUME TypeInv, Rank \in [1 .. 3 -> Nat], (Rank \in [1 .. 3 -> Nat])', IsFiniteSet(tasks),
             Next, ~sender
      PROVE  IF now' = now THEN <<Rank', Rank>> \in Lower ELSE Rank' = Rank
  <2>1. CASE Tick
    <3>1. now' # now
      BY <1>2, <2>1, PeerHandlerAssumption DEF Tick, TypeInv, TypeOK
    <3>2. UNCHANGED <<handler, channel, tasks>>
      BY <2>1 DEF Tick, thread
    <3>3. Rank' = Rank
      BY <3>2 DEF Rank, Stage
    <3> QED BY <3>1, <3>3
  <2>2. CASE now' = now /\ Descent
    <3>1. PICK r \in [1 .. 3 -> Nat], s \in [1 .. 3 -> Nat] : r = Rank' /\ s = Rank
      BY <1>2, Zenon
    <3>2. /\ r[1] = Stage' /\ s[1] = Stage /\ r[2] = Len(channel') /\ s[2] = Len(channel)
          /\ r[3] = Cardinality(tasks') /\ s[3] = Cardinality(tasks)
      BY <3>1 DEF Rank
    <3>3. <<r, s>> \in Lower
      BY <2>2, <3>2, LowerAt DEF Descent
    <3> QED BY <2>2, <3>1, <3>3
  <2> QED BY <1>2, <2>1, <2>2, ShutdownDescends
<1>3. ASSUME Next, ~sender PROVE ~sender'
  BY <1>3 DEF Next, thread, Feed, FeedFails, Shutdown, HandlerStep, Start, IgnoreRepeated,
     Schedule, Elapsed, SenderGone, Close, HandlerReturns, ThreadEnds, TaskEnds, Tick
<1>4. TypeInv /\ Rank \in [1 .. 3 -> Nat] /\ (Rank \in [1 .. 3 -> Nat])' /\ IsFiniteSet(tasks)
         /\ [Next]_vars
      => [~sender => /\ ~sender'
                     /\ IF now' = now THEN <<Rank', Rank>> \in Lower ELSE Rank' = Rank]_vars
  BY <1>2, <1>3, Zenon
<1>5. Spec => [][~sender => /\ ~sender'
                            /\ IF now' = now THEN <<Rank', Rank>> \in Lower ELSE Rank' = Rank]_vars
  BY <1>1, <1>4, HandlerInvariance, TasksFinite, PTL DEF Spec
<1> QED BY <1>1, <1>5, LowerWellFounded, PTL
=============================================================================
