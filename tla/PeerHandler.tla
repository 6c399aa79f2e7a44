---------------------------- MODULE PeerHandler ----------------------------
(***************************************************************************)
(* The handler of one peer address: a thread that runs                     *)
(* peer_requests_handler and the session tasks it schedules, fed by the    *)
(* server's thread through a bounded channel.                              *)
(*                                                                         *)
(* Time is counted in polls, the one second for which rx_channel.recv() is *)
(* awaited.  Sessions are modelled by the tasks that run them: a task ends *)
(* by itself (Transfer!SessionEnds).                                       *)
(***************************************************************************)
EXTENDS Integers, Sequences, FiniteSets

CONSTANTS
    Ports,                \* ports of the peer that send read requests
    CHANNEL_SIZE,         \* mpsc::channel bound, 10 in the code
    MAX_SESSIONS_PER_IP,  \* 128 in the code
    InitialCapacity,      \* of HashMap::with_capacity(MAX_SESSIONS_PER_IP)
    IdleTimeout,          \* idle_timeout, in polls
    MaxRequests,          \* bound: requests fed to the handler
    MaxTime               \* bound: polls

ASSUME PeerHandlerAssumption ==
    /\ IsFiniteSet(Ports)
    /\ CHANNEL_SIZE \in Nat \ {0}
    /\ MAX_SESSIONS_PER_IP \in Nat \ {0}
    /\ InitialCapacity \in Nat /\ InitialCapacity >= MAX_SESSIONS_PER_IP
    /\ IdleTimeout \in Nat
    /\ MaxRequests \in Nat /\ MaxTime \in Nat

VARIABLES
    handler,        \* place of the thread
    sender,         \* the server still holds its PeerHandler
    open,           \* the receiving end of the channel is open
    channel,        \* requests fed and not yet taken
    send_sessions,  \* port -> task, 0 where the map has no entry
    capacity,       \* capacity of the map
    tasks,          \* the tasks that have not finished
    last_active,
    recv_since,     \* when the pending rx_channel.recv() was first polled
    now,
    fed,            \* number of requests the server tried to feed
    scheduled       \* number of tasks scheduled

timers   == <<last_active, recv_since>>
sessions == <<send_sessions, capacity, scheduled>>
thread   == <<handler, sessions, tasks, timers>>
vars     == <<sender, open, channel, now, fed, thread>>

Tasks == [id: 1 .. MaxRequests, port: Ports]

TypeOK ==
    /\ handler \in {"starting", "running", "idle", "stopping", "draining", "returned", "finished"}
    /\ sender \in BOOLEAN /\ open \in BOOLEAN
    /\ channel \in Seq(Ports) /\ Len(channel) <= CHANNEL_SIZE
    /\ send_sessions \in [Ports -> 0 .. MaxRequests]
    /\ capacity \in Nat
    /\ tasks \subseteq Tasks
    /\ last_active \in 0 .. now /\ recv_since \in 0 .. now
    /\ now \in 0 .. MaxTime
    /\ fed \in 0 .. MaxRequests
    /\ scheduled \in 0 .. fed

Init ==
    /\ handler = "starting"
    /\ sender = TRUE
    /\ open = TRUE
    /\ channel = << >>
    /\ send_sessions = [p \in Ports |-> 0]
    /\ capacity = InitialCapacity
    /\ tasks = {}
    /\ last_active = 0
    /\ recv_since = 0
    /\ now = 0
    /\ fed = 0
    /\ scheduled = 0
-----------------------------------------------------------------------------
(* The server's thread *)

\* PeerHandler::feed waits while the channel is full.
Feed(p) ==
    /\ sender /\ open
    /\ fed < MaxRequests
    /\ Len(channel) < CHANNEL_SIZE
    /\ channel' = Append(channel, p)
    /\ fed' = fed + 1
    /\ UNCHANGED <<sender, open, now, thread>>

\* feed returns false, and the server removes the handler and shuts it down.
FeedFails ==
    /\ sender /\ ~open
    /\ fed < MaxRequests
    /\ fed' = fed + 1
    /\ sender' = FALSE
    /\ UNCHANGED <<open, channel, now, thread>>

\* PeerHandler::shutdown: drops the sender, then joins the thread.
Shutdown ==
    /\ sender
    /\ sender' = FALSE
    /\ UNCHANGED <<open, channel, now, fed, thread>>
-----------------------------------------------------------------------------
(* The handler's thread *)

IsRunning(id) == \E t \in tasks : t.id = id

\* Mutant: repeated requests are not recognised.
NeverContains(p) == FALSE

contains_key(p) == send_sessions[p] # 0

\* Mutant: the condition of retain without its negation.
RetainFinished == [p \in Ports |-> IF IsRunning(send_sessions[p]) THEN 0 ELSE send_sessions[p]]

\* send_sessions.retain(|_, handle| !handle.is_finished())
Retained == [p \in Ports |-> IF IsRunning(send_sessions[p]) THEN send_sessions[p] ELSE 0]

Entries(map) == {p \in Ports : map[p] # 0}

\* Mutant: the sessions are not looked at.
AssumedEmpty == TRUE

is_empty == Entries(Retained) = {}

\* The roots are opened, the remote one included, and the loop is entered.
Start ==
    /\ handler = "starting"
    /\ handler' = "running"
    /\ last_active' = now
    /\ recv_since' = now
    /\ UNCHANGED <<sender, open, channel, now, fed, sessions, tasks>>

IgnoreRepeated ==
    /\ handler = "running"
    /\ channel # << >>
    /\ contains_key(Head(channel))
    /\ channel' = Tail(channel)
    /\ recv_since' = now
    /\ UNCHANGED <<sender, open, now, fed, handler, sessions, tasks, last_active>>

\* A full map costs the peer an ERROR datagram; the session is scheduled all
\* the same, and the map grows.
Schedule ==
    /\ handler = "running"
    /\ channel # << >>
    /\ LET port == Head(channel)
           full == Cardinality(Entries(Retained)) >= capacity
       IN  /\ ~contains_key(port)
           /\ tasks' = tasks \cup {[id |-> scheduled + 1, port |-> port]}
           /\ send_sessions' = [Retained EXCEPT ![port] = scheduled + 1]
           /\ capacity' = IF full THEN 2 * capacity ELSE capacity
    /\ scheduled' = scheduled + 1
    /\ channel' = Tail(channel)
    /\ recv_since' = now
    /\ UNCHANGED <<sender, open, now, fed, handler, last_active>>

\* The timeout around recv() elapses; recv() is polled first, so that nothing
\* is in the channel and the sender is not gone.
Elapsed ==
    /\ handler = "running"
    /\ channel = << >> /\ sender
    /\ now - recv_since >= 1
    /\ send_sessions' = Retained
    /\ recv_since' = now
    /\ IF is_empty
         THEN /\ handler' = IF now - last_active > IdleTimeout THEN "idle" ELSE handler
              /\ UNCHANGED last_active
         ELSE /\ last_active' = now
              /\ UNCHANGED handler
    /\ UNCHANGED <<sender, open, channel, now, fed, capacity, tasks, scheduled>>

\* Mutant: the loop goes on without a sender.
SenderGoneGoesOn ==
    /\ handler = "running"
    /\ channel = << >> /\ ~sender
    /\ recv_since' = now
    /\ UNCHANGED <<sender, open, channel, now, fed, handler, sessions, tasks, last_active>>

\* recv() returns None: the server dropped its end and the channel is empty.
SenderGone ==
    /\ handler = "running"
    /\ channel = << >> /\ ~sender
    /\ handler' = "stopping"
    /\ UNCHANGED <<sender, open, channel, now, fed, sessions, tasks, timers>>

\* rx_channel.close(): the server's thread may feed between the decision to
\* leave the loop and this call.
Close ==
    /\ handler \in {"idle", "stopping"}
    /\ handler' = "draining"
    /\ open' = FALSE
    /\ UNCHANGED <<sender, channel, now, fed, sessions, tasks, timers>>

\* Mutant: the handles are dropped, not awaited.
ReturnsAtOnce ==
    /\ handler = "draining"
    /\ handler' = "returned"
    /\ UNCHANGED <<sender, open, channel, now, fed, sessions, tasks, timers>>

\* The handles of the map have been awaited; peer_requests_handler returns and
\* drops the roots; the requests left in the channel are lost.
HandlerReturns ==
    /\ handler = "draining"
    /\ \A p \in Ports : ~IsRunning(send_sessions[p])
    /\ handler' = "returned"
    /\ UNCHANGED <<sender, open, channel, now, fed, sessions, tasks, timers>>

\* runtime.block_on(local_task_set) returns once no local task is left.
ThreadEnds ==
    /\ handler = "returned"
    /\ tasks = {}
    /\ handler' = "finished"
    /\ UNCHANGED <<sender, open, channel, now, fed, sessions, tasks, timers>>

TaskEnds(t) ==
    /\ tasks' = tasks \ {t}
    /\ UNCHANGED <<sender, open, channel, now, fed, handler, sessions, timers>>
-----------------------------------------------------------------------------
\* Time passes; an elapsed timeout is not left unhandled for a whole poll.
Tick ==
    /\ now < MaxTime
    /\ handler = "running" /\ sender /\ channel = << >> => now - recv_since < 1
    /\ now' = now + 1
    /\ UNCHANGED <<sender, open, channel, fed, thread>>

HandlerStep == Start \/ IgnoreRepeated \/ Schedule \/ Elapsed \/ SenderGone \/ Close
               \/ HandlerReturns \/ ThreadEnds

Next ==
    \/ \E p \in Ports : Feed(p)
    \/ FeedFails
    \/ Shutdown
    \/ HandlerStep
    \/ \E t \in tasks : TaskEnds(t)
    \/ Tick

Spec == Init /\ [][Next]_vars

\* The thread and its tasks are scheduled and every session ends.
FairSpec ==
    /\ Spec
    /\ WF_vars(HandlerStep)
    /\ \A t \in Tasks : WF_vars(t \in tasks /\ TaskEnds(t))
-----------------------------------------------------------------------------
(* Properties *)

\* No two sessions serve the same port of the peer at the same time: two tasks
\* on one port would answer the client with interleaved blocks.
OneSessionPerPort ==
    \A s, t \in tasks : s.port = t.port => s = t

\* Every session that runs has its handle in the map, so that the handler can
\* wait for it.
RunningIsTracked ==
    \A t \in tasks : send_sessions[t.port] = t.id

\* When peer_requests_handler returns, and drops the roots it opened, it has
\* waited for every session it ever scheduled.
ReturnedIsQuiet == handler \in {"returned", "finished"} => tasks = {}

(***************************************************************************)
(* The handler as the server sees it.                                      *)
(***************************************************************************)
Phase ==
    CASE handler \in {"starting", "running"}  -> "serving"
      [] handler \in {"idle", "stopping"}     -> "leaving"
      [] handler \in {"draining", "returned"} -> "closed"
      [] handler = "finished"                 -> "finished"

Serving == {t.port : t \in tasks}

H == INSTANCE HandlerSpec
     WITH h <- [phase |-> Phase, attached |-> sender, queue |-> channel, running |-> Serving]

\* Every step of the handler, with its timers, its map and its stale entries,
\* is one that module HandlerSpec, and so the model of the server, allows.
ImplementsHandler == H!Spec

\* The handler does not give up its roots for inactivity while it serves.
NoIdleCloseWhileServing ==
    [][handler = "running" /\ handler' = "idle" => tasks = {}]_vars

\* The peer has at most MAX_SESSIONS_PER_IP sessions at a time.
SessionLimit == Cardinality(tasks) <= MAX_SESSIONS_PER_IP

\* A shutdown ends: the join of the server's thread returns.
ShutdownCompletes == ~sender ~> handler = "finished"
=============================================================================
