---------------------------- MODULE ConfigWatch ----------------------------
(***************************************************************************)
(* How a modified configuration reaches the handler of its peer: a writer  *)
(* modifies files of tftp_root, the kernel queues inotify events, the task *)
(* read_loop moves them to the queue of async_channel.rs and wakes the     *)
(* server, the server replaces the handler of the peer, and the new        *)
(* handler reads its configurations when its thread starts.                *)
(*                                                                         *)
(* The two sides go by the names of the files in different ways.  A        *)
(* handler looks at every file whose name starts with the address of its   *)
(* peer (match_ip); an event concerns the handler of the one address that  *)
(* is the name without its extension, if it is one.  Files are removed     *)
(* too, of which the watch hears nothing.                                  *)
(*                                                                         *)
(* read_loop and the server are tasks of one thread: read_loop does not    *)
(* run while the server is blocked in a join, and stops when the server is *)
(* dropped (INotifyObserver::drop).  The next() future of the queue is     *)
(* created and dropped at every turn of the server's select!.              *)
(***************************************************************************)
EXTENDS Server, SequencesExt, Integers

CONSTANTS
    Files,         \* the files of tftp_root, numbered as their names sort
    Stems,         \* file -> the address that its name without extension is, if any
    Matching,      \* file -> the addresses that its name starts with
    MaxWrites,     \* bound: how often files are written, moved or removed
    KernelLimit    \* events the kernel queues, fs.inotify.max_queued_events

ASSUME ConfigWatchAssumption ==
    /\ Files \subseteq Nat \ {0}
    /\ MaxWrites \in Nat /\ KernelLimit \in Nat \ {0}

VARIABLES
    content,   \* file -> number of its changes, odd while it is being written
    present,   \* the files that are there
    writes,    \* changes begun
    changes,   \* history: changes completed of which the kernel knows
    kernel,    \* the events queued by the kernel
    lost,      \* history: the kernel's queue overflowed
    queue,     \* SharedQueue::queue
    waker,     \* SharedQueue::waker holds the waker of the server's task
    asleep,    \* the server's task waits in its select! to be woken
    listed,    \* the handlers that have listed the directory
    unread,    \* handler -> the files it has still to look at
    seen       \* handler -> file -> the content it has seen, or Unread

disk    == <<content, present, writes, changes>>
watch   == <<kernel, lost, queue, waker, asleep>>
scan    == <<listed, unread, seen>>
allvars == <<vars, disk, watch, scan>>

Unread == -1
NoFile == 0
Masks  == {"IN_CLOSE_WRITE", "IN_MOVED_TO", "IN_Q_OVERFLOW"}
Events == [name: Files \cup {NoFile}, mask: Masks]

Written(f) == content[f] % 2 = 0

WatchTypeOK ==
    /\ TypeOK
    /\ content \in [Files -> 0 .. 2 * MaxWrites] /\ present \subseteq Files
    /\ writes \in 0 .. MaxWrites /\ changes \in Nat
    /\ kernel \in Seq(Events) /\ Len(kernel) <= KernelLimit + 1
    /\ queue \in Seq(Events) /\ Len(kernel) + Len(queue) <= changes
    /\ lost \in BOOLEAN /\ waker \in BOOLEAN /\ asleep \in BOOLEAN
    /\ listed \subseteq DOMAIN handlers
    /\ unread \in [1 .. MaxHandlers -> SUBSET Files]
    /\ seen \in [1 .. MaxHandlers -> [Files -> Unread .. 2 * MaxWrites]]

WatchInit ==
    /\ Init
    /\ content = [f \in Files |-> 0]
    /\ present \in SUBSET Files
    /\ writes = 0
    /\ changes = 0
    /\ kernel = << >>
    /\ lost = FALSE
    /\ queue = << >>
    /\ waker = FALSE
    /\ asleep = FALSE
    /\ listed = {}
    /\ unread = [h \in 1 .. MaxHandlers |-> {}]
    /\ seen = [h \in 1 .. MaxHandlers |-> [f \in Files |-> Unread]]
-----------------------------------------------------------------------------
(* The writer of configurations and the kernel *)

\* The event by which the kernel says that it lost others.
Overflow == [name |-> NoFile, mask |-> "IN_Q_OVERFLOW"]

\* Watch::change() asks for files closed after writing or moved into the
\* directory.  When the queue is full the event is lost, and one event that
\* names no file says so; else an event equal to the last one is merged with it.
Announce(name, mask) ==
    LET event  == [name |-> name, mask |-> mask]
        full   == Len(kernel) >= KernelLimit
        merged == kernel # << >> /\ Last(kernel) = event /\ mask = "IN_CLOSE_WRITE"
        known  == IF full THEN Overflow \in ToSet(kernel) ELSE merged
    IN  /\ kernel' = IF known THEN kernel
                     ELSE Append(kernel, IF full THEN Overflow ELSE event)
        /\ lost' = (lost \/ full)
        /\ changes' = changes + 1
        /\ UNCHANGED <<queue, waker, asleep>>

\* A change of the file f begins.
Begin(f, steps, there) ==
    /\ Written(f) /\ writes < MaxWrites
    /\ writes' = writes + 1
    /\ content' = [content EXCEPT ![f] = @ + steps]
    /\ present' = there

OpenWrite(f) ==
    /\ Begin(f, 1, present \cup {f})
    /\ UNCHANGED <<vars, changes, watch, scan>>

CloseWrite(f) ==
    /\ ~Written(f)
    /\ content' = [content EXCEPT ![f] = @ + 1]
    /\ Announce(f, "IN_CLOSE_WRITE")
    /\ UNCHANGED <<vars, present, writes, scan>>

MoveTo(f) ==
    /\ Begin(f, 2, present \cup {f})
    /\ Announce(f, "IN_MOVED_TO")
    /\ UNCHANGED <<vars, scan>>

\* The file is deleted or moved away, which is not watched.
Unlink(f) ==
    /\ f \in present
    /\ Begin(f, 2, present \ {f})
    /\ UNCHANGED <<vars, changes, watch, scan>>
-----------------------------------------------------------------------------
(* The queue of async_channel.rs *)

\* Mutant: the waker is not used.
PushSilently(events) == queue' = queue \o events /\ UNCHANGED <<waker, asleep>>

\* SharedQueue::push, for one event after the other: the first push takes the
\* waker and wakes the task that registered it.
push(events) ==
    /\ queue' = queue \o events
    /\ waker' = FALSE
    /\ asleep' = (asleep /\ ~waker)

\* Mutant: the whole buffer is parsed, with what an earlier read left there.
ParseBuffer(n) == SubSeq(kernel, 1, n) \o SubSeq(kernel, 1, n)

\* The n events that one read has put into the buffer; the kernel does not cut
\* an event short.
parse_events(n) == SubSeq(kernel, 1, n)

\* One read of the descriptor gives any number of events, which are pushed
\* without an await in between.
read_loop ==
    /\ server \in {"select", "feed"}
    /\ \E n \in 1 .. Len(kernel) :
           /\ push(parse_events(n))
           /\ kernel' = SubSeq(kernel, n + 1, Len(kernel))
    /\ UNCHANGED <<vars, disk, lost, scan>>

\* _Future::poll on an empty queue, when no other branch of the select! is
\* ready either.
Poll ==
    /\ server = "select" /\ ~asleep
    /\ queue = << >>
    /\ waker' = TRUE
    /\ asleep' = TRUE
    /\ UNCHANGED <<vars, disk, kernel, lost, queue, scan>>
-----------------------------------------------------------------------------
(* The server *)

\* Mutant: a file moved into the directory is no modification.
IsCloseWrite(event) == event.mask = "IN_CLOSE_WRITE"

is_modify(event) == event.mask \in {"IN_CLOSE_WRITE", "IN_MOVED_TO"}

\* The files whose name without extension is an address.
Recognised == {f \in Files : Stems[f] \in Addresses}

\* The event is popped; one whose name is no address, or that says that events
\* were lost, is dropped.
TakeEvent ==
    /\ server = "select" /\ ~asleep
    /\ queue # << >>
    /\ queue' = Tail(queue)
    /\ LET event == Head(queue)
       IN  IF event.name \in Recognised /\ is_modify(event)
             THEN ConfigModified(Stems[event.name])
             ELSE UNCHANGED vars
    /\ UNCHANGED <<disk, kernel, lost, waker, asleep, scan>>

\* The other branches, and what follows them; a timer or a datagram wakes the
\* task, and the waker stays in the queue.
ServerStep ==
    /\ \/ Turn
       \/ \E a \in Addresses, p \in Ports : Receive(a, p)
       \/ SocketError
       \/ Interrupt
       \/ Unblock
    /\ asleep' = FALSE
    /\ UNCHANGED <<disk, kernel, lost, queue, waker, scan>>
-----------------------------------------------------------------------------
(* open_nbd_root, by the thread of the handler h before it looks at requests *)

match_ip(f, a) == a \in Matching[f]

\* files_sorted: the directory is listed, and the files that match are kept; of
\* the others that would match the handler has seen that they are not there.
List(h) ==
    /\ h \notin listed
    /\ listed' = listed \cup {h}
    /\ LET mine == {f \in Files : match_ip(f, address[h])}
       IN  /\ unread' = [unread EXCEPT ![h] = mine \cap present]
           /\ seen' = [seen EXCEPT ![h] =
                  [f \in Files |-> IF f \in mine \ present THEN content[f] ELSE Unread]]
    /\ UNCHANGED <<vars, disk, watch>>

\* The next file is read as it is now, if it still is there.  The first one
\* whose disk can be connected ends the scan, any other is given up.
ReadFile(h) ==
    /\ \E f \in unread[h] :
           /\ \A g \in unread[h] : f <= g
           /\ seen' = [seen EXCEPT ![h] = [@ EXCEPT ![f] = content[f]]]
           /\ \/ unread' = [unread EXCEPT ![h] = @ \ {f}]
              \/ f \in present /\ unread' = [unread EXCEPT ![h] = {}]
    /\ UNCHANGED <<vars, disk, watch, listed>>

Scanned(h) == h \in listed /\ unread[h] = {}

ScannedStep(h) ==
    /\ Scanned(h)
    /\ HandlerStep(h)
    /\ UNCHANGED <<disk, watch, scan>>

WatchNext ==
    \/ \E f \in Files : OpenWrite(f) \/ CloseWrite(f) \/ MoveTo(f) \/ Unlink(f)
    \/ read_loop
    \/ Poll
    \/ TakeEvent
    \/ ServerStep
    \/ \E h \in DOMAIN handlers : List(h) \/ ReadFile(h) \/ ScannedStep(h)

WatchSpec == WatchInit /\ [][WatchNext]_allvars

\* The tasks of the server's thread are polled when they can go on, and the
\* threads of the handlers run; select! looks at its branches in random order,
\* so that events are not starved.  Nothing obliges the writer to go on.
FairWatchSpec ==
    /\ WatchSpec
    /\ WF_allvars(read_loop)
    /\ WF_allvars(TakeEvent)
    /\ WF_allvars(Unblock /\ ServerStep)
    /\ \A h \in 1 .. MaxHandlers :
           WF_allvars(h \in DOMAIN handlers /\ (List(h) \/ ReadFile(h) \/ ScannedStep(h)))
-----------------------------------------------------------------------------
(* Properties *)

\* No event waits in the queue while the server sleeps: _Future::poll registers
\* the waker with the queue empty, and push takes it, although select! drops
\* and creates the future in between.
NoSleepingEvent == asleep => queue = << >> /\ waker

Announced(f) ==
    \E event \in ToSet(kernel) \cup ToSet(queue) : event.name = f

\* A handler in use that has seen an old or half-written content of a file that
\* bears its peer's address, or has not seen it appear, is on its way to be
\* replaced: the file is being written, an event for it is queued, or the kernel
\* lost events while the server was busy.  Nothing is said of a file whose name
\* only starts with the address, and of one that was removed: no event of these
\* concerns the handler, which goes on with what it has read.
StaleIsAnnounced ==
    \A f \in Recognised \cap present :
        LET h == peer_handlers[Stems[f]]
        IN  h # 0 /\ seen[h][f] \notin {Unread, content[f]}
              => ~Written(f) \/ Announced(f) \/ lost

\* A handler in use comes to have ended its scan, and to have seen of a file that
\* bears its peer's address what was written last, unless it did without it, the
\* file was removed, the kernel lost events or the server is going down.
ConfigReachesHandler ==
    <>[](\/ lost \/ server \in {"drop", "stopped"}
         \/ \A f \in Recognised \cap present :
               LET h == peer_handlers[Stems[f]]
               IN  h # 0 /\ Written(f) => Scanned(h) /\ seen[h][f] \in {Unread, content[f]})
=============================================================================
