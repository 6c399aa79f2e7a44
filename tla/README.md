# A TLA+ model of RTFTP

RTFTP is a TFTP server for read requests. It serves each peer address from a
directory of its own, from a remote NBD disk, and from a `default` directory.
This directory holds a model of its concurrent core in TLA+, the configurations
that check it with TLC, and proofs checked with TLAPS. `PROJECT.json` lists the
components, the runs, the lines each definition models, the findings, the hazards
and the theorems. Line numbers below refer to files under `src/src/`.

## The system

| part | state | operations | code |
|---|---|---|---|
| server | one thread; map address -> handler | take a request, feed it to the peer's handler, replace a handler when its configuration changes, forget finished handlers, shut down | `server.rs`, `main.rs` |
| peer handler | a thread; channel of 10 requests; map port -> session task; idle timer | take a request, schedule a session, poll for idleness, close, wait for sessions | `peer_handler/mod.rs` 229-407 |
| read session | a task; socket, file, window of DATA datagrams, scratch buffer | negotiate, send the OACK, fill the window, send it, read an ACK, retry | `peer_handler/mod.rs` 33-192, 409-578, `options`, `datagram_stream.rs` |
| opened file | a local file's position, or a chunk of a remote file and the offset in it | open, tell the size, read a block | `local_fs/mod.rs`, `remote_fs.rs` 114-281, `guestfs/mod.rs` 293-340 |
| roots | own directory, remote disk, default directory | look for a configuration, set an appliance up, mount, open a file | `nbd_disk/mod.rs`, `remote_fs.rs`, `guestfs/mod.rs`, `local_fs/mod.rs` |
| file system watch | inotify descriptor, event queue with a waker | read events, hand them to the server | `fs_watch/` |
| datagrams | cursors over buffers that are reused | parse requests and replies, build OACK and ERROR | `messages`, `cursor`, `error.rs` |

A request comes to the server's thread, which feeds it to the thread of the peer's
handler; that thread opens the file in the first root that has it and spawns a
session on its own single-threaded runtime. Sessions talk to the client through
sockets of their own. The server blocks while a channel is full and while it joins
the thread of a handler that is replaced or closed.

What is hard here: datagrams that are lost, late or repeated against a window of
u16 indexes; a buffer shared by what is sent and what is received; sessions that
end between two looks at the map that lists them; an idle timeout racing requests;
handlers replaced while their sessions run; a configuration that is read once, while it
may be being written; an appliance that fails halfway; short reads that mean the end of
a file.

## Modules

* `Session` is the task `send`. `pc` names its place between two awaits or loop
  heads, the other variables are its locals. Actions are the arms of the code:
  `Negotiate`, `SendOack`, `RecvOackAck`, `OackTimeout`, `OackRefused` (negotiation),
  `LoopHead`, `PushBlock`, `ReadFails`, `WindowFull` (`send_file`), `SendBlock`,
  `SendFails`, `RecvAck`, `AckTimeout`, `RecvClientError` and `RecvBroken`
  (`send_reliably`). A block of the file is its number.
* `Transfer` adds the client, which is not in the repository, and the network: the set
  of datagrams ever sent, so that each may arrive late, twice, out of order or never.
  The client keeps an in-order prefix and acknowledges it whenever it likes.
* `Delivery` is what a session promises its client, without datagrams, indexes, slots or
  attempts: blocks arrive in order, at most a window ahead of what is confirmed, and
  success is reported only when less than a window is unconfirmed.
  `Transfer!ImplementsDelivery` maps a transfer to it.
* `TimelyTransfer` restricts `Transfer` to datagrams that arrive in time or not at
  all, and at most `MaxLosses` losses. Only there may block indexes wrap around
  without a late datagram being taken for a new one, and only there is delivery
  promised.
* `PeerHandler` is the thread of a handler, its tasks, and the server's calls on it. A
  task is an identifier and a port, so that two tasks on one port would show. Time is
  counted in polls of one second. Leaving the loop and closing the channel are two
  steps, because the server's thread runs between them.
* `Handler` is what the server may expect of a handler: no timers, no map, no
  capacity. `HandlerSpec` makes a specification of it, and
  `PeerHandler!ImplementsHandler` states that `PeerHandler` implements that
  specification.
* `Server` is the server's thread with handlers that behave as `Handler` says.
* `ConfigWatch` extends `Server` by what leads to its event `ConfigModified`: files that
  are written, moved into the directory and removed, the kernel's queue of inotify events
  with its limit and its merging of equal events, the task `read_loop`, the queue and the
  waker of `async_channel.rs`, and the server's task that sleeps in its `select!`. A
  handler lists the directory (`List`) and then looks at one matching file after the other
  (`ReadFile`), so that it may see an old, a new, a half-written or a removed one.
  `Matching` says for which addresses a file is looked at (its name starts with the
  address), `Stems` which address an event for it concerns (the name without its
  extension); the two need not agree. `read_loop` and the server share a thread.
* `Datagrams` holds the cursors, the parser of read requests and the builders of OACK and
  ERROR as operators on sequences of bytes. `Buffers` is the life of the two kinds of
  buffers they work on, the server's and a session's, each zeroed once and then reused
  for what is received and what is sent.
* `FileReader` is an opened file: `LocalOpenedFile`, or `FileReader` and `FileChunk` of
  `remote_fs.rs` over an appliance that returns chunks of any length. It includes the
  size that is announced as tsize, and an owner who truncates the file or appends to it
  at any time.
* `Roots` is `open_nbd_root`, `attach_nbd_disk`, `NBDConfig::connect`, `Mount` and
  `schedule_task`. A configuration file is the address it is named after and what
  `connect` makes of it; each call that sets the appliance up may fail.
* `MC*` modules give constants their values; `*Proofs` hold the theorems.

Operators called a mutant in their comment are wrong variants of the definition that
follows them. They are not used; put in its place, each makes TLC report the property
that `PROJECT.json` names for it.

## Runs

| run | module, configuration | shows |
|---|---|---|
| `transfer` | `MCTransfer`, `Transfer.cfg` | safety and termination of a session, windows 1 to 4, every kind of request; with a window of one block, sent means complete; `Delivery` is implemented |
| `lock_step_wrap` | `MCTimelyTransfer`, `LockStepWrap.cfg` | files of more blocks than indexes are delivered with windows of one block |
| `peer_handler` | `MCPeerHandler`, `PeerHandler.cfg` | sessions are neither doubled nor forgotten, a shutdown ends, `HandlerSpec` is implemented |
| `server` | `MCServer`, `Server.cfg` | endpoints are served once, no stray threads, a handler leaves no request unserved but those sent after it left its loop, the server is never blocked for ever |
| `config_watch` | `MCConfigWatch`, `ConfigWatch.cfg` | no event waits for a sleeping server; a handler with an outdated configuration under its peer's address is on its way to be replaced, and comes to be, unless the kernel lost events |
| `buffers` | `MCBuffers`, `Buffers.cfg` | requests are parsed as a reference definition of their format says, replies are read as what they are in spite of stale bytes, a session's first datagram is intact |
| `file_reader` | `MCFileReader`, `FileReader.cfg` | blocks concatenate to the file, only the last is short, tsize is the size sent |
| `roots` | `MCRoots`, `Roots.cfg` | disks with all their mounts, the peer's own before those of other addresses, no appliance left behind, the peer's own directory before other roots |

Four more runs each refute one statement that the code's own messages or tests make;
`PROJECT.json` quotes them.

| run | statement refuted |
|---|---|
| `window_wrap` | a fresh ACK is not one from the past: fails for a window of two or more that straddles the wrap-around of the index |
| `final_window` | a transfer reported as sent is complete: fails when the last window is acknowledged in part |
| `session_limit` | at most `MAX_SESSIONS_PER_IP` sessions |
| `error_terminator` | an ERROR ends with the terminator of its message: fails in a buffer that held a longer datagram |

### Bounds

* `transfer`: 9 blocks, windows up to 4, 3 attempts, 16 indexes: windows that do and do
  not divide the file, a partial last window, retries and their exhaustion. `Modulus`
  exceeds `Blocks`, so indexes do not wrap around; the proofs make the same assumption.
* `lock_step_wrap`: 4 indexes and 10 blocks wrap around twice; 2 losses, 3 attempts.
* `peer_handler`: 3 ports, 4 requests, a channel of 2, a map of capacity 1, an idle
  timeout of 1 poll and 5 polls: repeated requests, a full channel, a full map, a
  session across polls and an idle close all occur.
* `server`: 2 addresses, 2 ports, 3 handlers, 3 requests, a channel of 1: a handler is
  replaced, or closes, twice for one address, or next to another address.
* `config_watch`: the peers 10.0.0.1 and 10.0.0.10, the files `10.0.0.1` and
  `10.0.0.10.nbd`, of which both concern the first peer and neither is announced to it, 2
  changes, 1 event in the kernel's queue, 3 handlers and 1 request: a file appears,
  changes or goes while it is being read, events are lost, and a handler is replaced
  after every write. That the kernel merges equal events needs a longer queue and is left
  to the proofs.
* `buffers`: 14 bytes, 2 datagrams received into a buffer; every request of up to 5 bytes
  after the opcode over a terminator, a letter and a byte that is not UTF-8, more with
  options, and replies whole and cut short. Two datagrams are enough for the second to
  meet what the first has left, and an answer to meet both.
* `file_reader`: up to 8 bytes in chunks of up to 3, blocks smaller than, as large as
  and larger than a chunk, 2 changes of the size.
* `roots`: 4 files, two of the peer, one that matches it by prefix and one that does not
  match, with 6 contents each; 3 partitions of
  which 2 are listed, lists of mounts with an unlisted partition first, last, or not at
  all.

Deadlock checking is off where the system ends (a session returns, a handler finishes, a
server stops) or a bound stops the inputs.

### Fairness

* `Transfer!FairSpec`: the task is polled and its timers fire. Nothing is assumed of the
  client or the network.
* `TimelyTransfer!TimelySpec`: in addition, what is not lost arrives, and the client
  answers; delivery cannot be promised with less.
* `PeerHandler!FairSpec`: the thread runs and each session ends, which `SessionEnds`
  justifies. Opening the roots is assumed to return, which `ScanEnds` justifies.
* `Server!FairSpec`: the threads run. Nothing obliges requests or events to arrive.
* `ConfigWatch!FairWatchSpec`: in addition, `read_loop` is polled when its descriptor is
  readable, and the server takes a queued event: `select!` polls its branches in random
  order. Nothing obliges a writer to close its file; the property speaks of files that
  are written to the end.
* `FileReader`, `Roots`: the appliance answers.

## Proofs

`TransferProofs` proves, for every constant that satisfies `ConstantsAssumption`:

* `TypeCorrect` and `DataAfterOackAcknowledgedHolds` without further assumption;
* `WindowBound`, `AcknowledgedIsReceived`, `WindowIntact`, `ReceivedIsPrefix`,
  `FreshAckAccepted`, `ForwardOnly`, `LockStepComplete` and the refinement
  `ImplementsDelivery` under `NoWrap`, that is `Blocks < Modulus`. It cannot
  be dropped. `window_wrap` shows that `FreshAckAccepted` fails in a window that straddles
  the wrap-around; a size that divides 65535 (3, 5, 15, ...) has no such window at the first
  turn of the indexes, as long as every window is acknowledged whole. `WindowIntact` fails
  when the size of such a window does not divide 65536: in one of 6 blocks the indexes 65533
  and 1 have the same slot, and collide while the window is being filled. A duplicate of an
  ACK that is delayed by a whole turn of the indexes breaks `WindowBound`, which `send_file`
  asserts. That `LockStepComplete`
  cannot be stated for larger windows is shown by `final_window`.

None of these is inductive. The invariant `SafeInv` adds: `Chain`, the order
`last_acknowledged_index <= received <= last_read_index = file_pos` between the three
positions; `Wire`, that every DATA datagram ever sent carries the block of its index and
every ACK is of a block the client holds; `Slots`, that the slots of unacknowledged blocks
hold them; `Phase`, how far the window is filled at each place of the task; and
`Progress`, that the loop goes on, and ends, with less than a window unacknowledged. Distinct
blocks of a window have distinct slots because they are less than `window` apart
(`ModDistinct`).

`PeerHandlerProofs` proves type correctness, `RunningIsTracked`, `OneSessionPerPort`,
`ReturnedIsQuiet`, `NoIdleCloseWhileServing` and the refinement `ImplementsHandler` for
any ports, capacity and bounds. `OneSessionPerPort` is not inductive, since `Schedule`
looks at the map and not at the tasks; the invariant is that the map is right about every
running task, although it may list finished ones. The refinement needs it too: `Handler`
starts no second session on a port, and leaves its loop for idleness only without sessions.

`ServerProofs` proves type correctness, `OneSessionPerEndpoint`, `NoStrayHandler` and
`OnlyLateLoss` for any addresses, ports and bounds. The invariant relates the place of the
server's thread to what it holds (`ControlInv`: a handler is joined only at a join, a
request is pending only at a feed), the map to the handlers (`MapInv`: each address has a
handler of its own), and the handlers to each other (`HandlersInv`: one that has finished
runs nothing, one that is not in the map has finished or is being joined, and the one in the
map runs nothing before the previous one was joined). The last is why no endpoint is served
twice: a new handler cannot be fed while the server waits for the old one. `OnlyLateLoss`
says that a handler that has left its loop leaves no request in its channel but those sent
after that, and that these and the one that met the closed channel are at most one more than
the channel holds. Its invariant, `LossInv`, counts for each handler what was sent too late:
as much as waits in its channel while it is in the map, and one more at most when it is not,
since the server drops it at the first request it refuses and never maps it again.

`FileReaderProofs` proves type correctness, `ReadsTheFile`, `ShortOnlyAtEnd` and
`AnnouncedIsSent` for every file, chunk and block size. The invariant says where the chunk
lies in the file (`ReaderInv`: its rest starts at `current_offset`), that the size taken at
the opening is at least the smallest size so far, and reading ends no earlier (`SizeInv`), and
what holds while nobody has changed the file (`UnchangedInv`). `SpanConcat` and
`SpanSubSeq` say how spans of the file are joined and cut.

`RootsProofs` proves type correctness, `FullyMounted`, `NoApplianceLeft`, `OwnDiskFirst` and
`LocalTakesPrecedence` for every list of files and every number of partitions. The invariant
adds that the files passed by the scan were given up or do not match (`ScanInv`), that a disk
is of a file that matches (`MatchInv`), and that the mounts made so far are a prefix of the
configuration's (`MountInv`). `OwnDiskFirst` rests on an assumption about the sorted names
(`RootsAssumption`): the files of an address, with or without an extension, come before those
of the addresses it is a prefix of, since a dot sorts before digits, letters and colons. A
name that goes on otherwise, like `10.0.0.1-old`, is not named after an address and is outside
this model.

The last part of `TransferProofs` drops `NoWrap`: for windows of one block (`LockStep`), any number of
blocks and any modulus of two or more, it proves `ReceivedIsPrefix`, `FreshAckAccepted` and
`ImplementsDelivery` of timely transfers, and that a session never fails and reports success
only when the client has the whole file (`LockStepSucceeds`), given at most
`SEND_ATTEMPTS - 1` losses. The invariant `LockStepInv` says that at most one block is
unacknowledged, so that its index is told from the previous one however often the indexes
wrapped around (`Counters`), where in the task that is so (`Place`), and that an attempt was
made for every loss and once more (`Attempts`). `TimelyImplementsTransfer` states that a
timely behaviour is one of `Transfer`.

`ConfigWatchProofs` proves `WatchTypeOK`, `NoSleepingEvent` and `StaleIsAnnounced` for any
addresses and files, however the names of the ones relate to the others, any limit of the
kernel's queue and any number of changes, and that the server with its watch implements
`Server` (`WatchImplementsServer`), so that the theorems of `ServerProofs` hold of it. The
invariant adds that no file changed more often than changes have begun (`DiskInv`), that a
kernel's queue beyond its limit holds the event that says so (`KernelInv`), and that a handler
that was not created has seen nothing (`SeenInv`).

`BuffersProofs` proves `ReadsTheReply` and `FirstDatagramReadsBack`, and that there is room for
every datagram the code builds (`DatagramsFit`); `ParserProofs` proves `ParsesTheRequest`; all
for datagrams, buffers, messages and lists of options of any length. `BuffersAssumption` says that what is
received and what is built is no longer than the buffer. The state invariant is short; the
work is in what the operators compute. A property of the passes of a loop is proved with
`Stepwise`, induction over the numbers up to `n` for a set in place of a predicate, and
`Recursion`, that a definition by recursion over them has a solution. The parser's loop over
the options is compared with the reference definition, which cuts the datagram at its NULs
without a loop, pass by pass: pass `k` starts at the field `2k + 3`, or has ended there.

Type correctness of `PeerHandler`, `Server` and `FileReader` is proved and not among the
properties of their runs.

So every safety invariant and every action property of a passing run has a theorem, for the
assumptions named above.

### Termination

The liveness properties rest on fairness and `ENABLED`, which are out of the prover's reach,
and are only model-checked: `SessionEnds`, `Delivered`, `ShutdownCompletes`, `ServerReturns`,
`ReadingEnds`, `ScanEnds` and `ConfigReachesHandler`. For five of them the part that is a
safety property is proved: a rank, a tuple of numbers ordered lexicographically, goes down
with every step, in an order that is shown to be well-founded.

| theorem | rank | supports |
|---|---|---|
| `TransferProofs!SessionDescendsAlways` | stage of the session, blocks not acknowledged, part of the loop of `send_file`, blocks not read, attempts left, blocks the attempt has left to send | `SessionEnds` |
| `FileReaderProofs!ReadingDescendsAlways` | stage of the file, bytes left, what comes before the next byte | `ReadingEnds` |
| `RootsProofs!ScanDescendsAlways` | scan or service, files left, what is left for the present file, calls or mounts left | `ScanEnds` |
| `PeerHandlerProofs!ShutdownDescendsAlways` | stage of the thread, requests in the channel, tasks | `ShutdownCompletes` |
| `ServerProofs!HandlersDescend` | of each handler: phase, requests in the channel, sessions | `ServerReturns` |

Changes by others (the client and the network, the owner of the file, requests, time) leave
the rank alone. What is left to TLC is that a step is possible until the end is reached and
that fairness makes it happen. For the server the first of these is proved too:
`ServerProofs!NeverStuck` says that wherever its thread blocks, it can go on or the handler it
waits for can move; it rests on `BlockInv`, that the handler being joined has lost its sender. The rank of a session counts by block indexes, and so needs
`NoWrap`.

## Not modelled

* Path names, JSON, the decimal texts of option values, the wording of messages, logging.
* The memory side of the libguestfs binding: pointers, freeing, the event callback. What its
  calls do and how they fail is in `Roots` and `FileReader`.
* The layout of an inotify event in memory: an event is a name and a mask, and
  `parse_events` yields the events of a read without its offsets and lengths.
* What becomes of a lost event: when the kernel's queue overflows, the code does nothing to
  catch up. `ConfigWatch` has the overflow, and its properties hold up to it.
* The command line and the construction of the objects in `main.rs`.
* Panics: a socket that cannot be bound, a thread or an appliance handle that cannot be
  created, partition 0 in a debug build (in a release build the index wraps around, and
  that is modelled). A panic of a handler's thread makes the server's join fail.
* An OACK or ERROR that does not fit its buffer: the buffer has 65535 bytes, and
  `DatagramsFit` shows that what is smaller always fits.
* Files that change while `Roots` scans the directory. Changes are in `ConfigWatch`, which in
  turn leaves open what a file contains and whether its disk can be connected.

## Where documents and code differ, and what is left open

Beside the findings, two lines of the repository's README differ from the code in ways that no
run refutes; the properties of `Roots` are stated so that they agree with both.

* By `README.md` 13 the file for the client X.X.X.X is `X.X.X.X.nbd`, and by line 88 other
  clients get nothing of it. `match_ip` (`nbd_disk/mod.rs` 145) takes every file whose name
  starts with the client's address, so that 10.0.0.1 is served the disk of `10.0.0.10.nbd` when
  it has none of its own that can be connected. `OwnDiskFirst` says only that its own come first.
* By `README.md` 85, 87 and 94 a file of the `default` directory, which is local, comes before the
  same file of the NBD disk; by line 42 `default` is tried when there is neither a directory nor
  an NBD configuration. The code (`peer_handler/mod.rs` 245-251) tries the own directory, the
  disk, then `default`. `LocalTakesPrecedence` speaks of the client's own directory, about which
  all agree, and of files that no root has.

What a handler has read may also stay outdated for good, in ways that `StaleIsAnnounced` and
`ConfigReachesHandler` except. An event replaces the handler of the address that the file's name
without its extension is (`server.rs` 50-53). So nothing tells the handler of 10.0.0.1 that
`10.0.0.10.nbd`, whose disk it may use, or a file `10.0.0.1` without extension has changed. And
`Watch::change` does not ask for files that are deleted or moved away, so that a handler keeps the
disk of a configuration that is gone until it closes. The README promises a new setup only when a
configuration appears (lines 45 and 98).

Some behaviours are in the model and in the list of hazards, but no run refutes anything
about them, since the repository does not promise the contrary. A repeated OACK is sent from
a buffer that an ignored datagram may have overwritten (`Buffers!RepeatOack`). A session that
starts and ends between two polls does not count as activity (`PeerHandler!Elapsed`). A
repeated ACK of an earlier block aborts the transfer (`Session!RecvAck`).
