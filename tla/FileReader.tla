----------------------------- MODULE FileReader -----------------------------
(***************************************************************************)
(* An opened file (OpenedFile of fs.rs) as a session uses it: asked for    *)
(* its size by the negotiation of tsize, then read in blocks of the size   *)
(* the session has negotiated until a block is short (send_file).          *)
(*                                                                         *)
(*   "local"   LocalOpenedFile of local_fs: a file of the operating system *)
(*   "remote"  FileReader of remote_fs.rs: a file of the remote disk, read *)
(*             from the appliance in chunks                                *)
(*                                                                         *)
(* The i-th byte of a file is the number i.  Its owner may truncate it or  *)
(* append to it at any time.                                               *)
(***************************************************************************)
EXTENDS Integers, Sequences, FiniteSetsExt

CONSTANTS
    MaxSize,      \* bound: bytes of a file
    MaxWrites,    \* bound: how often its owner changes its size
    CHUNK_SIZE,   \* bytes asked of guestfs_pread at once
    BlockSizes    \* the block sizes sessions negotiate

ASSUME FileReaderAssumption ==
    /\ MaxSize \in Nat /\ MaxWrites \in Nat
    /\ CHUNK_SIZE \in Nat \ {0}
    /\ BlockSizes \subseteq Nat \ {0}

VARIABLES
    pc,              \* "open", "stat" (remote), "size", "ready", "loop" (in
                     \* read_to, remote), "end" or "failed"
    kind,            \* "local" or "remote"
    block_size,      \* length of the buffer given to read_to
    bytes,           \* the size of the file
    writes,          \* how often it has changed
    least,           \* history: the smallest size so far
    file_size,       \* FileReader::file_size
    announced,       \* the tsize sent to the peer, NotAnnounced for none
    current_offset,  \* FileReader::current_offset, or the position of the local file
    chunk,           \* FileChunk::buffer
    offset,          \* FileChunk::offset
    read,            \* bytes put into the buffer by the current call
    obtained         \* every byte returned by the completed calls and put into
                     \* the buffer by the current one

file   == <<bytes, writes, least>>
opened == <<kind, block_size, file_size, announced>>
reader == <<current_offset, chunk, offset, read, obtained>>
vars   == <<pc, file, opened, reader>>

NotAnnounced == -1

\* n bytes of the file after the first `from'.
Span(from, n) == [i \in 1 .. n |-> from + i]

TypeOK ==
    /\ pc \in {"open", "stat", "size", "ready", "loop", "end", "failed"}
    /\ kind \in {"local", "remote"}
    /\ block_size \in BlockSizes
    /\ bytes \in 0 .. MaxSize /\ writes \in 0 .. MaxWrites /\ least \in 0 .. bytes
    /\ file_size \in 0 .. MaxSize
    /\ announced \in 0 .. MaxSize \cup {NotAnnounced}
    /\ current_offset \in 0 .. MaxSize
    /\ chunk \in Seq(1 .. MaxSize) /\ Len(chunk) <= CHUNK_SIZE
    /\ offset \in 0 .. Len(chunk)
    /\ read \in 0 .. block_size
    /\ obtained \in Seq(1 .. MaxSize)

Init ==
    /\ pc = "open"
    /\ kind \in {"local", "remote"}
    /\ block_size \in BlockSizes
    /\ bytes \in 0 .. MaxSize /\ writes = 0 /\ least = bytes
    /\ file_size = 0
    /\ announced = NotAnnounced
    /\ current_offset = 0
    /\ chunk = << >>
    /\ offset = 0
    /\ read = 0
    /\ obtained = << >>

\* The owner of the file.
Write ==
    /\ writes < MaxWrites
    /\ writes' = writes + 1
    /\ bytes' \in 0 .. MaxSize
    /\ least' = Min({least, bytes'})
    /\ UNCHANGED <<pc, opened, reader>>
-----------------------------------------------------------------------------
(* Opening the file, and its size *)

\* What guestfs_pread may return: nothing at the end of the file only, else as
\* much of it as the appliance likes.
Chunks(from) ==
    IF from >= bytes THEN {<< >>}
    ELSE {Span(from, n) : n \in 1 .. Min({bytes - from, CHUNK_SIZE})}

\* LocalRoot::open
OpenLocal ==
    /\ pc = "open" /\ kind = "local"
    /\ pc' = "size"
    /\ UNCHANGED <<file, opened, reader>>

\* ConnectedDisk::open asks for the size of the file ...
Stat ==
    /\ pc = "open" /\ kind = "remote"
    /\ pc' = "stat"
    /\ file_size' = bytes
    /\ UNCHANGED <<file, kind, block_size, announced, reader>>

\* ... and FileReader::open reads the first chunk.
Open ==
    /\ pc = "stat"
    /\ pc' = "size"
    /\ chunk' \in Chunks(0)
    /\ UNCHANGED <<file, opened, current_offset, offset, read, obtained>>

OpenFails ==
    /\ pc \in {"open", "stat"}
    /\ pc' = "failed"
    /\ UNCHANGED <<file, opened, reader>>

\* Mutant: the local file stays at its end.
GetSizeAtEnd ==
    /\ pc = "size"
    /\ pc' = "ready"
    /\ announced' = IF kind = "local" THEN bytes ELSE file_size
    /\ current_offset' = IF kind = "local" THEN bytes ELSE current_offset
    /\ UNCHANGED <<file, kind, block_size, file_size, chunk, offset, read, obtained>>

\* TSize::obtain.  A local file is sought to its start, to its end and back to
\* where the first of these found itself, the start.
GetSize ==
    /\ pc = "size"
    /\ pc' = "ready"
    /\ announced' = IF kind = "local" THEN bytes ELSE file_size
    /\ current_offset' = IF kind = "local" THEN 0 ELSE current_offset
    /\ UNCHANGED <<file, kind, block_size, file_size, chunk, offset, read, obtained>>

\* No tsize was requested, or the file does not seek.
NoSize ==
    /\ pc = "size"
    /\ pc' = "ready"
    /\ UNCHANGED <<file, opened, reader>>
-----------------------------------------------------------------------------
(* read_to *)

\* A read of a local file is short at its end only.
ReadLocal ==
    /\ pc = "ready" /\ kind = "local"
    /\ read' = Min({block_size, IF current_offset < bytes THEN bytes - current_offset ELSE 0})
    /\ obtained' = obtained \o Span(current_offset, read')
    /\ current_offset' = current_offset + read'
    /\ pc' = IF read' < block_size THEN "end" ELSE "ready"
    /\ UNCHANGED <<file, opened, chunk, offset>>

ReadLocalFails ==
    /\ pc = "ready" /\ kind = "local"
    /\ pc' = "failed"
    /\ UNCHANGED <<file, opened, reader>>

Call ==
    /\ pc = "ready" /\ kind = "remote"
    /\ pc' = "loop"
    /\ read' = 0
    /\ UNCHANGED <<file, opened, current_offset, chunk, offset, obtained>>

Available == Len(chunk) - offset

\* Mutant: a block ends with the chunk.
WantedOfChunk == current_offset < file_size /\ read < block_size /\ Available > 0

\* Condition of the while loop of read_to.
Wanted == current_offset < file_size /\ read < block_size

\* FileChunk::fill copies what is left of the chunk and fits the buffer.
Fill ==
    /\ pc = "loop" /\ Wanted
    /\ Available > 0
    /\ LET copied == Min({Available, block_size - read})
       IN  /\ obtained' = obtained \o SubSeq(chunk, offset + 1, offset + copied)
           /\ offset' = offset + copied
           /\ read' = read + copied
           /\ current_offset' = current_offset + copied
    /\ UNCHANGED <<pc, file, opened, chunk>>

\* Mutant: the next chunk is read at the offset within the chunk.
RefillFromChunkOffset ==
    /\ pc = "loop" /\ Wanted
    /\ Available = 0
    /\ \E next \in Chunks(offset) :
           /\ pc' = IF next = << >> THEN "end" ELSE pc
           /\ chunk' = IF next = << >> THEN chunk ELSE next
           /\ offset' = IF next = << >> THEN offset ELSE 0
    /\ UNCHANGED <<file, opened, current_offset, read, obtained>>

\* Mutant: an empty chunk does not break the loop.
RefillGoesOn ==
    /\ pc = "loop" /\ Wanted
    /\ Available = 0
    /\ chunk' \in Chunks(current_offset)
    /\ offset' = 0
    /\ UNCHANGED <<pc, file, opened, current_offset, read, obtained>>

\* buffer_new_chunk, at the offset reached; an empty chunk breaks the loop.
Refill ==
    /\ pc = "loop" /\ Wanted
    /\ Available = 0
    /\ \E next \in Chunks(current_offset) :
           IF next = << >>
             THEN /\ pc' = "end"
                  /\ UNCHANGED <<chunk, offset>>
             ELSE /\ chunk' = next
                  /\ offset' = 0
                  /\ UNCHANGED pc
    /\ UNCHANGED <<file, opened, current_offset, read, obtained>>

RefillFails ==
    /\ pc = "loop" /\ Wanted
    /\ Available = 0
    /\ pc' = "failed"
    /\ UNCHANGED <<file, opened, reader>>

\* read_to returns; a short block is the last one the session asks for.
Return ==
    /\ pc = "loop" /\ ~Wanted
    /\ pc' = IF read < block_size THEN "end" ELSE "ready"
    /\ UNCHANGED <<file, opened, reader>>

Progress ==
    \/ OpenLocal \/ Stat \/ Open \/ GetSize \/ NoSize
    \/ ReadLocal \/ Call \/ Fill \/ Refill \/ Return

Next == Progress \/ OpenFails \/ ReadLocalFails \/ RefillFails \/ Write

\* The session goes on reading, and the appliance answers.
Spec == Init /\ [][Next]_vars /\ WF_vars(Progress)
-----------------------------------------------------------------------------
(* Properties *)

\* What read_to hands out is the file, byte by byte and in order, however the
\* chunks of the appliance and the blocks of the session overlap.
ReadsTheFile == obtained = Span(0, current_offset)

\* A short block, which ends the transfer in send_file, is returned only when
\* every byte the file had throughout has been handed out: a file that is
\* changed while it is sent does not lose what was there before and after.
ShortOnlyAtEnd == pc = "end" => Len(obtained) >= least

\* The peer gets as many bytes as the tsize it was told, if nobody changes the
\* file: asking for the size does not disturb the reading.
AnnouncedIsSent ==
    pc = "end" /\ announced # NotAnnounced /\ writes = 0 => Len(obtained) = announced

\* A file that can be read is read to its end in finitely many calls, once its
\* owner leaves it alone.
ReadingEnds == <>(pc \in {"end", "failed"})
=============================================================================
