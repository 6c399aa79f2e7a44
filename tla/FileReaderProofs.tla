-------------------------- MODULE FileReaderProofs --------------------------
(***************************************************************************)
(* Theorems about FileReader, for every size of files, chunks and blocks   *)
(* and every number of writes.                                             *)
(*                                                                         *)
(* The invariant says where the chunk lies in the file: its bytes are      *)
(* those that follow the first current_offset - offset.                    *)
(***************************************************************************)
EXTENDS FileReader, SequenceTheorems, WellFoundedInduction, TLAPS

ReaderInv ==
    /\ ReadsTheFile
    /\ chunk = Span(current_offset - offset, Len(chunk))
    /\ offset <= current_offset /\ current_offset - offset + Len(chunk) <= MaxSize
    /\ kind = "local" => chunk = << >> /\ pc \notin {"stat", "loop"}
    /\ pc \in {"open", "stat", "size"} => current_offset = 0 /\ offset = 0

SizeInv ==
    /\ kind = "remote" /\ pc \notin {"open", "failed"} => file_size >= least
    /\ pc = "end" => current_offset >= least

UnchangedInv ==
    writes = 0 =>
        /\ least = bytes
        /\ announced \in {NotAnnounced, bytes}
        /\ current_offset - offset + Len(chunk) <= bytes
        /\ kind = "remote" /\ pc \notin {"open", "failed"} => file_size = bytes

Inv == TypeOK /\ ReaderInv /\ SizeInv /\ UnchangedInv
-----------------------------------------------------------------------------
(***************************************************************************)
(* Minima, and spans of a file.                                            *)
(***************************************************************************)

\* The smaller of two numbers.
LEMMA MinFacts ==
    ASSUME NEW a \in Int, NEW b \in Int
    PROVE  Min({a, b}) \in {a, b} /\ Min({a, b}) <= a /\ Min({a, b}) <= b
<1>1. \E x \in {a, b} : \A y \in {a, b} : x <= y
  <2>1. CASE a <= b
    BY <2>1
  <2>2. CASE b <= a
    BY <2>2
  <2> QED BY <2>1, <2>2
<1>2. Min({a, b}) \in {a, b} /\ \A y \in {a, b} : Min({a, b}) <= y
  BY <1>1 DEF Min
<1> QED BY <1>2

\* A span is a sequence of its bytes.
LEMMA SpanFacts ==
    ASSUME NEW f \in Nat, NEW n \in Nat
    PROVE  /\ Span(f, n) \in Seq(Nat) /\ Len(Span(f, n)) = n
           /\ \A i \in 1 .. n : Span(f, n)[i] = f + i
           /\ \A m \in Nat : f + n <= m => Span(f, n) \in Seq(1 .. m)
BY DEF Span

\* Reading on.
LEMMA SpanConcat ==
    ASSUME NEW n \in Nat, NEW k \in Nat
    PROVE  Span(0, n) \o Span(n, k) = Span(0, n + k)
<1> DEFINE s == Span(0, n)
           t == Span(n, k)
           u == Span(0, n + k)
<1>1. /\ s \in Seq(Nat) /\ Len(s) = n /\ \A i \in 1 .. n : s[i] = i
      /\ t \in Seq(Nat) /\ Len(t) = k /\ \A i \in 1 .. k : t[i] = n + i
      /\ u \in Seq(Nat) /\ Len(u) = n + k /\ \A i \in 1 .. n + k : u[i] = i
  <2>1. n + k \in Nat /\ 0 \in Nat
    OBVIOUS
  <2>2. u \in Seq(Nat) /\ Len(u) = n + k /\ \A i \in 1 .. n + k : u[i] = 0 + i
    BY <2>1, SpanFacts
  <2>3. s \in Seq(Nat) /\ Len(s) = n /\ \A i \in 1 .. n : s[i] = 0 + i
    BY <2>1, SpanFacts
  <2>4. t \in Seq(Nat) /\ Len(t) = k /\ \A i \in 1 .. k : t[i] = n + i
    BY SpanFacts
  <2> HIDE DEF s, t, u
  <2> QED BY <2>2, <2>3, <2>4
<1> HIDE DEF s, t, u
<1>2. /\ s \o t \in Seq(Nat) /\ Len(s \o t) = n + k
      /\ \A i \in 1 .. n + k : (s \o t)[i] = IF i <= n THEN s[i] ELSE t[i - n]
  <2>1. /\ s \o t \in Seq(Nat) /\ Len(s \o t) = Len(s) + Len(t)
        /\ \A i \in 1 .. Len(s) + Len(t) :
               (s \o t)[i] = IF i <= Len(s) THEN s[i] ELSE t[i - Len(s)]
    BY ONLY <1>1, ConcatProperties, SMTT(30)
  <2> QED BY Zenon, <1>1, <2>1
<1>3. \A i \in 1 .. n + k : (s \o t)[i] = u[i]
  BY SMTT(30), <1>1, <1>2
<1>4. s \o t = u
  BY Zenon, <1>1, <1>2, <1>3, SeqEqual
<1> QED BY <1>4 DEF s, t, u

\* Part of a chunk.
LEMMA SpanSubSeq ==
    ASSUME NEW f \in Nat, NEW n \in Nat, NEW a \in Nat, NEW k \in Nat, a + k <= n
    PROVE  SubSeq(Span(f, n), a + 1, a + k) = Span(f + a, k)
<1> DEFINE s == Span(f, n)
           t == Span(f + a, k)
<1>1. /\ s \in Seq(Nat) /\ \A i \in 1 .. n : s[i] = f + i
      /\ t \in Seq(Nat) /\ Len(t) = k /\ \A i \in 1 .. k : t[i] = f + a + i
  <2>1. f + a \in Nat
    OBVIOUS
  <2>2. s \in Seq(Nat) /\ \A i \in 1 .. n : s[i] = f + i
    BY SpanFacts
  <2>3. t \in Seq(Nat) /\ Len(t) = k /\ \A i \in 1 .. k : t[i] = f + a + i
    BY <2>1, SpanFacts
  <2> QED BY <2>2, <2>3
<1> HIDE DEF s, t
<1>2. \A i \in a + 1 .. a + k : s[i] \in Nat
  BY <1>1
<1>3. /\ SubSeq(s, a + 1, a + k) \in Seq(Nat) /\ Len(SubSeq(s, a + 1, a + k)) = k
      /\ \A i \in 1 .. k : SubSeq(s, a + 1, a + k)[i] = s[a + i]
  <2> DEFINE m == a + 1
             l == a + k
  <2>1. m \in Int /\ l \in Int /\ \A i \in m .. l : s[i] \in Nat
    BY <1>2
  <2> HIDE DEF m, l
  <2>2. /\ SubSeq(s, m, l) \in Seq(Nat)
        /\ Len(SubSeq(s, m, l)) = IF m <= l THEN l - m + 1 ELSE 0
        /\ \A i \in 1 .. l - m + 1 : SubSeq(s, m, l)[i] = s[m + i - 1]
    BY <2>1, SubSeqProperties
  <2> QED BY <2>2 DEF m, l
<1>4. SubSeq(s, a + 1, a + k) = t
  BY <1>1, <1>3, SeqEqual
<1> QED BY <1>4 DEF s, t

\* What the appliance returns.
LEMMA ChunkFacts ==
    ASSUME TypeOK, NEW from \in 0 .. MaxSize, NEW next \in Chunks(from)
    PROVE  /\ next = Span(from, Len(next)) /\ Len(next) \in 0 .. CHUNK_SIZE
           /\ next \in Seq(1 .. MaxSize)
           /\ next = << >> <=> from >= bytes
           /\ from < bytes => from + Len(next) <= bytes /\ Len(next) > 0
<1>1. from \in Nat /\ bytes \in Nat /\ bytes <= MaxSize /\ CHUNK_SIZE \in Nat \ {0}
  BY FileReaderAssumption DEF TypeOK
<1>2. CASE from >= bytes
  <2>1. next = << >> /\ Len(next) = 0
    BY <1>2 DEF Chunks
  <2>2. Span(from, 0) = << >>
    BY <1>1, SpanFacts, EmptySeq
  <2> QED BY <1>1, <1>2, <2>1, <2>2
<1>3. CASE from < bytes
  <2> DEFINE most == Min({bytes - from, CHUNK_SIZE})
  <2>1. most \in {bytes - from, CHUNK_SIZE} /\ most <= bytes - from /\ most <= CHUNK_SIZE
    <3>1. bytes - from \in Int /\ CHUNK_SIZE \in Int
      BY <1>1
    <3> QED BY Zenon, <3>1, MinFacts
  <2>2. ~(from >= bytes)
    BY <1>1, <1>3
  <2> HIDE DEF most
  <2>3. PICK n \in 1 .. most : next = Span(from, n)
    BY <2>2 DEF Chunks, most
  <2>4. n \in Nat /\ n > 0 /\ n <= bytes - from /\ n <= CHUNK_SIZE
    BY <1>1, <1>3, <2>1
  <2>5. Len(next) = n /\ next \in Seq(1 .. MaxSize)
    BY <1>1, <2>3, <2>4, SpanFacts, FileReaderAssumption
  <2>6. next # << >>
    BY <2>4, <2>5, EmptySeq
  <2> QED BY <1>1, <1>3, <2>3, <2>4, <2>5, <2>6
<1> QED BY <1>1, <1>2, <1>3
-----------------------------------------------------------------------------
(***************************************************************************)
(* The steps.                                                              *)
(***************************************************************************)

\* The numbers among the variables.
LEMMA Numbers ==
    ASSUME Inv
    PROVE  /\ bytes \in Nat /\ least \in Nat /\ least <= bytes /\ bytes <= MaxSize
           /\ MaxSize \in Nat /\ MaxWrites \in Nat
           /\ file_size \in Nat /\ current_offset \in Nat /\ offset \in Nat /\ Len(chunk) \in Nat
           /\ offset <= Len(chunk) /\ read \in Nat /\ read <= block_size
           /\ block_size \in Nat \ {0} /\ current_offset - offset \in Nat
           /\ Len(obtained) = current_offset
<1>1. /\ bytes \in Nat /\ least \in Nat /\ least <= bytes /\ bytes <= MaxSize
      /\ MaxSize \in Nat /\ MaxWrites \in Nat /\ file_size \in Nat /\ current_offset \in Nat
      /\ block_size \in Nat \ {0} /\ Len(chunk) \in Nat
  BY FileReaderAssumption DEF Inv, TypeOK
<1>2. offset \in Nat /\ offset <= Len(chunk) /\ read \in Nat /\ read <= block_size
  BY <1>1 DEF Inv, TypeOK
<1>3. current_offset - offset \in Nat
  BY <1>1, <1>2 DEF Inv, ReaderInv
<1>4. Len(obtained) = current_offset
  BY <1>1, SpanFacts DEF Inv, ReaderInv, ReadsTheFile
<1> QED BY <1>1, <1>2, <1>3, <1>4

\* The owner changes the size of the file.
LEMMA WriteInv ==
    ASSUME Inv, Write
    PROVE  Inv'
<1> USE Numbers
<1>1. /\ writes' = writes + 1 /\ writes' \in 0 .. MaxWrites /\ writes' # 0
      /\ bytes' \in 0 .. MaxSize
      /\ UNCHANGED <<pc, kind, block_size, file_size, announced, current_offset, chunk, offset, read,
                     obtained>>
  BY DEF Inv, TypeOK, Write, opened, reader
<1>2. least' \in {least, bytes'} /\ least' <= least /\ least' <= bytes' /\ least' \in Nat
  <2>1. least \in Int /\ bytes' \in Int
    BY <1>1
  <2>2. least' = Min({least, bytes'})
    BY DEF Write
  <2>3. least' \in {least, bytes'} /\ least' <= least /\ least' <= bytes'
    BY ONLY <2>1, <2>2, MinFacts
  <2> QED BY <1>1, <2>3
<1>3. TypeOK'
  BY <1>1, <1>2 DEF Inv, TypeOK
<1>4. ReaderInv'
  BY <1>1 DEF Inv, ReaderInv, ReadsTheFile
<1>5. SizeInv'
  BY SMTT(30), <1>1, <1>2 DEF Inv, SizeInv
<1>6. UnchangedInv'
  BY <1>1 DEF UnchangedInv
<1> QED BY <1>3, <1>4, <1>5, <1>6 DEF Inv

\* Steps that read nothing.
LEMMA QuietInv ==
    ASSUME Inv, \/ OpenLocal \/ Stat \/ GetSize \/ NoSize \/ Call \/ Return
                \/ OpenFails \/ ReadLocalFails \/ RefillFails
    PROVE  Inv'
<1> USE Numbers
<1>1. /\ UNCHANGED <<bytes, writes, least, kind, block_size, chunk, offset, obtained>>
      /\ pc' \in {"stat", "size", "ready", "loop", "end", "failed"}
      /\ read' \in {read, 0}
  BY DEF OpenLocal, Stat, GetSize, NoSize, Call, Return, OpenFails, ReadLocalFails, RefillFails,
         file, opened, reader
<1>2. current_offset' = current_offset
  BY DEF OpenLocal, Stat, GetSize, NoSize, Call, Return, OpenFails, ReadLocalFails, RefillFails,
         file, opened, reader, Inv, ReaderInv
<1>3. /\ file_size' \in {file_size, bytes}
      /\ file_size' # file_size => pc' = "stat" /\ file_size' = bytes
      /\ pc' \notin {"open", "stat", "failed"} /\ pc = "open" => kind = "local"
      /\ pc' = "stat" => file_size' = bytes /\ pc = "open" /\ kind = "remote"
      /\ pc' = "loop" => kind = "remote"
      /\ pc' = "size" => pc \in {"open", "stat"}
      /\ pc' # "failed" => pc # "failed"
  BY DEF OpenLocal, Stat, GetSize, NoSize, Call, Return, OpenFails, ReadLocalFails, RefillFails,
         file, opened, reader, Inv, TypeOK
<1>4. announced' \in {announced, IF kind = "local" THEN bytes ELSE file_size}
      /\ (announced' # announced => pc = "size")
  BY DEF OpenLocal, Stat, GetSize, NoSize, Call, Return, OpenFails, ReadLocalFails, RefillFails,
         file, opened, reader
<1>5. pc' = "end" => pc = "loop" /\ current_offset >= file_size
  BY DEF OpenLocal, Stat, GetSize, NoSize, Call, Return, OpenFails, ReadLocalFails, RefillFails, Wanted
<1>6. TypeOK'
  <2>1. announced' \in 0 .. MaxSize \cup {NotAnnounced} /\ file_size' \in 0 .. MaxSize
    BY <1>3, <1>4 DEF Inv, TypeOK
  <2>2. read' \in 0 .. block_size
    BY <1>1
  <2> QED BY <1>1, <1>2, <2>1, <2>2 DEF Inv, TypeOK
<1>7. ReaderInv'
  BY <1>1, <1>2, <1>3 DEF Inv, ReaderInv, ReadsTheFile
<1>8. SizeInv'
  BY <1>1, <1>2, <1>3, <1>5 DEF Inv, SizeInv, ReaderInv, TypeOK
<1>9. UnchangedInv'
  BY <1>1, <1>2, <1>3, <1>4 DEF Inv, UnchangedInv, TypeOK
<1> QED BY <1>6, <1>7, <1>8, <1>9 DEF Inv

\* The first chunk.
LEMMA OpenInv ==
    ASSUME Inv, Open
    PROVE  Inv'
<1> USE Numbers
<1>1. /\ pc = "stat" /\ pc' = "size" /\ kind = "remote" /\ current_offset = 0 /\ offset = 0
      /\ UNCHANGED <<bytes, writes, least, kind, block_size, file_size, announced, current_offset,
                     offset, read, obtained>>
  BY DEF Open, file, opened, Inv, ReaderInv, TypeOK
<1>2. chunk' \in Chunks(0) /\ 0 \in 0 .. MaxSize /\ TypeOK
  BY DEF Open, Inv
<1>3. /\ chunk' = Span(0, Len(chunk')) /\ Len(chunk') \in 0 .. CHUNK_SIZE
      /\ chunk' \in Seq(1 .. MaxSize)
      /\ (chunk' = << >> <=> 0 >= bytes)
      /\ (0 < bytes => 0 + Len(chunk') <= bytes /\ Len(chunk') > 0)
  BY ONLY <1>2, ChunkFacts
<1>4. Len(chunk') \in Nat /\ Len(chunk') <= bytes /\ Len(chunk') <= CHUNK_SIZE
  BY <1>3, FileReaderAssumption
<1>5. TypeOK'
  BY <1>1, <1>3, <1>4 DEF Inv, TypeOK
<1>6. ReaderInv'
  BY <1>1, <1>3, <1>4 DEF Inv, ReaderInv, ReadsTheFile
<1>7. SizeInv' /\ UnchangedInv'
  BY <1>1, <1>4 DEF Inv, SizeInv, UnchangedInv
<1> QED BY <1>5, <1>6, <1>7 DEF Inv

\* Offsets add up to offsets.
LEMMA SumOfNaturals == \A a, b \in Nat : a + b \in Nat
OBVIOUS

\* A block of a local file.
LEMMA ReadLocalInv ==
    ASSUME Inv, ReadLocal
    PROVE  Inv'
<1> USE Numbers
<1> DEFINE left == IF current_offset < bytes THEN bytes - current_offset ELSE 0
<1>1. /\ pc = "ready" /\ kind = "local" /\ pc' = IF read' < block_size THEN "end" ELSE "ready"
      /\ obtained' = obtained \o Span(current_offset, read')
      /\ current_offset' = current_offset + read'
      /\ UNCHANGED <<bytes, writes, least, kind, block_size, file_size, announced, chunk, offset>>
  BY DEF ReadLocal, file, opened
<1>2. chunk = << >> /\ Len(chunk) = 0 /\ offset = 0
  BY <1>1 DEF Inv, ReaderInv
<1>3. /\ read' \in Nat /\ read' <= block_size /\ read' <= left
      /\ (read' < block_size => read' = left)
  <2>1. read' = Min({block_size, left})
    BY DEF ReadLocal
  <2>2. block_size \in Int /\ left \in Int /\ left \in Nat
    OBVIOUS
  <2> HIDE DEF left
  <2>3. read' \in {block_size, left} /\ read' <= block_size /\ read' <= left
    BY ONLY <2>1, <2>2, MinFacts
  <2> QED BY <2>2, <2>3
<1>4. current_offset' \in Nat /\ current_offset' <= MaxSize
  <2>1. current_offset <= MaxSize /\ read' \in Nat /\ bytes <= MaxSize
    BY <1>3 DEF Inv, TypeOK
  <2>2. current_offset + read' <= MaxSize
    BY SMTT(30), <1>3, <2>1
  <2>3. current_offset \in Nat /\ read' \in Nat
    BY <1>3 DEF Inv, TypeOK
  <2>4. current_offset + read' \in Nat
    BY ONLY <2>3, SumOfNaturals, Zenon
  <2> QED BY <1>1, <2>2, <2>4, Zenon
<1>5. obtained' = Span(0, current_offset')
  BY Zenon, <1>1, <1>3, SpanConcat DEF Inv, ReaderInv, ReadsTheFile
<1>6. obtained' \in Seq(1 .. MaxSize)
  BY <1>4, <1>5, SpanFacts
<1>7. TypeOK'
  <2>1. read' \in 0 .. block_size' /\ current_offset' \in 0 .. MaxSize /\ pc' \in {"ready", "end"}
    BY <1>1, <1>3, <1>4
  <2> QED BY Zenon, <1>1, <1>6, <2>1 DEF Inv, TypeOK
<1>8. chunk' = Span(current_offset' - offset', Len(chunk'))
  <2>1. \A f \in Nat : Span(f, 0) = << >>
    BY SpanFacts, EmptySeq
  <2> QED BY <1>1, <1>2, <1>4, <2>1
<1>9. ReaderInv'
  BY <1>1, <1>2, <1>4, <1>5, <1>8 DEF ReaderInv, ReadsTheFile
<1>10. SizeInv' /\ UnchangedInv'
  BY <1>1, <1>2, <1>3 DEF Inv, SizeInv, UnchangedInv
<1> QED BY <1>7, <1>9, <1>10 DEF Inv

\* Part of the chunk is handed out.
LEMMA FillInv ==
    ASSUME Inv, Fill
    PROVE  Inv'
<1>0. /\ current_offset \in Nat /\ offset \in Nat /\ Len(chunk) \in Nat /\ offset <= Len(chunk)
      /\ read \in Nat /\ block_size \in Nat /\ current_offset - offset \in Nat /\ MaxSize \in Nat
      /\ offset <= current_offset /\ current_offset - offset + Len(chunk) <= MaxSize
  BY Numbers DEF Inv, ReaderInv
<1> DEFINE copied == Min({Available, block_size - read})
<1>1. /\ pc = "loop" /\ Available > 0 /\ current_offset < file_size /\ read < block_size
      /\ obtained' = obtained \o SubSeq(chunk, offset + 1, offset + copied)
      /\ offset' = offset + copied
      /\ read' = read + copied
      /\ current_offset' = current_offset + copied
      /\ UNCHANGED <<pc, bytes, writes, least, kind, block_size, file_size, announced, chunk>>
  BY DEF Fill, Wanted, file, opened
<1>2. copied \in Nat /\ copied <= Len(chunk) - offset /\ copied <= block_size - read
  <2>1. Available \in Int /\ block_size - read \in Int /\ Available = Len(chunk) - offset
    BY <1>0 DEF Available
  <2>2. copied \in {Available, block_size - read} /\ copied <= Available /\ copied <= block_size - read
    BY ONLY Zenon, <2>1, MinFacts
  <2> HIDE DEF copied
  <2> QED BY <1>0, <1>1, <2>1, <2>2
<1> HIDE DEF copied
<1>3. chunk = Span(current_offset - offset, Len(chunk))
  BY DEF Inv, ReaderInv
<1>4. SubSeq(chunk, offset + 1, offset + copied) = Span(current_offset, copied)
  <2> DEFINE f == current_offset - offset
             n == Len(chunk)
  <2>1. f \in Nat /\ n \in Nat /\ offset + copied <= n /\ f + offset = current_offset
    BY <1>0, <1>2
  <2>2. chunk = Span(f, n)
    BY <1>3
  <2> HIDE DEF f, n
  <2>3. offset \in Nat /\ copied \in Nat
    BY <1>0, <1>2
  <2>4. SubSeq(Span(f, n), offset + 1, offset + copied) = Span(f + offset, copied)
    BY ONLY <2>1, <2>3, SpanSubSeq, ZenonT(120)
  <2> QED BY <2>1, <2>2, <2>4
<1>5. obtained' = Span(0, current_offset')
  BY Zenon, <1>0, <1>1, <1>2, <1>4, SpanConcat DEF Inv, ReaderInv, ReadsTheFile
<1>6. /\ current_offset' \in Nat /\ current_offset' - offset' = current_offset - offset
      /\ offset' \in 0 .. Len(chunk) /\ read' \in 0 .. block_size
  BY <1>0, <1>1, <1>2
<1>7. current_offset' \in 0 .. MaxSize
  BY <1>0, <1>1, <1>2
<1>8. obtained' \in Seq(1 .. MaxSize)
  BY <1>0, <1>5, <1>7, SpanFacts
<1>9. TypeOK'
  BY <1>1, <1>6, <1>7, <1>8 DEF Inv, TypeOK
<1>10. ReaderInv'
  <2>1. offset' <= current_offset' /\ current_offset' - offset' + Len(chunk') <= MaxSize
    BY <1>0, <1>1, <1>2
  <2> QED BY Zenon, <1>1, <1>3, <1>5, <1>6, <2>1 DEF Inv, ReaderInv, ReadsTheFile
<1>11. SizeInv' /\ UnchangedInv'
  BY <1>0, <1>1, <1>2, <1>6 DEF Inv, SizeInv, UnchangedInv
<1> QED BY <1>9, <1>10, <1>11 DEF Inv

\* The next chunk, or the end of the file.
LEMMA RefillInv ==
    ASSUME Inv, Refill
    PROVE  Inv'
<1> USE Numbers
<1>1. /\ pc = "loop" /\ offset = Len(chunk)
      /\ UNCHANGED <<bytes, writes, least, kind, block_size, file_size, announced, current_offset,
                     read, obtained>>
  BY DEF Refill, Available, file, opened
<1>2. PICK next \in Chunks(current_offset) :
          IF next = << >> THEN pc' = "end" /\ UNCHANGED <<chunk, offset>>
          ELSE chunk' = next /\ offset' = 0 /\ UNCHANGED pc
  BY DEF Refill
<1>3. /\ next = Span(current_offset, Len(next)) /\ Len(next) \in 0 .. CHUNK_SIZE
      /\ next \in Seq(1 .. MaxSize)
      /\ (next = << >> <=> current_offset >= bytes)
      /\ (current_offset < bytes => current_offset + Len(next) <= bytes /\ Len(next) > 0)
  <2>1. TypeOK /\ current_offset \in 0 .. MaxSize
    BY DEF Inv, TypeOK
  <2> QED BY <2>1, ChunkFacts
<1>4. CASE next = << >>
  <2>1. TypeOK' /\ ReaderInv'
    BY <1>1, <1>2, <1>4 DEF Inv, TypeOK, ReaderInv, ReadsTheFile
  <2>2. SizeInv' /\ UnchangedInv'
    BY <1>1, <1>2, <1>3, <1>4 DEF Inv, SizeInv, UnchangedInv
  <2> QED BY <2>1, <2>2 DEF Inv
<1>5. CASE next # << >>
  <2>1. chunk' = next /\ offset' = 0 /\ pc' = pc /\ Len(next) \in Nat /\ current_offset < bytes
    BY <1>2, <1>3, <1>5, FileReaderAssumption
  <2>2. TypeOK'
    BY <1>1, <1>3, <2>1, FileReaderAssumption DEF Inv, TypeOK
  <2>3. ReaderInv'
    BY SMTT(30), <1>1, <1>3, <2>1 DEF Inv, ReaderInv, ReadsTheFile
  <2>4. SizeInv' /\ UnchangedInv'
    BY <1>1, <1>3, <2>1 DEF Inv, SizeInv, UnchangedInv
  <2> QED BY <2>2, <2>3, <2>4 DEF Inv
<1> QED BY <1>4, <1>5

\* Every step.
LEMMA NextInv ==
    ASSUME Inv, [Next]_vars
    PROVE  Inv'
<1>1. CASE UNCHANGED vars
  BY <1>1 DEF vars, file, opened, reader, Inv, TypeOK, ReaderInv, ReadsTheFile, SizeInv, UnchangedInv
<1> QED BY <1>1, QuietInv, OpenInv, ReadLocalInv, FillInv, RefillInv, WriteInv DEF Next, Progress

\* The initial states.
LEMMA InitInv == Init => Inv
<1> SUFFICES ASSUME Init PROVE Inv
  OBVIOUS
<1>1. Span(0, 0) = << >> /\ Len(chunk) = 0 /\ chunk = << >>
  BY SpanFacts, EmptySeq DEF Init
<1>2. \A b \in BlockSizes : b \in Nat \ {0}
  BY FileReaderAssumption
<1>3. TypeOK
  BY <1>1, <1>2, FileReaderAssumption DEF Init, TypeOK
<1>4. ReaderInv
  BY <1>1, FileReaderAssumption DEF Init, ReaderInv, ReadsTheFile
<1> QED BY <1>1, <1>3, <1>4, FileReaderAssumption DEF Init, Inv, SizeInv, UnchangedInv

\* The inductive invariant.
LEMMA Invariance == Spec => []Inv
BY InitInv, NextInv, PTL DEF Spec
-----------------------------------------------------------------------------
(***************************************************************************)
(* Theorems.                                                               *)
(***************************************************************************)

\* The reader's state is always well typed: no read leaves the chunk.
THEOREM TypeCorrect == Spec => []TypeOK
BY Invariance, PTL DEF Inv

\* read_to hands out the file in order, whatever the sizes.
THEOREM ReadsTheFileHolds == Spec => []ReadsTheFile
<1>1. Inv => ReadsTheFile
  BY DEF Inv, ReaderInv
<1> QED BY <1>1, Invariance, PTL

\* A short block means that all the file always had has been handed out.
THEOREM ShortOnlyAtEndHolds == Spec => []ShortOnlyAtEnd
<1>1. Inv => ShortOnlyAtEnd
  BY Numbers DEF Inv, SizeInv, ShortOnlyAtEnd
<1> QED BY <1>1, Invariance, PTL

\* The tsize that was announced is what is sent, for an unchanged file.
THEOREM AnnouncedIsSentHolds == Spec => []AnnouncedIsSent
<1>1. Inv => AnnouncedIsSent
  <2> SUFFICES ASSUME Inv, pc = "end", announced # NotAnnounced, writes = 0
               PROVE  Len(obtained) = announced
    BY DEF AnnouncedIsSent
  <2>1. /\ current_offset >= least /\ least = bytes /\ announced = bytes
        /\ current_offset - offset + Len(chunk) <= bytes
    BY DEF Inv, SizeInv, UnchangedInv
  <2> QED BY <2>1, Numbers
<1> QED BY <1>1, Invariance, PTL
-----------------------------------------------------------------------------
(***************************************************************************)
(* Why reading ends.  Every step but those of the owner lowers a rank: the *)
(* stage of the file, the bytes that may follow the current offset, and    *)
(* what comes before the next byte is copied: the return of a filled       *)
(* buffer, the next call, the next chunk.                                  *)
(***************************************************************************)
Stage ==
    CASE pc = "open" -> 4 [] pc = "stat" -> 3 [] pc = "size" -> 2
      [] pc \in {"ready", "loop"} -> 1 [] OTHER -> 0

Part ==
    CASE pc = "loop" /\ read = block_size -> 3
      [] pc = "ready"                     -> 2
      [] pc = "loop" /\ read < block_size /\ Available = 0 -> 1
      [] OTHER                            -> 0

Rank == <<Stage, MaxSize - current_offset, Part>>

\* The lexicographic order of ranks.
Lower == LexProductOrdering(OpToRel(<, Nat), Nat, 3)

\* No descent in that order goes on for ever.
LEMMA LowerWellFounded == IsWellFoundedOn(Lower, [1 .. 3 -> Nat])
BY NatLessThanWellFounded, WFLexProductOrdering DEF Lower

\* The rank is made of natural numbers.
LEMMA RankType == Inv => Rank \in [1 .. 3 -> Nat]
<1>1. ASSUME Inv PROVE Stage \in Nat /\ Part \in Nat /\ MaxSize - current_offset \in Nat
  BY <1>1, FileReaderAssumption DEF Inv, TypeOK, Stage, Part
<1> QED BY <1>1 DEF Rank

\* A rank is lower than another one at the first place where they differ.
LEMMA LowerAt ==
    ASSUME NEW r \in [1 .. 3 -> Nat], NEW s \in [1 .. 3 -> Nat],
           \/ r[1] < s[1]
           \/ r[1] = s[1] /\ r[2] < s[2]
           \/ r[1] = s[1] /\ r[2] = s[2] /\ r[3] < s[3]
    PROVE  <<r, s>> \in Lower
<1>1. PICK j \in 1 .. 3 : (\A i \in 1 .. j - 1 : r[i] = s[i]) /\ r[j] < s[j]
  OBVIOUS
<1> QED BY <1>1 DEF Lower, LexProductOrdering, OpToRel

\* A step that does not go back in the file lowers the rank when it enters a
\* later stage, moves on, or comes closer to the next byte.
LEMMA DescentLowers ==
    ASSUME Inv, Inv', \/ Stage' < Stage
                      \/ Stage' = Stage /\ current_offset' > current_offset
                      \/ Stage' = Stage /\ current_offset' = current_offset /\ Part' < Part
    PROVE  <<Rank', Rank>> \in Lower
<1>1. Rank \in [1 .. 3 -> Nat]
  BY RankType
<1>2. Rank' \in [1 .. 3 -> Nat]
  <2>1. Inv' => (Rank \in [1 .. 3 -> Nat])'
    BY RankType, PTL
  <2> QED BY <2>1
<1>3. PICK r \in [1 .. 3 -> Nat], s \in [1 .. 3 -> Nat] : r = Rank' /\ s = Rank
  BY <1>1, <1>2, Zenon
<1>4. /\ r[1] = Stage' /\ s[1] = Stage
      /\ r[2] = MaxSize - current_offset' /\ s[2] = MaxSize - current_offset
      /\ r[3] = Part' /\ s[3] = Part
  BY <1>3 DEF Rank
<1>5. PICK a \in Int, b \in Int, n \in Int :
         a = current_offset' /\ b = current_offset /\ n = MaxSize
  <2>1. current_offset' \in Int /\ current_offset \in Int /\ MaxSize \in Int
    BY FileReaderAssumption DEF Inv, TypeOK
  <2> QED BY <2>1, Zenon
<1>6. r[2] = n - a /\ s[2] = n - b
  BY <1>4, <1>5, Zenon
<1>7. a > b => r[2] < s[2]
  BY <1>6
<1>8. \/ r[1] < s[1]
      \/ r[1] = s[1] /\ r[2] < s[2]
      \/ r[1] = s[1] /\ r[2] = s[2] /\ r[3] < s[3]
  BY <1>4, <1>5, <1>6, <1>7, Zenon
<1> QED BY <1>3, <1>8, LowerAt

\* Every step lowers the rank, but for those of the owner, who leaves it alone.
LEMMA ReadingDescends ==
    ASSUME Inv, Next
    PROVE  \/ Write /\ Rank' = Rank
           \/ /\ writes' = writes
              /\ \/ Stage' < Stage
                 \/ Stage' = Stage /\ current_offset' > current_offset
                 \/ Stage' = Stage /\ current_offset' = current_offset /\ Part' < Part
<1> USE DEF Stage, Part
<1>0. /\ current_offset \in Nat /\ read \in Nat /\ block_size \in Nat \ {0} /\ bytes \in Nat
      /\ offset \in Nat /\ offset <= Len(chunk) /\ Len(chunk) \in Nat /\ read <= block_size
      /\ kind \in {"local", "remote"}
  BY FileReaderAssumption DEF Inv, TypeOK
<1>1. CASE Write
  BY <1>1 DEF Write, opened, reader, Rank, Available
<1>2. CASE OpenLocal \/ Stat \/ Open \/ GetSize \/ NoSize \/ OpenFails \/ ReadLocalFails \/ RefillFails
  BY <1>2 DEF OpenLocal, Stat, Open, GetSize, NoSize, OpenFails, ReadLocalFails, RefillFails, file
<1>3. CASE ReadLocal
  <2>1. read' = block_size \/ read' < block_size
    <3> DEFINE left == IF current_offset < bytes THEN bytes - current_offset ELSE 0
    <3>1. left \in Int /\ block_size \in Int
      BY <1>0
    <3>2. read' = Min({block_size, left})
      BY <1>3 DEF ReadLocal
    <3> HIDE DEF left
    <3>3. Min({block_size, left}) \in {block_size, left} /\ Min({block_size, left}) <= block_size
      BY <3>1, MinFacts
    <3> QED BY <1>0, <3>1, <3>2, <3>3
  <2>2. pc = "ready" /\ current_offset' = current_offset + read' /\ writes' = writes
        /\ pc' = IF read' < block_size THEN "end" ELSE "ready"
    BY <1>3 DEF ReadLocal, file
  <2> QED BY <1>0, <2>1, <2>2
<1>4. CASE Call
  BY <1>0, <1>4 DEF Call, file, opened, Available
<1>5. CASE Fill
  <2>1. PICK copied \in Nat : copied > 0 /\ current_offset' = current_offset + copied
    <3>1. Available \in Int /\ Available > 0 /\ block_size - read \in Int /\ block_size - read > 0
      BY <1>0, <1>5 DEF Fill, Wanted, Available
    <3>2. Min({Available, block_size - read}) \in {Available, block_size - read}
      BY Zenon, <3>1, MinFacts
    <3>3. current_offset' = current_offset + Min({Available, block_size - read})
      BY <1>5 DEF Fill
    <3> QED BY <3>1, <3>2, <3>3
  <2>2. pc = "loop" /\ pc' = "loop" /\ writes' = writes
    BY <1>5 DEF Fill, file
  <2> QED BY <1>0, <2>1, <2>2
<1>6. CASE Refill
  <2>1. PICK next \in Chunks(current_offset) :
           IF next = << >> THEN pc' = "end" /\ UNCHANGED <<chunk, offset>>
           ELSE chunk' = next /\ offset' = 0 /\ UNCHANGED pc
    BY <1>6 DEF Refill
  <2>2. /\ pc = "loop" /\ Available = 0 /\ read < block_size
        /\ UNCHANGED <<writes, block_size, current_offset, read>>
    BY <1>6 DEF Refill, Wanted, file, opened
  <2>3. CASE next = << >>
    BY <2>1, <2>2, <2>3
  <2>4. CASE next # << >>
    <3>1. next \in Seq(1 .. MaxSize)
      BY ChunkFacts DEF Inv, TypeOK
    <3>2. Len(next) \in Nat /\ Len(next) # 0
      BY <2>4, <3>1, EmptySeq
    <3>3. Available' # 0
      BY <2>1, <2>4, <3>2 DEF Available
    <3>4. pc' = "loop"
      BY <2>1, <2>2, <2>4
    <3> QED BY <1>0, <2>2, <3>3, <3>4
  <2> QED BY <2>3, <2>4
<1>7. CASE Return
  <2>1. pc = "loop" /\ UNCHANGED <<writes, current_offset, read, block_size>>
        /\ pc' = IF read < block_size THEN "end" ELSE "ready"
    BY <1>7 DEF Return, file, opened, reader
  <2> QED BY <1>0, <2>1
<1> QED BY <1>1, <1>2, <1>3, <1>4, <1>5, <1>6, <1>7 DEF Next, Progress

\* Every step of the reading lowers its rank, in an order in which no descent
\* goes on for ever, whichever chunks the appliance returns and however the file
\* is changed meanwhile: the loop of read_to and the calls of send_file cannot
\* go round and round.
THEOREM ReadingDescendsAlways ==
    /\ IsWellFoundedOn(Lower, [1 .. 3 -> Nat])
    /\ Spec => [](Rank \in [1 .. 3 -> Nat])
    /\ Spec => [][IF writes' = writes THEN <<Rank', Rank>> \in Lower ELSE Rank' = Rank]_vars
<1>1. Spec => [](Rank \in [1 .. 3 -> Nat])
  BY RankType, Invariance, PTL
<1>2. ASSUME Inv, Inv', Next
      PROVE  IF writes' = writes THEN <<Rank', Rank>> \in Lower ELSE Rank' = Rank
  <2>1. Write => writes' # writes
    BY <1>2, FileReaderAssumption DEF Write, Inv, TypeOK
  <2> QED BY <1>2, <2>1, ReadingDescends, DescentLowers, Zenon
<1>3. Inv /\ Inv' /\ [Next]_vars
         => [IF writes' = writes THEN <<Rank', Rank>> \in Lower ELSE Rank' = Rank]_vars
  BY <1>2, Zenon
<1>4. Spec => [][IF writes' = writes THEN <<Rank', Rank>> \in Lower ELSE Rank' = Rank]_vars
  BY <1>3, Invariance, PTL DEF Spec
<1> QED BY <1>1, <1>4, LowerWellFounded
=============================================================================
