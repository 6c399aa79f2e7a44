--------------------------- MODULE BuffersProofs ---------------------------
(***************************************************************************)
(* Proofs about the buffers, for datagrams, buffers and texts of any       *)
(* length: what a session reads in a reply, and what the datagrams it      *)
(* builds consist of, by induction over the passes of the loops.  The      *)
(* parser of read requests is in ParserProofs.                             *)
(***************************************************************************)
EXTENDS Buffers, FiniteSetTheorems, SequenceTheorems, WellFoundedInduction, TLAPS
-----------------------------------------------------------------------------
(* Induction, with sets of numbers for predicates *)

\* A set of numbers that is not empty has a least element, which is its Min.
LEMMA MinFacts ==
    ASSUME NEW T, T \subseteq Nat, T # {}
    PROVE  Min(T) \in T /\ \A n \in T : Min(T) <= n
<1> DEFINE R == {ss \in Nat \X Nat : ss[1] < ss[2]}
<1>1. IsWellFoundedOn(R, Nat)
  BY NatLessThanWellFounded DEF OpToRel
<1>2. \A x, y \in Nat : <<y, x>> \in R <=> y < x
  OBVIOUS
<1> HIDE DEF R
<1>3. PICK x \in T : \A y \in T : ~ (<<y, x>> \in R)
  BY ONLY <1>1, WFMin, T \subseteq Nat, T # {}, Zenon
<1>4. ASSUME NEW y \in T PROVE x <= y
  <2>1. x \in Nat /\ y \in Nat /\ ~ (y < x)
    BY <1>2, <1>3, Zenon
  <2> QED  BY <2>1
<1> QED  BY <1>4, Zenon DEF Min

\* What holds of 0 and passes from every number to the next holds up to n.
LEMMA Stepwise ==
    ASSUME NEW n \in Nat, NEW S, 0 \in S, \A k \in 1 .. n : k - 1 \in S => k \in S
    PROVE  \A k \in 0 .. n : k \in S
<1> DEFINE T == {k \in 0 .. n : k \notin S}
<1> SUFFICES ASSUME T # {} PROVE FALSE
  OBVIOUS
<1>1. Min(T) \in T /\ \A k \in T : Min(T) <= k
  BY MinFacts
<1> HIDE DEF T
<1>2. PICK m \in T : \A k \in T : m <= k
  BY <1>1
<1>3. m \in 1 .. n /\ m \notin S
  BY <1>2 DEF T
<1>4. m - 1 \in T
  BY <1>3 DEF T
<1> QED  BY <1>2, <1>3, <1>4

\* The function f starts with base and goes from k - 1 to k as G says.
Solves(f, n, base, G) == f[0] = base /\ \A k \in 1 .. n : f[k] = G[<<k, f[k - 1]>>]

\* A recursive definition over 0 .. n has a solution.
LEMMA Recursion ==
    ASSUME NEW n \in Nat, NEW S, NEW base \in S, NEW G \in [(1 .. n) \X S -> S]
    PROVE  \E f \in [0 .. n -> S] : Solves(f, n, base, G)
<1> DEFINE T == {m \in 0 .. n : \E f \in [0 .. m -> S] : Solves(f, m, base, G)}
<1> HIDE DEF T
<1>1. 0 \in T
  <2> DEFINE g == [k \in 0 .. 0 |-> base]
  <2>1. g \in [0 .. 0 -> S] /\ Solves(g, 0, base, G)
    BY DEF Solves
  <2> HIDE DEF g
  <2> QED  BY <2>1 DEF T
<1>2. ASSUME NEW m \in 1 .. n, m - 1 \in T PROVE m \in T
  <2>1. PICK f \in [0 .. m - 1 -> S] : Solves(f, m - 1, base, G)
    BY <1>2 DEF T
  <2> DEFINE g == [k \in 0 .. m |-> IF k < m THEN f[k] ELSE G[<<m, f[m - 1]>>]]
  <2>2. f[m - 1] \in S /\ G[<<m, f[m - 1]>>] \in S
    OBVIOUS
  <2>3. g \in [0 .. m -> S]
    BY <2>2
  <2>4. g[0] = base /\ \A k \in 0 .. m - 1 : g[k] = f[k]
    BY <2>1 DEF Solves
  <2>5. g[m] = G[<<m, g[m - 1]>>]
    BY <2>4
  <2> HIDE DEF g
  <2>6. ASSUME NEW k \in 1 .. m, k # m PROVE g[k] = G[<<k, g[k - 1]>>]
    BY <2>1, <2>4, <2>6 DEF Solves
  <2>7. Solves(g, m, base, G)
    BY <2>4, <2>5, <2>6 DEF Solves
  <2> QED  BY <2>3, <2>7 DEF T
<1>3. n \in T
  BY <1>1, <1>2, Stepwise
<1> QED  BY <1>3 DEF T
-----------------------------------------------------------------------------
(* What a session reads in a reply *)

\* The positions of the NULs after the first i bytes.
NulsAfter(datagram, i) == {k \in i + 1 .. Len(datagram) : datagram[k] = 0}

\* The first of them.
LEMMA FirstNul ==
    ASSUME NEW d \in Seq(Byte), NEW i \in Nat, NulsAfter(d, i) # {}
    PROVE  LET e == Min(NulsAfter(d, i))
           IN  /\ e \in i + 1 .. Len(d) /\ d[e] = 0
               /\ \A k \in i + 1 .. Len(d) : d[k] = 0 => e <= k
<1>1. NulsAfter(d, i) \subseteq Nat
  BY DEF NulsAfter
<1>2. PICK e : e = Min(NulsAfter(d, i))
  OBVIOUS
<1>3. e \in NulsAfter(d, i) /\ \A k \in NulsAfter(d, i) : e <= k
  BY <1>1, <1>2, MinFacts, Zenon
<1> QED  BY <1>2, <1>3 DEF NulsAfter

\* The text that extract_string reads at i ends before the first NUL after i.
LEMMA ExtractString ==
    ASSUME NEW d \in Seq(Byte), NEW i \in Nat
    PROVE  LET e    == Min(NulsAfter(d, i))
               text == SubSeq(d, i + 1, e - 1)
           IN  /\ i >= Len(d) => extract_string(d, i) = Eof
               /\ i < Len(d) /\ NulsAfter(d, i) = {} => extract_string(d, i) = Invalid
               /\ NulsAfter(d, i) # {} =>
                    /\ e \in i + 1 .. Len(d) /\ d[e] = 0
                    /\ \A k \in i + 1 .. e - 1 : d[k] # 0
                    /\ text \in Seq(Byte) /\ Len(text) = e - 1 - i
                    /\ extract_string(d, i) =
                         IF Range(text) \subseteq Letters THEN Ok(text, e) ELSE Invalid
<1> DEFINE nuls == NulsAfter(d, i)
           e    == Min(nuls)
           text == SubSeq(d, i + 1, e - 1)
<1>1. nuls # {} => i < Len(d)
  BY DEF NulsAfter
<1>2. extract_string(d, i) = IF i >= Len(d) THEN Eof
                             ELSE IF nuls = {} THEN Invalid
                             ELSE IF Range(text) \subseteq Letters THEN Ok(text, e)
                             ELSE Invalid
  BY DEF extract_string, NulsAfter
<1>3. ASSUME nuls # {}
      PROVE  /\ e \in i + 1 .. Len(d) /\ d[e] = 0
             /\ \A k \in i + 1 .. Len(d) : d[k] = 0 => e <= k
  BY <1>3, FirstNul
<1> HIDE DEF nuls, e
<1>4. ASSUME nuls # {}
      PROVE  /\ \A k \in i + 1 .. e - 1 : d[k] # 0
             /\ text \in Seq(Byte) /\ Len(text) = e - 1 - i
  BY SMTT(30), <1>3, <1>4
<1> HIDE DEF text
<1>6. /\ i >= Len(d) => extract_string(d, i) = Eof
      /\ i < Len(d) /\ nuls = {} => extract_string(d, i) = Invalid
      /\ nuls # {} => extract_string(d, i) =
                         IF Range(text) \subseteq Letters THEN Ok(text, e) ELSE Invalid
  BY <1>1, <1>2
<1> QED  BY <1>3, <1>4, <1>6 DEF nuls, e, text

\* A text that a datagram terminates is read the same when other bytes follow.
LEMMA ExtractPrefix ==
    ASSUME NEW d \in Seq(Byte), NEW b \in Seq(Byte), NEW i \in Nat,
           Len(d) <= Len(b), \A k \in 1 .. Len(d) : b[k] = d[k],
           extract_string(d, i).kind = "ok"
    PROVE  extract_string(b, i) = extract_string(d, i)
<1>1. NulsAfter(d, i) # {}
  BY DEF extract_string, NulsAfter, Eof, Invalid
<1>2. NulsAfter(b, i) # {}
  BY <1>1 DEF NulsAfter
<1>3. PICK m : m = Min(NulsAfter(d, i))
  OBVIOUS
<1>4. /\ m \in i + 1 .. Len(d) /\ d[m] = 0
      /\ \A k \in i + 1 .. Len(d) : d[k] = 0 => m <= k
  BY <1>1, <1>3, FirstNul
<1>5. PICK n : n = Min(NulsAfter(b, i))
  OBVIOUS
<1>6. /\ n \in i + 1 .. Len(b) /\ b[n] = 0
      /\ \A k \in i + 1 .. Len(b) : b[k] = 0 => n <= k
  BY <1>2, <1>5, FirstNul
<1>7. m = n
  BY <1>4, <1>6
<1>8. SubSeq(b, i + 1, m - 1) = SubSeq(d, i + 1, m - 1)
  BY <1>4
<1> DEFINE read == IF Range(SubSeq(d, i + 1, m - 1)) \subseteq Letters
                      THEN Ok(SubSeq(d, i + 1, m - 1), m) ELSE Invalid
<1>9. extract_string(d, i) = read
  BY <1>1, <1>3, ExtractString
<1>10. extract_string(b, i) = IF Range(SubSeq(b, i + 1, n - 1)) \subseteq Letters
                               THEN Ok(SubSeq(b, i + 1, n - 1), n) ELSE Invalid
  BY <1>2, <1>5, ExtractString
<1>11. extract_string(b, i) = read
  BY ONLY <1>7, <1>8, <1>10, Zenon
<1> HIDE DEF read
<1> QED  BY <1>9, <1>11

\* Read_acknowledge reads an ACK, or an ERROR whose message is terminated, the
\* same whatever follows the datagram, and reads nothing else as an ACK.
LEMMA ReplyPrefix ==
    ASSUME NEW d \in Seq(Byte), NEW b \in Seq(Byte),
           4 <= Len(d), Len(d) <= Len(b), \A k \in 1 .. Len(d) : b[k] = d[k]
    PROVE  \/ read_acknowledge(b).kind = "ack"
           \/ read_acknowledge(d).kind \in {"ack", "client_error"}
           => read_acknowledge(b) = read_acknowledge(d)
<1>1. /\ extract_ushort(b, 0) = extract_ushort(d, 0)
      /\ extract_ushort(b, 2) = extract_ushort(d, 2)
      /\ extract_ushort(d, 2).kind = "ok"
  BY DEF extract_ushort, Ok
<1>2. extract_string(d, 4).kind = "ok" => extract_string(b, 4) = extract_string(d, 4)
  BY ExtractPrefix
<1>3. CASE extract_ushort(d, 0).value = ACK
  BY <1>1, <1>3 DEF read_acknowledge
<1>4. CASE extract_ushort(d, 0).value # ACK
  BY <1>1, <1>2, <1>4 DEF read_acknowledge
<1> QED  BY <1>3, <1>4
-----------------------------------------------------------------------------
(* The cursor that datagrams are built with *)

Buffer(n) == [1 .. n -> Byte]

Cursors(n) == [buffer : Buffer(n), offset : Nat, full : BOOLEAN]

\* A byte is a number below 256.
LEMMA Bytes256 == \A v : v \in Byte <=> v \in Nat /\ v < 256
BY DEF Byte

\* A terminator is a byte.
LEMMA NulType == <<0>> \in Seq(Byte) /\ Len(<<0>>) = 1
<1>1. 0 \in Byte
  BY Bytes256
<1> QED  BY <1>1

\* A buffer of n bytes is a sequence of bytes of that length.
LEMMA BufferIsSequence ==
    ASSUME NEW n \in Nat, NEW b \in Buffer(n)
    PROVE  b \in Seq(Byte) /\ Len(b) = n
BY DEF Buffer

\* Bytes written into a buffer leave it a buffer of its size.
LEMMA CopyType ==
    ASSUME NEW n \in Nat, NEW b \in Buffer(n), NEW offset \in Nat, NEW bytes \in Seq(Byte)
    PROVE  copy_from_slice(b, offset, bytes) \in Buffer(n)
BY DEF copy_from_slice, Buffer

\* The codes and opcodes the server sends take two bytes.
LEMMA UShortType == \A v \in 0 .. 6 : UShort(v) \in Seq(Byte) /\ Len(UShort(v)) = 2
BY Bytes256 DEF UShort

\* put_ushort keeps the buffer a buffer of its size.
LEMMA PutUShortType ==
    ASSUME NEW n \in Nat, NEW c \in Cursors(n), NEW v \in 0 .. 6
    PROVE  put_ushort(c, v) \in Cursors(n)
<1> DEFINE end == c.offset + 2
           b   == copy_from_slice(c.buffer, c.offset, UShort(v))
<1>1. c.buffer \in Buffer(n) /\ c.offset \in Nat /\ c.full \in BOOLEAN
  BY DEF Cursors
<1>2. end \in Nat /\ UShort(v) \in Seq(Byte)
  BY <1>1, UShortType
<1>3. b \in Buffer(n)
  BY <1>1, <1>2, CopyType
<1>4. put_ushort(c, v) =
        IF c.full \/ end > Len(c.buffer) THEN [c EXCEPT !.full = TRUE]
        ELSE [c EXCEPT !.buffer = b, !.offset = end]
  BY SMTT(20) DEF put_ushort, Cursors
<1> HIDE DEF b, end
<1> QED  BY <1>1, <1>2, <1>3, <1>4, Zenon DEF Cursors

\* put_string keeps the buffer a buffer of its size.
LEMMA PutStringType ==
    ASSUME NEW n \in Nat, NEW c \in Cursors(n), NEW text \in Seq(Byte)
    PROVE  put_string(c, text) \in Cursors(n)
<1> DEFINE end == c.offset + Reserved(text)
           b1  == copy_from_slice(c.buffer, c.offset, text)
           b2  == copy_from_slice(b1, end, <<0>>)
<1>1. c.buffer \in Buffer(n) /\ c.offset \in Nat /\ c.full \in BOOLEAN
  BY DEF Cursors
<1>2. end \in Nat /\ <<0>> \in Seq(Byte)
  BY <1>1, NulType DEF Reserved
<1>3. b1 \in Buffer(n)
  BY <1>1, CopyType
<1> HIDE DEF b1, end
<1>4. b2 \in Buffer(n)
  BY <1>2, <1>3, CopyType, Zenon
<1>5. put_string(c, text) = IF c.full \/ end >= Len(c.buffer) THEN [c EXCEPT !.full = TRUE]
                            ELSE [c EXCEPT !.buffer = b2, !.offset = end]
  BY DEF put_string, b1, end, Cursors
<1> HIDE DEF b2
<1> QED  BY <1>1, <1>2, <1>4, <1>5, ZenonT(40) DEF Cursors

\* A new cursor.
LEMMA CursorType ==
    ASSUME NEW n \in Nat, NEW b \in Buffer(n)
    PROVE  Cursor(b) \in Cursors(n)
BY DEF Cursor, Cursors

Pairs == Seq(Seq(Byte) \X Seq(Byte))

\* serialize_oack puts the pairs one after the other.
LEMMA OackSteps ==
    ASSUME NEW n \in Nat, NEW b \in Buffer(n), NEW pairs \in Pairs
    PROVE  \E put \in [0 .. Len(pairs) -> Cursors(n)] :
              /\ put[0] = put_ushort(Cursor(b), OACK)
              /\ \A k \in 1 .. Len(pairs) :
                    put[k] = put_string(put_string(put[k - 1], pairs[k][1]), pairs[k][2])
              /\ serialize_oack(b, pairs) = put[Len(pairs)]
<1> DEFINE L == Len(pairs)
           base == put_ushort(Cursor(b), OACK)
           Step(k, c) == put_string(put_string(c, pairs[k][1]), pairs[k][2])
           Solution(f) == f = [k \in 0 .. L |-> IF k = 0 THEN base ELSE Step(k, f[k - 1])]
           G == [x \in (1 .. L) \X Cursors(n) |-> Step(x[1], x[2])]
<1>1. L \in Nat /\ \A k \in 1 .. L : pairs[k][1] \in Seq(Byte) /\ pairs[k][2] \in Seq(Byte)
  BY DEF Pairs
<1>2. base \in Cursors(n)
  BY CursorType, PutUShortType DEF OACK
<1>3. ASSUME NEW k \in 1 .. L, NEW c \in Cursors(n)
      PROVE  Step(k, c) \in Cursors(n)
  BY <1>1, PutStringType
<1>4. serialize_oack(b, pairs) = (CHOOSE f : Solution(f))[L]
  BY DEF serialize_oack
<1> HIDE DEF L, base, Step
<1>5. G \in [(1 .. L) \X Cursors(n) -> Cursors(n)]
  BY <1>3
<1>6. PICK f \in [0 .. L -> Cursors(n)] : Solves(f, L, base, G)
  <2> HIDE DEF G
  <2>1. L \in Nat
    BY <1>1
  <2> QED  BY ONLY <2>1, <1>2, <1>5, Recursion, ZenonT(40)
<1>7. ASSUME NEW k \in 1 .. L PROVE f[k] = Step(k, f[k - 1])
  <2>1. \A c \in Cursors(n) : G[<<k, c>>] = Step(k, c)
    OBVIOUS
  <2>2. f[k - 1] \in Cursors(n)
    BY <1>1
  <2> HIDE DEF G
  <2> QED  BY <1>6, <2>1, <2>2, Zenon DEF Solves
<1> HIDE DEF G
<1>8. Solution(f)
  BY <1>6, <1>7 DEF Solves
<1>9. PICK put : put = CHOOSE g : Solution(g)
  OBVIOUS
<1>10. Solution(put)
  <2> HIDE DEF Solution
  <2> QED  BY <1>8, <1>9
<1>11. put[0] = base /\ \A k \in 1 .. L : put[k] = Step(k, put[k - 1])
  BY <1>1, <1>10
<1>12. put \in [0 .. L -> Cursors(n)]
  <2> DEFINE T == {k \in 0 .. L : put[k] \in Cursors(n)}
  <2>1. 0 \in T
    BY <1>1, <1>2, <1>11
  <2>2. \A k \in 1 .. L : k - 1 \in T => k \in T
    BY <1>1, <1>3, <1>11
  <2>3. \A k \in 0 .. L : k \in T
    <3> HIDE DEF T
    <3> QED  BY <1>1, <2>1, <2>2, Stepwise, ZenonT(40)
  <2> QED  BY <1>10, <2>3
<1> QED  BY <1>4, <1>9, <1>11, <1>12, ZenonT(40) DEF L, base, Step

\* The parts of an error.
LEMMA ErrorFacts ==
    ASSUME NEW m
    PROVE  TFTPError(m).code \in 0 .. 6 /\ TFTPError(m).message = m /\ TFTPError(m).kind = "error"
BY DEF TFTPError, Code

\* A serialised ERROR fills a part of the buffer.
LEMMA SerializeErrorType ==
    ASSUME NEW n \in Nat, NEW b \in Buffer(n), NEW m \in DOMAIN Texts
    PROVE  serialize_error(b, TFTPError(m)) \in Cursors(n)
<1>1. TFTPError(m).code \in 0 .. 6 /\ TFTPError(m).message = m
  BY ErrorFacts
<1>2. PICK c \in Cursors(n) : c = put_ushort(put_ushort(Cursor(b), ERROR), TFTPError(m).code)
  BY <1>1, CursorType, PutUShortType DEF ERROR
<1>3. Texts[m] \in Seq(Byte)
  BY BuffersAssumption
<1> QED  BY <1>1, <1>2, <1>3, PutStringType DEF serialize_error

\* And so does a serialised OACK.
LEMMA SerializeOackType ==
    ASSUME NEW n \in Nat, NEW b \in Buffer(n), NEW pairs \in Pairs
    PROVE  serialize_oack(b, pairs) \in Cursors(n)
<1>1. Len(pairs) \in Nat
  BY DEF Pairs
<1> QED  BY <1>1, OackSteps

\* The parser fails with one of its messages.
LEMMA ParseErrors ==
    ASSUME NEW d, parse(d).kind = "error"
    PROVE  \E m \in DOMAIN Texts : parse(d) = TFTPError(m)
<1>1. "Bad format" \in DOMAIN Texts /\ "Only RRQ is supported" \in DOMAIN Texts
  BY BuffersAssumption
<1>2. "Can't obtain filename" \in DOMAIN Texts /\ "Only octet mode is supported" \in DOMAIN Texts
  BY BuffersAssumption
<1> QED  BY <1>1, <1>2 DEF parse, BadFormat

\* A datagram received into a buffer is found at its beginning.
LEMMA ReceivedFacts ==
    ASSUME NEW d \in Requests \cup Replies, buffer \in Buffer(BUFFER_SIZE)
    PROVE  /\ BUFFER_SIZE \in Nat /\ d \in Seq(Byte) /\ Len(d) <= BUFFER_SIZE
           /\ Received(d) \in Buffer(BUFFER_SIZE)
           /\ \A k \in 1 .. Len(d) : Received(d)[k] = d[k]
           /\ Slice(d) = d
<1>1. BUFFER_SIZE \in Nat /\ d \in Seq(Byte) /\ Len(d) <= BUFFER_SIZE
  BY BuffersAssumption
<1>2. buffer \in Seq(Byte) /\ Len(buffer) = BUFFER_SIZE
  BY <1>1, BufferIsSequence
<1>3. PICK rest : rest = SubSeq(buffer, Len(d) + 1, BUFFER_SIZE)
  BY Zenon
<1>4. rest \in Seq(Byte) /\ Len(rest) = BUFFER_SIZE - Len(d)
  BY <1>1, <1>2, <1>3
<1>5. PICK r : r = d \o rest
  BY Zenon
<1>6. r \in Seq(Byte) /\ Len(r) = BUFFER_SIZE /\ \A k \in 1 .. Len(d) : r[k] = d[k]
  <2>1. /\ r \in Seq(Byte) /\ Len(r) = Len(d) + Len(rest)
        /\ \A k \in 1 .. Len(d) + Len(rest) :
             r[k] = IF k <= Len(d) THEN d[k] ELSE rest[k - Len(d)]
    BY ONLY <1>1, <1>4, <1>5, ConcatProperties, ZenonT(40)
  <2> QED  BY <1>1, <1>4, <2>1
<1>7. SubSeq(r, 1, Len(d)) = d
  BY <1>1, <1>6
<1>8. r \in Buffer(BUFFER_SIZE)
  BY <1>6 DEF Buffer
<1> QED  BY <1>1, <1>3, <1>5, <1>6, <1>7, <1>8 DEF Received, Slice
-----------------------------------------------------------------------------
(* The inductive invariant of a buffer *)

\* A buffer keeps its size; the server's never enters a phase of a session; and
\* the buffer of a session is all zeros until it has built or received anything.
BuffersInv ==
    /\ owner \in {"server", "session"}
    /\ buffer \in Buffer(BUFFER_SIZE)
    /\ owner = "server" => phase = "new"
    /\ owner = "session" /\ phase = "new" => \A k \in 1 .. BUFFER_SIZE : buffer[k] = 0
    /\ ReadsTheReply

\* A datagram built in the buffer leaves it a buffer.
LEMMA SendType ==
    ASSUME NEW c \in Cursors(BUFFER_SIZE), NEW m, Send(c, m)
    PROVE  buffer' \in Buffer(BUFFER_SIZE)
BY DEF Send, Cursors

\* The invariant holds initially.
LEMMA BuffersInitInv == Init => BuffersInv
<1>1. 0 \in Byte
  BY Bytes256
<1> QED  BY <1>1 DEF Init, BuffersInv, Buffer, ReadsTheReply

\* A request the server receives keeps it.
LEMMA HandleRequestInv ==
    ASSUME BuffersInv, NEW d \in Requests, handle_request(d)
    PROVE  BuffersInv'
<1> USE DEF BuffersInv, ReadsTheReply
<1>1. BUFFER_SIZE \in Nat /\ Received(d) \in Buffer(BUFFER_SIZE)
  BY ReceivedFacts
<1>2. CASE parse(Slice(d)).kind = "error"
  <2>1. PICK m \in DOMAIN Texts : parse(Slice(d)) = TFTPError(m)
    BY <1>2, ParseErrors
  <2>2. PICK c \in Cursors(BUFFER_SIZE) : c = serialize_error(Received(d), TFTPError(m))
    BY <1>1, SerializeErrorType
  <2>3. Send(c, TFTPError(m))
    BY <1>2, <2>1, <2>2 DEF handle_request
  <2>4. buffer' \in Buffer(BUFFER_SIZE)
    BY <2>3, SendType
  <2> QED  BY <2>4 DEF handle_request
<1>3. CASE parse(Slice(d)).kind # "error"
  BY <1>1, <1>3 DEF handle_request
<1> QED  BY <1>2, <1>3

\* An ERROR or an OACK that a session builds keeps it.
LEMMA SessionSendInv ==
    ASSUME BuffersInv, owner = "session", owner' = owner,
           phase' \in Phases \ {"new", "oack_read", "data_read"},
           NEW c \in Cursors(BUFFER_SIZE), NEW m, Send(c, m)
    PROVE  BuffersInv'
<1>1. buffer' \in Buffer(BUFFER_SIZE)
  BY SendType
<1> QED  BY <1>1 DEF BuffersInv, ReadsTheReply, Phases

\* A reply that a session receives keeps it.
LEMMA ReplyInv ==
    ASSUME BuffersInv, NEW d \in Replies, Ignore(d) \/ ReadAcknowledge(d)
    PROVE  BuffersInv'
<1> USE DEF BuffersInv
<1>1. /\ BUFFER_SIZE \in Nat /\ d \in Seq(Byte) /\ Len(d) <= BUFFER_SIZE
      /\ Received(d) \in Buffer(BUFFER_SIZE)
      /\ \A k \in 1 .. Len(d) : Received(d)[k] = d[k]
  BY ReceivedFacts
<1>2. CASE Ignore(d)
  BY <1>1, <1>2 DEF Ignore, ReadsTheReply
<1>3. CASE ReadAcknowledge(d)
  <2>1. PICK b : b = Received(d)
    OBVIOUS
  <2>2. b \in Seq(Byte) /\ Len(b) = BUFFER_SIZE
    BY <1>1, <2>1, BufferIsSequence
  <2>3. /\ buffer' = b /\ received' = d /\ outcome' = read_acknowledge(b)
        /\ owner' = "session" /\ phase' \in {"oack_read", "data_read"} /\ 4 <= Len(d)
    BY <1>1, <1>3, <2>1 DEF ReadAcknowledge, min_size
  <2>4. \/ read_acknowledge(b).kind = "ack"
        \/ read_acknowledge(d).kind \in {"ack", "client_error"}
        => read_acknowledge(b) = read_acknowledge(d)
    BY <1>1, <2>1, <2>2, <2>3, ReplyPrefix
  <2>5. ReadsTheReply'
    BY <2>3, <2>4 DEF ReadsTheReply
  <2> QED  BY <1>1, <2>1, <2>3, <2>5
<1> QED  BY <1>2, <1>3

\* Every step keeps the invariant.
LEMMA BuffersNextInv == BuffersInv /\ [Next]_vars => BuffersInv'
<1> SUFFICES ASSUME BuffersInv, [Next]_vars PROVE BuffersInv'
  OBVIOUS
<1>1. BUFFER_SIZE \in Nat /\ buffer \in Buffer(BUFFER_SIZE)
  BY BuffersAssumption DEF BuffersInv
<1>2. ASSUME NEW d \in Requests, handle_request(d) PROVE BuffersInv'
  BY <1>2, HandleRequestInv
<1>3. CASE TooManySessions
  <2> DEFINE m == "Maximum sessions per IP exceeded"
             c == serialize_error(buffer, TFTPError(m))
  <2>1. m \in DOMAIN Texts
    BY BuffersAssumption
  <2>2. c \in Cursors(BUFFER_SIZE)
    BY <1>1, <2>1, SerializeErrorType
  <2>3. Send(c, TFTPError(m)) /\ owner = "session" /\ owner' = owner /\ phase' = "refused"
    BY <1>3 DEF TooManySessions
  <2> HIDE DEF c, m
  <2> QED  BY <2>2, <2>3, SessionSendInv DEF Phases
<1>4. ASSUME NEW m \in DOMAIN Texts, fire_error(m) PROVE BuffersInv'
  <2> DEFINE c == serialize_error(buffer, TFTPError(m))
  <2>1. c \in Cursors(BUFFER_SIZE)
    BY <1>1, SerializeErrorType
  <2>2. Send(c, TFTPError(m)) /\ owner = "session" /\ owner' = owner
    BY <1>4 DEF fire_error
  <2>3. phase' \in {"ended", "failed"}
    BY <1>4 DEF fire_error, Due
  <2> HIDE DEF c
  <2> QED  BY <2>1, <2>2, <2>3, SessionSendInv DEF Phases
<1>5. CASE NoOack
  BY <1>5 DEF NoOack, BuffersInv, ReadsTheReply
<1>6. ASSUME NEW o \in Oacks, BuildOack(o) PROVE BuffersInv'
  <2> DEFINE c == serialize_oack(buffer, o)
             m == [kind |-> "oack", pairs |-> o]
  <2>1. o \in Pairs
    BY BuffersAssumption DEF Pairs
  <2>2. c \in Cursors(BUFFER_SIZE)
    BY <1>1, <2>1, SerializeOackType
  <2>3. Send(c, m) /\ owner = "session" /\ owner' = owner /\ phase' = "oack"
    BY <1>6 DEF BuildOack
  <2> HIDE DEF c, m
  <2> QED  BY <2>2, <2>3, SessionSendInv DEF Phases
<1>7. CASE RepeatOack
  BY <1>7 DEF RepeatOack, BuffersInv, ReadsTheReply
<1>8. CASE GoOn
  BY <1>8 DEF GoOn, BuffersInv, ReadsTheReply
<1>9. ASSUME NEW d \in Replies, Ignore(d) \/ ReadAcknowledge(d) PROVE BuffersInv'
  BY <1>9, ReplyInv
<1>10. CASE UNCHANGED vars
  BY <1>10 DEF vars, BuffersInv, ReadsTheReply
<1> QED  BY <1>2, <1>3, <1>4, <1>5, <1>6, <1>7, <1>8, <1>9, <1>10 DEF Next

\* The invariant holds throughout.
LEMMA BuffersInvariance == Spec => []BuffersInv
BY BuffersInitInv, BuffersNextInv, PTL DEF Spec

\* Whatever earlier datagrams left in the buffer of a session, an ACK is read for
\* what it says, and so is an ERROR whose message is terminated; nothing else is
\* read as an ACK: for datagrams of any length and a buffer of any size.
THEOREM ReadsTheReplyHolds == Spec => []ReadsTheReply
<1>1. BuffersInv => ReadsTheReply
  BY DEF BuffersInv
<1> QED  BY <1>1, BuffersInvariance, PTL
-----------------------------------------------------------------------------
(* The first datagram a session builds *)

\* The buffer holds these bytes, and zeros after them.
Filled(b, bytes, n) ==
    /\ b \in Buffer(n)
    /\ bytes \in Seq(Byte) /\ Len(bytes) <= n
    /\ \A k \in 1 .. n : b[k] = IF k <= Len(bytes) THEN bytes[k] ELSE 0

\* Bytes copied behind them extend them.
LEMMA CopyFilled ==
    ASSUME NEW n \in Nat, NEW b, NEW bytes, Filled(b, bytes, n),
           NEW more \in Seq(Byte), Len(bytes) + Len(more) <= n
    PROVE  Filled(copy_from_slice(b, Len(bytes), more), bytes \o more, n)
<1>1. bytes \in Seq(Byte) /\ b \in Buffer(n) /\ Len(bytes) \in Nat /\ Len(more) \in Nat
  BY DEF Filled
<1>2. PICK all : all = bytes \o more
  BY Zenon
<1>3. /\ all \in Seq(Byte) /\ Len(all) = Len(bytes) + Len(more)
      /\ \A k \in 1 .. Len(bytes) + Len(more) :
           all[k] = IF k <= Len(bytes) THEN bytes[k] ELSE more[k - Len(bytes)]
  BY ONLY <1>1, <1>2, more \in Seq(Byte), ConcatProperties, ZenonT(40)
<1>4. PICK b2 : b2 = copy_from_slice(b, Len(bytes), more)
  OBVIOUS
<1>5. b2 \in Buffer(n)
  BY <1>1, <1>4, CopyType
<1>6. \A k \in 1 .. n : b2[k] = IF k - Len(bytes) \in 1 .. Len(more) THEN more[k - Len(bytes)]
                                ELSE b[k]
  BY <1>1, <1>4 DEF copy_from_slice, Buffer
<1>7. ASSUME NEW k \in 1 .. n PROVE b2[k] = IF k <= Len(all) THEN all[k] ELSE 0
  <2>1. b[k] = IF k <= Len(bytes) THEN bytes[k] ELSE 0
    BY DEF Filled
  <2> QED  BY <1>1, <1>3, <1>6, <2>1
<1> QED  BY <1>2, <1>3, <1>4, <1>5, <1>7 DEF Filled

\* A zero written behind them changes nothing.
LEMMA CopyZero ==
    ASSUME NEW n \in Nat, NEW b, NEW bytes, Filled(b, bytes, n), NEW e \in Nat, Len(bytes) <= e
    PROVE  Filled(copy_from_slice(b, e, <<0>>), bytes, n)
<1>1. bytes \in Seq(Byte) /\ b \in Buffer(n) /\ Len(bytes) \in Nat /\ <<0>> \in Seq(Byte)
  BY NulType DEF Filled
<1>2. PICK b2 : b2 = copy_from_slice(b, e, <<0>>)
  OBVIOUS
<1>3. b2 \in Buffer(n)
  BY <1>1, <1>2, CopyType, ZenonT(40)
<1>4. \A k \in 1 .. n : b2[k] = IF k - e = 1 THEN 0 ELSE b[k]
  BY <1>1, <1>2 DEF copy_from_slice, Buffer
<1> QED  BY <1>1, <1>2, <1>3, <1>4 DEF Filled

\* The zero behind them is as good as one written there.
LEMMA FilledZero ==
    ASSUME NEW n \in Nat, NEW b, NEW bytes, Filled(b, bytes, n), Len(bytes) < n
    PROVE  Filled(b, bytes \o <<0>>, n)
<1>1. bytes \in Seq(Byte) /\ Len(bytes) \in Nat /\ <<0>> \in Seq(Byte) /\ Len(<<0>>) = 1
  BY NulType DEF Filled
<1>2. PICK all : all = bytes \o <<0>>
  BY Zenon
<1>3. /\ all \in Seq(Byte) /\ Len(all) = Len(bytes) + Len(<<0>>)
      /\ \A k \in 1 .. Len(bytes) + Len(<<0>>) :
           all[k] = IF k <= Len(bytes) THEN bytes[k] ELSE <<0>>[k - Len(bytes)]
  BY ONLY <1>1, <1>2, ConcatProperties, ZenonT(40)
<1>4. Len(all) = Len(bytes) + 1 /\ all[Len(bytes) + 1] = 0
      /\ \A k \in 1 .. Len(bytes) : all[k] = bytes[k]
  BY <1>1, <1>3
<1> QED  BY <1>1, <1>2, <1>3, <1>4 DEF Filled

\* A cursor that has built these bytes in a zeroed buffer.
Built(c, bytes, n) ==
    c \in Cursors(n) /\ ~c.full /\ c.offset = Len(bytes) /\ Filled(c.buffer, bytes, n)

\* What it has built is what is sent.
LEMMA BuiltIsSent ==
    ASSUME NEW n \in Nat, NEW c, NEW bytes, Built(c, bytes, n)
    PROVE  SubSeq(c.buffer, 1, c.offset) = bytes
<1>1. bytes \in Seq(Byte) /\ Len(bytes) <= n /\ c.offset = Len(bytes) /\ c.buffer \in Buffer(n)
  BY DEF Built, Filled
<1>2. c.buffer \in Seq(Byte) /\ Len(c.buffer) = n
  BY <1>1, BufferIsSequence
<1>3. \A k \in 1 .. Len(bytes) : c.buffer[k] = bytes[k]
  BY <1>1 DEF Built, Filled
<1> QED  BY <1>1, <1>2, <1>3

\* A new cursor has built nothing in a buffer of zeros.
LEMMA NewCursorBuilt ==
    ASSUME NEW n \in Nat, NEW b \in Buffer(n), \A k \in 1 .. n : b[k] = 0
    PROVE  Built(Cursor(b), << >>, n)
<1>1. << >> \in Seq(Byte) /\ Len(<< >>) = 0
  OBVIOUS
<1> QED  BY <1>1, CursorType DEF Built, Filled, Cursor

\* put_ushort adds its two bytes.
LEMMA PutUShortBuilt ==
    ASSUME NEW n \in Nat, NEW c, NEW bytes, Built(c, bytes, n), NEW v \in 0 .. 6,
           ~put_ushort(c, v).full
    PROVE  Built(put_ushort(c, v), bytes \o UShort(v), n)
<1>1. /\ c \in Cursors(n) /\ c.offset = Len(bytes) /\ ~c.full /\ c.buffer \in Buffer(n)
      /\ bytes \in Seq(Byte) /\ Len(bytes) \in Nat /\ Filled(c.buffer, bytes, n)
  BY DEF Built, Filled
<1>2. Len(c.buffer) = n
  BY <1>1, BufferIsSequence
<1>3. UShort(v) \in Seq(Byte) /\ Len(UShort(v)) = 2
  BY UShortType
<1>4. PICK c2 : c2 = put_ushort(c, v)
  OBVIOUS
<1>5. c2 \in Cursors(n)
  BY <1>1, <1>4, PutUShortType
<1>6. PICK b : b = copy_from_slice(c.buffer, Len(bytes), UShort(v))
  OBVIOUS
<1>7. Len(bytes) + 2 <= n /\ c2 = [c EXCEPT !.buffer = b, !.offset = Len(bytes) + 2]
  BY <1>1, <1>2, <1>4, <1>6 DEF put_ushort, Cursors
<1>8. c2.buffer = b /\ c2.offset = Len(bytes) + 2 /\ ~c2.full
  BY <1>1, <1>7 DEF Cursors
<1>9. Filled(b, bytes \o UShort(v), n)
  BY <1>1, <1>3, <1>6, <1>7, CopyFilled, ZenonT(40)
<1>10. Len(bytes \o UShort(v)) = Len(bytes) + 2
  <2>1. PICK u \in Seq(Byte) : u = UShort(v) /\ Len(u) = 2
    BY <1>3
  <2>2. Len(bytes \o u) = Len(bytes) + Len(u)
    BY ONLY <1>1, <2>1, ConcatProperties, ZenonT(40)
  <2> QED  BY <2>1, <2>2
<1> QED  BY <1>4, <1>5, <1>8, <1>9, <1>10 DEF Built

\* put_string adds its text, and finds the terminator in place.
LEMMA PutStringBuilt ==
    ASSUME NEW n \in Nat, NEW c, NEW bytes, Built(c, bytes, n), NEW text \in Seq(Byte),
           ~put_string(c, text).full
    PROVE  Built(put_string(c, text), bytes \o text \o <<0>>, n)
<1>1. /\ c \in Cursors(n) /\ c.offset = Len(bytes) /\ ~c.full /\ c.buffer \in Buffer(n)
      /\ bytes \in Seq(Byte) /\ Len(bytes) \in Nat /\ Filled(c.buffer, bytes, n)
      /\ Len(text) \in Nat
  BY DEF Built, Filled
<1>2. Len(c.buffer) = n
  BY <1>1, BufferIsSequence
<1>3. PICK e \in Nat : e = Len(bytes) + Len(text) + 1
  BY <1>1
<1>4. PICK c2 : c2 = put_string(c, text)
  OBVIOUS
<1>5. c2 \in Cursors(n)
  BY <1>1, <1>4, PutStringType
<1>6. PICK b1 : b1 = copy_from_slice(c.buffer, Len(bytes), text)
  OBVIOUS
<1>7. PICK b2 : b2 = copy_from_slice(b1, e, <<0>>)
  OBVIOUS
<1>8. c.offset + Reserved(text) = e
  BY <1>1, <1>3 DEF Reserved
<1>9. put_string(c, text) = IF c.full \/ e >= n THEN [c EXCEPT !.full = TRUE]
                            ELSE [c EXCEPT !.buffer = b2, !.offset = e]
  BY <1>1, <1>2, <1>6, <1>7, <1>8, ZenonT(40) DEF put_string
<1>10. e < n /\ c2 = [c EXCEPT !.buffer = b2, !.offset = e]
  BY <1>1, <1>4, <1>9 DEF Cursors
<1>11. c2.buffer = b2 /\ c2.offset = e /\ ~c2.full
  BY <1>1, <1>10 DEF Cursors
<1>12. PICK most : most = bytes \o text
  BY Zenon
<1>13. most \in Seq(Byte) /\ Len(most) = Len(bytes) + Len(text)
  BY <1>1, <1>12
<1>14. Filled(b1, most, n)
  BY <1>1, <1>3, <1>6, <1>10, <1>12, CopyFilled
<1>15. Filled(b2, most, n)
  BY <1>1, <1>3, <1>7, <1>13, <1>14, CopyZero
<1>16. Filled(b2, most \o <<0>>, n)
  BY <1>1, <1>3, <1>10, <1>13, <1>15, FilledZero
<1>17. Len(most \o <<0>>) = e
  BY <1>1, <1>3, <1>13
<1> QED  BY <1>4, <1>5, <1>11, <1>12, <1>16, <1>17 DEF Built

\* A cursor once full stays full.
LEMMA FullStays ==
    ASSUME NEW n \in Nat, NEW c \in Cursors(n), c.full
    PROVE  /\ \A v : put_ushort(c, v).full
           /\ \A text : put_string(c, text).full
<1>1. [c EXCEPT !.full = TRUE].full
  BY DEF Cursors
<1> QED  BY <1>1 DEF put_ushort, put_string

\* An ERROR serialised in a buffer of zeros.
LEMMA ErrorBuilt ==
    ASSUME NEW n \in Nat, NEW b \in Buffer(n), \A k \in 1 .. n : b[k] = 0,
           NEW m \in DOMAIN Texts, ~serialize_error(b, TFTPError(m)).full
    PROVE  Built(serialize_error(b, TFTPError(m)), Bytes(TFTPError(m)), n)
<1>1. PICK code \in 0 .. 6 : code = TFTPError(m).code
  BY ErrorFacts
<1>2. TFTPError(m).message = m /\ TFTPError(m).kind = "error" /\ ERROR \in 0 .. 6
  BY ErrorFacts DEF ERROR
<1>3. PICK text \in Seq(Byte) : text = Texts[m]
  BY BuffersAssumption
<1>4. PICK c0 \in Cursors(n) : c0 = Cursor(b)
  BY CursorType
<1>5. PICK c1 \in Cursors(n) : c1 = put_ushort(c0, ERROR)
  BY <1>2, PutUShortType
<1>6. PICK c2 \in Cursors(n) : c2 = put_ushort(c1, code)
  BY PutUShortType
<1>7. PICK c3 : c3 = put_string(c2, text)
  OBVIOUS
<1>8. serialize_error(b, TFTPError(m)) = c3
  BY <1>1, <1>2, <1>3, <1>4, <1>5, <1>6, <1>7 DEF serialize_error
<1>9. ~c3.full /\ ~c2.full /\ ~c1.full
  BY <1>6, <1>7, <1>8, FullStays
<1>10. Built(c1, << >> \o UShort(ERROR), n)
  BY <1>2, <1>4, <1>5, <1>9, NewCursorBuilt, PutUShortBuilt, ZenonT(40)
<1>11. << >> \o UShort(ERROR) = UShort(ERROR)
  BY <1>2, UShortType, ConcatEmptySeq
<1>12. Built(c2, UShort(ERROR) \o UShort(code), n)
  BY <1>6, <1>9, <1>10, <1>11, PutUShortBuilt
<1>13. Built(c3, UShort(ERROR) \o UShort(code) \o text \o <<0>>, n)
  BY <1>7, <1>9, <1>12, PutStringBuilt
<1>14. Bytes(TFTPError(m)) = UShort(ERROR) \o UShort(code) \o text \o <<0>>
  BY <1>1, <1>2, <1>3, ZenonT(40) DEF Bytes
<1> QED  BY <1>8, <1>13, <1>14

\* FlattenSeq appends the sequences one after the other.
LEMMA FlattenSteps ==
    ASSUME NEW S, NEW s \in Seq(Seq(S)), s # << >>
    PROVE  \E g \in [0 .. Len(s) -> Seq(S)] :
              /\ g[0] = << >>
              /\ \A k \in 1 .. Len(s) : g[k] = g[k - 1] \o s[k]
              /\ FlattenSeq(s) = g[Len(s)]
<1> DEFINE L == Len(s)
           Solution(f) == f = [i \in 1 .. L |-> IF i = 1 THEN s[i] ELSE f[i - 1] \o s[i]]
           G == [x \in (1 .. L) \X Seq(S) |-> x[2] \o s[x[1]]]
<1>1. L \in Nat /\ L # 0 /\ \A k \in 1 .. L : s[k] \in Seq(S)
  OBVIOUS
<1>2. FlattenSeq(s) = (CHOOSE f : Solution(f))[L]
  BY <1>1 DEF FlattenSeq
<1> HIDE DEF L
<1>3. G \in [(1 .. L) \X Seq(S) -> Seq(S)]
  BY <1>1
<1>4. << >> \in Seq(S)
  OBVIOUS
<1>5. PICK h \in [0 .. L -> Seq(S)] : Solves(h, L, << >>, G)
  <2> HIDE DEF G
  <2>1. L \in Nat
    BY <1>1
  <2> QED  BY ONLY <2>1, <1>3, <1>4, Recursion, ZenonT(40)
<1>6. h[0] = << >> /\ \A k \in 1 .. L : h[k - 1] \in Seq(S) /\ h[k] = h[k - 1] \o s[k]
  <2>1. \A k \in 1 .. L : \A x \in Seq(S) : G[<<k, x>>] = x \o s[k]
    BY Zenon
  <2>2. \A k \in 1 .. L : h[k - 1] \in Seq(S)
    BY <1>1
  <2> HIDE DEF G
  <2> QED  BY <1>5, <2>1, <2>2, ZenonT(40) DEF Solves
<1> HIDE DEF G
<1>7. h[1] = s[1]
  <2>1. 1 \in 1 .. L /\ 1 - 1 = 0
    BY <1>1
  <2>2. h[1] = << >> \o s[1] /\ s[1] \in Seq(S)
    BY <1>1, <1>6, <2>1, ZenonT(40)
  <2> QED  BY <2>2, ConcatEmptySeq
<1> DEFINE f0 == [i \in 1 .. L |-> h[i]]
<1>8. Solution(f0)
  <2>1. ASSUME NEW i \in 1 .. L PROVE f0[i] = IF i = 1 THEN s[i] ELSE f0[i - 1] \o s[i]
    <3>1. CASE i = 1
      BY <1>1, <1>7, <3>1
    <3>2. CASE i # 1
      <4>1. i - 1 \in 1 .. L
        BY <1>1, <3>2
      <4>2. f0[i] = h[i] /\ f0[i - 1] = h[i - 1]
        BY <4>1
      <4>3. h[i] = h[i - 1] \o s[i]
        BY <1>6, Zenon
      <4> HIDE DEF f0
      <4> QED  BY <3>2, <4>2, <4>3, ZenonT(40)
    <3> QED  BY <3>1, <3>2
  <2>2. f0 = [i \in 1 .. L |-> f0[i]]
    OBVIOUS
  <2> HIDE DEF f0
  <2> QED  BY <2>1, <2>2, ZenonT(40)
<1> HIDE DEF f0
<1>9. PICK f : f = CHOOSE g : Solution(g)
  BY Zenon
<1>10. Solution(f)
  <2> HIDE DEF Solution
  <2> QED  BY <1>8, <1>9
<1>11. /\ f[1] = s[1]
       /\ \A k \in 2 .. L : f[k] = f[k - 1] \o s[k]
  <2>1. \A k \in 1 .. L : f[k] = IF k = 1 THEN s[k] ELSE f[k - 1] \o s[k]
    BY ONLY <1>10, Zenon
  <2>2. 1 \in 1 .. L /\ \A k \in 2 .. L : k \in 1 .. L /\ k # 1
    BY <1>1
  <2> QED  BY ONLY <2>1, <2>2, ZenonT(40)
<1> DEFINE T == {k \in 0 .. L : k > 0 => f[k] = h[k]}
<1>12. 0 \in T
  BY <1>1
<1>13. ASSUME NEW k \in 1 .. L, k - 1 \in T PROVE k \in T
  <2>1. k \in 0 .. L /\ (k = 1 \/ (k \in 2 .. L /\ k - 1 > 0))
    BY <1>1
  <2>2. k - 1 > 0 => f[k - 1] = h[k - 1]
    BY <1>13, Zenon
  <2>3. f[k] = h[k]
    BY <1>6, <1>7, <1>11, <2>1, <2>2, ZenonT(40)
  <2> QED  BY <2>1, <2>3
<1>14. L \in T
  <2> HIDE DEF T
  <2>1. \A k \in 0 .. L : k \in T
    BY <1>1, <1>12, <1>13, Stepwise, ZenonT(40)
  <2> QED  BY <1>1, <2>1
<1>15. FlattenSeq(s) = h[L]
  BY <1>1, <1>2, <1>9, <1>14
<1> QED  BY <1>6, <1>15, Zenon DEF L

\* The bytes of an option pair.
PairBytes(pair) == pair[1] \o <<0>> \o pair[2] \o <<0>>

\* And these bytes as they are put behind others.
PutPair(bytes, pair) == bytes \o pair[1] \o <<0>> \o pair[2] \o <<0>>

\* All the bytes, when most of them are built.
Whole(head, most, pair) == head \o (most \o PairBytes(pair))

\* What is put for a pair, regrouped.
LEMMA Regroup ==
    ASSUME NEW head, NEW most, NEW pair,
           head \in Seq(Byte), most \in Seq(Byte), pair \in Seq(Byte) \X Seq(Byte)
    PROVE  /\ PairBytes(pair) \in Seq(Byte)
           /\ PutPair(head \o most, pair) = Whole(head, most, pair)
<1>1. PICK name, value, nul : pair[1] = name /\ pair[2] = value /\ <<0>> = nul
  BY Zenon
<1>2. name \in Seq(Byte) /\ value \in Seq(Byte) /\ nul \in Seq(Byte)
  BY <1>1, NulType, Zenon
<1>3. PICK start : start = head \o most
  BY Zenon
<1>4. PICK two, part : two = name \o nul /\ part = two \o value
  BY Zenon
<1>5. PICK bytes : bytes = part \o nul
  BY Zenon
<1>6. two \in Seq(Byte)
  BY ONLY <1>2, <1>4, ConcatProperties, ZenonT(40)
<1>7. start \in Seq(Byte)
  BY ONLY head \in Seq(Byte), most \in Seq(Byte), <1>3, ConcatProperties, ZenonT(40)
<1>8. part \in Seq(Byte)
  BY ONLY <1>2, <1>4, <1>6, ConcatProperties, ZenonT(40)
<1>9. bytes \in Seq(Byte)
  BY ONLY <1>2, <1>5, <1>8, ConcatProperties, ZenonT(40)
<1>10. ((start \o name) \o nul) \o value = start \o part
  <2>1. (start \o name) \o nul = start \o two
    BY ONLY <1>2, <1>4, <1>7, ConcatAssociative, SMTT(60)
  <2>2. (start \o two) \o value = start \o part
    BY ONLY <1>2, <1>4, <1>6, <1>7, ConcatAssociative, SMTT(60)
  <2> QED  BY ONLY <2>1, <2>2, ZenonT(40)
<1>11. (start \o part) \o nul = start \o bytes
  BY ONLY <1>2, <1>5, <1>7, <1>8, ConcatAssociative, SMTT(60)
<1>12. start \o bytes = head \o (most \o bytes)
  BY ONLY head \in Seq(Byte), most \in Seq(Byte), <1>3, <1>9, ConcatAssociative, SMTT(60)
<1>13. PairBytes(pair) = bytes
  BY ONLY <1>1, <1>4, <1>5, ZenonT(40) DEF PairBytes
<1>14. (((start \o name) \o nul) \o value) \o nul = head \o (most \o bytes)
  BY ONLY <1>10, <1>11, <1>12, ZenonT(40)
<1> QED  BY ONLY <1>1, <1>3, <1>9, <1>13, <1>14, ZenonT(40) DEF PutPair, Whole

\* An OACK serialised in a buffer of zeros: by induction over its pairs.
LEMMA OackBuilt ==
    ASSUME NEW n \in Nat, NEW b \in Buffer(n), \A k \in 1 .. n : b[k] = 0,
           NEW pairs \in Pairs, pairs # << >>, ~serialize_oack(b, pairs).full
    PROVE  Built(serialize_oack(b, pairs), Bytes([kind |-> "oack", pairs |-> pairs]), n)
<1> DEFINE L == Len(pairs)
           texts == [i \in DOMAIN pairs |-> PairBytes(pairs[i])]
<1>1. /\ L \in Nat /\ DOMAIN pairs = 1 .. L
      /\ \A k \in 1 .. L : pairs[k] \in Seq(Byte) \X Seq(Byte)
  BY DEF Pairs
<1>2. PICK head \in Seq(Byte) : head = UShort(OACK)
  BY UShortType DEF OACK
<1>3. PICK put \in [0 .. L -> Cursors(n)] :
         /\ put[0] = put_ushort(Cursor(b), OACK)
         /\ \A k \in 1 .. L :
               put[k] = put_string(put_string(put[k - 1], pairs[k][1]), pairs[k][2])
         /\ serialize_oack(b, pairs) = put[L]
  BY OackSteps
<1>4. \A k \in 1 .. L : PairBytes(pairs[k]) \in Seq(Byte)
  BY <1>1, <1>2, Regroup, ZenonT(40)
<1>5. texts \in Seq(Seq(Byte)) /\ Len(texts) = L /\ texts # << >>
      /\ \A k \in 1 .. L : texts[k] = PairBytes(pairs[k])
  <2>1. L # 0
    BY DEF Pairs
  <2>2. DOMAIN texts = 1 .. L /\ \A k \in 1 .. L : texts[k] = PairBytes(pairs[k])
    BY <1>1
  <2>3. texts \in [1 .. L -> Seq(Byte)]
    BY <1>1, <1>4
  <2> HIDE DEF texts, L
  <2>4. texts \in Seq(Seq(Byte)) /\ Len(texts) = L
    BY <1>1, <2>3
  <2> QED  BY <2>1, <2>2, <2>4
<1>6. Bytes([kind |-> "oack", pairs |-> pairs]) = head \o FlattenSeq(texts)
  BY <1>2, Zenon DEF Bytes, PairBytes
<1> HIDE DEF texts, L
<1>7. PICK g \in [0 .. L -> Seq(Byte)] :
         /\ g[0] = << >>
         /\ \A k \in 1 .. L : g[k] = g[k - 1] \o PairBytes(pairs[k])
         /\ FlattenSeq(texts) = g[L]
  <2>1. PICK g \in [0 .. Len(texts) -> Seq(Byte)] :
           /\ g[0] = << >>
           /\ \A k \in 1 .. Len(texts) : g[k] = g[k - 1] \o texts[k]
           /\ FlattenSeq(texts) = g[Len(texts)]
    BY <1>5, FlattenSteps, ZenonT(40)
  <2>2. /\ g \in [0 .. L -> Seq(Byte)] /\ FlattenSeq(texts) = g[L]
        /\ \A k \in 1 .. L : g[k] = g[k - 1] \o PairBytes(pairs[k])
    BY <1>5, <2>1, ZenonT(40)
  <2> QED  BY <2>1, <2>2, ZenonT(40)
<1> DEFINE T == {k \in 0 .. L : ~put[k].full => Built(put[k], head \o g[k], n)}
<1>8. 0 \in T
  <2>1. ASSUME ~put[0].full PROVE Built(put[0], head \o << >>, n)
    <3>1. Built(put[0], << >> \o UShort(OACK), n)
      <4>1. PICK v \in 0 .. 6 : v = OACK
        BY DEF OACK
      <4>2. PICK c : c = Cursor(b) /\ Built(c, << >>, n)
        BY NewCursorBuilt
      <4>3. put[0] = put_ushort(c, v)
        BY <1>3, <4>1, <4>2
      <4>4. Built(put[0], << >> \o UShort(v), n)
        BY <2>1, <4>2, <4>3, PutUShortBuilt, ZenonT(40)
      <4> QED  BY <4>1, <4>4
    <3>2. << >> \o head = head /\ head \o << >> = head
      BY <1>2, ConcatEmptySeq
    <3> QED  BY <1>2, <3>1, <3>2
  <2>2. 0 \in 0 .. L
    BY <1>1
  <2> QED  BY <1>7, <2>1, <2>2, ZenonT(40)
<1>9. ASSUME NEW k \in 1 .. L, k - 1 \in T PROVE k \in T
  <2>1. k \in 0 .. L /\ k - 1 \in 0 .. L
    BY <1>1
  <2>2. PICK c0 \in Cursors(n) : c0 = put[k - 1]
    BY <2>1
  <2>3. PICK most \in Seq(Byte) : most = g[k - 1]
    BY <2>1
  <2>4. PICK name \in Seq(Byte), value \in Seq(Byte) : pairs[k][1] = name /\ pairs[k][2] = value
    BY SMTT(30), <1>1
  <2>5. PICK c1 \in Cursors(n) : c1 = put_string(c0, name)
    BY PutStringType
  <2>6. put[k] = put_string(c1, value)
    BY <1>3, <2>2, <2>4, <2>5
  <2>7. ASSUME ~put[k].full PROVE Built(put[k], head \o g[k], n)
    <3>1. ~c1.full /\ ~c0.full
      BY <2>5, <2>6, <2>7, FullStays
    <3>2. Built(c0, head \o most, n)
      BY <1>9, <2>2, <2>3, <3>1, ZenonT(40)
    <3>3. Built(c1, head \o most \o name \o <<0>>, n)
      BY <2>5, <3>1, <3>2, PutStringBuilt
    <3>4. Built(put[k], head \o most \o name \o <<0>> \o value \o <<0>>, n)
      BY <2>6, <2>7, <3>3, PutStringBuilt
    <3>5. head \o most \o name \o <<0>> \o value \o <<0>> = head \o (most \o PairBytes(pairs[k]))
      <4>1. PICK pair : pair = pairs[k]
        BY Zenon
      <4>2. pair \in Seq(Byte) \X Seq(Byte) /\ pair[1] = name /\ pair[2] = value
        BY <1>1, <2>4, <4>1, ZenonT(40)
      <4>3. PutPair(head \o most, pair) = Whole(head, most, pair)
        BY ONLY <4>2, head \in Seq(Byte), most \in Seq(Byte), Regroup, ZenonT(40)
      <4> QED  BY <4>1, <4>2, <4>3, ZenonT(40) DEF PutPair, Whole
    <3>6. g[k] = most \o PairBytes(pairs[k])
      BY <1>7, <2>3, ZenonT(40)
    <3> QED  BY <3>4, <3>5, <3>6, ZenonT(40)
  <2> QED  BY <2>1, <2>7
<1>10. L \in T
  <2> HIDE DEF T
  <2>1. \A k \in 0 .. L : k \in T
    BY <1>1, <1>8, <1>9, Stepwise, ZenonT(40)
  <2> QED  BY <1>1, <2>1
<1> QED  BY <1>3, <1>6, <1>7, <1>10, ZenonT(40)

\* The first datagram a session builds, an ERROR or an OACK, is sent as it is
\* meant, every text with its terminator: put_string relies on the zeros of a
\* new buffer for the places it leaves out, and finds them.
THEOREM FirstDatagramReadsBackHolds == Spec => FirstDatagramReadsBack
<1> DEFINE ReadsBack == owner = "session" /\ phase = "new" /\ sent' # sent => sent' = Bytes(meant')
<1>1. BuffersInv /\ [Next]_vars => [ReadsBack]_vars
  <2> SUFFICES ASSUME BuffersInv, Next, owner = "session", phase = "new", sent' # sent
               PROVE  sent' = Bytes(meant')
    OBVIOUS
  <2>1. /\ BUFFER_SIZE \in Nat /\ buffer \in Buffer(BUFFER_SIZE)
        /\ \A k \in 1 .. BUFFER_SIZE : buffer[k] = 0
    BY BuffersAssumption DEF BuffersInv
  <2>2. ASSUME NEW c, NEW m, Send(c, m), Built(c, Bytes(m), BUFFER_SIZE)
        PROVE  sent' = Bytes(meant')
    BY <2>1, <2>2, BuiltIsSent DEF Send
  <2>3. ASSUME NEW m \in DOMAIN Texts, Send(serialize_error(buffer, TFTPError(m)), TFTPError(m))
        PROVE  sent' = Bytes(meant')
    <3>1. ~serialize_error(buffer, TFTPError(m)).full
      BY <2>3 DEF Send
    <3>2. Built(serialize_error(buffer, TFTPError(m)), Bytes(TFTPError(m)), BUFFER_SIZE)
      BY <2>1, <3>1, ErrorBuilt
    <3> QED  BY <2>2, <2>3, <3>2
  <2>4. CASE TooManySessions
    <3>1. "Maximum sessions per IP exceeded" \in DOMAIN Texts
      BY BuffersAssumption
    <3> QED  BY ZenonT(40), <2>3, <2>4, <3>1 DEF TooManySessions
  <2>5. ASSUME NEW m \in DOMAIN Texts, fire_error(m) PROVE sent' = Bytes(meant')
    BY <2>3, <2>5 DEF fire_error
  <2>6. ASSUME NEW o \in Oacks, BuildOack(o) PROVE sent' = Bytes(meant')
    <3> DEFINE c == serialize_oack(buffer, o)
               m == [kind |-> "oack", pairs |-> o]
    <3>1. o \in Pairs /\ o # << >>
      BY BuffersAssumption DEF Pairs
    <3>2. Send(c, m)
      BY <2>6 DEF BuildOack
    <3>3. ~c.full
      BY <3>2 DEF Send
    <3>4. Built(c, Bytes(m), BUFFER_SIZE)
      BY <2>1, <3>1, <3>3, OackBuilt
    <3> HIDE DEF c, m
    <3> QED  BY <2>2, <3>2, <3>4
  <2>7. ASSUME NEW d \in Requests, handle_request(d) PROVE FALSE
    BY <2>7 DEF handle_request
  <2>8. CASE NoOack
    BY <2>8 DEF NoOack
  <2>9. CASE RepeatOack
    BY <2>9 DEF RepeatOack
  <2>10. CASE GoOn
    BY <2>10 DEF GoOn
  <2>11. ASSUME NEW d \in Replies, Ignore(d) \/ ReadAcknowledge(d) PROVE FALSE
    BY <2>11 DEF Ignore, ReadAcknowledge
  <2> QED  BY <2>4, <2>5, <2>6, <2>7, <2>8, <2>9, <2>10, <2>11 DEF Next
<1>2. Spec => [][Next]_vars
  BY PTL DEF Spec
<1> QED  BY <1>1, <1>2, BuffersInvariance, PTL DEF FirstDatagramReadsBack
-----------------------------------------------------------------------------
(* Every datagram fits *)

\* put_ushort moves the cursor on by two bytes.
LEMMA PutUShortFits ==
    ASSUME NEW n \in Nat, NEW c \in Cursors(n), NEW v \in 0 .. 6, ~c.full, c.offset + 2 <= n
    PROVE  ~put_ushort(c, v).full /\ put_ushort(c, v).offset = c.offset + 2
<1>1. c.buffer \in Buffer(n) /\ c.offset \in Nat /\ Len(c.buffer) = n
  BY DEF Cursors, Buffer
<1> QED  BY <1>1 DEF put_ushort, Cursors

\* put_string moves it on by a text and its terminator.
LEMMA PutStringFits ==
    ASSUME NEW n \in Nat, NEW c \in Cursors(n), NEW text \in Seq(Byte), ~c.full,
           c.offset + Len(text) + 1 < n
    PROVE  ~put_string(c, text).full /\ put_string(c, text).offset = c.offset + Len(text) + 1
<1>1. c.buffer \in Buffer(n) /\ c.offset \in Nat /\ Len(c.buffer) = n /\ Len(text) \in Nat
  BY DEF Cursors, Buffer
<1> QED  BY <1>1 DEF put_string, Reserved, Cursors

\* A new cursor is not full, and a number is put after a number.
LEMMA HeaderFits ==
    ASSUME NEW n \in Nat, NEW b \in Buffer(n), NEW v \in 0 .. 6, NEW w \in 0 .. 6, 4 <= n
    PROVE  /\ ~put_ushort(Cursor(b), v).full /\ put_ushort(Cursor(b), v).offset = 2
           /\ \E c \in Cursors(n) : /\ c = put_ushort(put_ushort(Cursor(b), v), w)
                                    /\ ~c.full /\ c.offset = 4
<1>1. PICK c0 \in Cursors(n) : c0 = Cursor(b)
  BY CursorType
<1>2. ~c0.full /\ c0.offset = 0
  BY <1>1 DEF Cursor
<1>3. PICK c1 \in Cursors(n) : c1 = put_ushort(c0, v)
  BY PutUShortType
<1>4. ~c1.full /\ c1.offset = 2
  <2>1. c0.offset + 2 <= n
    BY <1>2
  <2> QED  BY <1>2, <1>3, <2>1, PutUShortFits
<1>5. PICK c2 \in Cursors(n) : c2 = put_ushort(c1, w)
  BY PutUShortType
<1>6. ~c2.full /\ c2.offset = 4
  <2>1. c1.offset + 2 <= n
    BY <1>4
  <2> QED  BY <1>4, <1>5, <2>1, PutUShortFits
<1> QED  BY <1>1, <1>3, <1>4, <1>5, <1>6, ZenonT(40)

\* An ERROR fits.
LEMMA ErrorFits ==
    ASSUME NEW b \in Buffer(BUFFER_SIZE), NEW m \in DOMAIN Texts
    PROVE  /\ ~serialize_error(b, TFTPError(m)).full
           /\ serialize_error(b, TFTPError(m)).offset = Len(Texts[m]) + 5
<1>1. TFTPError(m).code \in 0 .. 6 /\ TFTPError(m).message = m
  BY ErrorFacts
<1>2. BUFFER_SIZE \in Nat /\ Texts[m] \in Seq(Byte) /\ Len(Texts[m]) + 5 < BUFFER_SIZE
  BY BuffersAssumption
<1>3. PICK text \in Seq(Byte) : text = Texts[m]
  BY <1>2
<1>4. Len(text) \in Nat /\ 4 <= BUFFER_SIZE
  BY <1>2, <1>3
<1>5. PICK v \in 0 .. 6, w \in 0 .. 6 : v = ERROR /\ w = TFTPError(m).code
  BY <1>1 DEF ERROR
<1>6. PICK c \in Cursors(BUFFER_SIZE) :
         c = put_ushort(put_ushort(Cursor(b), v), w) /\ ~c.full /\ c.offset = 4
  BY ZenonT(40), <1>2, <1>4, HeaderFits
<1>7. serialize_error(b, TFTPError(m)) = put_string(c, text)
  BY <1>1, <1>3, <1>5, <1>6 DEF serialize_error
<1>8. c.offset + Len(text) + 1 < BUFFER_SIZE
  BY SMTT(30), <1>2, <1>3, <1>4, <1>6
<1>9. ~put_string(c, text).full /\ put_string(c, text).offset = c.offset + Len(text) + 1
  BY <1>2, <1>6, <1>8, PutStringFits
<1> QED  BY <1>3, <1>4, <1>6, <1>7, <1>9

\* The bytes of the texts of some pairs.
Letter(pairs) == [i \in DOMAIN pairs |-> pairs[i][1] \o pairs[i][2]]

\* How the bytes of the texts add up, from pair to pair.
LEMMA LetterSteps ==
    ASSUME NEW pairs \in Pairs, pairs # << >>
    PROVE  \E size \in [0 .. Len(pairs) -> Nat] :
              /\ size[0] = 0
              /\ \A k \in 1 .. Len(pairs) :
                    size[k] = size[k - 1] + Len(pairs[k][1]) + Len(pairs[k][2])
              /\ size[Len(pairs)] = Len(FlattenSeq(Letter(pairs)))
<1> DEFINE L == Len(pairs)
<1>1. /\ L \in Nat /\ L # 0 /\ DOMAIN pairs = 1 .. L
      /\ \A k \in 1 .. L : pairs[k][1] \in Seq(Byte) /\ pairs[k][2] \in Seq(Byte)
  BY DEF Pairs
<1>2. PICK texts : texts = Letter(pairs)
  OBVIOUS
<1>3. \A k \in 1 .. L : /\ pairs[k][1] \o pairs[k][2] \in Seq(Byte)
                        /\ Len(pairs[k][1] \o pairs[k][2]) = Len(pairs[k][1]) + Len(pairs[k][2])
  BY <1>1
<1> HIDE DEF L
<1>4. texts \in [1 .. L -> Seq(Byte)] /\ \A k \in 1 .. L : texts[k] = pairs[k][1] \o pairs[k][2]
  BY ZenonT(40), <1>1, <1>2, <1>3 DEF Letter
<1>5. texts \in Seq(Seq(Byte)) /\ Len(texts) = L /\ texts # << >>
  BY <1>1, <1>4
<1>6. PICK g \in [0 .. L -> Seq(Byte)] :
         /\ g[0] = << >>
         /\ \A k \in 1 .. L : g[k] = g[k - 1] \o texts[k]
         /\ FlattenSeq(texts) = g[L]
  <2>1. PICK g \in [0 .. Len(texts) -> Seq(Byte)] :
           /\ g[0] = << >>
           /\ \A k \in 1 .. Len(texts) : g[k] = g[k - 1] \o texts[k]
           /\ FlattenSeq(texts) = g[Len(texts)]
    BY ZenonT(40), <1>5, FlattenSteps
  <2> QED  BY <1>5, <2>1, ZenonT(40)
<1> DEFINE size == [k \in 0 .. L |-> Len(g[k])]
<1>7. size \in [0 .. L -> Nat]
  OBVIOUS
<1>8. size[0] = 0 /\ size[L] = Len(FlattenSeq(texts))
  BY <1>1, <1>6
<1>9. ASSUME NEW k \in 1 .. L
      PROVE  size[k] = size[k - 1] + Len(pairs[k][1]) + Len(pairs[k][2])
  <2>1. k \in 0 .. L /\ k - 1 \in 0 .. L
    BY <1>1
  <2>2. PICK most \in Seq(Byte) : most = g[k - 1]
    BY <2>1
  <2>3. PICK text \in Seq(Byte) : text = texts[k]
    BY <1>4
  <2>4. Len(g[k]) = Len(most) + Len(text)
    <3>1. g[k] = most \o text
      BY <1>6, <2>2, <2>3, ZenonT(40)
    <3> QED  BY ONLY most \in Seq(Byte), text \in Seq(Byte), <3>1, ConcatProperties, ZenonT(40)
  <2>5. Len(text) = Len(pairs[k][1]) + Len(pairs[k][2])
    BY ZenonT(40), <1>3, <1>4, <2>3
  <2>6. size[k] = Len(g[k]) /\ size[k - 1] = Len(most)
    BY <2>1, <2>2
  <2>7. PICK x \in Nat, y \in Nat, z \in Nat :
           x = Len(most) /\ y = Len(pairs[k][1]) /\ z = Len(pairs[k][2])
    <3>1. Len(pairs[k][1]) \in Nat /\ Len(pairs[k][2]) \in Nat /\ Len(most) \in Nat
      BY <1>1
    <3> QED  BY <3>1, ZenonT(40)
  <2>8. size[k] = x + (y + z) /\ size[k - 1] = x
    BY <2>4, <2>5, <2>6, <2>7, ZenonT(40)
  <2>9. x + (y + z) = x + y + z
    BY ONLY x \in Nat, y \in Nat, z \in Nat
  <2> QED  BY ONLY <2>7, <2>8, <2>9, ZenonT(40)
<1> HIDE DEF size
<1> QED  BY <1>2, <1>7, <1>8, <1>9 DEF L

\* An OACK fits.
LEMMA OackFits ==
    ASSUME NEW b \in Buffer(BUFFER_SIZE), NEW pairs \in Oacks
    PROVE  /\ ~serialize_oack(b, pairs).full
           /\ serialize_oack(b, pairs).offset = Len(FlattenSeq(Letter(pairs))) + 2 * Len(pairs) + 2
<1> DEFINE N == BUFFER_SIZE
           L == Len(pairs)
<1>1. N \in Nat /\ pairs \in Pairs /\ pairs # << >>
  BY BuffersAssumption DEF Pairs
<1>2. Len(FlattenSeq(Letter(pairs))) + 2 * Len(pairs) + 2 < BUFFER_SIZE
  BY BuffersAssumption DEF Letter
<1>3. /\ L \in Nat
      /\ \A k \in 1 .. L : pairs[k][1] \in Seq(Byte) /\ pairs[k][2] \in Seq(Byte)
  BY <1>1 DEF Pairs
<1>4. PICK size \in [0 .. L -> Nat] :
         /\ size[0] = 0
         /\ \A k \in 1 .. L : size[k] = size[k - 1] + Len(pairs[k][1]) + Len(pairs[k][2])
         /\ size[L] = Len(FlattenSeq(Letter(pairs)))
  BY <1>1, LetterSteps
<1>5. PICK put \in [0 .. L -> Cursors(N)] :
         /\ put[0] = put_ushort(Cursor(b), OACK)
         /\ \A k \in 1 .. L :
               put[k] = put_string(put_string(put[k - 1], pairs[k][1]), pairs[k][2])
         /\ serialize_oack(b, pairs) = put[L]
  BY <1>1, OackSteps
<1> HIDE DEF L, N
<1>6. \A k \in 0 .. L : size[k] + 2 * k <= size[L] + 2 * L
  <2> DEFINE T == {j \in 0 .. L : size[L - j] + 2 * (L - j) <= size[L] + 2 * L}
  <2>1. 0 \in T
    BY <1>3
  <2>2. ASSUME NEW j \in 1 .. L, j - 1 \in T PROVE j \in T
    <3>1. PICK k \in 1 .. L : k = L - (j - 1)
      BY <1>3
    <3>2. k - 1 = L - j /\ k \in 0 .. L /\ k - 1 \in 0 .. L /\ j \in 0 .. L
      BY <1>3, <3>1
    <3>3. Len(pairs[k][1]) \in Nat /\ Len(pairs[k][2]) \in Nat
      BY SMTT(30), <1>3
    <3>4. size[k] \in Nat /\ size[k - 1] \in Nat /\ size[L] \in Nat
      BY <1>3, <3>2
    <3>5. size[k] + 2 * k <= size[L] + 2 * L
      BY SMTT(30), <2>2, <3>1
    <3>6. size[k - 1] <= size[k]
      <4>1. size[k] = size[k - 1] + Len(pairs[k][1]) + Len(pairs[k][2])
        BY <1>4, Zenon
      <4> QED  BY ONLY SMTT(30), <3>3, <3>4, <4>1
    <3>7. size[k - 1] + 2 * (k - 1) <= size[L] + 2 * L
      BY <1>3, <3>4, <3>5, <3>6
    <3> QED  BY <3>2, <3>7
  <2> HIDE DEF T
  <2>3. \A j \in 0 .. L : j \in T
    BY ONLY ZenonT(40), <1>3, <2>1, <2>2, Stepwise
  <2>4. ASSUME NEW k \in 0 .. L PROVE size[k] + 2 * k <= size[L] + 2 * L
    <3>1. L - k \in 0 .. L /\ L - (L - k) = k
      BY <1>3
    <3>2. L - k \in T
      BY <2>3, <3>1
    <3> QED  BY <3>1, <3>2 DEF T
  <2> QED  BY <2>4
<1> DEFINE T == {k \in 0 .. L : ~put[k].full /\ put[k].offset = size[k] + 2 * k + 2}
<1>7. 0 \in T
  <2>1. PICK v \in 0 .. 6 : v = OACK
    BY DEF OACK
  <2>2. 4 <= N
    <3>1. L # 0
      BY <1>1 DEF L, Pairs
    <3>2. size[L] \in Nat /\ size[L] + 2 * L + 2 < N
      BY <1>2, <1>3, <1>4 DEF L, N
    <3> QED  BY <1>1, <1>3, <3>1, <3>2 DEF N
  <2>3. ~put_ushort(Cursor(b), v).full /\ put_ushort(Cursor(b), v).offset = 2
    BY <1>1, <2>2, HeaderFits, ZenonT(40) DEF N
  <2>4. ~put[0].full /\ put[0].offset = 2 /\ 0 \in 0 .. L /\ size[0] + 2 * 0 + 2 = 2
    BY <1>3, <1>4, <1>5, <2>1, <2>3
  <2> QED  BY <2>4
<1>8. ASSUME NEW k \in 1 .. L, k - 1 \in T PROVE k \in T
  <2>1. k \in 0 .. L /\ k - 1 \in 0 .. L
    BY <1>3
  <2>2. PICK c0 \in Cursors(N) : c0 = put[k - 1]
    BY <2>1
  <2>3. PICK name \in Seq(Byte), value \in Seq(Byte) : pairs[k][1] = name /\ pairs[k][2] = value
    BY ZenonT(40), <1>3
  <2>4. PICK c1 \in Cursors(N) : c1 = put_string(c0, name)
    BY SMTT(30), <1>1, PutStringType DEF N
  <2>5. put[k] = put_string(c1, value)
    BY <1>5, <2>2, <2>3, <2>4
  <2>6. PICK x \in Nat, y \in Nat, z \in Nat : x = size[k - 1] /\ y = Len(name) /\ z = Len(value)
    BY <2>1
  <2>7. ~c0.full /\ c0.offset = x + 2 * (k - 1) + 2
    BY <1>8, <2>2, <2>6
  <2>8. size[k] = x + y + z
    BY <1>4, <2>3, <2>6, ZenonT(40)
  <2>9. x + y + z + 2 * k + 2 < N
    <3>1. size[k] + 2 * k <= size[L] + 2 * L
      BY SMTT(30), <1>6, <2>1
    <3>2. size[L] + 2 * L + 2 < N /\ size[L] \in Nat
      BY SMTT(30), <1>2, <1>3, <1>4 DEF L, N
    <3>3. x + y + z + 2 * k <= size[L] + 2 * L
      BY <2>8, <3>1
    <3>4. N \in Nat /\ L \in Nat
      BY <1>1, <1>3 DEF N
    <3> QED  BY ONLY x \in Nat, y \in Nat, z \in Nat, k \in 1 .. L, <3>2, <3>3, <3>4
  <2>10. c0.offset + Len(name) + 1 < N
    <3>1. x + 2 * (k - 1) + 2 + y + 1 < N
      <4>1. N \in Nat /\ L \in Nat
        BY <1>1, <1>3 DEF N
      <4> QED  BY ONLY x \in Nat, y \in Nat, z \in Nat, k \in 1 .. L, <2>9, <4>1
    <3> QED  BY <2>6, <2>7, <3>1, ZenonT(40)
  <2>11. ~c1.full /\ c1.offset = c0.offset + Len(name) + 1
    BY <1>1, <2>4, <2>7, <2>10, PutStringFits DEF N
  <2>12. c1.offset + Len(value) + 1 < N
    <3>1. x + 2 * (k - 1) + 2 + y + 1 + z + 1 < N
      <4>1. N \in Nat /\ L \in Nat
        BY <1>1, <1>3 DEF N
      <4> QED  BY ONLY x \in Nat, y \in Nat, z \in Nat, k \in 1 .. L, <2>9, <4>1
    <3> QED  BY <2>6, <2>7, <2>11, <3>1, ZenonT(40)
  <2>13. ~put[k].full /\ put[k].offset = c1.offset + Len(value) + 1
    BY <1>1, <2>5, <2>11, <2>12, PutStringFits DEF N
  <2>14. put[k].offset = size[k] + 2 * k + 2
    <3>1. x + 2 * (k - 1) + 2 + y + 1 + z + 1 = x + y + z + 2 * k + 2
      BY ONLY x \in Nat, y \in Nat, z \in Nat, k \in 1 .. L, <1>3
    <3> QED  BY <2>6, <2>7, <2>8, <2>11, <2>13, <3>1, ZenonT(40)
  <2> QED  BY <2>1, <2>13, <2>14
<1> HIDE DEF T
<1>9. \A k \in 0 .. L : k \in T
  BY ONLY <1>3, <1>7, <1>8, Stepwise
<1>10. L \in T
  BY <1>3, <1>9
<1>11. ~put[L].full /\ put[L].offset = size[L] + 2 * L + 2
  BY <1>10 DEF T
<1> QED  BY <1>4, <1>5, <1>11, ZenonT(40) DEF L

\* The size of a datagram that is built: numbers, texts and terminators.
Size(m) ==
    IF m.kind = "oack" THEN Len(FlattenSeq(Letter(m.pairs))) + 2 * Len(m.pairs) + 2
    ELSE Len(Texts[m.message]) + 5

\* There is room in the buffer for every datagram the code builds.
Fits ==
    /\ \A m \in DOMAIN Texts :
          LET c == serialize_error(buffer, TFTPError(m))
          IN  ~c.full /\ c.offset = Size(TFTPError(m))
    /\ \A o \in Oacks :
          LET c == serialize_oack(buffer, o)
          IN  ~c.full /\ c.offset = Size([kind |-> "oack", pairs |-> o])

\* Whatever a buffer has been used for, there is room in it for every ERROR and
\* every OACK, the place behind the terminator that put_string writes to
\* included: fire_error and send_oack_reliably never fail to build one, and it
\* takes as many bytes as it means to.
THEOREM DatagramsFit == Spec => []Fits
<1>1. ASSUME BuffersInv, NEW m \in DOMAIN Texts
      PROVE  /\ ~serialize_error(buffer, TFTPError(m)).full
             /\ serialize_error(buffer, TFTPError(m)).offset = Size(TFTPError(m))
  <2>1. Size(TFTPError(m)) = Len(Texts[m]) + 5
    BY Zenon, ErrorFacts DEF Size
  <2>2. buffer \in Buffer(BUFFER_SIZE)
    BY <1>1 DEF BuffersInv
  <2> QED  BY <2>1, <2>2, ErrorFits, ZenonT(40)
<1>2. ASSUME BuffersInv, NEW o \in Oacks
      PROVE  /\ ~serialize_oack(buffer, o).full
             /\ serialize_oack(buffer, o).offset = Size([kind |-> "oack", pairs |-> o])
  <2>1. Size([kind |-> "oack", pairs |-> o]) = Len(FlattenSeq(Letter(o))) + 2 * Len(o) + 2
    BY DEF Size
  <2>2. buffer \in Buffer(BUFFER_SIZE)
    BY <1>2 DEF BuffersInv
  <2> QED  BY <2>1, <2>2, OackFits, ZenonT(40)
<1>3. BuffersInv => Fits
  BY <1>1, <1>2, Zenon DEF Fits
<1> QED  BY <1>3, BuffersInvariance, PTL
=============================================================================
