---------------------------- MODULE ParserProofs ----------------------------
(***************************************************************************)
(* The parser of read requests reads what a reference definition of their  *)
(* format says, in datagrams of any length: the loop over the options is   *)
(* compared with the fields of the datagram, pass by pass.                 *)
(***************************************************************************)
EXTENDS BuffersProofs
-----------------------------------------------------------------------------
(* The fields of a datagram *)

\* The end of the i-th field, as Fields finds it by counting NULs; the opcode
\* ends at 2.
Ends(d) == {k \in 3 .. Len(d) : d[k] = 0}

Below(d, e) == {k \in Ends(d) : k <= e}

FieldEnd(d, i) == IF i = 0 THEN 2 ELSE CHOOSE e \in Ends(d) : Cardinality(Below(d, e)) = i

\* The fields, and how many there are.
LEMMA FieldsAre ==
    ASSUME NEW d \in Seq(Byte)
    PROVE  /\ IsFiniteSet(Ends(d)) /\ Cardinality(Ends(d)) \in Nat
           /\ Fields(d) = [i \in 1 .. Cardinality(Ends(d)) |->
                              SubSeq(d, FieldEnd(d, i - 1) + 1, FieldEnd(d, i) - 1)]
<1>1. IsFiniteSet(Ends(d)) /\ Cardinality(Ends(d)) \in Nat
  <2>1. IsFiniteSet(3 .. Len(d))
    BY FS_Interval
  <2>2. Ends(d) \subseteq 3 .. Len(d)
    BY DEF Ends
  <2>3. IsFiniteSet(Ends(d))
    BY <2>1, <2>2, FS_Subset
  <2> QED  BY <2>3, FS_CardinalityType
<1> DEFINE End(i) == CHOOSE e \in Ends(d) : Cardinality({k \in Ends(d) : k <= e}) = i
           Start(i) == IF i = 1 THEN 3 ELSE End(i - 1) + 1
<1>2. Fields(d) = [i \in 1 .. Cardinality(Ends(d)) |-> SubSeq(d, Start(i), End(i) - 1)]
  BY DEF Fields, Ends
<1>3. ASSUME NEW i \in 1 .. Cardinality(Ends(d))
      PROVE  Start(i) = FieldEnd(d, i - 1) + 1 /\ End(i) = FieldEnd(d, i)
  <2>1. ASSUME NEW j, j # 0 PROVE End(j) = FieldEnd(d, j)
    <3>1. FieldEnd(d, j) = CHOOSE e \in Ends(d) : Cardinality(Below(d, e)) = j
      BY <2>1 DEF FieldEnd
    <3>2. \A e : Below(d, e) = {k \in Ends(d) : k <= e}
      BY DEF Below
    <3> QED  BY <3>1, <3>2, Zenon
  <2>2. FieldEnd(d, 0) = 2
    BY DEF FieldEnd
  <2>3. i # 0 /\ (i = 1 => i - 1 = 0) /\ (i # 1 => i - 1 # 0) /\ 2 + 1 = 3
    BY <1>1
  <2> HIDE DEF End
  <2>4. CASE i = 1
    BY <2>1, <2>2, <2>3, <2>4
  <2>5. CASE i # 1
    BY <2>1, <2>3, <2>5, ZenonT(40)
  <2> QED  BY <2>4, <2>5
<1> HIDE DEF Start, End
<1>4. Fields(d) = [i \in 1 .. Cardinality(Ends(d)) |->
                      SubSeq(d, FieldEnd(d, i - 1) + 1, FieldEnd(d, i) - 1)]
  BY <1>2, <1>3, ZenonT(40)
<1> QED  BY <1>1, <1>4

\* An end is known by the number of ends up to it.
LEMMA RankIsUnique ==
    ASSUME NEW d \in Seq(Byte), NEW e \in Ends(d), NEW f \in Ends(d),
           Cardinality(Below(d, e)) = Cardinality(Below(d, f))
    PROVE  e = f
<1>1. ASSUME NEW x \in Ends(d), NEW y \in Ends(d), x < y,
             Cardinality(Below(d, x)) = Cardinality(Below(d, y))
      PROVE  FALSE
  <2>1. Below(d, x) \subseteq Below(d, y) /\ Below(d, y) \subseteq Ends(d)
    BY <1>1 DEF Below, Ends
  <2>2. IsFiniteSet(Below(d, y))
    BY <2>1, FieldsAre, FS_Subset
  <2>3. Below(d, x) = Below(d, y)
    BY <1>1, <2>1, <2>2, FS_Subset
  <2>4. y \in Below(d, y) /\ y \notin Below(d, x)
    BY <1>1 DEF Below, Ends
  <2> QED  BY <2>3, <2>4
<1>2. e \in Int /\ f \in Int
  BY DEF Ends
<1> QED  BY <1>1, <1>2

\* After i of m fields another one ends, at the next NUL, just when i < m.
LEMMA NextField ==
    ASSUME NEW d \in Seq(Byte), NEW i \in Nat, NEW p \in Nat,
           2 <= p, p <= Len(d), Cardinality(Below(d, p)) = i, i <= Cardinality(Ends(d))
    PROVE  /\ i = Cardinality(Ends(d)) <=> NulsAfter(d, p) = {}
           /\ NulsAfter(d, p) # {} =>
                /\ FieldEnd(d, i + 1) = Min(NulsAfter(d, p))
                /\ Cardinality(Below(d, FieldEnd(d, i + 1))) = i + 1
<1>1. /\ Below(d, p) \subseteq Ends(d) /\ IsFiniteSet(Ends(d)) /\ IsFiniteSet(Below(d, p))
      /\ Cardinality(Ends(d)) \in Nat
  <2>1. Below(d, p) \subseteq Ends(d)
    BY DEF Below
  <2> QED  BY <2>1, FieldsAre, FS_Subset
<1>2. Below(d, p) = Ends(d) <=> NulsAfter(d, p) = {}
  BY DEF Below, Ends, NulsAfter
<1>3. i = Cardinality(Ends(d)) <=> NulsAfter(d, p) = {}
  BY <1>1, <1>2, FS_Subset
<1>4. ASSUME NulsAfter(d, p) # {}
      PROVE  /\ FieldEnd(d, i + 1) = Min(NulsAfter(d, p))
             /\ Cardinality(Below(d, FieldEnd(d, i + 1))) = i + 1
  <2>1. PICK e : e = Min(NulsAfter(d, p))
    BY Zenon
  <2>2. /\ e \in p + 1 .. Len(d) /\ d[e] = 0
        /\ \A k \in p + 1 .. Len(d) : d[k] = 0 => e <= k
    BY <1>4, <2>1, FirstNul
  <2>3. e \in Ends(d) /\ e \notin Below(d, p)
    BY <2>2 DEF Ends, Below
  <2>4. Below(d, e) = Below(d, p) \cup {e}
    BY <2>2, <2>3 DEF Ends, Below
  <2>5. Cardinality(Below(d, e)) = i + 1
    BY <1>1, <2>3, <2>4, FS_AddElement, ZenonT(40)
  <2>6. \A f \in Ends(d) : Cardinality(Below(d, f)) = i + 1 => f = e
    BY <2>3, <2>5, RankIsUnique
  <2>7. FieldEnd(d, i + 1) = CHOOSE f \in Ends(d) : Cardinality(Below(d, f)) = i + 1
    BY DEF FieldEnd
  <2>8. FieldEnd(d, i + 1) = e
    BY <2>3, <2>5, <2>6, <2>7, ZenonT(40)
  <2> QED  BY <2>1, <2>5, <2>8
<1> QED  BY <1>3, <1>4

\* The ends of the fields: each is the first NUL after the one before it, and
\* no NUL follows the last.
LEMMA FieldEnds ==
    ASSUME NEW d \in Seq(Byte), 2 <= Len(d)
    PROVE  LET m == Cardinality(Ends(d))
           IN  /\ m \in Nat
               /\ \A i \in 0 .. m : FieldEnd(d, i) \in 2 + i .. Len(d)
               /\ \A i \in 1 .. m : /\ NulsAfter(d, FieldEnd(d, i - 1)) # {}
                                    /\ FieldEnd(d, i) = Min(NulsAfter(d, FieldEnd(d, i - 1)))
               /\ NulsAfter(d, FieldEnd(d, m)) = {}
<1> DEFINE m == Cardinality(Ends(d))
           T == {i \in 0 .. m : /\ FieldEnd(d, i) \in 2 + i .. Len(d)
                                /\ Cardinality(Below(d, FieldEnd(d, i))) = i}
<1>1. m \in Nat
  BY FieldsAre
<1> HIDE DEF m
<1>2. 0 \in T
  <2>1. FieldEnd(d, 0) = 2
    BY DEF FieldEnd
  <2>2. Below(d, 2) = {}
    BY DEF Below, Ends
  <2>3. Cardinality(Below(d, FieldEnd(d, 0))) = 0
    BY <2>1, <2>2, FS_EmptySet, ZenonT(40)
  <2>4. FieldEnd(d, 0) \in 2 + 0 .. Len(d) /\ 0 \in 0 .. m
    BY <1>1, <2>1
  <2> QED  BY <2>3, <2>4
<1>3. ASSUME NEW i \in 1 .. m, i - 1 \in T
      PROVE  /\ i \in T /\ NulsAfter(d, FieldEnd(d, i - 1)) # {}
             /\ FieldEnd(d, i) = Min(NulsAfter(d, FieldEnd(d, i - 1)))
  <2>1. PICK j \in Nat : j = i - 1 /\ j + 1 = i /\ j < m
    BY <1>1
  <2>2. PICK p \in Nat : p = FieldEnd(d, j)
    BY <1>3, <2>1
  <2>3. 2 + j <= p /\ p <= Len(d) /\ Cardinality(Below(d, p)) = j
    BY <1>3, <2>1, <2>2
  <2>4. /\ NulsAfter(d, p) # {} /\ FieldEnd(d, j + 1) = Min(NulsAfter(d, p))
        /\ Cardinality(Below(d, FieldEnd(d, j + 1))) = j + 1
    BY <1>1, <2>1, <2>3, NextField DEF m
  <2>5. FieldEnd(d, j + 1) \in p + 1 .. Len(d)
    BY <2>4, FirstNul
  <2> QED  BY <1>1, <2>1, <2>2, <2>3, <2>4, <2>5
<1>4. \A i \in 0 .. m : i \in T
  <2> HIDE DEF T
  <2> QED  BY <1>1, <1>2, <1>3, Stepwise
<1>5. NulsAfter(d, FieldEnd(d, m)) = {}
  <2>1. PICK p \in Nat : p = FieldEnd(d, m)
    BY <1>1, <1>4
  <2>2. 2 <= p /\ p <= Len(d) /\ Cardinality(Below(d, p)) = m
    BY <1>1, <1>4, <2>1
  <2> QED  BY <1>1, <2>1, <2>2, NextField DEF m
<1>6. \A i \in 1 .. m : /\ NulsAfter(d, FieldEnd(d, i - 1)) # {}
                        /\ FieldEnd(d, i) = Min(NulsAfter(d, FieldEnd(d, i - 1)))
  <2>1. \A i \in 1 .. m : i - 1 \in 0 .. m
    BY <1>1
  <2> HIDE DEF T
  <2> QED  BY <1>3, <1>4, <2>1, ZenonT(40)
<1>7. \A i \in 0 .. m : FieldEnd(d, i) \in 2 + i .. Len(d)
  BY <1>4, Zenon
<1> QED  BY <1>1, <1>5, <1>6, <1>7 DEF m

Legible(d, i) == Range(Fields(d)[i]) \subseteq Letters

\* At the end of a field extract_string reads the next one, or finds the end.
LEMMA FieldRead ==
    ASSUME NEW d \in Seq(Byte), 2 <= Len(d)
    PROVE  LET m == Len(Fields(d))
           IN  /\ m \in Nat
               /\ \A i \in 0 .. m : FieldEnd(d, i) \in 2 + i .. Len(d)
               /\ \A i \in 1 .. m : extract_string(d, FieldEnd(d, i - 1)) =
                    IF Legible(d, i) THEN Ok(Fields(d)[i], FieldEnd(d, i)) ELSE Invalid
               /\ extract_string(d, FieldEnd(d, m)) =
                    IF FieldEnd(d, m) = Len(d) THEN Eof ELSE Invalid
               /\ 2 < Len(d) => (FieldEnd(d, m) = Len(d) <=> d[Len(d)] = 0)
<1> DEFINE m == Cardinality(Ends(d))
           F == Fields(d)
<1>1. m \in Nat /\ F = [i \in 1 .. m |-> SubSeq(d, FieldEnd(d, i - 1) + 1, FieldEnd(d, i) - 1)]
  BY FieldsAre
<1>2. /\ \A i \in 0 .. m : FieldEnd(d, i) \in 2 + i .. Len(d)
      /\ \A i \in 1 .. m : /\ NulsAfter(d, FieldEnd(d, i - 1)) # {}
                           /\ FieldEnd(d, i) = Min(NulsAfter(d, FieldEnd(d, i - 1)))
      /\ NulsAfter(d, FieldEnd(d, m)) = {}
  BY FieldEnds
<1> HIDE DEF m, F
<1>3. Len(F) = m /\ \A i \in 1 .. m : F[i] = SubSeq(d, FieldEnd(d, i - 1) + 1, FieldEnd(d, i) - 1)
  <2>1. \A i \in 1 .. m : F[i] = SubSeq(d, FieldEnd(d, i - 1) + 1, FieldEnd(d, i) - 1)
    BY <1>1, Zenon
  <2>2. F = [i \in 1 .. m |-> F[i]]
    BY <1>1, <2>1, ZenonT(40)
  <2>3. F \in [1 .. m -> {F[i] : i \in 1 .. m}]
    BY <2>2
  <2>4. Len(F) = m
    BY <1>1, <2>3
  <2> QED  BY <2>1, <2>4
<1>4. ASSUME NEW i \in 1 .. m
      PROVE  extract_string(d, FieldEnd(d, i - 1)) =
               IF Legible(d, i) THEN Ok(F[i], FieldEnd(d, i)) ELSE Invalid
  <2>1. PICK p \in Nat : p = FieldEnd(d, i - 1)
    <3>1. i - 1 \in 0 .. m
      BY <1>1
    <3> QED  BY <1>2, <3>1
  <2>2. PICK e : e = FieldEnd(d, i)
    BY Zenon
  <2>3. NulsAfter(d, p) # {} /\ e = Min(NulsAfter(d, p)) /\ F[i] = SubSeq(d, p + 1, e - 1)
    BY <1>2, <1>3, <2>1, <2>2, ZenonT(40)
  <2>4. extract_string(d, p) = IF Range(SubSeq(d, p + 1, e - 1)) \subseteq Letters
                                 THEN Ok(SubSeq(d, p + 1, e - 1), e) ELSE Invalid
    BY <2>3, ExtractString
  <2> QED  BY <2>1, <2>2, <2>3, <2>4, ZenonT(40) DEF Legible, F
<1>5. PICK p : p = FieldEnd(d, m) /\ p \in 2 .. Len(d) /\ NulsAfter(d, p) = {}
  BY <1>1, <1>2
<1>6. extract_string(d, p) = IF p = Len(d) THEN Eof ELSE Invalid
  BY <1>5, ExtractString
<1>7. ASSUME 2 < Len(d) PROVE p = Len(d) <=> d[Len(d)] = 0
  <2>1. ASSUME p = Len(d) PROVE d[Len(d)] = 0
    <3>1. m # 0
      BY <1>5, <1>7, <2>1 DEF FieldEnd
    <3>2. m \in 1 .. m /\ m - 1 \in 0 .. m
      BY <1>1, <3>1
    <3>3. PICK q \in Nat : q = FieldEnd(d, m - 1)
      BY <1>2, <3>2
    <3>4. NulsAfter(d, q) # {} /\ p = Min(NulsAfter(d, q))
      BY <1>2, <1>5, <3>2, <3>3, ZenonT(40)
    <3>5. d[p] = 0
      BY <3>4, FirstNul
    <3> QED  BY <2>1, <3>5
  <2>2. ASSUME d[Len(d)] = 0 PROVE p = Len(d)
    BY <1>5, <2>2 DEF NulsAfter
  <2> QED  BY <2>1, <2>2
<1>8. /\ extract_string(d, FieldEnd(d, m)) = IF FieldEnd(d, m) = Len(d) THEN Eof ELSE Invalid
      /\ 2 < Len(d) => (FieldEnd(d, m) = Len(d) <=> d[Len(d)] = 0)
  BY <1>5, <1>6, <1>7, ZenonT(40)
<1> QED  BY <1>1, <1>2, <1>3, <1>4, <1>8, ZenonT(40) DEF F
-----------------------------------------------------------------------------
(* The loop over the options *)

\* The options that the first j fields hold.
Names(j) == {i \in 3 .. j : i % 2 = 1}

Named(d, j, n) == {i \in Names(j) : Fields(d)[i] = n}

OptionsOf(d, j) ==
    [n \in {Fields(d)[i] : i \in Names(j)} |-> Fields(d)[Max(Named(d, j, n)) + 1]]

\* The filename and the mode hold none.
LEMMA NoOptions == ASSUME NEW d PROVE OptionsOf(d, 2) = << >>
<1>1. Names(2) = {}
  BY DEF Names
<1>2. {Fields(d)[i] : i \in Names(2)} = {}
  BY <1>1
<1>3. PICK f : f = OptionsOf(d, 2)
  BY Zenon
<1>4. f \in [{} -> Byte]
  <2>1. \A g : f = [n \in {} |-> g[n]] => f \in [{} -> Byte]
    OBVIOUS
  <2>2. DOMAIN f = {} /\ f = [n \in DOMAIN f |-> f[n]]
    BY <1>2, <1>3, ZenonT(40) DEF OptionsOf
  <2> QED  BY <2>1, <2>2
<1>5. f \in [1 .. 0 -> Byte]
  BY <1>4
<1>6. f \in Seq(Byte) /\ Len(f) = 0
  BY <1>5
<1> QED  BY <1>3, <1>6, EmptySeq

\* Two more fields insert an option, in place of an earlier one of its name.
LEMMA AnotherOption ==
    ASSUME NEW d, NEW k \in Nat, NEW j, j = 2 + 2 * k
    PROVE  OptionsOf(d, j + 2) = insert(OptionsOf(d, j), Fields(d)[j + 1], Fields(d)[j + 2])
<1> DEFINE F == Fields(d)
           new == F[j + 1]
<1>1. Names(j + 2) = Names(j) \cup {j + 1} /\ j + 1 \notin Names(j)
  BY DEF Names
<1>2. DOMAIN OptionsOf(d, j) = {F[i] : i \in Names(j)}
  BY DEF OptionsOf
<1>3. {F[i] : i \in Names(j + 2)} = DOMAIN OptionsOf(d, j) \cup {new}
  BY <1>1, <1>2
<1>4. Max(Named(d, j + 2, new)) = j + 1
  <2>1. j + 1 \in Named(d, j + 2, new) /\ \A i \in Named(d, j + 2, new) : i \in Int /\ j + 1 >= i
    BY <1>1 DEF Named, Names
  <2>2. j + 1 \in Int
    OBVIOUS
  <2>3. PICK S : S = Named(d, j + 2, new)
    BY Zenon
  <2>4. PICK x \in S : x = Max(S) /\ \A y \in S : x >= y
    BY <2>1, <2>3 DEF Max
  <2>5. x = j + 1
    BY <2>1, <2>2, <2>3, <2>4
  <2> QED  BY <2>3, <2>4, <2>5
<1>5. ASSUME NEW n, n # new PROVE Named(d, j + 2, n) = Named(d, j, n)
  BY <1>1, <1>5 DEF Named
<1>6. (j + 1) + 1 = j + 2
  OBVIOUS
<1>7. ASSUME NEW n \in DOMAIN OptionsOf(d, j) \cup {new}
      PROVE  F[Max(Named(d, j + 2, n)) + 1] = IF n = new THEN F[j + 2] ELSE OptionsOf(d, j)[n]
  <2>1. CASE n = new
    BY <1>4, <1>6, <2>1
  <2>2. CASE n # new
    <3>1. n \in {F[i] : i \in Names(j)}
      BY <1>2, <2>2
    <3>2. OptionsOf(d, j)[n] = F[Max(Named(d, j, n)) + 1]
      BY <3>1, ZenonT(40) DEF OptionsOf
    <3> QED  BY SMTT(30), <1>5, <2>2, <3>2
  <2> QED  BY <2>1, <2>2
<1>8. OptionsOf(d, j + 2) = [n \in DOMAIN OptionsOf(d, j) \cup {new} |->
                               F[Max(Named(d, j + 2, n)) + 1]]
  BY <1>3, Zenon DEF OptionsOf
<1> HIDE DEF new, F
<1> QED  BY <1>7, <1>8, ZenonT(40) DEF insert, new, F

\* The fields come in pairs, can all be read, and end with the datagram.
WellFormed(d) ==
    LET m == Len(Fields(d))
    IN  m % 2 = 0 /\ (\A i \in 1 .. m : Legible(d, i)) /\ FieldEnd(d, m) = Len(d)

Reading(index, options) == [kind |-> "reading", index |-> index, options |-> options]

\* The state of the loop after k passes: it has read k pairs, or it has ended
\* with all of them, or it has found what is wrong.
PassInv(d, k, state) ==
    \/ /\ 2 + 2 * k <= Len(Fields(d)) /\ \A i \in 1 .. 2 + 2 * k : Legible(d, i)
       /\ state = Reading(FieldEnd(d, 2 + 2 * k), OptionsOf(d, 2 + 2 * k))
    \/ state.kind = "ok" /\ WellFormed(d) /\ state.options = OptionsOf(d, Len(Fields(d)))
    \/ state.kind = "error" /\ ~WellFormed(d)

\* A pass, in terms of the two strings it reads.
LEMMA ParseOption ==
    ASSUME NEW d, NEW index, NEW options, NEW name, NEW value,
           name = extract_string(d, index), value = extract_string(d, name.index)
    PROVE  LET next == parse_option(d, Reading(index, options))
           IN  /\ name.kind = "eof" => next.kind = "ok" /\ next.options = options
               /\ name.kind = "invalid" => next.kind = "error"
               /\ name.kind = "ok" /\ value.kind # "ok" => next.kind = "error"
               /\ name.kind = "ok" /\ value.kind = "ok" =>
                    next = Reading(value.index, insert(options, name.value, value.value))
<1>1. /\ Reading(index, options).kind = "reading" /\ Reading(index, options).index = index
      /\ Reading(index, options).options = options
  BY DEF Reading
<1> QED  BY <1>1, ZenonT(40) DEF parse_option, Reading

\* A pass of the loop keeps its invariant.
LEMMA PassStep ==
    ASSUME NEW d \in Seq(Byte), 2 <= Len(d), NEW k \in Nat, NEW state, PassInv(d, k, state)
    PROVE  PassInv(d, k + 1, parse_option(d, state))
<1> DEFINE m == Len(Fields(d))
           F == Fields(d)
           next == parse_option(d, state)
<1>1. /\ m \in Nat
      /\ \A i \in 1 .. m : extract_string(d, FieldEnd(d, i - 1)) =
             IF Legible(d, i) THEN Ok(F[i], FieldEnd(d, i)) ELSE Invalid
      /\ extract_string(d, FieldEnd(d, m)) = IF FieldEnd(d, m) = Len(d) THEN Eof ELSE Invalid
  BY FieldRead
<1>2. CASE state.kind = "ok" /\ WellFormed(d) /\ state.options = OptionsOf(d, m)
  BY <1>2 DEF PassInv, parse_option
<1>3. CASE state.kind = "error" /\ ~WellFormed(d)
  BY <1>3 DEF PassInv, parse_option
<1>4. ASSUME NEW j \in Nat, j = 2 + 2 * k, j <= m, \A i \in 1 .. j : Legible(d, i),
             state = Reading(FieldEnd(d, j), OptionsOf(d, j))
      PROVE  PassInv(d, k + 1, next)
  <2>1. PICK name, value : name = extract_string(d, FieldEnd(d, j))
                           /\ value = extract_string(d, name.index)
    BY Zenon
  <2>2. /\ name.kind = "eof" => next.kind = "ok" /\ next.options = OptionsOf(d, j)
        /\ name.kind = "invalid" => next.kind = "error"
        /\ name.kind = "ok" /\ value.kind # "ok" => next.kind = "error"
        /\ name.kind = "ok" /\ value.kind = "ok" =>
             next = Reading(value.index, insert(OptionsOf(d, j), name.value, value.value))
    BY ONLY <1>4, <2>1, ParseOption
  <2> HIDE DEF m, F, next
  <2>3. CASE j = m
    <3>1. name = IF FieldEnd(d, m) = Len(d) THEN Eof ELSE Invalid
      BY <1>1, <2>1, <2>3, ZenonT(40)
    <3>2. CASE FieldEnd(d, m) = Len(d)
      <4>1. name.kind = "eof"
        BY <3>1, <3>2 DEF Eof
      <4>2. m % 2 = 0
        BY <1>4, <2>3
      <4>3. WellFormed(d)
        BY <1>4, <2>3, <3>2, <4>2 DEF WellFormed, m
      <4> QED  BY <2>2, <2>3, <4>1, <4>3 DEF PassInv, m
    <3>3. CASE FieldEnd(d, m) # Len(d)
      <4>1. name.kind = "invalid"
        BY <3>1, <3>3 DEF Invalid
      <4> QED  BY <2>2, <3>3, <4>1 DEF PassInv, WellFormed, m
    <3> QED  BY <3>2, <3>3
  <2>4. CASE j < m
    <3>1. j + 1 \in 1 .. m /\ (j + 1) - 1 = j
      BY <1>1, <2>4
    <3>2. name = IF Legible(d, j + 1) THEN Ok(F[j + 1], FieldEnd(d, j + 1)) ELSE Invalid
      BY <1>1, <2>1, <3>1, ZenonT(40)
    <3>3. CASE ~Legible(d, j + 1)
      <4>1. name.kind = "invalid"
        BY SMTT(30), <3>2, <3>3 DEF Invalid
      <4> QED  BY <2>2, <3>1, <3>3, <4>1 DEF PassInv, WellFormed, m
    <3>4. CASE Legible(d, j + 1) /\ j + 1 = m
      <4>1. name.kind = "ok" /\ name.index = FieldEnd(d, j + 1)
        BY <3>2, <3>4 DEF Ok
      <4>2. value.kind # "ok"
        BY <1>1, <2>1, <3>4, <4>1 DEF Eof, Invalid
      <4>3. m % 2 # 0
        BY <1>4, <3>4
      <4> QED  BY <2>2, <4>1, <4>2, <4>3 DEF PassInv, WellFormed, m
    <3>5. CASE Legible(d, j + 1) /\ j + 1 # m
      <4>1. /\ name.kind = "ok" /\ name.index = FieldEnd(d, j + 1) /\ name.value = F[j + 1]
        BY <3>2, <3>5 DEF Ok
      <4>2. j + 2 \in 1 .. m /\ (j + 2) - 1 = j + 1
        BY SMTT(30), <1>1, <2>4, <3>5
      <4>3. value = IF Legible(d, j + 2) THEN Ok(F[j + 2], FieldEnd(d, j + 2)) ELSE Invalid
        BY <1>1, <2>1, <4>1, <4>2, ZenonT(40)
      <4>4. CASE ~Legible(d, j + 2)
        <5>1. value.kind # "ok"
          BY <4>3, <4>4 DEF Invalid
        <5> QED  BY <2>2, <4>1, <4>2, <4>4, <5>1 DEF PassInv, WellFormed, m
      <4>5. CASE Legible(d, j + 2)
        <5>1. value.kind = "ok" /\ value.index = FieldEnd(d, j + 2) /\ value.value = F[j + 2]
          BY <4>3, <4>5 DEF Ok
        <5>2. insert(OptionsOf(d, j), F[j + 1], F[j + 2]) = OptionsOf(d, j + 2)
          BY <1>4, AnotherOption DEF F
        <5>3. next = Reading(FieldEnd(d, j + 2), OptionsOf(d, j + 2))
          BY <2>2, <4>1, <5>1, <5>2, ZenonT(40)
        <5>4. j + 2 = 2 + 2 * (k + 1) /\ j + 2 <= m
          BY SMTT(30), <1>1, <1>4, <4>2
        <5>5. \A i \in 1 .. j + 2 : Legible(d, i)
          BY <1>4, <3>5, <4>5
        <5> QED  BY SMTT(30), <5>3, <5>4, <5>5 DEF PassInv, m
      <4> QED  BY <4>4, <4>5
    <3> QED  BY <3>3, <3>4, <3>5
  <2> QED  BY <1>1, <1>4, <2>3, <2>4
<1> HIDE DEF m, next
<1>5. 2 + 2 * k \in Nat
  OBVIOUS
<1> QED  BY <1>2, <1>3, <1>4, <1>5 DEF PassInv, m, next

\* The states of the loop over the options, from pass to pass.
Passes(f, d, start) ==
    /\ f[0] = Reading(start, << >>)
    /\ \A k \in 1 .. Len(d) : f[k] = parse_option(d, f[k - 1])
    /\ parse_options(d, start) = f[Len(d)]

\* The loop goes through such states.
LEMMA PassesSolve ==
    ASSUME NEW d \in Seq(Byte), NEW start
    PROVE  \E f : Passes(f, d, start)
<1>0. PICK L \in Nat : L = Len(d)
  OBVIOUS
<1> DEFINE base == Reading(start, << >>)
           Solution(f, n) == f = [k \in 0 .. n |-> IF k = 0 THEN base ELSE parse_option(d, f[k - 1])]
           T == {n \in 0 .. L : \E f : Solution(f, n)}
<1>1. parse_options(d, start) = (CHOOSE f : Solution(f, L))[L]
  BY <1>0, ZenonT(40) DEF parse_options, Reading
<1> HIDE DEF base
<1>2. 0 \in T
  <2> DEFINE g == [k \in 0 .. 0 |-> base]
  <2>1. Solution(g, 0)
    OBVIOUS
  <2> HIDE DEF g, Solution
  <2> QED  BY <2>1
<1>3. ASSUME NEW n \in 1 .. L, n - 1 \in T PROVE n \in T
  <2>1. PICK f : Solution(f, n - 1)
    BY <1>3, Zenon
  <2>2. \A k \in 0 .. n - 1 : f[k] = IF k = 0 THEN base ELSE parse_option(d, f[k - 1])
    BY <2>1, Zenon
  <2> DEFINE g == [k \in 0 .. n |-> IF k < n THEN f[k] ELSE parse_option(d, f[n - 1])]
  <2>3. \A k \in 0 .. n - 1 : g[k] = f[k]
    OBVIOUS
  <2>4. g[n] = parse_option(d, g[n - 1])
    BY <2>3
  <2>5. g = [k \in 0 .. n |-> g[k]]
    OBVIOUS
  <2> HIDE DEF g
  <2>6. ASSUME NEW k \in 0 .. n PROVE g[k] = IF k = 0 THEN base ELSE parse_option(d, g[k - 1])
    BY <2>2, <2>3, <2>4
  <2>7. Solution(g, n)
    BY <2>5, <2>6, ZenonT(40)
  <2>8. n \in 0 .. L
    OBVIOUS
  <2> HIDE DEF Solution
  <2> QED  BY <2>7, <2>8, ZenonT(40)
<1>4. L \in T
  <2> HIDE DEF T
  <2>1. \A n \in 0 .. L : n \in T
    BY <1>2, <1>3, Stepwise
  <2> QED  BY <2>1
<1>5. PICK f : f = CHOOSE g : Solution(g, L)
  BY Zenon
<1>6. Solution(f, L)
  <2> HIDE DEF Solution
  <2> QED  BY <1>4, <1>5, Zenon
<1>7. \A k \in 0 .. L : f[k] = IF k = 0 THEN base ELSE parse_option(d, f[k - 1])
  BY ONLY <1>6, Zenon
<1>8. f[0] = base /\ \A k \in 1 .. L : f[k] = parse_option(d, f[k - 1])
  <2>1. 0 \in 0 .. L /\ \A k \in 1 .. L : k \in 0 .. L /\ k # 0
    OBVIOUS
  <2> QED  BY ONLY <1>7, <2>1, ZenonT(40)
<1> HIDE DEF Solution
<1> QED  BY <1>0, <1>1, <1>5, <1>8, ZenonT(40) DEF base, Passes

\* What the loop makes of the fields after the filename and the mode.
LEMMA ParseOptionsCorrect ==
    ASSUME NEW d \in Seq(Byte), 2 <= Len(d), 2 <= Len(Fields(d)), Legible(d, 1), Legible(d, 2)
    PROVE  LET o == parse_options(d, FieldEnd(d, 2))
           IN  IF WellFormed(d) THEN o.kind = "ok" /\ o.options = OptionsOf(d, Len(Fields(d)))
               ELSE o.kind # "ok"
<1>1. PICK L \in Nat : L = Len(d)
  OBVIOUS
<1>2. PICK f : /\ f[0] = Reading(FieldEnd(d, 2), << >>)
               /\ \A k \in 1 .. L : f[k] = parse_option(d, f[k - 1])
               /\ parse_options(d, FieldEnd(d, 2)) = f[L]
  <2>1. PICK f : Passes(f, d, FieldEnd(d, 2))
    BY PassesSolve
  <2> QED  BY <1>1, <2>1, ZenonT(40) DEF Passes
<1> DEFINE T == {k \in 0 .. L : PassInv(d, k, f[k])}
<1>3. 0 \in T
  <2>1. 2 + 2 * 0 = 2 /\ \A i \in 1 .. 2 : i = 1 \/ i = 2
    OBVIOUS
  <2>2. PassInv(d, 0, f[0])
    BY <1>2, <2>1, NoOptions DEF PassInv
  <2> QED  BY <1>1, <2>2
<1>4. ASSUME NEW k \in 1 .. L, k - 1 \in T PROVE k \in T
  <2>1. PICK j \in Nat : j = k - 1 /\ j + 1 = k
    BY <1>1
  <2>2. PassInv(d, j, f[j])
    BY <1>4, <2>1
  <2>3. PassInv(d, j + 1, parse_option(d, f[j]))
    BY <2>2, PassStep
  <2>4. PassInv(d, k, f[k]) /\ k \in 0 .. L
    BY <1>2, <2>1, <2>3
  <2> QED  BY <2>4
<1>5. PassInv(d, L, f[L])
  <2>1. \A k \in 0 .. L : k \in T
    <3> HIDE DEF T
    <3> QED  BY <1>1, <1>3, <1>4, Stepwise, ZenonT(40)
  <2> QED  BY <1>1, <2>1
<1>6. ~ (2 + 2 * L <= Len(Fields(d)))
  <2>1. PICK m \in Nat : m = Len(Fields(d)) /\ FieldEnd(d, m) \in 2 + m .. L
    BY <1>1, FieldRead
  <2> QED  BY <1>1, <2>1
<1> QED  BY <1>2, <1>5, <1>6 DEF PassInv
-----------------------------------------------------------------------------
(* The parser *)

\* A read request, by its opcode, its fields and its mode.
LEMMA ReadRequestIs ==
    ASSUME NEW d \in Seq(Byte), 2 <= Len(d)
    PROVE  IsReadRequest(d) <=> /\ extract_ushort(d, 0).value = RRQ
                                /\ 2 <= Len(Fields(d)) /\ WellFormed(d) /\ Fields(d)[2] = OCTET
<1> DEFINE m == Len(Fields(d))
<1>1. /\ m \in Nat /\ DOMAIN Fields(d) = 1 .. m
      /\ 2 <= m => FieldEnd(d, m) > 2 /\ FieldEnd(d, m) <= Len(d)
      /\ 2 < Len(d) => (FieldEnd(d, m) = Len(d) <=> d[Len(d)] = 0)
  <2>1. /\ m \in Nat /\ \A i \in 0 .. m : FieldEnd(d, i) \in 2 + i .. Len(d)
        /\ 2 < Len(d) => (FieldEnd(d, m) = Len(d) <=> d[Len(d)] = 0)
    BY FieldRead
  <2>2. DOMAIN Fields(d) = 1 .. m
    <3>1. PICK n \in Nat : DOMAIN Fields(d) = 1 .. n
      BY FieldsAre, ZenonT(40)
    <3>2. Fields(d) \in [1 .. n -> {Fields(d)[i] : i \in 1 .. n}]
      BY <3>1, FieldsAre
    <3>3. Len(Fields(d)) = n
      BY <3>2
    <3> QED  BY <3>1, <3>3
  <2> HIDE DEF m
  <2>3. m \in 0 .. m
    BY <2>1
  <2> QED  BY <2>1, <2>2, <2>3
<1>2. SubSeq(d, 1, 2) = UShort(RRQ) <=> extract_ushort(d, 0).value = RRQ
  <2>1. d[1] \in Nat /\ d[2] \in Nat /\ d[2] < 256
    BY Bytes256
  <2>2. extract_ushort(d, 0).value = 256 * d[1] + d[2]
    BY DEF extract_ushort, Ok
  <2>3. UShort(RRQ) = <<0, 1>> /\ RRQ = 1
    BY DEF UShort, RRQ
  <2>4. SubSeq(d, 1, 2) = <<0, 1>> <=> d[1] = 0 /\ d[2] = 1
    <3>1. PICK s : s = SubSeq(d, 1, 2)
      BY Zenon
    <3>2. s \in Seq(Byte) /\ Len(s) = 2 /\ s[1] = d[1] /\ s[2] = d[2]
      BY <3>1
    <3>3. ASSUME d[1] = 0, d[2] = 1 PROVE s = <<0, 1>>
      <4>1. s \in [1 .. 2 -> {0, 1}]
        BY <3>2, <3>3
      <4> QED  BY <3>2, <3>3, <4>1
    <3>4. ASSUME s = <<0, 1>> PROVE d[1] = 0 /\ d[2] = 1
      BY <3>2, <3>4
    <3> QED  BY <3>1, <3>3, <3>4
  <2>5. \A a, b \in Nat : b < 256 => (256 * a + b = 1 <=> a = 0 /\ b = 1)
    OBVIOUS
  <2>6. 256 * d[1] + d[2] = 1 <=> d[1] = 0 /\ d[2] = 1
    BY <2>1, <2>5
  <2> QED  BY <2>2, <2>3, <2>4, <2>6, ZenonT(40)
<1>3. \A i : Legible(d, i) <=> ToSet(Fields(d)[i]) \subseteq Letters
  BY DEF Legible, ToSet, Range
<1>4. Last(d) = d[Len(d)]
  BY DEF Last
<1> HIDE DEF m
<1>5. IsReadRequest(d) <=>
         /\ Len(d) > 2 /\ extract_ushort(d, 0).value = RRQ /\ d[Len(d)] = 0
         /\ \A i \in 1 .. m : Legible(d, i)
         /\ m >= 2 /\ m % 2 = 0 /\ Fields(d)[2] = OCTET
  BY <1>1, <1>2, <1>3, <1>4, ZenonT(40) DEF IsReadRequest, m
<1>6. WellFormed(d) <=> m % 2 = 0 /\ (\A i \in 1 .. m : Legible(d, i)) /\ FieldEnd(d, m) = Len(d)
  BY DEF WellFormed, m
<1>7. IsReadRequest(d) <=> extract_ushort(d, 0).value = RRQ /\ 2 <= m /\ WellFormed(d)
                             /\ Fields(d)[2] = OCTET
  BY <1>1, <1>5, <1>6
<1> QED  BY <1>7 DEF m

\* The parser takes a datagram for a read request just when it is one, and
\* reads in it what it says.
LEMMA ParserCorrect ==
    ASSUME NEW d \in Seq(Byte)
    PROVE  IF IsReadRequest(d) THEN parse(d) = Reference(d) ELSE parse(d).kind = "error"
<1> DEFINE F == Fields(d)
           m == Len(F)
<1>1. ASSUME NEW text PROVE TFTPError(text).kind = "error" /\ BadFormat.kind = "error"
  BY ErrorFacts DEF BadFormat
<1>2. CASE Len(d) < 2
  <2>1. ~IsReadRequest(d)
    BY <1>2 DEF IsReadRequest
  <2>2. extract_ushort(d, 0).kind # "ok"
    BY <1>2 DEF extract_ushort, Eof
  <2> QED  BY <1>1, <2>1, <2>2, ZenonT(40) DEF parse
<1>3. CASE 2 <= Len(d)
  <2>1. PICK opcode, filename, mode, options :
           /\ opcode = extract_ushort(d, 0)
           /\ filename = extract_string(d, opcode.index)
           /\ mode = extract_string(d, filename.index)
           /\ options = parse_options(d, mode.index)
    BY Zenon
  <2>2. parse(d) =
          IF opcode.kind # "ok" THEN BadFormat
          ELSE IF opcode.value # RRQ THEN TFTPError("Only RRQ is supported")
          ELSE IF filename.kind # "ok" THEN TFTPError("Can't obtain filename")
          ELSE IF mode.kind # "ok" THEN BadFormat
          ELSE IF mode.value # OCTET
                 THEN IF mode.value = << >> THEN BadFormat
                      ELSE TFTPError("Only octet mode is supported")
          ELSE IF options.kind # "ok" THEN BadFormat
          ELSE [kind |-> "request", filename |-> filename.value, options |-> options.options]
    BY <2>1, ZenonT(40) DEF parse
  <2>3. opcode.kind = "ok" /\ opcode.index = 2
    BY <1>3, <2>1 DEF extract_ushort, Ok
  <2>4. IsReadRequest(d) <=> opcode.value = RRQ /\ 2 <= m /\ WellFormed(d) /\ F[2] = OCTET
    BY SMTT(30), <1>3, <2>1, ReadRequestIs
  <2>5. /\ m \in Nat
        /\ \A i \in 1 .. m : extract_string(d, FieldEnd(d, i - 1)) =
               IF Legible(d, i) THEN Ok(F[i], FieldEnd(d, i)) ELSE Invalid
        /\ extract_string(d, FieldEnd(d, m)) = IF FieldEnd(d, m) = Len(d) THEN Eof ELSE Invalid
    BY <1>3, FieldRead
  <2>6. FieldEnd(d, 0) = 2
    BY DEF FieldEnd
  <2>7. WellFormed(d) => \A i \in 1 .. m : Legible(d, i)
    BY DEF WellFormed
  <2> HIDE DEF m, F
  <2>8. CASE m = 0 \/ ~Legible(d, 1)
    <3>1. filename.kind # "ok"
      <4>1. CASE m = 0
        BY <2>1, <2>3, <2>5, <2>6, <4>1 DEF Eof, Invalid
      <4>2. CASE m # 0 /\ ~Legible(d, 1)
        <5>1. 1 \in 1 .. m /\ 1 - 1 = 0
          BY <2>5, <4>2
        <5>2. filename = Invalid
          BY <2>1, <2>3, <2>5, <2>6, <4>2, <5>1
        <5> QED  BY <5>2 DEF Invalid
      <4> QED  BY <2>8, <4>1, <4>2
    <3>2. ~IsReadRequest(d)
      BY <2>4, <2>5, <2>7, <2>8
    <3> QED  BY ZenonT(40), <1>1, <2>2, <3>1, <3>2
  <2>9. CASE m # 0 /\ Legible(d, 1) /\ (m = 1 \/ ~Legible(d, 2))
    <3>1. filename.index = FieldEnd(d, 1)
      <4>1. 1 \in 1 .. m /\ 1 - 1 = 0
        BY SMTT(30), <2>5, <2>9
      <4>2. filename = Ok(F[1], FieldEnd(d, 1))
        BY <2>1, <2>3, <2>5, <2>6, <2>9, <4>1
      <4> QED  BY <4>2 DEF Ok
    <3>2. mode.kind # "ok"
      <4>1. CASE m = 1
        BY <2>1, <2>5, <3>1, <4>1 DEF Eof, Invalid
      <4>2. CASE m # 1 /\ ~Legible(d, 2)
        <5>1. 2 \in 1 .. m /\ 2 - 1 = 1
          BY SMTT(30), <2>5, <2>9, <4>2
        <5>2. mode = Invalid
          BY <2>1, <2>5, <3>1, <4>2, <5>1
        <5> QED  BY <5>2 DEF Invalid
      <4> QED  BY <2>9, <4>1, <4>2
    <3>3. ~IsReadRequest(d)
      BY <2>4, <2>5, <2>7, <2>9
    <3> QED  BY <1>1, <2>2, <3>2, <3>3
  <2>10. CASE 2 <= m /\ Legible(d, 1) /\ Legible(d, 2)
    <3>1. 1 \in 1 .. m /\ 1 - 1 = 0 /\ 2 \in 1 .. m /\ 2 - 1 = 1
      BY <2>5, <2>10
    <3>2. filename = Ok(F[1], FieldEnd(d, 1))
      BY <2>1, <2>3, <2>5, <2>6, <2>10, <3>1
    <3>3. filename.kind = "ok" /\ filename.index = FieldEnd(d, 1) /\ filename.value = F[1]
      BY <3>2 DEF Ok
    <3>4. mode = Ok(F[2], FieldEnd(d, 2))
      BY <2>1, <2>5, <2>10, <3>1, <3>3
    <3>5. mode.kind = "ok" /\ mode.index = FieldEnd(d, 2) /\ mode.value = F[2]
      BY SMTT(30), <3>4 DEF Ok
    <3>6. IF WellFormed(d) THEN options.kind = "ok" /\ options.options = OptionsOf(d, m)
          ELSE options.kind # "ok"
      BY <1>3, <2>1, <2>10, <3>5, ParseOptionsCorrect DEF m, F
    <3>7. Reference(d) = [kind |-> "request", filename |-> F[1], options |-> OptionsOf(d, m)]
      BY Zenon DEF Reference, OptionsOf, Named, Names, F, m
    <3>8. CASE IsReadRequest(d)
      <4>1. opcode.value = RRQ /\ mode.value = OCTET /\ options.kind = "ok"
            /\ options.options = OptionsOf(d, m)
        BY <2>4, <3>5, <3>6, <3>8
      <4> QED  BY <2>2, <2>3, <3>3, <3>5, <3>7, <3>8, <4>1, ZenonT(40)
    <3>9. CASE ~IsReadRequest(d)
      <4>1. opcode.value # RRQ \/ mode.value # OCTET \/ options.kind # "ok"
        BY <2>4, <2>10, <3>5, <3>6, <3>9
      <4> QED  BY ZenonT(40), <1>1, <2>2, <2>3, <3>9, <4>1
    <3> QED  BY <3>8, <3>9
  <2>11. m = 0 \/ m = 1 \/ 2 <= m
    BY <2>5
  <2> QED  BY <2>8, <2>9, <2>10, <2>11
<1> QED  BY <1>2, <1>3

\* A step leaves the outcome of the last request what that request says.
LEMMA ParsesStep ==
    ASSUME BuffersInv, ParsesTheRequest, [Next]_vars
    PROVE  ParsesTheRequest'
<1>1. ASSUME NEW d \in Requests, handle_request(d)
      PROVE  ParsesTheRequest'
  <2>1. d \in Seq(Byte) /\ Slice(d) = d
    BY ReceivedFacts DEF BuffersInv
  <2>2. outcome' = parse(d) /\ received' = d
    BY <1>1, <2>1 DEF handle_request
  <2>3. IF IsReadRequest(d) THEN parse(d) = Reference(d) ELSE parse(d).kind = "error"
    BY <2>1, ParserCorrect
  <2> QED  BY <2>2, <2>3 DEF ParsesTheRequest
<1>2. ASSUME owner = "session", UNCHANGED owner
      PROVE  ParsesTheRequest'
  BY <1>2 DEF ParsesTheRequest
<1>3. ASSUME UNCHANGED vars
      PROVE  ParsesTheRequest'
  BY <1>3 DEF ParsesTheRequest, vars
<1>4. Next => (\E d \in Requests : handle_request(d)) \/ (owner = "session" /\ UNCHANGED owner)
  BY Zenon DEF Next, TooManySessions, fire_error, NoOack, BuildOack, RepeatOack, GoOn, Ignore,
         ReadAcknowledge
<1> QED  BY <1>1, <1>2, <1>3, <1>4

\* The server takes a datagram for a read request just when it is one, and reads
\* in it the file and the options it names, a repeated option with its last
\* value: for datagrams of any length, a buffer of any size and whatever earlier
\* datagrams left in it.
THEOREM ParsesTheRequestHolds == Spec => []ParsesTheRequest
<1>1. Init => ParsesTheRequest
  BY DEF Init, ParsesTheRequest
<1> QED  BY <1>1, ParsesStep, BuffersInvariance, PTL DEF Spec
=============================================================================
