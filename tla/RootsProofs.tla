---------------------------- MODULE RootsProofs ----------------------------
(***************************************************************************)
(* Theorems about Roots, for every list of files, every set of             *)
(* configurations and every number of partitions.                          *)
(***************************************************************************)
EXTENDS Roots, SequenceTheorems, WellFoundedInduction, TLAPS

ScanInv ==
    /\ pc # "serve" => remote = 0 /\ answer = "none"
    /\ pc = "scan" => calls = 0 /\ mounted = << >>
    /\ pc \in {"attach", "mount"} => file \in Files /\ content[file].kind = "nbd" /\ appliance = file
    /\ pc = "attach" => calls < 6 /\ mounted = << >>
    /\ pc = "mount" => calls = 6
    /\ pc = "serve" => remote = file \/ (remote = 0 /\ file \notin Files)

\* Matching files that lie behind were given up; only a matching one is used.
MatchInv ==
    /\ pc \in {"attach", "mount"} \/ remote # 0 => match_ip(file)
    /\ \A f \in Files : match_ip(f) /\ f < file => f \in failed

MountInv ==
    pc = "mount" =>
        /\ Len(mounted) <= Len(content[file].mounts)
        /\ \A i \in 1 .. Len(mounted) : mounted[i] = content[file].mounts[i]

Inv ==
    /\ TypeOK /\ ScanInv /\ MatchInv /\ MountInv
    /\ FullyMounted /\ NoApplianceLeft /\ LocalTakesPrecedence
-----------------------------------------------------------------------------
\* The lengths of the sequences, and the numbers of the files.
LEMMA Facts ==
    ASSUME TypeOK
    PROVE  /\ Len(Names) \in Nat /\ file \in Nat /\ Len(mounted) \in Nat
           /\ file \in Files <=> file <= Len(Names)
           /\ file \in Files => /\ content[file] \in ConfigType /\ content[file].mounts \in Seq(Nat)
                                /\ Len(content[file].mounts) \in Nat
           /\ file > 0 /\ Len(SetupCalls) = 6
<1>1. Len(Names) \in Nat
  BY RootsAssumption
<1>2. file \in Nat /\ file > 0 /\ file <= Len(Names) + 1 /\ Len(mounted) \in Nat
  BY <1>1 DEF TypeOK
<1>3. file \in Files <=> file <= Len(Names)
  BY <1>1, <1>2 DEF Files
<1>4. ASSUME file \in Files PROVE content[file] \in ConfigType
  BY <1>4, RootsAssumption DEF TypeOK
<1>5. ASSUME file \in Files PROVE content[file].mounts \in Seq(Nat)
  BY <1>4, <1>5 DEF ConfigType
<1> QED BY <1>1, <1>2, <1>3, <1>4, <1>5 DEF SetupCalls

\* A file that is given up leaves nothing behind.
LEMMA GiveUpInv ==
    ASSUME Inv, GiveUp, pc # "serve", file \in Files
    PROVE  Inv'
<1> USE Facts DEF Inv
<1>1. /\ pc' = "scan" /\ file' = file + 1 /\ failed' = failed \cup {file}
      /\ appliance' = 0 /\ calls' = 0 /\ mounted' = << >>
      /\ UNCHANGED <<content, remote, state, answer>>
  BY DEF GiveUp, Drop, request
<1>2. TypeOK'
  BY <1>1 DEF TypeOK
<1>3. ScanInv' /\ MatchInv'
  <2>1. ScanInv'
    BY <1>1 DEF ScanInv
  <2>2. \A f \in Files : f < file + 1 => f < file \/ f = file
    BY DEF Files
  <2>3. remote = 0
    BY DEF ScanInv
  <2>4. MatchInv'
    BY <1>1, <2>2, <2>3 DEF MatchInv, match_ip
  <2> QED BY <2>1, <2>4
<1>4. MountInv' /\ FullyMounted' /\ NoApplianceLeft' /\ LocalTakesPrecedence'
  BY <1>1 DEF ScanInv, MountInv, FullyMounted, NoApplianceLeft, LocalTakesPrecedence
<1> QED BY <1>2, <1>3, <1>4

\* The scan, the setup of an appliance and the end of the scan.
LEMMA ScanStepInv ==
    ASSUME Inv, SkipFile \/ ReadConfig \/ SetupCall \/ SetupFails \/ MountFails \/ NoRemote
    PROVE  Inv'
<1> USE Facts DEF Inv
<1>1. CASE SkipFile
  <2>1. /\ pc = "scan" /\ file' = file + 1 /\ file \in Files /\ ~match_ip(file)
        /\ UNCHANGED <<pc, content, appliance, calls, mounted, failed, remote, state, answer>>
    BY <1>1 DEF SkipFile, disk, request
  <2>2. \A f \in Files : f < file + 1 => f < file \/ f = file
    BY DEF Files
  <2>3. TypeOK' /\ NoApplianceLeft' /\ MountInv'
    BY <2>1 DEF TypeOK, NoApplianceLeft, MountInv
  <2>4. ScanInv' /\ FullyMounted' /\ LocalTakesPrecedence'
    BY <2>1 DEF ScanInv, FullyMounted, LocalTakesPrecedence
  <2>5. MatchInv'
    <3>1. remote = 0
      BY <2>1 DEF ScanInv
    <3> QED BY Zenon, <2>1, <2>2, <3>1 DEF MatchInv, match_ip
  <2> QED BY <2>3, <2>4, <2>5
<1>2. CASE ReadConfig
  <2>1. CASE content[file].kind = "nbd"
    <3>1. /\ pc = "scan" /\ file \in Files /\ match_ip(file) /\ pc' = "attach" /\ appliance' = file
          /\ UNCHANGED <<content, file, calls, mounted, failed, remote, state, answer>>
      BY <1>2, <2>1 DEF ReadConfig, Create, request
    <3>2. TypeOK' /\ NoApplianceLeft' /\ MountInv'
      BY <3>1 DEF TypeOK, NoApplianceLeft, MountInv
    <3>3. ScanInv'
      BY SMTT(30), <2>1, <3>1 DEF ScanInv
    <3>4. FullyMounted' /\ LocalTakesPrecedence'
      BY SMTT(30), <3>1 DEF ScanInv, FullyMounted, LocalTakesPrecedence
    <3>5. MatchInv'
      BY Zenon, <3>1 DEF MatchInv, match_ip
    <3> QED BY <3>2, <3>3, <3>4, <3>5
  <2>2. CASE content[file].kind # "nbd"
    BY <1>2, <2>2, GiveUpInv DEF ReadConfig
  <2> QED BY <2>1, <2>2
<1>3. CASE SetupCall
  <2>1. /\ pc = "attach" /\ calls' = calls + 1 /\ calls' \in 0 .. 6
        /\ pc' = IF calls' = 6 THEN "mount" ELSE "attach"
        /\ UNCHANGED <<content, file, appliance, mounted, failed, remote, state, answer>>
    <3>1. pc = "attach" /\ calls < 6 /\ calls \in 0 .. 6
      BY <1>3 DEF SetupCall, ScanInv, TypeOK
    <3>2. calls' = calls + 1 /\ calls' \in 0 .. 6
      BY <1>3, <3>1 DEF SetupCall
    <3>3. pc' = IF calls' = 6 THEN "mount" ELSE "attach"
      BY Zenon, <1>3 DEF SetupCall
    <3>4. UNCHANGED <<content, file, appliance, mounted, failed, remote, state, answer>>
      BY <1>3 DEF SetupCall, request
    <3> QED BY <3>1, <3>2, <3>3, <3>4
  <2>2. TypeOK' /\ NoApplianceLeft'
    BY Zenon, <2>1 DEF TypeOK, NoApplianceLeft
  <2>3. MountInv'
    BY <2>1 DEF MountInv, ScanInv
  <2>4. ScanInv' /\ FullyMounted' /\ LocalTakesPrecedence'
    BY <2>1 DEF ScanInv, FullyMounted, LocalTakesPrecedence
  <2>5. MatchInv'
    BY <2>1 DEF MatchInv, match_ip
  <2> QED BY <2>2, <2>3, <2>4, <2>5
<1>4. CASE SetupFails \/ MountFails
  BY <1>4, GiveUpInv DEF SetupFails, MountFails, ScanInv
<1>5. CASE NoRemote
  <2>1. /\ pc = "scan" /\ file \notin Files /\ pc' = "serve"
        /\ UNCHANGED <<content, file, appliance, calls, mounted, failed, remote, state, answer>>
    BY <1>5 DEF NoRemote, disk, request
  <2>2. TypeOK' /\ NoApplianceLeft' /\ MountInv'
    BY <2>1 DEF TypeOK, NoApplianceLeft, MountInv, ScanInv
  <2>3. ScanInv' /\ FullyMounted' /\ LocalTakesPrecedence'
    BY <2>1 DEF ScanInv, FullyMounted, LocalTakesPrecedence
  <2>4. MatchInv'
    BY <2>1 DEF MatchInv, match_ip
  <2> QED BY <2>2, <2>3, <2>4
<1> QED BY <1>1, <1>2, <1>3, <1>4, <1>5

\* The mounts, one after the other.
LEMMA MountStepInv ==
    ASSUME Inv, MountNext
    PROVE  Inv'
<1> USE Facts DEF Inv
<1> DEFINE partition == content[file].mounts[Len(mounted) + 1]
<1>1. pc = "mount" /\ Len(mounted) < Len(content[file].mounts) /\ file \in Files
  BY DEF MountNext, Pending, ScanInv
<1>2. CASE partition \notin list_partitions
  BY <1>1, <1>2, GiveUpInv DEF MountNext
<1>3. CASE partition \in list_partitions
  <2>1. /\ mounted' = Append(mounted, partition)
        /\ UNCHANGED <<pc, content, file, appliance, calls, failed, remote, state, answer>>
    BY <1>3 DEF MountNext, request
  <2>2. mounted \in Seq(list_partitions)
    BY DEF TypeOK
  <2> HIDE DEF partition
  <2>3. /\ mounted' \in Seq(list_partitions) /\ Len(mounted') = Len(mounted) + 1
        /\ mounted'[Len(mounted) + 1] = partition
        /\ \A i \in 1 .. Len(mounted) : mounted'[i] = mounted[i]
    BY <1>3, <2>1, <2>2, AppendProperties
  <2>4. TypeOK' /\ NoApplianceLeft'
    BY <2>1, <2>3 DEF TypeOK, NoApplianceLeft
  <2>5. MountInv'
    <3>1. \A i \in 1 .. Len(mounted) + 1 : i \in 1 .. Len(mounted) \/ i = Len(mounted) + 1
      OBVIOUS
    <3>2. \A i \in 1 .. Len(mounted) + 1 : mounted'[i] = content[file].mounts[i]
      BY Zenon, <1>1, <2>3, <3>1 DEF MountInv, partition
    <3> QED BY <1>1, <2>1, <2>3, <3>2 DEF MountInv
  <2>6. ScanInv' /\ FullyMounted' /\ LocalTakesPrecedence'
    BY Zenon, <1>1, <2>1 DEF ScanInv, FullyMounted, LocalTakesPrecedence
  <2>7. MatchInv'
    BY <2>1 DEF MatchInv, match_ip
  <2> QED BY <2>4, <2>5, <2>6, <2>7
<1> QED BY <1>2, <1>3

\* The last mount is in place: the disk is served.
LEMMA ConnectedInv ==
    ASSUME Inv, Connected
    PROVE  Inv'
<1> USE Facts DEF Inv
<1>1. /\ pc = "mount" /\ ~(Len(mounted) < Len(content[file].mounts)) /\ file \in Files
      /\ remote' = file /\ pc' = "serve"
      /\ UNCHANGED <<content, file, appliance, calls, mounted, failed, state, answer>>
  BY DEF Connected, Pending, ScanInv, disk, request
<1>2. mounted = content[file].mounts
  <2>1. Len(mounted) = Len(content[file].mounts)
    BY <1>1 DEF MountInv
  <2>2. mounted \in [1 .. Len(mounted) -> list_partitions]
    BY LenProperties DEF TypeOK
  <2>3. content[file].mounts \in [1 .. Len(mounted) -> Nat]
    BY <1>1, <2>1, LenProperties
  <2> QED BY <1>1, <2>2, <2>3 DEF MountInv
<1>3. TypeOK' /\ NoApplianceLeft' /\ MountInv'
  BY <1>1 DEF TypeOK, NoApplianceLeft, MountInv, ScanInv, Files
<1>4. ScanInv' /\ FullyMounted' /\ LocalTakesPrecedence'
  BY Zenon, <1>1, <1>2 DEF ScanInv, FullyMounted, LocalTakesPrecedence
<1>5. MatchInv'
  BY <1>1 DEF MatchInv, match_ip
<1> QED BY <1>3, <1>4, <1>5

\* The first of the numbers in a set.
LEMMA MinFacts ==
    ASSUME NEW S \in SUBSET (1 .. 3), S # {}
    PROVE  Min(S) \in S /\ \A y \in S : Min(S) <= y
<1>1. \E x \in S : \A y \in S : x <= y
  <2>1. \A y \in S : y = 1 \/ y = 2 \/ y = 3
    OBVIOUS
  <2>2. CASE 1 \in S
    BY <2>1, <2>2
  <2>3. CASE 1 \notin S /\ 2 \in S
    BY <2>1, <2>3
  <2>4. CASE 1 \notin S /\ 2 \notin S
    <3>1. \A y \in S : y = 3
      BY <2>1, <2>4
    <3>2. PICK x \in S : TRUE
      BY Zenon
    <3>3. \A y \in S : x <= y
      BY <3>1, <3>2
    <3> QED BY <3>3
  <2> QED BY <2>2, <2>3, <2>4
<1> QED BY Zenon, <1>1 DEF Min

\* What opening a path in a root gives.
LEMMA OpenFacts ==
    ASSUME NEW s \in [RootNames -> States], NEW r \in RootNames
    PROVE  /\ open(r, s) \in {"Ok", "NotFound", "PermissionDenied", "Other"}
           /\ open(r, s) = "NotFound" <=> s[r] = "missing"
<1>1. s[r] \in {"file", "missing", "denied", "broken"}
  BY DEF States
<1> QED BY <1>1 DEF open

\* The answer to a request, in terms of what the roots hold.
LEMMA TriedFacts ==
    ASSUME NEW s \in [RootNames -> States]
    PROVE  /\ Tried(s) \in Answers
           /\ Tried(s) \in {"remote", "default", "file_not_found"} => s["own"] = "missing"
           /\ Tried(s) = "file_not_found" =>
                  s["default"] = "missing" /\ (remote # 0 => s["remote"] = "missing")
<1> DEFINE roots == available_roots
           n     == Len(roots)
           found == {i \in 1 .. n : open(roots[i], s) # "NotFound"}
           first == roots[Min(found)]
<1>1. /\ n \in {2, 3} /\ \A i \in 1 .. n : roots[i] \in RootNames
      /\ roots[1] = "own" /\ roots[n] = "default" /\ (remote # 0 => n = 3 /\ roots[2] = "remote")
      /\ (remote = 0 => n = 2)
  BY DEF available_roots, RootNames
<1>2. \A i \in 1 .. n : open(roots[i], s) = "NotFound" <=> s[roots[i]] = "missing"
  BY <1>1, OpenFacts
<1>3. Tried(s) = IF found = {} THEN "file_not_found"
                 ELSE CASE open(first, s) = "Ok"               -> first
                        [] open(first, s) = "PermissionDenied" -> "access_violation"
                        [] open(first, s) = "Other"            -> "Server Error"
  BY DEF Tried
<1> HIDE DEF roots, n
<1>4. CASE found = {}
  <2>1. \A i \in 1 .. n : s[roots[i]] = "missing"
    BY <1>2, <1>4
  <2>2. 1 \in 1 .. n /\ n \in 1 .. n /\ (n = 3 => 2 \in 1 .. n)
    BY <1>1
  <2>3. Tried(s) = "file_not_found"
    BY <1>3, <1>4
  <2> QED BY <1>1, <2>1, <2>2, <2>3 DEF Answers
<1>5. CASE found # {}
  <2> DEFINE m == Min(found)
  <2>1. m \in found /\ \A i \in found : m <= i
    <3>1. found \in SUBSET (1 .. 3)
      BY <1>1
    <3> HIDE DEF found
    <3> QED BY <1>5, <3>1, MinFacts
  <2> HIDE DEF m
  <2>2. m \in 1 .. n /\ open(roots[m], s) # "NotFound"
    BY <2>1
  <2>3. open(roots[m], s) \in {"Ok", "PermissionDenied", "Other"}
    BY <1>1, <2>2, OpenFacts
  <2>4. \A i \in 1 .. n : i < m => s[roots[i]] = "missing"
    BY <1>1, <1>2, <2>1, <2>2
  <2>5. Tried(s) \in {roots[m], "access_violation", "Server Error"}
    <3>1. first = roots[m]
      BY DEF m
    <3> HIDE DEF found, first
    <3> QED BY <1>3, <1>5, <2>3, <3>1
  <2>6. 1 \in 1 .. n /\ (n = 3 => 2 \in 1 .. n) /\ m \in Nat /\ n \in Nat
    BY <1>1, <2>2
  <2>7. m = 1 \/ m = 2 \/ m = 3
    BY <1>1, <2>2
  <2>8. roots[m] = "own" => m = 1
    BY <1>1, <2>2, <2>7
  <2>9. roots[m] \in RootNames
    BY <1>1, <2>2
  <2>10. Tried(s) \in {"remote", "default"} => m > 1 /\ s["own"] = "missing"
    <3>1. Tried(s) \in {"remote", "default"} => m # 1
      BY <1>1, <2>5
    <3>2. m # 1 => 1 < m
      BY <2>7
    <3> QED BY <1>1, <2>4, <2>6, <3>1, <3>2
  <2> QED BY <2>5, <2>9, <2>10 DEF Answers, RootNames
<1> QED BY <1>4, <1>5

\* A request is answered.
LEMMA RequestInv ==
    ASSUME Inv, schedule_task
    PROVE  Inv'
<1> USE Facts DEF Inv
<1>1. /\ pc = "serve" /\ state' \in [RootNames -> States] /\ answer' = Tried(state')
      /\ UNCHANGED <<pc, content, file, appliance, calls, mounted, failed, remote>>
  BY DEF schedule_task, disk
<1>2. answer' \in Answers /\ LocalTakesPrecedence'
  BY <1>1, TriedFacts DEF LocalTakesPrecedence
<1>3. TypeOK'
  BY <1>1, <1>2 DEF TypeOK
<1>4. ScanInv' /\ MountInv' /\ FullyMounted' /\ NoApplianceLeft'
  BY <1>1 DEF ScanInv, MountInv, FullyMounted, NoApplianceLeft
<1>5. MatchInv'
  BY <1>1 DEF MatchInv, match_ip
<1> QED BY <1>2, <1>3, <1>4, <1>5

\* Every step.
LEMMA NextInv ==
    ASSUME Inv, [Next]_vars
    PROVE  Inv'
<1>1. CASE UNCHANGED vars
  BY <1>1 DEF vars, disk, request, Inv, TypeOK, ScanInv, MatchInv, MountInv, FullyMounted,
              NoApplianceLeft, LocalTakesPrecedence, match_ip
<1> QED BY <1>1, ScanStepInv, MountStepInv, ConnectedInv, RequestInv DEF Next, Scan

\* The initial states.
LEMMA InitInv == Init => Inv
<1> SUFFICES ASSUME Init PROVE Inv
  OBVIOUS
<1>1. TypeOK
  BY RootsAssumption DEF Init, TypeOK, SetupCalls, States, Answers
<1>2. ScanInv /\ MatchInv
  BY RootsAssumption DEF Init, ScanInv, MatchInv, Files
<1> QED BY <1>1, <1>2 DEF Init, Inv, MountInv, FullyMounted, NoApplianceLeft, LocalTakesPrecedence

\* The inductive invariant.
LEMMA Invariance == Spec => []Inv
BY InitInv, NextInv, PTL DEF Spec
-----------------------------------------------------------------------------
(***************************************************************************)
(* Theorems.                                                               *)
(***************************************************************************)

\* The state is always well typed: a partition that is mounted exists.
THEOREM TypeCorrect == Spec => []TypeOK
BY Invariance, PTL DEF Inv

\* A disk is served with its appliance set up and all its mounts.
THEOREM FullyMountedHolds == Spec => []FullyMounted
BY Invariance, PTL DEF Inv

\* No appliance is left behind by a configuration that was given up.
THEOREM NoApplianceLeftHolds == Spec => []NoApplianceLeft
BY Invariance, PTL DEF Inv

\* The disk of another address is served only when every configuration of the
\* peer's own was given up.
THEOREM OwnDiskFirstHolds == Spec => []OwnDiskFirst
<1>1. Inv => OwnDiskFirst
  <2> SUFFICES ASSUME Inv, pc = "serve", NEW f \in Files, Names[f] = Peer, f \notin failed
               PROVE  remote # 0 /\ Names[remote] = Peer
    BY DEF OwnDiskFirst
  <2> USE Facts DEF Inv
  <2>1. f >= file /\ f <= Len(Names) /\ f \in Nat
    <3>1. ~(f < file)
      BY Zenon DEF MatchInv, match_ip
    <3> QED BY <3>1 DEF Files
  <2>2. remote = file /\ remote # 0 /\ file \in 1 .. Len(Names)
    BY <2>1 DEF ScanInv, Files
  <2>3. Names[file] = Peer \/ <<Peer, Names[file]>> \in Prefixes
    BY <2>2 DEF MatchInv, match_ip
  <2>4. <<Names[f], Names[file]>> \in Prefixes => f < file
    BY <2>2, RootsAssumption DEF Files
  <2> QED BY <2>1, <2>2, <2>3, <2>4
<1> QED BY <1>1, Invariance, PTL

\* The peer's own directory comes before every other root, and a file is missing
\* only when no root has it.
THEOREM LocalTakesPrecedenceHolds == Spec => []LocalTakesPrecedence
BY Invariance, PTL DEF Inv
-----------------------------------------------------------------------------
(***************************************************************************)
(* Why the scan ends.  Every step of it lowers a rank: whether it is still *)
(* going on, the files that are left, what is left to do for the present   *)
(* one, and the calls or mounts left of that.                              *)
(***************************************************************************)
Part == CASE pc = "scan" -> 2 [] pc = "attach" -> 1 [] OTHER -> 0

Left ==
    CASE pc = "attach" -> 6 - calls
      [] pc = "mount"  -> Len(content[file].mounts) - Len(mounted)
      [] OTHER         -> 0

Rank == <<IF pc = "serve" THEN 0 ELSE 1, Len(Names) + 1 - file, Part, Left>>

\* The lexicographic order of ranks.
Lower == LexProductOrdering(OpToRel(<, Nat), Nat, 4)

\* No descent in that order goes on for ever.
LEMMA LowerWellFounded == IsWellFoundedOn(Lower, [1 .. 4 -> Nat])
BY NatLessThanWellFounded, WFLexProductOrdering DEF Lower

\* The rank is made of natural numbers.
LEMMA RankType == Inv => Rank \in [1 .. 4 -> Nat]
<1> SUFFICES ASSUME Inv PROVE Rank \in [1 .. 4 -> Nat]
  OBVIOUS
<1>1. Len(Names) + 1 - file \in Nat
  BY Facts DEF Inv, TypeOK
<1>2. Left \in Nat
  <2>1. CASE pc = "attach"
    <3>1. calls \in 0 .. 6
      BY Zenon, Facts DEF Inv, TypeOK
    <3> QED BY <2>1, <3>1 DEF Left
  <2>2. CASE pc = "mount"
    <3>1. Len(mounted) <= Len(content[file].mounts) /\ file \in Files
      BY <2>2 DEF Inv, MountInv, ScanInv
    <3>2. Len(mounted) \in Nat /\ Len(content[file].mounts) \in Nat
      BY <3>1, Facts DEF Inv
    <3> QED BY <2>2, <3>1, <3>2 DEF Left
  <2> QED BY <2>1, <2>2 DEF Left
<1> QED BY <1>1, <1>2 DEF Rank, Part

\* A rank is lower than another one at the first place where they differ.
LEMMA LowerAt ==
    ASSUME NEW r \in [1 .. 4 -> Nat], NEW s \in [1 .. 4 -> Nat],
           \/ r[1] < s[1]
           \/ r[1] = s[1] /\ r[2] < s[2]
           \/ r[1] = s[1] /\ r[2] = s[2] /\ r[3] < s[3]
           \/ r[1] = s[1] /\ r[2] = s[2] /\ r[3] = s[3] /\ r[4] < s[4]
    PROVE  <<r, s>> \in Lower
<1>1. PICK j \in 1 .. 4 : (\A i \in 1 .. j - 1 : r[i] = s[i]) /\ r[j] < s[j]
  OBVIOUS
<1> QED BY <1>1 DEF Lower, LexProductOrdering, OpToRel

\* The ways a step of the scan gets on: it ends, passes to the next file, to the
\* next thing to do for the present one, or makes one of the calls left.
Descent ==
    \/ pc # "serve" /\ pc' = "serve"
    \/ pc # "serve" /\ pc' # "serve" /\ file' > file
    \/ pc # "serve" /\ pc' # "serve" /\ file' = file /\ Part' < Part
    \/ pc # "serve" /\ pc' = pc /\ file' = file /\ Left' < Left

\* A step that gets on lowers the rank.
LEMMA DescentLowers ==
    ASSUME Inv, Inv', Descent
    PROVE  <<Rank', Rank>> \in Lower
<1>1. Rank \in [1 .. 4 -> Nat]
  BY RankType
<1>2. Rank' \in [1 .. 4 -> Nat]
  <2>1. Inv' => (Rank \in [1 .. 4 -> Nat])'
    BY RankType, PTL
  <2> QED BY <2>1
<1>3. PICK r \in [1 .. 4 -> Nat], s \in [1 .. 4 -> Nat] : r = Rank' /\ s = Rank
  BY <1>1, <1>2, Zenon
<1>4. /\ r[1] = IF pc' = "serve" THEN 0 ELSE 1
      /\ s[1] = IF pc = "serve" THEN 0 ELSE 1
      /\ r[2] = Len(Names) + 1 - file' /\ s[2] = Len(Names) + 1 - file
      /\ r[3] = Part' /\ s[3] = Part /\ r[4] = Left' /\ s[4] = Left
  BY <1>3 DEF Rank
<1>5. file' \in Int /\ file \in Int /\ Len(Names) \in Int
  BY RootsAssumption DEF Inv, TypeOK
<1>6. file' > file => r[2] < s[2]
  BY <1>4, <1>5
<1>7. pc' = pc => Part' = Part
  BY DEF Part
<1>8. \/ r[1] < s[1]
      \/ r[1] = s[1] /\ r[2] < s[2]
      \/ r[1] = s[1] /\ r[2] = s[2] /\ r[3] < s[3]
      \/ r[1] = s[1] /\ r[2] = s[2] /\ r[3] = s[3] /\ r[4] < s[4]
  BY <1>4, <1>6, <1>7 DEF Descent
<1> QED BY <1>3, <1>8, LowerAt

\* Every step of the scan gets on.
LEMMA ScanDescends ==
    ASSUME Inv, Scan
    PROVE  Descent
<1>0. file \in Nat /\ calls \in Nat /\ Len(mounted) \in Nat
  BY Facts DEF Inv, TypeOK
<1>1. ASSUME GiveUp, pc # "serve" PROVE Descent
  BY <1>0, <1>1 DEF GiveUp, Descent
<1>2. CASE SkipFile
  BY <1>0, <1>2 DEF SkipFile, Descent
<1>3. CASE ReadConfig
  <2>1. CASE content[file].kind = "nbd"
    BY <1>0, <1>3, <2>1 DEF ReadConfig, Descent, Part
  <2> QED BY <1>1, <1>3, <2>1 DEF ReadConfig
<1>4. CASE SetupCall
  <2>1. /\ pc = "attach" /\ calls' = calls + 1 /\ file' = file
        /\ pc' \in {"mount", "attach"}
    BY <1>4 DEF SetupCall
  <2>2. CASE pc' = "mount"
    BY <1>0, <2>1, <2>2 DEF Descent, Part
  <2>3. CASE pc' = "attach"
    BY <1>0, <2>1, <2>3 DEF Descent, Left
  <2> QED BY <2>1, <2>2, <2>3
<1>5. CASE SetupFails \/ MountFails
  BY <1>1, <1>5 DEF SetupFails, MountFails
<1>6. CASE MountNext
  <2> DEFINE partition == content[file].mounts[Len(mounted) + 1]
  <2>1. pc = "mount" /\ Pending
    BY <1>6 DEF MountNext
  <2>2. CASE partition \notin list_partitions
    BY <1>1, <1>6, <2>1, <2>2 DEF MountNext
  <2>3. CASE partition \in list_partitions
    <3>1. mounted' = Append(mounted, partition) /\ UNCHANGED <<pc, content, file>>
      BY <1>6, <2>3 DEF MountNext
    <3>2. mounted \in Seq(list_partitions)
      BY DEF Inv, TypeOK
    <3> HIDE DEF partition
    <3>3. Len(mounted') = Len(mounted) + 1
      BY <2>3, <3>1, <3>2
    <3>4. file \in Files
      BY <2>1 DEF Inv, ScanInv
    <3>5. Len(content[file].mounts) \in Nat
      BY <3>4, Facts DEF Inv
    <3> QED BY <1>0, <2>1, <3>1, <3>3, <3>5 DEF Descent, Left
  <2> QED BY <2>2, <2>3
<1>7. CASE Connected \/ NoRemote
  BY <1>7 DEF Connected, NoRemote, Descent
<1> QED BY <1>2, <1>3, <1>4, <1>5, <1>6, <1>7 DEF Scan

\* Every step of the scan lowers its rank, in an order in which no descent goes
\* on for ever, and the requests that follow leave it alone: whatever the files
\* hold and whichever calls fail, open_nbd_root cannot go round and round.
THEOREM ScanDescendsAlways ==
    /\ IsWellFoundedOn(Lower, [1 .. 4 -> Nat])
    /\ Spec => [](Rank \in [1 .. 4 -> Nat])
    /\ Spec => [][IF pc = "serve" THEN Rank' = Rank ELSE <<Rank', Rank>> \in Lower]_vars
<1>1. Spec => [](Rank \in [1 .. 4 -> Nat])
  BY RankType, Invariance, PTL
<1>2. ASSUME Inv, Inv', Next
      PROVE  IF pc = "serve" THEN Rank' = Rank ELSE <<Rank', Rank>> \in Lower
  <2>1. CASE Scan
    <3>1. Descent
      BY <1>2, <2>1, ScanDescends
    <3> QED BY <1>2, <3>1, DescentLowers DEF Descent
  <2>2. CASE schedule_task
    BY <2>2 DEF schedule_task, disk, Rank, Part, Left
  <2> QED BY <1>2, <2>1, <2>2 DEF Next
<1>3. Inv /\ Inv' /\ [Next]_vars
         => [IF pc = "serve" THEN Rank' = Rank ELSE <<Rank', Rank>> \in Lower]_vars
  BY <1>2, Zenon
<1>4. Spec => [][IF pc = "serve" THEN Rank' = Rank ELSE <<Rank', Rank>> \in Lower]_vars
  BY <1>3, Invariance, PTL DEF Spec
<1> QED BY <1>1, <1>4, LowerWellFounded
=============================================================================
