----------------------------- MODULE Typer_proofs -----------------------------
(***************************************************************************)
(* A .t that was written is whole, and the corpus directory is the corpus  *)
(* dealt to the CPUs, for all programs, types and outputs, in every number *)
(* of starts of typer.py and of make_initial_corpus.py.                    *)
(***************************************************************************)
EXTENDS Typer, FiniteSetTheorems, WellFoundedInduction, TLAPS

(* What the lines so far have put together, and what was written, agree    *)
(* with what was printed.                                                  *)
Resolved == \A l \in Loc : Lists(records[l], At(seen, l))
Written ==
    \A f \in File : types[f] \notin {Absent, Torn} =>
        \A l \in Loc : Lists(types[f][l], At(saw[f], l))

(* A start of typer.py that is still under way has torn no file but the    *)
(* one that it writes.                                                     *)
TornFiles == {f \in File : types[f] = Torn}
FewTorn ==
    /\ IsFiniteSet(TornFiles)
    /\ Cardinality(TornFiles) <= runs
    /\ pc \in {"walk", "profile", "resolve"} => Cardinality(TornFiles) < runs
    /\ pc = "write" => cur \in TornFiles

IInv == TypeOK /\ Resolved /\ Written /\ FewTorn

(* Another value of a place: the list of its types has one more, or it was *)
(* there already.                                                          *)
LEMMA MergedLists ==
    ASSUME NEW known \in Seq(Type), NEW t \in Type, NEW set, Lists(known, set)
    PROVE  Merged(known, t) \in Seq(Type) /\ Lists(Merged(known, t), set \cup {t})
  <1>1. CASE \E k \in DOMAIN known : known[k] = t
    BY <1>1 DEF Merged, Lists
  <1>2. ASSUME \A k \in DOMAIN known : known[k] # t, Len(known) = 1
        PROVE  Merged(known, t) \in Seq(Type)
                   /\ Lists(Merged(known, t), set \cup {t})
    <2>1. Merged(known, t) = <<t, known[1]>>
      BY <1>2 DEF Merged
    <2>2. DOMAIN known = {1} /\ known[1] \in Type
      BY <1>2
    <2>3. set = {known[1]} /\ known[1] # t
      BY <1>2, <2>2 DEF Lists
    <2>4. DOMAIN <<t, known[1]>> = {1, 2}
      OBVIOUS
    <2> QED
      BY <2>1, <2>2, <2>3, <2>4 DEF Lists
  <1>3. ASSUME \A k \in DOMAIN known : known[k] # t, Len(known) # 1
        PROVE  Merged(known, t) \in Seq(Type)
                   /\ Lists(Merged(known, t), set \cup {t})
    <2> DEFINE longer == Append(known, t)
               n == Len(known) + 1
    <2>1. Merged(known, t) = longer
      BY <1>3 DEF Merged
    <2>2. longer \in Seq(Type) /\ DOMAIN known = 1..Len(known) /\ Len(known) \in Nat
      OBVIOUS
    <2>3. /\ DOMAIN longer = 1..n
          /\ longer[n] = t
          /\ \A k \in 1..Len(known) : longer[k] = known[k]
      OBVIOUS
    <2> HIDE DEF longer
    <2>4. {longer[k] : k \in DOMAIN longer} = set \cup {t}
      <3>1. DOMAIN longer = (DOMAIN known) \cup {n}
        BY <2>2, <2>3
      <3>2. \A k \in DOMAIN known : longer[k] = known[k]
        BY <2>2, <2>3
      <3> QED
        BY <3>1, <3>2, <2>3 DEF Lists
    <2>5. ASSUME NEW k \in DOMAIN longer, NEW m \in DOMAIN longer,
                 longer[k] = longer[m]
          PROVE  m = k
      BY <1>3, <2>2, <2>3, <2>5 DEF Lists
    <2>6. Lists(longer, set \cup {t})
      BY <2>4, <2>5 DEF Lists
    <2> QED
      BY <2>1, <2>2, <2>6
  <1> QED
    BY <1>1, <1>2, <1>3

LEMMA NoRecordsIsRecord == NoRecords \in Record
  BY DEF NoRecords, Record

LEMMA NothingResolved ==
    ASSUME NEW l \in Loc PROVE Lists(NoRecords[l], At({}, l))
  <1>1. NoRecords[l] = << >> /\ DOMAIN NoRecords[l] = {}
    BY DEF NoRecords
  <1>2. At({}, l) = {}
    BY DEF At
  <1> QED
    BY <1>1, <1>2 DEF Lists

LEMMA InitIInv == Init => IInv
  <1> SUFFICES ASSUME Init PROVE IInv
    OBVIOUS
  <1> USE DEF Init
  <1>1. TypeOK
    BY TyperAssumption, NoRecordsIsRecord DEF TypeOK, Phases
  <1>2. Resolved
    BY NothingResolved DEF Resolved
  <1>3. Written
    BY DEF Written
  <1>4. TornFiles = {}
    BY TyperAssumption DEF TornFiles
  <1> QED
    BY <1>1, <1>2, <1>3, <1>4, FS_EmptySet DEF IInv, FewTorn

(* A line with a value.                                                    *)
LEMMA ResolveLineIInv == IInv /\ ResolveLine => IInv'
  <1> SUFFICES ASSUME IInv, ResolveLine PROVE IInv'
    OBVIOUS
  <1> USE DEF IInv, ResolveLine, corpusVars
  <1> DEFINE line == Head(output)
  <1>1. output \in Seq(Line) /\ output # << >>
    BY DEF TypeOK
  <1>2. line \in Line /\ output' \in Seq(Line)
    BY <1>1
  <1>3. Written' /\ FewTorn'
    BY DEF Written, FewTorn, TornFiles, TypeOK
  <1>4. CASE line = Noise
    <2>1. TypeOK'
      BY <1>2, <1>4 DEF TypeOK
    <2>2. Resolved'
      BY <1>4 DEF Resolved, At
    <2> QED
      BY <1>3, <2>1, <2>2
  <1>5. CASE line # Noise
    <2>1. line \in Value
      BY <1>2, <1>5 DEF Line, Other
    <2>2. line.loc \in Loc /\ line.type \in Type
      BY <2>1 DEF Value
    <2>3. /\ records' = [records EXCEPT ![line.loc] = Merged(@, line.type)]
          /\ seen' = seen \cup {line}
      BY <1>5
    <2>4. records \in [Loc -> Seq(Type)]
      BY DEF TypeOK, Record
    <2>5. ASSUME NEW l \in Loc
          PROVE  records'[l] \in Seq(Type) /\ Lists(records'[l], At(seen', l))
      <3>1. CASE l = line.loc
        <4>1. records'[l] = Merged(records[l], line.type)
          BY <3>1, <2>3, <2>4
        <4>2. At(seen', l) = At(seen, l) \cup {line.type}
          BY <3>1, <2>3 DEF At
        <4>3. Lists(records[l], At(seen, l)) /\ records[l] \in Seq(Type)
          BY <2>4 DEF Resolved
        <4> QED
          BY <4>1, <4>2, <4>3, <2>2, MergedLists
      <3>2. CASE l # line.loc
        <4>1. records'[l] = records[l]
          BY <3>2, <2>3, <2>4
        <4>2. At(seen', l) = At(seen, l)
          BY <3>2, <2>3 DEF At
        <4> QED
          BY <4>1, <4>2, <2>4 DEF Resolved
      <3> QED
        BY <3>1, <3>2
    <2>6. records' \in Record
      BY <2>3, <2>4, <2>5 DEF Record
    <2>7. TypeOK'
      BY <1>2, <2>1, <2>3, <2>6 DEF TypeOK
    <2>8. Resolved'
      BY <2>5 DEF Resolved
    <2> QED
      BY <1>3, <2>7, <2>8
  <1> QED
    BY <1>4, <1>5

(* The .t is opened.                                                       *)
LEMMA OpenTypesIInv == IInv /\ OpenTypes => IInv'
  <1> SUFFICES ASSUME IInv, OpenTypes PROVE IInv'
    OBVIOUS
  <1> USE DEF IInv, OpenTypes, corpusVars, typerVars
  <1>1. Resolved'
    BY DEF Resolved
  <1>2. CASE records = NoRecords
    BY <1>1, <1>2 DEF TypeOK, Phases, Written, FewTorn, TornFiles
  <1>3. CASE records # NoRecords
    <2>1. pc' = "write" /\ types' = [types EXCEPT ![cur] = Torn]
      BY <1>3
    <2>2. TypeOK'
      BY <2>1 DEF TypeOK, Phases
    <2>3. Written'
      BY <2>1 DEF Written, TypeOK
    <2>4. TornFiles' = TornFiles \cup {cur}
      BY <2>1 DEF TornFiles, TypeOK
    <2>5. /\ IsFiniteSet(TornFiles') /\ Cardinality(TornFiles) \in Nat
          /\ Cardinality(TornFiles') <= Cardinality(TornFiles) + 1
      BY <2>4, FS_AddElement, FS_CardinalityType DEF FewTorn
    <2>6. FewTorn'
      <3>1. Cardinality(TornFiles) < runs /\ runs \in Nat
        BY DEF FewTorn, TypeOK
      <3>2. Cardinality(TornFiles') \in Nat
        BY <2>5, FS_CardinalityType
      <3>3. Cardinality(TornFiles') <= runs'
        BY <2>5, <3>1, <3>2
      <3> QED
        BY <2>1, <2>4, <2>5, <3>3 DEF FewTorn
    <2> QED
      BY <1>1, <2>2, <2>3, <2>6
  <1> QED
    BY <1>2, <1>3

(* The .t is written, and is torn no more.                                 *)
LEMMA WriteTypesIInv == IInv /\ WriteTypes => IInv'
  <1> SUFFICES ASSUME IInv, WriteTypes PROVE IInv'
    OBVIOUS
  <1> USE DEF IInv, WriteTypes, corpusVars
  <1>1. TypeOK'
    BY NoRecordsIsRecord DEF TypeOK, Phases
  <1>2. Resolved'
    BY NothingResolved DEF Resolved
  <1>3. Written'
    <2> SUFFICES ASSUME NEW f \in File, types'[f] \notin {Absent, Torn},
                        NEW l \in Loc
                 PROVE  Lists(types'[f][l], At(saw'[f], l))
      BY DEF Written
    <2>1. CASE f = cur
      BY <2>1 DEF TypeOK, Resolved
    <2>2. CASE f # cur
      BY <2>2 DEF TypeOK, Written
    <2> QED
      BY <2>1, <2>2
  <1>4. TornFiles' = TornFiles \ {cur}
    BY TyperAssumption DEF TornFiles, TypeOK
  <1>5. /\ cur \in TornFiles /\ IsFiniteSet(TornFiles)
        /\ IsFiniteSet(TornFiles')
        /\ Cardinality(TornFiles') = Cardinality(TornFiles) - 1
        /\ Cardinality(TornFiles) \in Nat
    BY <1>4, FS_RemoveElement, FS_CardinalityType DEF FewTorn
  <1>6. FewTorn'
    <2>1. Cardinality(TornFiles) <= runs /\ runs \in Nat
      BY DEF FewTorn, TypeOK
    <2>2. Cardinality(TornFiles') < runs' /\ Cardinality(TornFiles') <= runs'
      BY <1>5, <2>1
    <2> QED
      BY <1>5, <2>2 DEF FewTorn
  <1> QED
    BY <1>1, <1>2, <1>3, <1>6

(* The other steps leave the files of types as they are.                   *)
LEMMA StepIInv == IInv /\ [Next]_vars => IInv'
  <1> SUFFICES ASSUME IInv, [Next]_vars PROVE IInv'
    OBVIOUS
  <1> USE DEF IInv
  <1>1. ASSUME UNCHANGED <<types, saw, records, seen>>, TypeOK',
               runs' = runs,
               pc' \in {"walk", "profile", "resolve"}
                   => pc \in {"walk", "profile", "resolve"},
               pc' # "write"
        PROVE  IInv'
    <2>1. Resolved' /\ Written'
      BY <1>1 DEF Resolved, Written
    <2>2. FewTorn'
      BY <1>1 DEF FewTorn, TornFiles
    <2> QED
      BY <1>1, <2>1, <2>2
  <1>2. CASE Visit
    BY <1>1, <1>2 DEF Visit, TypeOK, Phases
  <1>3. CASE WalkEnds \/ ProfileTimesOut
    BY <1>1, <1>3 DEF WalkEnds, ProfileTimesOut, typerVars, TypeOK, Phases
  <1>4. CASE Profile
    BY <1>1, <1>4, TyperAssumption DEF Profile, TypeOK, Phases
  <1>5. CASE ResolveLine \/ OpenTypes \/ WriteTypes
    BY <1>5, ResolveLineIInv, OpenTypesIInv, WriteTypesIInv
  <1>6. CASE ResolveFails \/ Kill
    <2>1. /\ Dropped /\ UNCHANGED <<runs, types, saw, walk, cur>>
          /\ pc' \in {"walk", "died"}
          /\ pc' = "walk" => pc = "resolve"
      BY <1>6 DEF ResolveFails, Kill
    <2>2. TypeOK'
      BY <2>1, NoRecordsIsRecord DEF Dropped, TypeOK, Phases
    <2>3. Resolved'
      BY <2>1, NothingResolved DEF Dropped, Resolved
    <2>4. Written' /\ FewTorn'
      BY <2>1 DEF Written, FewTorn, TornFiles
    <2> QED
      BY <2>2, <2>3, <2>4
  <1>7. CASE Restart
    <2>1. TypeOK'
      BY <1>7, TyperAssumption DEF Restart, TypeOK, Phases
    <2>2. Resolved' /\ Written'
      BY <1>7 DEF Restart, Resolved, Written
    <2>3. IsFiniteSet(TornFiles) /\ TornFiles' = TornFiles
      BY <1>7 DEF Restart, FewTorn, TornFiles
    <2>4. Cardinality(TornFiles) \in Nat /\ runs \in Nat
      BY <2>3, FS_CardinalityType DEF TypeOK
    <2>5. FewTorn'
      BY <1>7, <2>3, <2>4 DEF Restart, FewTorn
    <2> QED
      BY <2>1, <2>2, <2>5
  <1>8. CASE Sort \/ Deal \/ DealEnds \/ CopyJs \/ CopyTypes \/ CopyEnds
                 \/ KillCopy
    <2>1. /\ UNCHANGED <<runs, types, saw, typerVars>>
          /\ pc' \in Phases \ {"walk", "profile", "resolve", "write"}
      BY <1>8 DEF Sort, Deal, DealEnds, CopyJs, CopyTypes, CopyEnds, KillCopy,
                  corpusVars, Phases
    <2>2. TypeOK'
      BY <2>1 DEF TypeOK, typerVars, Phases
    <2> QED
      BY <1>1, <2>1, <2>2 DEF typerVars
  <1>9. CASE UNCHANGED vars
    <2>1. TypeOK'
      BY <1>9 DEF vars, typerVars, TypeOK
    <2>2. Resolved' /\ Written' /\ FewTorn'
      BY <1>9 DEF vars, typerVars, Resolved, Written, FewTorn, TornFiles
    <2> QED
      BY <2>1, <2>2
  <1> QED
    BY <1>2, <1>3, <1>4, <1>5, <1>6, <1>7, <1>8, <1>9 DEF Next

(* Type correctness of the typer.                                          *)
THEOREM TypeCorrect == Spec => []TypeOK
  <1>1. IInv => TypeOK
    BY DEF IInv
  <1> QED
    BY <1>1, InitIInv, StepIInv, PTL DEF Spec

(* A .t that was written holds every type that the run printed for a place *)
(* and none twice, whatever was printed; and no more files stay torn than  *)
(* typer.py was started.                                                   *)
THEOREM WholeAlways == Spec => []TypesAreWhole
  <1>1. IInv => TypesAreWhole
    BY DEF IInv, Written, FewTorn, TornFiles, TypesAreWhole
  <1> QED
    BY <1>1, InitIInv, StepIInv, PTL DEF Spec

-----------------------------------------------------------------------------
(* The corpus.  After so many rounds of the inner loop as many files are   *)
(* dealt, each to one CPU, and q of the CPUs have one more than the    *)
(* others: the j of this round, as long as there are files.                *)
Entry == [js : File, t : Record \cup {Absent, Torn}]

FilesAreSorted ==
    /\ files \in Seq(File) /\ {files[p] : p \in DOMAIN files} = Eligible
    /\ \A p, q \in DOMAIN files : files[p] = files[q] => p = q

SplitsAreDistinct ==
    /\ splits \in Seq(Seq(File)) /\ Len(splits) > 0
    /\ \A k, l \in DOMAIN splits :
          \A x \in DOMAIN splits[k], y \in DOMAIN splits[l] :
             splits[k][x] = splits[l][y] => k = l /\ x = y

Rounds == i + j

FirstAreDealt ==
    /\ \A k \in DOMAIN splits : \A x \in DOMAIN splits[k] :
          \E m \in DOMAIN files : m <= Rounds /\ splits[k][x] = files[m]
    /\ \A m \in DOMAIN files : m <= Rounds =>
          \E k \in DOMAIN splits : \E x \in DOMAIN splits[k] : splits[k][x] = files[m]

Level(r, q) == \A k \in DOMAIN splits : Len(splits[k]) = IF k <= q THEN r + 1 ELSE r

DealInv ==
    pc = "deal" =>
       /\ FilesAreSorted /\ SplitsAreDistinct /\ FirstAreDealt
       /\ i \in Nat /\ j \in Nat /\ j < Len(splits)
       /\ \E r \in Nat, q \in Nat : Level(r, q) /\ (Rounds <= Len(files) => q = j)

(* What was dealt is all that is eligible.                                 *)
SplitsAreDealt ==
    /\ SplitsAreDistinct
    /\ \A k \in DOMAIN splits : \A x \in DOMAIN splits[k] : splits[k][x] \in Eligible
    /\ \A f \in Eligible :
          \E k \in DOMAIN splits : \E x \in DOMAIN splits[k] : splits[k][x] = f
    /\ \A k, m \in DOMAIN splits : Len(splits[k]) <= Len(splits[m]) + 1

(* Copies follow the splits, and the one that is being made may lack its   *)
(* types.                                                                  *)
CopyInv ==
    /\ pc \notin {"copyJs", "copyTypes", "done", "cut"} => outputDir = << >>
    /\ outputDir # << >> =>
          /\ SplitsAreDealt
          /\ outputDir \in Seq(Seq(Entry)) /\ Len(outputDir) = Len(splits)
          /\ \A k \in DOMAIN splits : Len(outputDir[k]) <= Len(splits[k])
          /\ \A k \in DOMAIN splits : \A x \in DOMAIN outputDir[k] :
                /\ outputDir[k][x].js = splits[k][x]
                /\ \/ outputDir[k][x].t = types[splits[k][x]]
                   \/ /\ outputDir[k][x].t = Absent /\ pc \in {"copyTypes", "cut"}
                      /\ k = j /\ x = Len(outputDir[k])
    /\ pc \in {"copyJs", "copyTypes"} => outputDir # << >>
    /\ pc = "copyTypes" => j \in DOMAIN splits /\ Len(outputDir[j]) > 0
    /\ pc = "done" =>
          /\ splits # << >> => outputDir # << >>
          /\ \A k \in DOMAIN splits : Len(outputDir[k]) = Len(splits[k])

LEMMA SeqElement ==
    ASSUME NEW S, NEW s \in Seq(S)
    PROVE  /\ Len(s) \in Nat /\ DOMAIN s = 1 .. Len(s)
           /\ \A k \in DOMAIN s : s[k] \in S
  OBVIOUS

LEMMA LeastExists ==
    ASSUME NEW S, S \subseteq Nat, S # {}
    PROVE  \E k \in S : \A m \in S : k <= m
  <1>1. PICK x \in S : \A y \in S : ~(<<y, x>> \in OpToRel(<, Nat))
    BY WFMin, NatLessThanWellFounded
  <1>2. \A y \in S : ~(y < x)
    BY <1>1 DEF OpToRel
  <1> QED
    BY <1>2

LEMMA AppendDef ==
    ASSUME NEW S, NEW s \in Seq(S), NEW e \in S
    PROVE  /\ Append(s, e) \in Seq(S) /\ Len(Append(s, e)) = Len(s) + 1
           /\ DOMAIN Append(s, e) = DOMAIN s \cup {Len(s) + 1}
           /\ Len(s) + 1 \notin DOMAIN s
           /\ Append(s, e)[Len(s) + 1] = e
           /\ \A k \in DOMAIN s : Append(s, e)[k] = s[k]
  OBVIOUS

(* The eligible files in some order.                                       *)
LEMMA SortedListsAll ==
    ASSUME NEW s \in Sorted(Eligible)
    PROVE  /\ s \in Seq(File) /\ {s[p] : p \in DOMAIN s} = Eligible
           /\ \A p, q \in DOMAIN s : s[p] = s[q] => p = q
  <1> DEFINE n == Cardinality(Eligible)
  <1>1. IsFiniteSet(Eligible) /\ Eligible \subseteq File
    <2>1. Eligible \in SUBSET File
      BY DEF Eligible
    <2> QED
      BY <2>1, TyperAssumption, FS_Subset
  <1>2. n \in Nat
    BY <1>1, FS_CardinalityType
  <1>3. s \in [1 .. n -> Eligible] /\ \A k, m \in 1 .. n : k < m => s[k] # s[m]
    BY DEF Sorted
  <1> HIDE DEF n
  <1>4. \A k, m \in 1 .. n : s[k] = s[m] => k = m
    BY <1>2, <1>3
  <1>5. s \in Injection(1 .. n, Eligible)
    BY <1>3, <1>4 DEF Injection, IsInjective
  <1>6. Cardinality(1 .. n) = n /\ IsFiniteSet(1 .. n)
    BY <1>2, FS_Interval
  <1>7. s \in Surjection(1 .. n, Eligible)
    BY <1>1, <1>5, <1>6, FS_Injection DEF n
  <1>8. {s[p] : p \in 1 .. n} = Eligible
    BY <1>3, <1>7 DEF Surjection
  <1>9. s \in Seq(File) /\ DOMAIN s = 1 .. n
    BY <1>1, <1>2, <1>3
  <1> QED
    BY <1>4, <1>8, <1>9

CorpusInv == DealInv /\ CopyInv
Dealing == {"deal", "copyJs", "copyTypes", "done", "cut"}

LEMMA SortCorpus == TypeOK /\ CorpusInv /\ Sort => CorpusInv'
  <1> SUFFICES ASSUME TypeOK, CorpusInv, Sort PROVE CorpusInv'
    OBVIOUS
  <1>1. PICK c \in CpuCount :
            /\ splits' = [k \in 1 .. c - 4 |-> << >>]
            /\ pc' = IF c - 4 = 0 THEN "raised"
                     ELSE IF c - 4 < 0 THEN "done" ELSE "deal"
    BY DEF Sort
  <1>2. /\ outputDir' = << >> /\ i' = 0 /\ j' = 0 /\ types' = types
        /\ files' \in Sorted(Eligible) /\ c \in Nat
    BY TyperAssumption DEF Sort, CorpusInv, CopyInv
  <1>3. CASE c - 4 = 0
    BY <1>1, <1>2, <1>3 DEF CorpusInv, DealInv, CopyInv
  <1>4. CASE c - 4 < 0
    <2>1. splits' = << >> /\ DOMAIN splits' = {}
      BY <1>1, <1>2, <1>4
    <2> QED
      BY <1>1, <1>2, <1>4, <2>1 DEF CorpusInv, DealInv, CopyInv
  <1>5. CASE c - 4 > 0
    <2>1. pc' = "deal"
      BY <1>1, <1>2, <1>5
    <2>2. FilesAreSorted'
      <3>1. Eligible' = Eligible
        BY <1>2 DEF Eligible
      <3> QED
        BY <1>2, <3>1, SortedListsAll DEF FilesAreSorted
    <2> DEFINE n == c - 4
    <2>3. /\ n \in Nat /\ DOMAIN splits' = 1 .. n /\ Len(splits') = n
          /\ splits' \in Seq(Seq(File)) /\ \A k \in 1 .. n : splits'[k] = << >>
      BY <1>1, <1>2, <1>5
    <2> HIDE DEF n
    <2>4. \A k \in DOMAIN splits' : DOMAIN splits'[k] = {} /\ Len(splits'[k]) = 0
      BY <2>3
    <2>5. SplitsAreDistinct'
      BY <1>5, <2>3, <2>4 DEF SplitsAreDistinct, n
    <2>6. FirstAreDealt'
      <3>1. \A m \in DOMAIN files' : ~(m <= Rounds')
        <4>1. \A m \in DOMAIN files' : m \in Nat /\ m > 0
          BY <2>2, SeqElement DEF FilesAreSorted
        <4>2. Rounds' = 0
          BY <1>2 DEF Rounds
        <4> QED
          BY <4>1, <4>2
      <3> QED
        BY <2>4, <3>1 DEF FirstAreDealt
    <2>7. Level(0, 0)' /\ j' = 0
      BY <1>2, <2>3, <2>4 DEF Level
    <2>8. \E r \in Nat, q \in Nat : Level(r, q)' /\ (Rounds' <= Len(files') => q = j')
      BY <2>7
    <2>9. DealInv'
      BY <1>2, <1>5, <2>2, <2>3, <2>5, <2>6, <2>8 DEF DealInv, n
    <2> QED
      BY <1>2, <2>1, <2>9 DEF CorpusInv, CopyInv
  <1> QED
    BY <1>2, <1>3, <1>4, <1>5

(* A round gives a file that no CPU has to the next CPU, or ends the deal. *)
LEMMA DealCorpus == CorpusInv /\ Deal => CorpusInv'
  <1> SUFFICES ASSUME CorpusInv, Deal PROVE CorpusInv'
    OBVIOUS
  <1>1. /\ pc = "deal" /\ pc' = "deal" /\ outputDir' = outputDir /\ outputDir = << >>
        /\ files' = files /\ types' = types
    BY DEF Deal, CorpusInv, CopyInv
  <1>2. /\ FilesAreSorted /\ SplitsAreDistinct /\ FirstAreDealt
        /\ i \in Nat /\ j \in Nat /\ j < Len(splits)
    BY <1>1 DEF CorpusInv, DealInv
  <1> DEFINE N == Len(files)
             n == Len(splits)
  <1>3. PICK r \in Nat, q \in Nat : Level(r, q) /\ (Rounds <= N => q = j)
    BY <1>1 DEF CorpusInv, DealInv
  <1>4. /\ N \in Nat /\ DOMAIN files = 1 .. N /\ n \in Nat /\ DOMAIN splits = 1 .. n
        /\ \A k \in 1 .. N : files[k] \in File
        /\ \A k \in 1 .. n : splits[k] \in Seq(File)
    BY <1>2, SeqElement DEF FilesAreSorted, SplitsAreDistinct
  <1>A. /\ i \in Nat /\ j \in Nat /\ N \in Nat /\ n \in Nat /\ j < n
        /\ Rounds \in Nat /\ Dealt = Rounds + 1
    BY <1>2, <1>4 DEF Rounds, Dealt
  <1>5. /\ i' \in Nat /\ j' \in Nat /\ j' < n /\ Rounds' = Rounds + 1
        /\ j' = j + 1 \/ (j' = 0 /\ j + 1 = n)
    <2>1. CASE j + 1 < n
      <3>1. j' = j + 1 /\ i' = i
        BY <2>1 DEF Deal
      <3> QED
        BY <1>A, <2>1, <3>1 DEF Rounds
    <2>2. CASE ~(j + 1 < n)
      <3>1. j' = 0 /\ i' = i + n
        BY <2>2 DEF Deal
      <3> HIDE DEF n, N
      <3>2. j + 1 = n
        BY <1>A, <2>2
      <3> QED
        BY <1>A, <3>1, <3>2 DEF Rounds
    <2> QED
      BY <2>1, <2>2
  <1> HIDE DEF N, n
  <1>6. FilesAreSorted'
    BY <1>1, <1>2 DEF FilesAreSorted, Eligible
  <1>7. CASE Dealt \notin DOMAIN files
    <2>1. splits' = splits /\ Rounds + 1 > N
      BY <1>A, <1>4, <1>7 DEF Deal
    <2>2. SplitsAreDistinct'
      BY <1>2, <2>1 DEF SplitsAreDistinct
    <2>3. FirstAreDealt'
      <3>1. \A m \in 1 .. N : m <= Rounds /\ m <= Rounds'
        BY <1>A, <1>5, <2>1
      <3> QED
        BY <1>1, <1>2, <1>4, <2>1, <3>1 DEF FirstAreDealt
    <2>4. Level(r, q)' /\ ~(Rounds' <= Len(files'))
      <3>1. ~(Rounds' <= N)
        BY <1>A, <1>5, <2>1
      <3> QED
        BY <1>1, <1>3, <2>1, <3>1 DEF Level, N
    <2> QED
      BY <1>1, <1>5, <1>6, <2>1, <2>2, <2>3, <2>4
      DEF CorpusInv, DealInv, CopyInv, n
  <1>8. CASE Dealt \in DOMAIN files
    <2> DEFINE f == files[Dealt]
               s == splits[j + 1]
    <2>1. splits' = [splits EXCEPT ![j + 1] = Append(s, f)] /\ Dealt = Rounds + 1
      BY <1>A, <1>8 DEF Deal
    <2>2. j + 1 \in 1 .. n /\ s \in Seq(File) /\ f \in File /\ Rounds < N
      BY <1>A, <1>4, <1>8
    <2>3. /\ Append(s, f) \in Seq(File) /\ Len(Append(s, f)) = Len(s) + 1
          /\ DOMAIN Append(s, f) = DOMAIN s \cup {Len(s) + 1}
          /\ Len(s) + 1 \notin DOMAIN s
          /\ Append(s, f)[Len(s) + 1] = f
          /\ \A k \in DOMAIN s : Append(s, f)[k] = s[k]
      BY <2>2, AppendDef
    <2> DEFINE a == Append(s, f)
    <2>4. /\ DOMAIN splits' = 1 .. n /\ Len(splits') = n /\ splits' \in Seq(Seq(File))
          /\ splits'[j + 1] = a /\ \A k \in 1 .. n : k # j + 1 => splits'[k] = splits[k]
      BY <1>2, <1>4, <2>1, <2>2, <2>3 DEF SplitsAreDistinct, n
    <2> HIDE DEF f, a, s
    <2>5. \A k \in 1 .. n : \A x \in DOMAIN splits'[k] :
             \/ k = j + 1 /\ x = Len(s) + 1 /\ splits'[k][x] = f
             \/ x \in DOMAIN splits[k] /\ splits'[k][x] = splits[k][x]
      BY <2>3, <2>4 DEF s, a
    <2>6. \A k \in 1 .. n : \A x \in DOMAIN splits[k] :
             x \in DOMAIN splits'[k] /\ splits'[k][x] = splits[k][x]
      BY <2>3, <2>4 DEF s, a
    <2>7. \A k \in 1 .. n : \A x \in DOMAIN splits[k] : splits[k][x] # f
      <3> SUFFICES ASSUME NEW k \in 1 .. n, NEW x \in DOMAIN splits[k]
                   PROVE  splits[k][x] # f
        OBVIOUS
      <3>1. PICK m \in DOMAIN files : m <= Rounds /\ splits[k][x] = files[m]
        BY <1>2, <1>4 DEF FirstAreDealt
      <3>2. m # Dealt
        BY <1>A, <1>4, <3>1
      <3> QED
        BY <1>2, <1>8, <3>1, <3>2 DEF FilesAreSorted, f
    <2>8. SplitsAreDistinct'
      <3>1. \A k, l \in 1 .. n : \A x \in DOMAIN splits'[k], y \in DOMAIN splits'[l] :
               splits'[k][x] = splits'[l][y] => k = l /\ x = y
        <4> SUFFICES ASSUME NEW k \in 1 .. n, NEW l \in 1 .. n,
                            NEW x \in DOMAIN splits'[k], NEW y \in DOMAIN splits'[l],
                            splits'[k][x] = splits'[l][y]
                     PROVE  k = l /\ x = y
          OBVIOUS
        <4>1. CASE splits'[k][x] = f
          BY <2>5, <2>7, <4>1
        <4>2. CASE splits'[k][x] # f
          <5>1. /\ x \in DOMAIN splits[k] /\ y \in DOMAIN splits[l]
                /\ splits[k][x] = splits[l][y]
            BY <2>5, <4>2
          <5> QED
            BY <1>2, <1>4, <5>1 DEF SplitsAreDistinct
        <4> QED
          BY <4>1, <4>2
      <3> QED
        BY <1>2, <2>4, <3>1 DEF SplitsAreDistinct, n
    <2>9. FirstAreDealt'
      <3>1. ASSUME NEW k \in 1 .. n, NEW x \in DOMAIN splits'[k]
            PROVE  \E m \in DOMAIN files : m <= Rounds' /\ splits'[k][x] = files[m]
        <4>1. CASE splits'[k][x] = f
          <5>1. Dealt \in DOMAIN files /\ Dealt <= Rounds'
            BY <1>A, <1>5, <1>8
          <5> QED
            BY <4>1, <5>1 DEF f
        <4>2. CASE splits'[k][x] # f
          <5>1. x \in DOMAIN splits[k] /\ splits'[k][x] = splits[k][x]
            BY <2>5, <4>2
          <5>2. PICK m \in DOMAIN files : m <= Rounds /\ splits[k][x] = files[m]
            BY <1>2, <1>4, <5>1 DEF FirstAreDealt
          <5>3. m <= Rounds'
            <6>1. m \in Nat
              BY <1>4
            <6> QED
              BY <1>A, <1>5, <5>2, <6>1
          <5> QED
            BY <5>1, <5>2, <5>3
        <4> QED
          BY <4>1, <4>2
      <3>2. ASSUME NEW m \in DOMAIN files, m <= Rounds'
            PROVE  \E k \in 1 .. n : \E x \in DOMAIN splits'[k] : splits'[k][x] = files[m]
        <4>1. CASE m <= Rounds
          <5>1. PICK k \in 1 .. n : \E x \in DOMAIN splits[k] : splits[k][x] = files[m]
            BY <1>2, <1>4, <4>1 DEF FirstAreDealt
          <5> QED
            BY <2>6, <5>1
        <4>2. CASE ~(m <= Rounds)
          <5>1. m = Dealt
            <6>1. m \in Nat
              BY <1>4
            <6> QED
              BY <1>A, <1>5, <2>1, <3>2, <4>2, <6>1
          <5>2. Len(s) + 1 \in DOMAIN splits'[j + 1] /\ splits'[j + 1][Len(s) + 1] = f
            BY <2>3, <2>4 DEF a
          <5> QED
            BY <2>2, <5>1, <5>2 DEF f
        <4> QED
          BY <4>1, <4>2
      <3> QED
        <4>1. files' = files /\ DOMAIN splits' = 1 .. n
          BY <1>1, <2>4
        <4> HIDE DEF CorpusInv
        <4> QED
          BY <4>1, <3>1, <3>2 DEF FirstAreDealt
    <2>10. q = j
      BY <1>A, <1>3, <2>2
    <2>11. \A k \in 1 .. n : Len(splits'[k]) = IF k <= j + 1 THEN r + 1 ELSE r
      <3>1. \A k \in 1 .. n : Len(splits[k]) = IF k <= j THEN r + 1 ELSE r
        BY <1>3, <1>4, <2>10 DEF Level
      <3>2. Len(s) = r
        BY <1>2, <2>2, <3>1 DEF s
      <3>3. Len(splits'[j + 1]) = r + 1
        BY <2>3, <2>4, <3>2 DEF a
      <3> QED
        BY <1>2, <2>4, <3>1, <3>3
    <2>12. \E p, o \in Nat : Level(p, o)' /\ o = j'
      <3>1. CASE j' = j + 1
        <4>1. Level(r, q + 1)'
          BY <2>4, <2>10, <2>11 DEF Level
        <4>2. q + 1 \in Nat /\ q + 1 = j'
          BY <2>10, <3>1
        <4> QED
          BY <4>1, <4>2
      <3>2. CASE j' = 0 /\ j + 1 = n
        <4>1. j' = 0 /\ j + 1 = n
          BY <3>2
        <4>2. \A k \in 1 .. n : Len(splits'[k]) = r + 1 /\ ~(k <= 0)
          BY <1>4, <2>11, <4>1
        <4>3. Level(r + 1, 0)'
          BY <2>4, <4>2 DEF Level
        <4>4. r + 1 \in Nat /\ 0 \in Nat
          OBVIOUS
        <4> QED
          BY <4>1, <4>3, <4>4
      <3> QED
        BY <1>5, <3>1, <3>2
    <2>13. DealInv'
      BY <1>5, <1>6, <2>4, <2>8, <2>9, <2>12 DEF DealInv
    <2> QED
      BY <1>1, <2>13 DEF CorpusInv, CopyInv
  <1> QED
    BY <1>7, <1>8

(* The loop ends when all are dealt.                                       *)
LEMMA DealEndsCorpus == CorpusInv /\ DealEnds => CorpusInv'
  <1> SUFFICES ASSUME CorpusInv, DealEnds PROVE CorpusInv'
    OBVIOUS
  <1>1. /\ pc = "deal" /\ pc' = "copyJs" /\ i >= Len(files)
        /\ outputDir' = [k \in DOMAIN splits |-> << >>]
        /\ splits' = splits /\ types' = types
    BY DEF DealEnds
  <1>2. /\ FilesAreSorted /\ SplitsAreDistinct /\ FirstAreDealt
        /\ i \in Nat /\ j \in Nat
        /\ \E r \in Nat, q \in Nat : Level(r, q)
    BY <1>1 DEF CorpusInv, DealInv
  <1> DEFINE n == Len(splits)
  <1>3. /\ n \in Nat /\ DOMAIN splits = 1 .. n /\ n > 0
        /\ Len(files) \in Nat /\ DOMAIN files = 1 .. Len(files)
    BY <1>2, SeqElement DEF FilesAreSorted, SplitsAreDistinct
  <1> HIDE DEF n
  <1>4. SplitsAreDealt
    <2>1. \A k \in DOMAIN splits : \A x \in DOMAIN splits[k] : splits[k][x] \in Eligible
      BY <1>2 DEF FirstAreDealt, FilesAreSorted
    <2>2. ASSUME NEW f \in Eligible
          PROVE  \E k \in DOMAIN splits : \E x \in DOMAIN splits[k] : splits[k][x] = f
      <3>1. PICK m \in DOMAIN files : files[m] = f
        BY <1>2 DEF FilesAreSorted
      <3>2. m <= Rounds
        BY <1>1, <1>2, <1>3 DEF Rounds
      <3> QED
        BY <1>2, <3>1, <3>2 DEF FirstAreDealt
    <2>3. \A k, m \in DOMAIN splits : Len(splits[k]) <= Len(splits[m]) + 1
      BY <1>2 DEF Level
    <2> QED
      BY <1>2, <2>1, <2>2, <2>3 DEF SplitsAreDealt
  <1>5. SplitsAreDealt'
    BY <1>1, <1>4 DEF SplitsAreDealt, SplitsAreDistinct, Eligible
  <1>6. /\ outputDir' \in Seq(Seq(Entry)) /\ Len(outputDir') = n
        /\ \A k \in DOMAIN splits : outputDir'[k] = << >>
    BY <1>1, <1>3
  <1>7. \A k \in DOMAIN splits : Len(outputDir'[k]) = 0 /\ DOMAIN outputDir'[k] = {}
    BY <1>6
  <1>8. \A k \in DOMAIN splits : Len(outputDir'[k]) <= Len(splits[k])
    <2>1. \A k \in DOMAIN splits : Len(splits[k]) \in Nat
      BY <1>2, SeqElement DEF SplitsAreDistinct
    <2> QED
      BY <1>7, <2>1
  <1>9. outputDir' # << >>
    BY <1>3, <1>6
  <1>10. CopyInv'
    BY <1>1, <1>5, <1>6, <1>7, <1>8, <1>9 DEF CopyInv, n
  <1> QED
    BY <1>1, <1>10 DEF CorpusInv, DealInv

(* What holds of the copies apart from the phase.                          *)
LEMMA CopiesTyped ==
    ASSUME CopyInv, outputDir # << >>
    PROVE  /\ SplitsAreDealt /\ outputDir \in Seq(Seq(Entry)) /\ splits \in Seq(Seq(File))
           /\ DOMAIN outputDir = DOMAIN splits /\ DOMAIN splits = 1 .. Len(splits)
           /\ Len(splits) \in Nat /\ Len(outputDir) = Len(splits)
           /\ \A k \in DOMAIN splits :
                 /\ outputDir[k] \in Seq(Entry) /\ Len(outputDir[k]) \in Nat
                 /\ DOMAIN outputDir[k] = 1 .. Len(outputDir[k])
                 /\ splits[k] \in Seq(File) /\ Len(splits[k]) \in Nat
                 /\ DOMAIN splits[k] = 1 .. Len(splits[k])
                 /\ Len(outputDir[k]) <= Len(splits[k])
                 /\ DOMAIN outputDir[k] \subseteq DOMAIN splits[k]
  <1>1. /\ SplitsAreDealt /\ outputDir \in Seq(Seq(Entry)) /\ splits \in Seq(Seq(File))
        /\ Len(outputDir) = Len(splits)
        /\ \A k \in DOMAIN splits : Len(outputDir[k]) <= Len(splits[k])
    BY DEF CopyInv, SplitsAreDealt, SplitsAreDistinct
  <1>2. /\ DOMAIN splits = 1 .. Len(splits) /\ Len(splits) \in Nat
        /\ DOMAIN outputDir = 1 .. Len(splits)
        /\ \A k \in DOMAIN splits : outputDir[k] \in Seq(Entry) /\ splits[k] \in Seq(File)
    BY <1>1, SeqElement
  <1>3. \A k \in DOMAIN splits :
           /\ Len(outputDir[k]) \in Nat /\ DOMAIN outputDir[k] = 1 .. Len(outputDir[k])
           /\ Len(splits[k]) \in Nat /\ DOMAIN splits[k] = 1 .. Len(splits[k])
    BY <1>2, SeqElement
  <1>4. \A k \in DOMAIN splits : DOMAIN outputDir[k] \subseteq DOMAIN splits[k]
    BY <1>1, <1>3
  <1> QED
    BY <1>1, <1>2, <1>3, <1>4

LEMMA FirstIsUncopied ==
    ASSUME CopyInv, outputDir # << >>, Uncopied # {}
    PROVE  First \in DOMAIN splits /\ Len(outputDir[First]) < Len(splits[First])
  <1>1. Uncopied \subseteq Nat
    BY CopiesTyped DEF Uncopied
  <1>2. \E k \in Uncopied : \A m \in Uncopied : k <= m
    BY <1>1, LeastExists
  <1>3. First \in Uncopied
    BY <1>2 DEF First
  <1> QED
    BY <1>3 DEF Uncopied

(* The next file of the first CPU that lacks one, still without its types. *)
LEMMA CopyJsCorpus == TypeOK /\ CorpusInv /\ CopyJs => CorpusInv'
  <1> SUFFICES ASSUME TypeOK, CorpusInv, CopyJs PROVE CorpusInv'
    OBVIOUS
  <1>1. CopyInv /\ outputDir # << >> /\ pc = "copyJs" /\ pc' = "copyTypes"
    BY DEF CorpusInv, CopyInv, CopyJs
  <1> DEFINE o == outputDir[First]
             e == [js |-> splits[First][Len(o) + 1], t |-> Absent]
             a == Append(o, e)
  <1>2. /\ outputDir' = [outputDir EXCEPT ![First] = a] /\ j' = First
        /\ splits' = splits /\ types' = types
    BY DEF CopyJs
  <1>3. First \in DOMAIN splits /\ Len(o) < Len(splits[First])
    BY <1>1, FirstIsUncopied DEF CopyJs
  <1>4. o \in Seq(Entry) /\ Len(o) \in Nat
    BY <1>1, <1>3, CopiesTyped
  <1>5. e \in Entry /\ e.js = splits[First][Len(o) + 1] /\ e.t = Absent
    <2>1. Len(o) + 1 \in DOMAIN splits[First] /\ splits[First] \in Seq(File)
      BY <1>1, <1>3, <1>4, CopiesTyped
    <2>2. splits[First][Len(o) + 1] \in File
      BY <2>1, SeqElement
    <2> QED
      BY <2>2 DEF Entry
  <1> HIDE DEF e
  <1>6. /\ a \in Seq(Entry) /\ Len(a) = Len(o) + 1 /\ a[Len(o) + 1] = e
        /\ DOMAIN a = DOMAIN o \cup {Len(o) + 1}
        /\ \A x \in DOMAIN o : a[x] = o[x]
    BY <1>4, <1>5, AppendDef
  <1> HIDE DEF a, o
  <1>7. /\ outputDir' \in Seq(Seq(Entry)) /\ Len(outputDir') = Len(splits')
        /\ DOMAIN outputDir' = DOMAIN splits
        /\ outputDir'[First] = a
        /\ \A k \in DOMAIN splits : k # First => outputDir'[k] = outputDir[k]
    <2>1. /\ outputDir \in Seq(Seq(Entry)) /\ First \in DOMAIN outputDir
          /\ DOMAIN outputDir = DOMAIN splits /\ Len(outputDir) = Len(splits)
      BY <1>1, <1>3, CopiesTyped
    <2> QED
      BY <1>2, <1>6, <2>1
  <1>8. outputDir' # << >>
    <2>1. First \in DOMAIN outputDir'
      BY <1>3, <1>7
    <2> QED
      BY <2>1
  <1>9. SplitsAreDealt'
    BY <1>1, <1>2, CopiesTyped DEF SplitsAreDealt, SplitsAreDistinct, Eligible
  <1>10. \A k \in DOMAIN splits : Len(outputDir'[k]) <= Len(splits[k])
    <2> TAKE k \in DOMAIN splits
    <2>1. CASE k = First
      <3>1. Len(splits[First]) \in Nat
        BY <1>1, <1>3, CopiesTyped
      <3>2. Len(outputDir'[First]) = Len(o) + 1
        BY <1>6, <1>7
      <3> QED
        BY <1>3, <1>4, <2>1, <3>1, <3>2
    <2>2. CASE k # First
      <3>1. outputDir'[k] = outputDir[k]
        BY <1>7, <2>2
      <3>2. Len(outputDir[k]) <= Len(splits[k])
        BY <1>1 DEF CopyInv
      <3> QED
        BY <3>1, <3>2
    <2> QED
      BY <2>1, <2>2
  <1>11. ASSUME NEW k \in DOMAIN splits, NEW x \in DOMAIN outputDir'[k]
         PROVE  /\ outputDir'[k][x].js = splits[k][x]
                /\ \/ outputDir'[k][x].t = types[splits[k][x]]
                   \/ /\ outputDir'[k][x].t = Absent
                      /\ k = j' /\ x = Len(outputDir'[k])
    <2>1. CASE k = First /\ x = Len(o) + 1
      BY <1>2, <1>5, <1>6, <1>7, <2>1
    <2>2. CASE ~(k = First /\ x = Len(o) + 1)
      <3>1. x \in DOMAIN outputDir[k] /\ outputDir'[k][x] = outputDir[k][x]
        BY <1>6, <1>7, <2>2, <1>11 DEF o
      <3> QED
        BY <1>1, <3>1 DEF CopyInv
    <2> QED
      BY <2>1, <2>2
  <1>12. CopyInv'
    <2>1. j' \in DOMAIN splits /\ Len(outputDir'[j']) > 0
      BY <1>2, <1>3, <1>4, <1>6, <1>7
    <2> QED
      BY <1>1, <1>2, <1>7, <1>8, <1>9, <1>10, <1>11, <2>1 DEF CopyInv
  <1> QED
    BY <1>1, <1>12 DEF CorpusInv, DealInv

(* Its types follow.                                                       *)
LEMMA CopyTypesCorpus == TypeOK /\ CorpusInv /\ CopyTypes => CorpusInv'
  <1> SUFFICES ASSUME TypeOK, CorpusInv, CopyTypes PROVE CorpusInv'
    OBVIOUS
  <1> DEFINE n == Len(outputDir[j])
             f == splits[j][n]
             e == [outputDir[j][n] EXCEPT !.t = types[f]]
  <1>1. /\ CopyInv /\ pc = "copyTypes" /\ pc' = "copyJs" /\ outputDir # << >>
        /\ splits' = splits /\ types' = types
        /\ outputDir' = [outputDir EXCEPT ![j] = [outputDir[j] EXCEPT ![n] = e]]
    <2>1. CopyInv /\ outputDir # << >>
      BY DEF CorpusInv, CopyInv, CopyTypes
    <2>2. outputDir' = [outputDir EXCEPT ![j] = [outputDir[j] EXCEPT ![n] = e]]
      BY DEF CopyTypes
    <2> QED
      BY <2>1, <2>2 DEF CopyTypes
  <1>2. j \in DOMAIN splits /\ n > 0
    BY <1>1 DEF CopyInv
  <1>3. /\ outputDir[j] \in Seq(Entry) /\ n \in DOMAIN outputDir[j]
        /\ n \in DOMAIN splits[j] /\ splits[j] \in Seq(File)
    BY <1>1, <1>2, CopiesTyped
  <1>4. e \in Entry /\ e.js = f /\ e.t = types[f]
    <2>1. outputDir[j][n] \in Entry /\ f \in File
      BY <1>3, SeqElement
    <2>2. outputDir[j][n].js = f
      BY <1>1, <1>2, <1>3 DEF CopyInv
    <2>3. types[f] \in Record \cup {Absent, Torn}
      BY <2>1 DEF TypeOK
    <2> QED
      BY <2>1, <2>2, <2>3 DEF Entry
  <1> HIDE DEF e
  <1> DEFINE a == [outputDir[j] EXCEPT ![n] = e]
  <1>5. /\ a \in Seq(Entry) /\ Len(a) = n /\ a[n] = e
        /\ DOMAIN a = DOMAIN outputDir[j]
        /\ \A x \in DOMAIN outputDir[j] : x # n => a[x] = outputDir[j][x]
    BY <1>3, <1>4
  <1> HIDE DEF a
  <1>6. /\ outputDir' \in Seq(Seq(Entry)) /\ Len(outputDir') = Len(splits')
        /\ outputDir'[j] = a
        /\ \A k \in DOMAIN splits : k # j => outputDir'[k] = outputDir[k]
    <2>1. /\ outputDir \in Seq(Seq(Entry)) /\ j \in DOMAIN outputDir
          /\ DOMAIN outputDir = DOMAIN splits /\ Len(outputDir) = Len(splits)
      BY <1>1, <1>2, CopiesTyped
    <2>2. outputDir' = [outputDir EXCEPT ![j] = a]
      BY <1>1 DEF a
    <2> HIDE DEF n, f
    <2>3. a \in Seq(Entry)
      BY <1>5
    <2>4. splits' = splits
      BY <1>1
    <2> QED
      BY <2>1, <2>2, <2>3, <2>4
  <1>7. outputDir' # << >>
    BY <1>1, <1>2, <1>6, CopiesTyped
  <1>8. SplitsAreDealt'
    BY <1>1, CopiesTyped DEF SplitsAreDealt, SplitsAreDistinct, Eligible
  <1>9. \A k \in DOMAIN splits : Len(outputDir'[k]) <= Len(splits[k])
    BY <1>1, <1>2, <1>5, <1>6, CopiesTyped
  <1>10. ASSUME NEW k \in DOMAIN splits, NEW x \in DOMAIN outputDir'[k]
         PROVE  /\ outputDir'[k][x].js = splits[k][x]
                /\ outputDir'[k][x].t = types[splits[k][x]]
    <2>1. CASE k = j /\ x = n
      BY <1>4, <1>5, <1>6, <2>1
    <2>2. CASE ~(k = j /\ x = n)
      <3>1. x \in DOMAIN outputDir[k] /\ outputDir'[k][x] = outputDir[k][x]
        BY <1>5, <1>6, <2>2, <1>10
      <3> QED
        BY <1>1, <2>2, <3>1 DEF CopyInv
    <2> QED
      BY <2>1, <2>2
  <1>11. CopyInv'
    BY <1>1, <1>6, <1>7, <1>8, <1>9, <1>10 DEF CopyInv
  <1> QED
    BY <1>1, <1>11 DEF CorpusInv, DealInv

LEMMA CopyEndsCorpus == CorpusInv /\ CopyEnds => CorpusInv'
  <1> SUFFICES ASSUME CorpusInv, CopyEnds PROVE CorpusInv'
    OBVIOUS
  <1>1. /\ CopyInv /\ outputDir # << >> /\ pc = "copyJs" /\ pc' = "done"
        /\ UNCHANGED <<splits, types, outputDir>>
    BY DEF CorpusInv, CopyInv, CopyEnds, typerVars, corpusVars
  <1>2. \A k \in DOMAIN splits : ~(Len(outputDir[k]) < Len(splits[k]))
    BY DEF CopyEnds, Uncopied
  <1>3. \A k \in DOMAIN splits : Len(outputDir[k]) = Len(splits[k])
    BY <1>1, <1>2, CopiesTyped
  <1>4. SplitsAreDealt'
    BY <1>1, CopiesTyped DEF SplitsAreDealt, SplitsAreDistinct, Eligible
  <1> QED
    BY <1>1, <1>3, <1>4 DEF CorpusInv, DealInv, CopyInv

LEMMA CorpusUnchanged ==
    ASSUME CorpusInv, UNCHANGED <<types, corpusVars>>, pc' = pc \/ pc' = "cut"
    PROVE  CorpusInv'
  <1> USE DEF corpusVars
  <1>1. Eligible' = Eligible
    BY DEF Eligible
  <1>2. /\ FilesAreSorted' = FilesAreSorted /\ SplitsAreDistinct' = SplitsAreDistinct
        /\ FirstAreDealt' = FirstAreDealt
        /\ \A r, q \in Nat : Level(r, q)' = Level(r, q)
        /\ Rounds' = Rounds
    BY <1>1 DEF FilesAreSorted, SplitsAreDistinct, FirstAreDealt, Level, Rounds
  <1>3. SplitsAreDealt' = SplitsAreDealt
    BY <1>1, <1>2 DEF SplitsAreDealt
  <1>4. DealInv'
    BY <1>2 DEF CorpusInv, DealInv
  <1>5. CopyInv'
    BY <1>3 DEF CorpusInv, CopyInv
  <1> QED
    BY <1>4, <1>5 DEF CorpusInv

LEMMA StepCorpusInv == TypeOK /\ CorpusInv /\ [Next]_vars => CorpusInv'
  <1> SUFFICES ASSUME TypeOK, CorpusInv, [Next]_vars PROVE CorpusInv'
    OBVIOUS
  <1>1. CASE Visit \/ WalkEnds \/ Profile \/ ProfileTimesOut \/ ResolveLine
             \/ ResolveFails \/ OpenTypes \/ WriteTypes \/ Kill \/ Restart
    <2>1. pc \notin Dealing /\ pc' \notin Dealing /\ outputDir' = outputDir
      BY <1>1 DEF Visit, WalkEnds, Profile, ProfileTimesOut, ResolveLine,
         ResolveFails, OpenTypes, WriteTypes, Kill, Restart, corpusVars, Dealing
    <2> QED
      BY <2>1 DEF CorpusInv, CopyInv, DealInv, Dealing
  <1>2. CASE Sort \/ Deal \/ DealEnds
    BY <1>2, SortCorpus, DealCorpus, DealEndsCorpus
  <1>3. CASE CopyJs \/ CopyTypes \/ CopyEnds
    BY <1>3, CopyJsCorpus, CopyTypesCorpus, CopyEndsCorpus
  <1>4. CASE KillCopy \/ UNCHANGED vars
    BY <1>4, CorpusUnchanged DEF KillCopy, vars
  <1> QED
    BY <1>1, <1>2, <1>3, <1>4 DEF Next

(* Every eligible program is in a complete corpus once, with its types, and*)
(* no CPU has two more than another; in one that was cut short there is at *)
(* most one program without types.                                         *)
THEOREM DealtAlways == Spec => []CorpusIsDealt
  <1>1. Init => CorpusInv
    BY DEF Init, CorpusInv, DealInv, CopyInv
  <1>2. TypeOK /\ CorpusInv => CorpusIsDealt
    <2> SUFFICES ASSUME TypeOK, CorpusInv PROVE CorpusIsDealt
      OBVIOUS
    <2>1. CASE outputDir = << >>
      <3>1. Copies = {}
        BY <2>1 DEF Copies
      <3>2. {c \in Copies : Copy(c).t = Absent} = {}
        BY <3>1
      <3>3. ~(pc = "done" /\ Len(splits) > 0)
        BY <2>1 DEF CorpusInv, CopyInv
      <3> QED
        BY <3>1, <3>2, <3>3, FS_EmptySet DEF CorpusIsDealt
    <2>2. CASE outputDir # << >>
      <3>1. CopyInv
        BY DEF CorpusInv
      <3>2. \A c \in Copies : \E k \in DOMAIN splits : \E x \in DOMAIN outputDir[k] :
               /\ c = <<k, x>> /\ Copy(c) = outputDir[k][x]
               /\ Copy(c).js = splits[k][x] /\ x \in DOMAIN splits[k]
        BY <2>2, <3>1, CopiesTyped DEF Copies, Copy, CopyInv
      <3>3. \A k \in DOMAIN splits : \A x \in DOMAIN outputDir[k] :
               <<k, x>> \in Copies /\ Copy(<<k, x>>) = outputDir[k][x]
        BY <2>2, <3>1, CopiesTyped DEF Copies, Copy
      <3>4. pc = "done" /\ Len(splits) > 0 =>
              /\ \A f \in Eligible : \E c \in Copies : Copy(c).js = f
              /\ \A k, m \in DOMAIN outputDir :
                    Len(outputDir[k]) - Len(outputDir[m]) <= 1
        <4> SUFFICES ASSUME pc = "done"
                     PROVE  /\ \A f \in Eligible : \E c \in Copies : Copy(c).js = f
                            /\ \A k, m \in DOMAIN outputDir :
                                  Len(outputDir[k]) - Len(outputDir[m]) <= 1
          OBVIOUS
        <4>1. \A k \in DOMAIN splits : Len(outputDir[k]) = Len(splits[k])
          BY <3>1 DEF CopyInv
        <4>2. \A k \in DOMAIN splits : DOMAIN outputDir[k] = DOMAIN splits[k]
          BY <2>2, <3>1, <4>1, CopiesTyped
        <4>3. \A f \in Eligible :
                 \E k \in DOMAIN splits : \E x \in DOMAIN splits[k] : splits[k][x] = f
          BY <2>2, <3>1, CopiesTyped DEF SplitsAreDealt
        <4>4. \A f \in Eligible : \E c \in Copies : Copy(c).js = f
          <5> TAKE f \in Eligible
          <5>1. PICK k \in DOMAIN splits : \E x \in DOMAIN splits[k] : splits[k][x] = f
            BY <4>3
          <5>2. PICK x \in DOMAIN outputDir[k] : splits[k][x] = f
            BY <4>2, <5>1
          <5>3. Copy(<<k, x>>).js = f /\ <<k, x>> \in Copies
            BY <2>2, <3>1, <3>3, <5>2 DEF CopyInv
          <5> QED
            BY <5>3
        <4>5. \A k, m \in DOMAIN outputDir : Len(outputDir[k]) - Len(outputDir[m]) <= 1
          <5> TAKE k, m \in DOMAIN outputDir
          <5>1. /\ k \in DOMAIN splits /\ m \in DOMAIN splits
                /\ Len(splits[k]) \in Nat /\ Len(splits[m]) \in Nat
                /\ Len(splits[k]) <= Len(splits[m]) + 1
            BY <2>2, <3>1, CopiesTyped DEF SplitsAreDealt
          <5> QED
            BY <4>1, <5>1
        <4> QED
          BY <4>4, <4>5
      <3>5. \A c, d \in Copies : Copy(c).js = Copy(d).js => c = d
        <4> TAKE c, d \in Copies
        <4> HAVE Copy(c).js = Copy(d).js
        <4>1. PICK k \in DOMAIN splits : \E x \in DOMAIN splits[k] :
                 c = <<k, x>> /\ Copy(c).js = splits[k][x]
          BY <3>2
        <4>2. PICK x \in DOMAIN splits[k] : c = <<k, x>> /\ Copy(c).js = splits[k][x]
          BY <4>1
        <4>3. PICK l \in DOMAIN splits : \E y \in DOMAIN splits[l] :
                 d = <<l, y>> /\ Copy(d).js = splits[l][y]
          BY <3>2
        <4>4. PICK y \in DOMAIN splits[l] : d = <<l, y>> /\ Copy(d).js = splits[l][y]
          BY <4>3
        <4>5. splits[k][x] = splits[l][y]
          BY <4>2, <4>4
        <4>6. k = l /\ x = y
          <5>1. SplitsAreDistinct
            BY <2>2, <3>1 DEF CopyInv, SplitsAreDealt
          <5> QED
            BY <4>5, <5>1 DEF SplitsAreDistinct
        <4> QED
          BY <4>2, <4>4, <4>6
      <3>6. \A c \in Copies :
               \/ Copy(c).t = types[Copy(c).js] /\ Copy(c).t # Absent
               \/ /\ Copy(c).t = Absent /\ pc \in {"copyTypes", "cut"}
                  /\ c = <<j, Len(outputDir[j])>>
        <4> TAKE c \in Copies
        <4>1. PICK k \in DOMAIN splits : \E x \in DOMAIN outputDir[k] :
                 /\ c = <<k, x>> /\ Copy(c) = outputDir[k][x]
                 /\ Copy(c).js = splits[k][x] /\ x \in DOMAIN splits[k]
          BY <3>2
        <4>2. PICK x \in DOMAIN outputDir[k] :
                 /\ c = <<k, x>> /\ Copy(c) = outputDir[k][x]
                 /\ Copy(c).js = splits[k][x] /\ x \in DOMAIN splits[k]
          BY <4>1
        <4>3. types[splits[k][x]] # Absent
          BY <2>2, <3>1, <4>2, CopiesTyped DEF SplitsAreDealt, Eligible
        <4> QED
          BY <2>2, <3>1, <4>2, <4>3 DEF CopyInv
      <3> DEFINE bare == {c \in Copies : Copy(c).t = Absent}
      <3>7. Cardinality(bare) <= IF pc \in {"copyTypes", "cut"} THEN 1 ELSE 0
        <4>1. bare = {} \/ (pc \in {"copyTypes", "cut"} /\ bare = {<<j, Len(outputDir[j])>>})
          BY <3>6
        <4> HIDE DEF bare
        <4>2. CASE bare = {}
          <5>1. Cardinality(bare) = 0
            BY <4>2, FS_EmptySet
          <5> QED
            BY <5>1
        <4>3. CASE pc \in {"copyTypes", "cut"} /\ bare = {<<j, Len(outputDir[j])>>}
          <5>1. Cardinality(bare) = 1
            BY <4>3, FS_Singleton
          <5> QED
            BY <4>3, <5>1
        <4> QED
          BY <4>1, <4>2, <4>3
      <3>8. \A c \in Copies : Copy(c).t \in {types[Copy(c).js], Absent}
        BY <3>6
      <3> QED
        BY <3>4, <3>5, <3>7, <3>8 DEF CorpusIsDealt
    <2> QED
      BY <2>1, <2>2
  <1> QED
    BY <1>1, <1>2, TypeCorrect, StepCorpusInv, PTL DEF Spec

=============================================================================
