------------------------- MODULE GlobalSync_proofs --------------------------
(***************************************************************************)
(* Proofs about GlobalSync, for every number of fuzzers and every map, and *)
(* that it implements the shared corpus, wherever the fuzzers are killed.  *)
(***************************************************************************)
EXTENDS SyncRefinement, SyncRace, SequenceTheorems, TLAPS

(* What an insertion is about to report is a well-formed job.              *)
LEMMA JobType ==
    ASSUME TypeOK, NEW f \in Fuzzer, NEW k \in Kind, NEW t \in Trace,
           NEW seen, pc[f] # "off"
    PROVE  [kind |-> k, case |-> [by |-> f, run |-> run[f], cov |-> t,
                                  diff |-> CovDiff(t, seen)]] \in Job
<1>1. CovDiff(t, seen) \in SUBSET Bit
    BY DEF CovDiff, Trace
<1>2. run[f] \in 1 .. MaxRun
    BY GlobalSyncAssumption DEF TypeOK, ControlType
<1> QED
    BY <1>1, <1>2 DEF Job, Case

LEMMA NoJobIsNoJob ==
    NoJob \notin Job
BY DEF NoJob, Job, Kind

(* Popping and pushing keep a redis list a list of test cases.             *)
LEMMA PoppedType ==
    ASSUME NEW S, NEW q \in Seq(S), q # <<>>
    PROVE  /\ Popped(q) \in Seq(S)
           /\ q[Len(q)] \in S
           /\ Len(Popped(q)) = Len(q) - 1
           /\ \A i \in 1 .. Len(q) - 1 : Popped(q)[i] = q[i]
<1> DEFINE n == Len(q) - 1
<1>1. n \in Nat /\ Len(q) = n + 1
    BY EmptySeq
<1>2. \A i \in 1 .. n + 1 : q[i] \in S
    BY <1>1, ElementOfSeq
<1> HIDE DEF n
<1>3. /\ SubSeq(q, 1, n) \in Seq(S)
      /\ Len(SubSeq(q, 1, n)) = IF 1 <= n THEN n - 1 + 1 ELSE 0
      /\ \A i \in 1 .. n - 1 + 1 : SubSeq(q, 1, n)[i] = q[1 + i - 1]
    BY <1>1, <1>2, SubSeqProperties
<1>4. Popped(q) = SubSeq(q, 1, n)
    BY DEF Popped, n
<1>5. \A i \in 1 .. n : Popped(q)[i] = q[i]
    BY <1>1, <1>3, <1>4
<1>6. Len(Popped(q)) = n
    BY <1>1, <1>3, <1>4
<1> QED
    BY <1>1, <1>2, <1>3, <1>4, <1>5, <1>6

LEMMA PushedType ==
    ASSUME NEW S, NEW q \in Seq(S), NEW c \in S
    PROVE  /\ Pushed(c, q) \in Seq(S)
           /\ Len(Pushed(c, q)) = Len(q) + 1
           /\ Pushed(c, q)[1] = c
           /\ \A i \in 1 .. Len(q) : Pushed(c, q)[i + 1] = q[i]
BY DEF Pushed

-----------------------------------------------------------------------------
LEMMA InitType ==
    Init => TypeOK
BY GlobalSyncAssumption, NoJobIsNoJob DEF Init, TypeOK, QueueType, ControlType, DataType, Kind

(* Where a report leaves the fuzzer.                                       *)
LEMMA ReportType ==
    ASSUME TypeOK, NEW f \in Fuzzer, NEW k \in Kind, NEW t \in Trace,
           NEW seen, NEW typed, pc[f] = "run", UNCHANGED run,
           Report(f, k, t, seen, typed)
    PROVE  /\ ControlType'
           /\ muted' \in [Fuzzer -> [Kind -> SUBSET Bit]]
<1> DEFINE c == [by |-> f, run |-> run[f], cov |-> t, diff |-> CovDiff(t, seen)]
<1>1. [kind |-> k, case |-> c] \in Job
    BY JobType
<1>2. c.diff \in SUBSET Bit
    BY DEF CovDiff, Trace
<1>3. CASE typed
    <2>1. job' = [job EXCEPT ![f] = [kind |-> k, case |-> c]]
        BY <1>3 DEF Report
    <2>2. pc' = [pc EXCEPT ![f] = "sadd"] /\ UNCHANGED muted
        BY <1>3 DEF Report
    <2> HIDE DEF c
    <2> QED
        BY <1>1, <2>1, <2>2, NoJobIsNoJob DEF TypeOK, ControlType, DataType
<1>4. CASE ~typed
    <2>1. muted' = [muted EXCEPT ![f][k] = @ \cup c.diff]
        BY <1>4 DEF Report
    <2>2. UNCHANGED <<job, pc>>
        BY <1>4 DEF Report
    <2> QED
        BY <1>2, <2>1, <2>2 DEF TypeOK, ControlType, DataType
<1> QED
    BY <1>3, <1>4

-----------------------------------------------------------------------------
LEMMA StepType ==
    TypeOK /\ [Next]_vars => TypeOK'
<1> SUFFICES ASSUME TypeOK, [Next]_vars
             PROVE  TypeOK'
    OBVIOUS
<1> USE DEF TypeOK
<1>1. CASE UNCHANGED vars
    BY <1>1 DEF vars, redis, local, QueueType, ControlType, DataType
<1>2. ASSUME NEW f \in Fuzzer, FuzzerNext(f)
      PROVE  TypeOK'
    <2>1. CASE Start(f)
        <3> DEFINE m == Starts[f][run[f] + 1]
        <3>1. pc[f] = "off" /\ run[f] < Len(Starts[f])
            BY <2>1 DEF Start
        <3>2. Starts[f] \in Seq({"populate", "fuzz"}) /\ Len(Starts[f]) <= MaxRun
            BY GlobalSyncAssumption
        <3>3. run[f] + 1 \in 1 .. MaxRun /\ run[f] + 1 \in 1 .. Len(Starts[f])
            BY <3>1, <3>2, LenProperties, GlobalSyncAssumption DEF ControlType
        <3>4. m \in {"populate", "fuzz"}
            BY <3>2, <3>3, ElementOfSeq
        <3>5. mode' = [mode EXCEPT ![f] = m]
            BY <2>1 DEF Start
        <3>6. pc' = [pc EXCEPT ![f] = IF m = "populate" THEN "run" ELSE "next"]
            BY <2>1 DEF Start
        <3>7. left' = [left EXCEPT ![f] = IF m = "populate" THEN CorpusSize ELSE 0]
            BY <2>1 DEF Start
        <3> HIDE DEF m
        <3>8. ControlType'
            BY <2>1, <3>1, <3>3, <3>6 DEF Start, ControlType
        <3>9. DataType'
            BY <2>1, <3>4, <3>5, <3>7, GlobalSyncAssumption DEF Start, DataType, redis
        <3> QED
            BY <2>1, <3>8, <3>9 DEF Start, QueueType, redis
    <2>2. CASE NextNew(f)
        <3> DEFINE c == newPaths[Len(newPaths)]
        <3>1. newPaths' = Popped(newPaths) /\ oldPaths' = Pushed(c, oldPaths)
            BY <2>2 DEF NextNew
        <3>2. Popped(newPaths) \in Seq(Case) /\ c \in Case
            BY <2>2, PoppedType DEF NextNew, QueueType
        <3>3. Deliver(f, c) /\ pc[f] = "next"
            BY <2>2 DEF NextNew
        <3> HIDE DEF c
        <3>4. Pushed(c, oldPaths) \in Seq(Case)
            BY <3>2, PushedType DEF QueueType
        <3>5. QueueType'
            BY <2>2, <3>1, <3>2, <3>4 DEF NextNew, QueueType
        <3>6. ControlType'
            BY <2>2, <3>3 DEF NextNew, Deliver, ControlType, local
        <3>7. DataType'
            BY <2>2, <3>2, <3>3, ZenonT(40) DEF NextNew, Deliver, DataType, local
        <3> QED
            BY <3>5, <3>6, <3>7
    <2>3. CASE NextNone(f)
        BY <2>3 DEF NextNone, QueueType, ControlType, DataType, redis, local
    <2>4. CASE NextOld(f)
        <3> DEFINE c == oldPaths[Len(oldPaths)]
        <3>1. oldPaths' = Pushed(c, Popped(oldPaths))
            BY <2>4 DEF NextOld
        <3>2. Popped(oldPaths) \in Seq(Case) /\ c \in Case
            BY <2>4, PoppedType DEF NextOld, QueueType
        <3>3. Deliver(f, c) /\ pc[f] = "nextOld"
            BY <2>4 DEF NextOld
        <3> HIDE DEF c
        <3>4. Pushed(c, Popped(oldPaths)) \in Seq(Case)
            BY <3>2, PushedType
        <3>5. QueueType'
            BY <2>4, <3>1, <3>4 DEF NextOld, QueueType
        <3>6. ControlType'
            BY <2>4, <3>3 DEF NextOld, Deliver, ControlType, local
        <3>7. DataType'
            BY <2>4, <3>2, <3>3, ZenonT(40) DEF NextOld, Deliver, DataType, local
        <3> QED
            BY <3>5, <3>6, <3>7
    <2>5. CASE NextNothing(f)
        BY <2>5 DEF NextNothing, QueueType, ControlType, DataType, redis, local
    <2>6. ASSUME NEW t \in Trace, NEW typed \in BOOLEAN, PopulatePath(f, t, typed)
          PROVE  TypeOK'
        <3>1. pc[f] = "run" /\ mode[f] = "populate" /\ left[f] > 0
            BY <2>6 DEF PopulatePath, HasInput
        <3>2. left' \in [Fuzzer -> 0 .. CorpusSize]
            BY <2>6, <3>1, GlobalSyncAssumption DEF PopulatePath, Consume, DataType
        <3>3. virgin' \in [Fuzzer -> [Kind -> SUBSET Bit]]
            BY <2>6 DEF PopulatePath, Unseen, DataType, Kind
        <3>4. ControlType' /\ muted' \in [Fuzzer -> [Kind -> SUBSET Bit]]
            BY <2>6, <3>1, ReportType DEF PopulatePath, Kind
        <3>5. QueueType'
            BY <2>6 DEF PopulatePath, QueueType, redis
        <3>6. DataType'
            BY <2>6, <3>2, <3>3, <3>4 DEF PopulatePath, DataType, redis
        <3> QED
            BY <3>4, <3>5, <3>6
    <2>7. ASSUME NEW t \in Trace, NEW typed \in BOOLEAN, FuzzPath(f, t, typed)
          PROVE  TypeOK'
        <3>1. pc[f] = "run"
            BY <2>7 DEF FuzzPath, HasInput
        <3>2. PICK g \in Download(f, "path") :
                 LET seen == Unseen(g, virgin[f]["path"])
                 IN  /\ gcov' = [gcov EXCEPT ![f]["path"] = g]
                     /\ virgin' = [virgin EXCEPT ![f]["path"] = Unseen(t, seen)]
                     /\ IF HasNewBits(t, seen) # 0
                        THEN Report(f, "path", t, seen, typed)
                        ELSE UNCHANGED <<job, pc, muted>>
            BY <2>7 DEF FuzzPath
        <3>3. g \in SUBSET Bit
            BY DEF Download, DataType, Kind
        <3>4. gcov' \in [Fuzzer -> [Kind -> SUBSET Bit]]
            BY <3>2, <3>3 DEF DataType
        <3>5. virgin' \in [Fuzzer -> [Kind -> SUBSET Bit]]
            BY <3>2 DEF DataType, Unseen, Kind
        <3>6. ControlType' /\ muted' \in [Fuzzer -> [Kind -> SUBSET Bit]]
            <4> DEFINE seen == Unseen(g, virgin[f]["path"])
            <4>1. CASE Report(f, "path", t, seen, typed)
                <5> HIDE DEF seen
                <5> QED
                    BY <2>7, <3>1, <4>1, ReportType DEF FuzzPath, Kind
            <4>2. CASE UNCHANGED <<job, pc, muted>>
                BY <2>7, <4>2 DEF FuzzPath, ControlType, DataType
            <4> QED
                BY <3>2, <4>1, <4>2
        <3>7. QueueType'
            BY <2>7 DEF FuzzPath, QueueType, redis
        <3>8. DataType'
            BY <2>7, <3>4, <3>5, <3>6 DEF FuzzPath, DataType, redis
        <3> QED
            BY <3>6, <3>7, <3>8
    <2>8. ASSUME NEW t \in Trace, NEW typed \in BOOLEAN, NEW rerun \in BOOLEAN,
                 Crash(f, t, typed, rerun)
          PROVE  TypeOK'
        <3>1. /\ pc[f] = "run"
              /\ mode[f] = "populate" => left[f] > 0
              /\ unique_crashes[f] < KEEP_UNIQUE_CRASH
            BY <2>8 DEF Crash, HasInput
        <3>2. PICK g \in Download(f, "crash") :
                 LET seen == Unseen(g, virgin[f]["crash"])
                 IN  /\ gcov' = [gcov EXCEPT ![f]["crash"] = g]
                     /\ virgin' = [virgin EXCEPT ![f]["crash"] = Unseen(t, seen)]
                     /\ IF HasNewBits(t, seen) # 0
                        THEN /\ unique_crashes' = [unique_crashes EXCEPT ![f] = @ + 1]
                             /\ Report(f, "crash", t, seen, typed /\ ~rerun)
                        ELSE UNCHANGED <<unique_crashes, job, pc, muted>>
            BY <2>8 DEF Crash
        <3>3. g \in SUBSET Bit
            BY DEF Download, DataType, Kind
        <3>4. gcov' \in [Fuzzer -> [Kind -> SUBSET Bit]]
            BY <3>2, <3>3 DEF DataType
        <3>5. virgin' \in [Fuzzer -> [Kind -> SUBSET Bit]]
            BY <3>2 DEF DataType, Unseen, Kind
        <3>6. ControlType' /\ muted' \in [Fuzzer -> [Kind -> SUBSET Bit]]
            <4> DEFINE seen == Unseen(g, virgin[f]["crash"])
            <4>1. CASE Report(f, "crash", t, seen, typed /\ ~rerun)
                <5> HIDE DEF seen
                <5> QED
                    BY <2>8, <3>1, <4>1, ReportType DEF Crash, Kind
            <4>2. CASE UNCHANGED <<job, pc, muted>>
                BY <2>8, <4>2 DEF Crash, ControlType, DataType
            <4> QED
                BY <3>2, <4>1, <4>2
        <3>7. unique_crashes' \in [Fuzzer -> 0 .. KEEP_UNIQUE_CRASH]
            <4>1. \/ UNCHANGED unique_crashes
                  \/ unique_crashes' = [unique_crashes EXCEPT ![f] = @ + 1]
                BY <3>2
            <4>2. unique_crashes[f] + 1 \in 0 .. KEEP_UNIQUE_CRASH
                BY <3>1, GlobalSyncAssumption DEF DataType
            <4> QED
                BY <4>1, <4>2 DEF DataType
        <3>8. left' \in [Fuzzer -> 0 .. CorpusSize]
            BY <2>8, <3>1, GlobalSyncAssumption DEF Crash, Consume, DataType
        <3>9. QueueType'
            BY <2>8 DEF Crash, QueueType, redis
        <3>10. DataType'
            BY <2>8, <3>4, <3>5, <3>6, <3>7, <3>8 DEF Crash, DataType, redis
        <3> QED
            BY <3>6, <3>9, <3>10
    <2>9. CASE PopulateSkip(f)
        <3>1. left' \in [Fuzzer -> 0 .. CorpusSize]
            BY <2>9, GlobalSyncAssumption DEF PopulateSkip, HasInput, Consume, DataType
        <3> QED
            BY <2>9, <3>1 DEF PopulateSkip, QueueType, ControlType, DataType, redis
    <2>10. CASE Sadd(f)
        <3>1. job[f] \in Job /\ pc[f] = "sadd"
            BY <2>10 DEF Sadd, ControlType
        <3>2. job[f].kind \in Kind /\ job[f].case.diff \in SUBSET Bit
            BY <3>1 DEF Job, Case
        <3>3. bitmap' \in [Kind -> SUBSET Bit]
            BY <2>10, <3>2, GlobalSyncAssumption DEF Sadd, readCovDiffFile, DataType
        <3> QED
            BY <2>10, <3>1, <3>3 DEF Sadd, QueueType, ControlType, DataType, local
    <2>11. CASE Lpush(f)
        <3>1. job[f] \in Job /\ pc[f] = "lpush"
            BY <2>11 DEF Lpush, ControlType
        <3>2. job[f].case \in Case
            BY <3>1 DEF Job
        <3>3. \A q \in Seq(Case) : Pushed(job[f].case, q) \in Seq(Case)
            BY <3>2, PushedType
        <3>4. QueueType'
            BY <2>11, <3>3 DEF Lpush, QueueType
        <3>5. ControlType'
            BY <2>11, <3>1 DEF Lpush, Done, ControlType, local
        <3> QED
            BY <2>11, <3>4, <3>5 DEF Lpush, DataType, local
    <2>12. CASE EndRound(f)
        BY <2>12 DEF EndRound, QueueType, ControlType, DataType, redis, local
    <2>13. ASSUME CutInsertion(f)
           PROVE  /\ lost' \in [Kind -> SUBSET Bit]
                  /\ muted' \in [Fuzzer -> [Kind -> SUBSET Bit]]
        <3>1. pc[f] \in {"sadd", "lpush"} => job[f] \in Job
            BY DEF ControlType
        <3>2. pc[f] \in {"sadd", "lpush"} =>
                  job[f].kind \in Kind /\ job[f].case.diff \in SUBSET Bit
            BY <3>1 DEF Job, Case
        <3> QED
            BY <2>13, <3>2 DEF CutInsertion, DataType
    <2>14. CASE NodeDies(f)
        <3>1. QueueType' /\ ControlType'
            BY <2>14 DEF NodeDies, Done, QueueType, ControlType, redis, local
        <3> QED
            BY <2>13, <2>14, <3>1 DEF NodeDies, DataType, redis, local
    <2>15. CASE Die(f)
        <3>1. QueueType' /\ ControlType'
            BY <2>15 DEF Die, QueueType, ControlType, redis, local
        <3> QED
            BY <2>13, <2>15, <3>1 DEF Die, DataType, redis, local
    <2> QED
        BY <1>2, <2>1, <2>2, <2>3, <2>4, <2>5, <2>6, <2>7, <2>8, <2>9, <2>10,
           <2>11, <2>12, <2>14, <2>15 DEF FuzzerNext, NextTestcase, Test
<1> QED
    BY <1>1, <1>2 DEF Next

(* Type correctness of every behaviour.                                    *)
THEOREM TypeCorrect == Spec => []TypeOK
BY InitType, StepType, PTL DEF Spec

-----------------------------------------------------------------------------
(* The test cases of a list that is popped, pushed or appended to.         *)
LEMMA CasesPushed ==
    ASSUME NEW S, NEW q \in Seq(S), NEW c \in S
    PROVE  Cases(Pushed(c, q)) = {c} \cup Cases(q)
<1>1. /\ Len(Pushed(c, q)) = Len(q) + 1 /\ Len(q) \in Nat
      /\ Pushed(c, q)[1] = c
      /\ \A i \in 1 .. Len(q) : Pushed(c, q)[i + 1] = q[i]
    BY PushedType, LenProperties
<1>2. ASSUME NEW i \in 1 .. Len(q) + 1
      PROVE  Pushed(c, q)[i] \in {c} \cup Cases(q)
    <2>1. CASE i = 1
        BY <1>1, <2>1
    <2>2. CASE i # 1
        <3>1. i - 1 \in 1 .. Len(q) /\ (i - 1) + 1 = i
            BY <1>1, <2>2
        <3>2. Pushed(c, q)[i] = q[i - 1]
            BY <1>1, <3>1
        <3> QED
            BY <3>1, <3>2 DEF Cases
    <2> QED
        BY <2>1, <2>2
<1>3. ASSUME NEW i \in 1 .. Len(q)
      PROVE  q[i] \in Cases(Pushed(c, q))
    <2>1. i + 1 \in 1 .. Len(Pushed(c, q)) /\ q[i] = Pushed(c, q)[i + 1]
        BY <1>1
    <2> QED
        BY <2>1 DEF Cases
<1>4. c \in Cases(Pushed(c, q))
    <2>1. 1 \in 1 .. Len(Pushed(c, q))
        BY <1>1
    <2> QED
        BY <1>1, <2>1 DEF Cases
<1>5. Cases(Pushed(c, q)) \subseteq {c} \cup Cases(q)
    BY <1>1, <1>2 DEF Cases
<1>6. {c} \cup Cases(q) \subseteq Cases(Pushed(c, q))
    BY <1>3, <1>4 DEF Cases
<1> QED
    BY <1>5, <1>6

LEMMA CasesPopped ==
    ASSUME NEW S, NEW q \in Seq(S), q # <<>>
    PROVE  Cases(q) = {q[Len(q)]} \cup Cases(Popped(q))
<1> DEFINE n == Len(q) - 1
<1>1. n \in Nat /\ Len(q) = n + 1 /\ Len(Popped(q)) = n
    BY EmptySeq, PoppedType
<1>2. \A i \in 1 .. n : Popped(q)[i] = q[i]
    BY PoppedType
<1> HIDE DEF n
<1>3. \A i \in 1 .. n + 1 : i \in 1 .. n \/ i = n + 1
    BY <1>1
<1>4. Cases(q) \subseteq {q[Len(q)]} \cup Cases(Popped(q))
    BY <1>1, <1>2, <1>3 DEF Cases
<1>5. Cases(Popped(q)) \subseteq Cases(q)
    BY <1>1, <1>2 DEF Cases
<1>6. q[Len(q)] \in Cases(q)
    BY <1>1 DEF Cases
<1> QED
    BY <1>4, <1>5, <1>6

LEMMA CasesConcat ==
    ASSUME NEW S, NEW p \in Seq(S), NEW q \in Seq(S)
    PROVE  Cases(p \o q) = Cases(p) \cup Cases(q)
<1>1. /\ Len(p) \in Nat /\ Len(q) \in Nat
      /\ Len(p \o q) = Len(p) + Len(q)
      /\ \A i \in 1 .. Len(p) + Len(q) :
            (p \o q)[i] = IF i <= Len(p) THEN p[i] ELSE q[i - Len(p)]
    BY ConcatProperties, LenProperties
<1>2. ASSUME NEW i \in 1 .. Len(p)
      PROVE  p[i] \in Cases(p \o q)
    <2>1. i \in 1 .. Len(p \o q) /\ p[i] = (p \o q)[i]
        BY <1>1
    <2> QED
        BY <2>1 DEF Cases
<1>3. ASSUME NEW i \in 1 .. Len(q)
      PROVE  q[i] \in Cases(p \o q)
    <2>1. /\ i + Len(p) \in 1 .. Len(p \o q)
          /\ ~(i + Len(p) <= Len(p)) /\ (i + Len(p)) - Len(p) = i
        BY <1>1
    <2>2. q[i] = (p \o q)[i + Len(p)]
        BY <1>1, <2>1
    <2> QED
        BY <2>1, <2>2 DEF Cases
<1>4. ASSUME NEW i \in 1 .. Len(p \o q)
      PROVE  (p \o q)[i] \in Cases(p) \cup Cases(q)
    <2>1. CASE i <= Len(p)
        BY <1>1, <2>1 DEF Cases
    <2>2. CASE ~(i <= Len(p))
        <3>1. i - Len(p) \in 1 .. Len(q) /\ (p \o q)[i] = q[i - Len(p)]
            BY <1>1, <2>2
        <3> QED
            BY <3>1 DEF Cases
    <2> QED
        BY <2>1, <2>2
<1>5. Cases(p \o q) \subseteq Cases(p) \cup Cases(q)
    BY <1>4 DEF Cases
<1>6. Cases(p) \cup Cases(q) \subseteq Cases(p \o q)
    BY <1>2, <1>3 DEF Cases
<1> QED
    BY <1>5, <1>6

-----------------------------------------------------------------------------
(* A step of a fuzzer leaves the others where they are.                    *)
LEMMA OthersStay ==
    ASSUME TypeOK, NEW f \in Fuzzer, FuzzerNext(f), NEW g \in Fuzzer, g # f
    PROVE  /\ pc'[g] = pc[g] /\ job'[g] = job[g]
           /\ virgin'[g] = virgin[g] /\ gcov'[g] = gcov[g]
           /\ muted'[g] = muted[g]
<1> USE DEF TypeOK, ControlType, DataType
<1>1. CASE Start(f)
    BY <1>1 DEF Start
<1>2. CASE NextTestcase(f)
    BY <1>2 DEF NextTestcase, NextNew, NextNone, NextOld, NextNothing, Deliver, local
<1>3. CASE Test(f)
    <2>1. ASSUME NEW k, NEW t, NEW seen, NEW typed, Report(f, k, t, seen, typed)
          PROVE  pc'[g] = pc[g] /\ job'[g] = job[g] /\ muted'[g] = muted[g]
        BY <2>1 DEF Report
    <2>2. ASSUME NEW t, NEW typed, PopulatePath(f, t, typed)
          PROVE  /\ pc'[g] = pc[g] /\ job'[g] = job[g]
                 /\ virgin'[g] = virgin[g] /\ gcov'[g] = gcov[g]
                 /\ muted'[g] = muted[g]
        BY <2>1, <2>2 DEF PopulatePath
    <2>3. ASSUME NEW t, NEW typed, FuzzPath(f, t, typed)
          PROVE  /\ pc'[g] = pc[g] /\ job'[g] = job[g]
                 /\ virgin'[g] = virgin[g] /\ gcov'[g] = gcov[g]
                 /\ muted'[g] = muted[g]
        BY <2>1, <2>3 DEF FuzzPath
    <2>4. ASSUME NEW t, NEW typed, NEW rerun, Crash(f, t, typed, rerun)
          PROVE  /\ pc'[g] = pc[g] /\ job'[g] = job[g]
                 /\ virgin'[g] = virgin[g] /\ gcov'[g] = gcov[g]
                 /\ muted'[g] = muted[g]
        BY <2>1, <2>4 DEF Crash
    <2>5. CASE PopulateSkip(f)
        BY <2>5 DEF PopulateSkip
    <2> QED
        BY <1>3, <2>2, <2>3, <2>4, <2>5 DEF Test
<1>4. CASE Sadd(f)
    BY <1>4 DEF Sadd, local
<1>5. CASE Lpush(f)
    BY <1>5 DEF Lpush, Done, local
<1>6. CASE EndRound(f)
    BY <1>6 DEF EndRound, local
<1>7. CASE NodeDies(f)
    BY <1>7 DEF NodeDies, CutInsertion, Done, local
<1>8. CASE Die(f)
    BY <1>8 DEF Die, CutInsertion, local
<1> QED
    BY <1>1, <1>2, <1>3, <1>4, <1>5, <1>6, <1>7, <1>8 DEF FuzzerNext

(* Redis only forgets nothing: the maps grow, and the queues gain the test *)
(* case of an LPUSH and keep what they have in every other step.           *)
LEMMA MapsGrow ==
    ASSUME TypeOK, NEW f \in Fuzzer, FuzzerNext(f), NEW k \in Kind
    PROVE  bitmap[k] \subseteq bitmap'[k] /\ lost[k] \subseteq lost'[k]
<1> USE DEF TypeOK, DataType
<1>1. CASE Start(f)
    BY <1>1 DEF Start, redis
<1>2. CASE NextTestcase(f)
    BY <1>2 DEF NextTestcase, NextNew, NextNone, NextOld, NextNothing, redis
<1>3. CASE Test(f)
    BY <1>3 DEF Test, PopulatePath, FuzzPath, Crash, PopulateSkip, redis
<1>4. CASE Sadd(f)
    BY <1>4 DEF Sadd
<1>5. CASE Lpush(f)
    BY <1>5 DEF Lpush
<1>6. CASE EndRound(f)
    BY <1>6 DEF EndRound, redis
<1>7. CASE NodeDies(f) \/ Die(f)
    BY <1>7 DEF NodeDies, Die, CutInsertion, redis
<1> QED
    BY <1>1, <1>2, <1>3, <1>4, <1>5, <1>6, <1>7 DEF FuzzerNext

LEMMA QueuesKeep ==
    ASSUME TypeOK, NEW f \in Fuzzer, FuzzerNext(f), NEW k \in Kind
    PROVE  Cases(Queue(k)') =
               IF Lpush(f) /\ job[f].kind = k
               THEN {job[f].case} \cup Cases(Queue(k))
               ELSE Cases(Queue(k))
<1> USE DEF TypeOK, QueueType
<1>0. Cases(newPaths \o oldPaths) = Cases(newPaths) \cup Cases(oldPaths)
    BY CasesConcat
<1>1. CASE Lpush(f)
    <2>1. job[f] \in Job
        BY <1>1 DEF Lpush, ControlType
    <2>2. job[f].kind \in Kind /\ job[f].case \in Case
        BY <2>1 DEF Job
    <2>3. CASE job[f].kind = "path"
        <3>1. /\ newPaths' = Pushed(job[f].case, newPaths)
              /\ oldPaths' = oldPaths /\ crashQueue' = crashQueue
            BY <1>1, <2>3 DEF Lpush
        <3>2. Pushed(job[f].case, newPaths) \in Seq(Case)
            BY <2>2, PushedType
        <3>3. Cases(newPaths' \o oldPaths') =
                  ({job[f].case} \cup Cases(newPaths)) \cup Cases(oldPaths)
            BY <2>2, <3>1, <3>2, CasesPushed, CasesConcat
        <3> QED
            BY <1>0, <1>1, <2>3, <3>1, <3>3 DEF Queue, Kind
    <2>4. CASE job[f].kind = "crash"
        <3>1. /\ crashQueue' = Pushed(job[f].case, crashQueue)
              /\ oldPaths' = oldPaths /\ newPaths' = newPaths
            BY <1>1, <2>4 DEF Lpush
        <3>2. Cases(crashQueue') = {job[f].case} \cup Cases(crashQueue)
            BY <2>2, <3>1, CasesPushed
        <3> QED
            BY <1>1, <2>4, <3>1, <3>2 DEF Queue, Kind
    <2> QED
        BY <2>2, <2>3, <2>4 DEF Kind
<1>2. CASE NextNew(f)
    <2> DEFINE c == newPaths[Len(newPaths)]
    <2>1. newPaths # <<>> /\ crashQueue' = crashQueue
        BY <1>2 DEF NextNew
    <2>2. newPaths' = Popped(newPaths) /\ oldPaths' = Pushed(c, oldPaths)
        BY <1>2 DEF NextNew
    <2>3. Popped(newPaths) \in Seq(Case) /\ c \in Case
        BY <2>1, PoppedType
    <2>4. Cases(newPaths) = {c} \cup Cases(Popped(newPaths))
        BY <2>1, CasesPopped
    <2> HIDE DEF c
    <2>5. /\ Pushed(c, oldPaths) \in Seq(Case)
          /\ Cases(Pushed(c, oldPaths)) = {c} \cup Cases(oldPaths)
        BY <2>3, PushedType, CasesPushed
    <2>6. Cases(newPaths' \o oldPaths') = Cases(newPaths') \cup Cases(oldPaths')
        BY <2>2, <2>3, <2>5, CasesConcat
    <2>7. Cases(newPaths' \o oldPaths') = Cases(newPaths \o oldPaths)
        BY <1>0, <2>2, <2>4, <2>5, <2>6
    <2>8. ~Lpush(f)
        BY <1>2 DEF NextNew, Lpush
    <2> QED
        BY <2>1, <2>7, <2>8 DEF Queue
<1>3. CASE NextOld(f)
    <2> DEFINE c == oldPaths[Len(oldPaths)]
    <2>1. oldPaths # <<>> /\ crashQueue' = crashQueue /\ newPaths' = newPaths
        BY <1>3 DEF NextOld
    <2>2. oldPaths' = Pushed(c, Popped(oldPaths))
        BY <1>3 DEF NextOld
    <2>3. Popped(oldPaths) \in Seq(Case) /\ c \in Case
        BY <2>1, PoppedType
    <2>4. Cases(oldPaths) = {c} \cup Cases(Popped(oldPaths))
        BY <2>1, CasesPopped
    <2> HIDE DEF c
    <2>5. /\ Pushed(c, Popped(oldPaths)) \in Seq(Case)
          /\ Cases(Pushed(c, Popped(oldPaths))) = {c} \cup Cases(Popped(oldPaths))
        BY <2>3, PushedType, CasesPushed
    <2>6. Cases(newPaths' \o oldPaths') = Cases(newPaths') \cup Cases(oldPaths')
        BY <2>1, <2>2, <2>5, CasesConcat
    <2>7. Cases(newPaths' \o oldPaths') = Cases(newPaths \o oldPaths)
        BY <1>0, <2>1, <2>2, <2>4, <2>5, <2>6
    <2>8. ~Lpush(f)
        BY <1>3 DEF NextOld, Lpush
    <2> QED
        BY <2>1, <2>7, <2>8 DEF Queue
<1>4. CASE UNCHANGED <<newPaths, oldPaths, crashQueue>> /\ ~Lpush(f)
    BY <1>4 DEF Queue
<1>5. \/ Lpush(f) \/ NextNew(f) \/ NextOld(f)
      \/ UNCHANGED <<newPaths, oldPaths, crashQueue>> /\ ~Lpush(f)
    <2>1. Start(f) \/ NextNone(f) \/ NextNothing(f) \/ EndRound(f)
             \/ NodeDies(f) \/ Die(f) \/ Sadd(f) \/ PopulateSkip(f)
          => UNCHANGED <<newPaths, oldPaths, crashQueue>>
        BY DEF Start, NextNone, NextNothing, EndRound, NodeDies, Die, Sadd,
               PopulateSkip, redis
    <2>2. Test(f) => UNCHANGED <<newPaths, oldPaths, crashQueue>>
        BY <2>1 DEF Test, PopulatePath, FuzzPath, Crash, redis
    <2> QED
        BY <2>1, <2>2 DEF FuzzerNext, NextTestcase
<1> QED
    BY <1>1, <1>2, <1>3, <1>4, <1>5

-----------------------------------------------------------------------------
(* The inductive invariant.  The two safety properties of the global map   *)
(* need to know what an insertion has done between its two commands, and   *)
(* that an old download holds nothing that was never in the global map.    *)
PushIsRegistered ==
    \A f \in Fuzzer :
        pc[f] = "lpush" => job[f].case.diff \subseteq bitmap[job[f].kind]

GcovIsOld == \A f \in Fuzzer, k \in Kind : gcov[f][k] \subseteq bitmap[k]

IInv == /\ TypeOK
        /\ CoverageIsCarried
        /\ QueuedIsRegistered
        /\ SeenIsJustified
        /\ PushIsRegistered
        /\ GcovIsOld

LEMMA InitIInv ==
    Init => IInv
<1> SUFFICES ASSUME Init PROVE IInv
    OBVIOUS
<1>1. TypeOK
    BY InitType
<1>2. \A k \in Kind : Cases(Queue(k)) = {}
    BY DEF Init, Queue, Cases
<1>3. CoverageIsCarried /\ QueuedIsRegistered
    BY <1>2 DEF Init, CoverageIsCarried, QueuedIsRegistered, Carried
<1>4. SeenIsJustified /\ PushIsRegistered /\ GcovIsOld
    BY DEF Init, SeenIsJustified, PushIsRegistered, GcovIsOld
<1> QED
    BY <1>1, <1>3, <1>4 DEF IInv

(* Only an insertion that reached SADD adds to the global map.             *)
LEMMA MapFrame ==
    ASSUME NEW f, FuzzerNext(f), ~Sadd(f)
    PROVE  bitmap' = bitmap
BY DEF FuzzerNext, Start, NextTestcase, NextNew, NextNone, NextOld, NextNothing,
       Test, PopulatePath, FuzzPath, Crash, PopulateSkip, Lpush, EndRound,
       NodeDies, Die, redis

LEMMA AtLpush ==
    ASSUME TypeOK, NEW f \in Fuzzer, FuzzerNext(f), pc'[f] = "lpush"
    PROVE  Sadd(f)
<1> USE DEF TypeOK, ControlType
<1>1. CASE Start(f)
    BY <1>1 DEF Start
<1>2. CASE NextTestcase(f)
    BY <1>2 DEF NextTestcase, NextNew, NextNone, NextOld, NextNothing, Deliver
<1>3. CASE Test(f)
    BY <1>3 DEF Test, PopulatePath, FuzzPath, Crash, PopulateSkip, HasInput, Report
<1>4. CASE Lpush(f) \/ NodeDies(f)
    BY <1>4 DEF Lpush, NodeDies, Done
<1>5. CASE EndRound(f) \/ Die(f)
    BY <1>5 DEF EndRound, Die
<1> QED
    BY <1>1, <1>2, <1>3, <1>4, <1>5 DEF FuzzerNext

(* An insertion that was about to push is over, with its test case queued  *)
(* or its coverage lost.                                                   *)
LEMMA LeaveLpush ==
    ASSUME TypeOK, NEW f \in Fuzzer, FuzzerNext(f), pc[f] = "lpush"
    PROVE  \/ Lpush(f)
           \/ lost' = [lost EXCEPT ![job[f].kind] = @ \cup job[f].case.diff]
<1>1. \/ Lpush(f) \/ NodeDies(f) \/ Die(f)
    BY DEF FuzzerNext, Start, NextTestcase, NextNew, NextNone, NextOld, NextNothing,
           Test, PopulatePath, FuzzPath, Crash, PopulateSkip, HasInput, EndRound, Sadd
<1> QED
    BY <1>1 DEF NodeDies, Die, CutInsertion

LEMMA PushStep ==
    ASSUME IInv, NEW f \in Fuzzer, FuzzerNext(f)
    PROVE  PushIsRegistered'
<1> SUFFICES ASSUME NEW g \in Fuzzer, pc'[g] = "lpush"
             PROVE  job'[g].case.diff \subseteq bitmap'[job'[g].kind]
    BY DEF PushIsRegistered
<1>1. CASE g = f
    <2>1. Sadd(f)
        BY <1>1, AtLpush DEF IInv
    <2>2. job[f] \in Job
        BY <2>1 DEF Sadd, IInv, TypeOK, ControlType
    <2> QED
        BY <1>1, <2>1, <2>2 DEF Sadd, readCovDiffFile, IInv, TypeOK, DataType, Job
<1>2. CASE g # f
    <2>1. pc[g] = "lpush" /\ job'[g] = job[g]
        BY <1>2, OthersStay DEF IInv
    <2>2. job[g] \in Job
        BY <2>1 DEF IInv, TypeOK, ControlType
    <2>3. bitmap[job[g].kind] \subseteq bitmap'[job[g].kind]
        BY <2>2, MapsGrow DEF IInv, Job
    <2> QED
        BY <2>1, <2>3 DEF IInv, PushIsRegistered
<1> QED
    BY <1>1, <1>2

LEMMA GcovStep ==
    ASSUME IInv, NEW f \in Fuzzer, FuzzerNext(f)
    PROVE  GcovIsOld'
<1> SUFFICES ASSUME NEW g \in Fuzzer, NEW k \in Kind
             PROVE  gcov'[g][k] \subseteq bitmap'[k]
    BY DEF GcovIsOld
<1>1. bitmap[k] \subseteq bitmap'[k] /\ gcov[g][k] \subseteq bitmap[k]
    BY MapsGrow DEF IInv, GcovIsOld
<1>2. CASE gcov' = gcov
    BY <1>1, <1>2
<1>3. ASSUME NEW j \in Kind, NEW h \in Download(f, j),
             gcov' = [gcov EXCEPT ![f][j] = h]
      PROVE  gcov'[g][k] \subseteq bitmap[k]
    <2>1. h \subseteq bitmap[j]
        BY DEF Download, IInv, GcovIsOld
    <2> QED
        BY <1>1, <1>3, <2>1 DEF IInv, TypeOK, DataType
<1>4. \/ gcov' = gcov
      \/ \E j \in Kind : \E h \in Download(f, j) : gcov' = [gcov EXCEPT ![f][j] = h]
    <2>1. ASSUME NEW t, NEW typed, FuzzPath(f, t, typed)
          PROVE  \E j \in Kind : \E h \in Download(f, j) : gcov' = [gcov EXCEPT ![f][j] = h]
        <3>1. \E h \in Download(f, "path") : gcov' = [gcov EXCEPT ![f]["path"] = h]
            BY <2>1 DEF FuzzPath
        <3> QED
            BY <3>1 DEF Kind
    <2>2. ASSUME NEW t, NEW typed, NEW rerun, Crash(f, t, typed, rerun)
          PROVE  \E j \in Kind : \E h \in Download(f, j) : gcov' = [gcov EXCEPT ![f][j] = h]
        <3>1. \E h \in Download(f, "crash") : gcov' = [gcov EXCEPT ![f]["crash"] = h]
            BY <2>2 DEF Crash
        <3> QED
            BY <3>1 DEF Kind
    <2>3. PopulateSkip(f) \/ (\E t, typed : PopulatePath(f, t, typed)) => gcov' = gcov
        BY DEF PopulateSkip, PopulatePath
    <2>4. Test(f) => \/ gcov' = gcov
                    \/ \E j \in Kind : \E h \in Download(f, j) :
                            gcov' = [gcov EXCEPT ![f][j] = h]
        BY <2>1, <2>2, <2>3 DEF Test
    <2> QED
        BY <2>4 DEF FuzzerNext, Start, NextTestcase, NextNew, NextNone, NextOld,
                    NextNothing, Sadd, Lpush, EndRound, NodeDies, Die, local
<1> QED
    BY <1>1, <1>2, <1>3, <1>4

LEMMA CarriedStep ==
    ASSUME IInv, NEW f \in Fuzzer, FuzzerNext(f)
    PROVE  CoverageIsCarried'
<1> USE DEF Carried, InFlight
<1> SUFFICES ASSUME NEW k \in Kind, NEW b \in bitmap'[k],
                    b # Bit0, b \notin lost'[k]
             PROVE  \/ \E c \in Cases(Queue(k)') : b \in c.diff
                    \/ \E g \in Fuzzer : /\ pc'[g] = "lpush" /\ job'[g].kind = k
                                        /\ b \in job'[g].case.diff
    BY DEF CoverageIsCarried
<1>1. Cases(Queue(k)) \subseteq Cases(Queue(k)')
    BY QueuesKeep DEF IInv
<1>2. CASE b \notin bitmap[k]
    <2>1. Sadd(f)
        BY <1>2, MapFrame
    <2>2. job[f] \in Job /\ pc'[f] = "lpush" /\ job' = job
        BY <2>1 DEF Sadd, IInv, TypeOK, ControlType
    <2>3. job[f].kind = k /\ b \in job[f].case.diff
        BY <1>2, <2>1, <2>2 DEF Sadd, readCovDiffFile, Job, IInv, TypeOK, DataType
    <2> QED
        BY <2>2, <2>3
<1>3. CASE b \in bitmap[k]
    <2>1. b \notin lost[k]
        BY MapsGrow DEF IInv
    <2>2. \/ \E c \in Cases(Queue(k)) : b \in c.diff
          \/ \E g \in Fuzzer : pc[g] = "lpush" /\ job[g].kind = k /\ b \in job[g].case.diff
        BY <1>3, <2>1 DEF IInv, CoverageIsCarried
    <2>3. CASE \E c \in Cases(Queue(k)) : b \in c.diff
        BY <1>1, <2>3
    <2>4. ASSUME NEW g \in Fuzzer, pc[g] = "lpush", job[g].kind = k,
                 b \in job[g].case.diff
          PROVE  \/ \E c \in Cases(Queue(k)') : b \in c.diff
                 \/ pc'[g] = "lpush" /\ job'[g].kind = k /\ b \in job'[g].case.diff
        <3>1. CASE g # f
            BY <2>4, <3>1, OthersStay DEF IInv
        <3>2. CASE g = f
            <4>1. CASE Lpush(f)
                BY <2>4, <3>2, <4>1, QueuesKeep DEF IInv
            <4>2. CASE lost' = [lost EXCEPT ![job[f].kind] = @ \cup job[f].case.diff]
                BY <2>4, <3>2, <4>2 DEF IInv, TypeOK, DataType
            <4> QED
                BY <2>4, <3>2, <4>1, <4>2, LeaveLpush DEF IInv
        <3> QED
            BY <3>1, <3>2
    <2> QED
        BY <2>2, <2>3, <2>4
<1> QED
    BY <1>2, <1>3

LEMMA RegisteredStep ==
    ASSUME IInv, NEW f \in Fuzzer, FuzzerNext(f)
    PROVE  QueuedIsRegistered'
<1> USE DEF Carried
<1> SUFFICES ASSUME NEW k \in Kind, NEW c \in Cases(Queue(k)')
             PROVE  c.diff \subseteq bitmap'[k]
    BY DEF QueuedIsRegistered
<1>1. bitmap[k] \subseteq bitmap'[k]
    BY MapsGrow DEF IInv
<1>2. CASE c \in Cases(Queue(k))
    BY <1>1, <1>2 DEF IInv, QueuedIsRegistered
<1>3. CASE c \notin Cases(Queue(k))
    <2>1. Lpush(f) /\ job[f].kind = k /\ c = job[f].case
        BY <1>3, QueuesKeep DEF IInv
    <2>2. job[f].case.diff \subseteq bitmap[k]
        BY <2>1 DEF IInv, PushIsRegistered, Lpush
    <2> QED
        BY <1>1, <2>1, <2>2
<1> QED
    BY <1>2, <1>3

(* Everything new in a trace is in the coverage that is reported with it,  *)
(* and with classified traces nothing else is.                             *)
LEMMA DiffHasNew ==
    ASSUME NEW t, NEW seen
    PROVE  t \cap seen \subseteq CovDiff(t, seen)
BY DEF CovDiff, NewBytes

LEMMA DiffIsNew ==
    ASSUME NEW t \in Trace, NEW seen
    PROVE  CovDiff(t, seen) = t \cap seen
BY DEF CovDiff, NewBytes, Trace, Classified

(* A report is on its way, or the fuzzer keeps for itself what is new.     *)
LEMMA ReportSeen ==
    ASSUME TypeOK, NEW f \in Fuzzer, NEW k \in Kind, NEW t, NEW seen, NEW typed,
           Report(f, k, t, seen, typed)
    PROVE  /\ \A j \in Kind : muted[f][j] \subseteq muted'[f][j]
           /\ \/ /\ pc'[f] = "sadd" /\ job'[f].kind = k
                 /\ job'[f].case.diff = CovDiff(t, seen)
              \/ CovDiff(t, seen) \subseteq muted'[f][k]
<1> USE DEF TypeOK, ControlType, DataType
<1>1. CASE typed
    <2>1. pc'[f] = "sadd" /\ muted' = muted
        BY <1>1 DEF Report
    <2>2. job'[f].kind = k /\ job'[f].case.diff = CovDiff(t, seen)
        BY <1>1 DEF Report
    <2> QED
        BY <2>1, <2>2
<1>2. CASE ~typed
    <2>1. muted' = [muted EXCEPT ![f][k] = @ \cup CovDiff(t, seen)]
        BY <1>2 DEF Report
    <2> QED
        BY <2>1
<1> QED
    BY <1>1, <1>2

LEMMA SeenStep ==
    ASSUME IInv, NEW f \in Fuzzer, FuzzerNext(f)
    PROVE  SeenIsJustified'
<1> USE DEF IInv, TypeOK, DataType
<1> SUFFICES ASSUME NEW g \in Fuzzer, NEW k \in Kind, NEW b \in Bit,
                    b \notin virgin'[g][k], b \notin bitmap'[k], b \notin muted'[g][k]
             PROVE  /\ pc'[g] = "sadd" /\ job'[g].kind = k
                    /\ b \in job'[g].case.diff
    BY DEF SeenIsJustified
<1>1. b \notin bitmap[k]
    BY MapsGrow
<1>2. b \notin virgin[g][k] =>
          \/ b \in muted[g][k]
          \/ pc[g] = "sadd" /\ job[g].kind = k /\ b \in job[g].case.diff
    BY <1>1 DEF SeenIsJustified
<1>3. CASE g # f
    BY <1>2, <1>3, OthersStay
<1>4. CASE g = f
    <2>1. CASE Start(f)
        BY <1>4, <2>1 DEF Start
    <2>2. CASE virgin' = virgin /\ muted' = muted /\ pc[f] # "sadd"
        BY <1>2, <1>4, <2>2
    <2>3. CASE Sadd(f)
        BY <1>2, <1>4, <2>3 DEF Sadd, readCovDiffFile, local, ControlType, Job
    <2>4. CASE virgin' = virgin /\ CutInsertion(f)
        BY <1>2, <1>4, <2>4 DEF CutInsertion, ControlType, Job
    <2>5. ASSUME NEW t \in Trace, NEW typed, PopulatePath(f, t, typed)
          PROVE  pc'[f] = "sadd" /\ job'[f].kind = k /\ b \in job'[f].case.diff
        <3>1. /\ pc[f] = "run"
              /\ virgin' = [virgin EXCEPT ![f]["path"] = Unseen(t, @)]
              /\ Report(f, "path", t, virgin[f]["path"], typed)
            BY <2>5 DEF PopulatePath, HasInput
        <3>2. \A j \in Kind : muted[f][j] \subseteq muted'[f][j]
            BY <3>1, ReportSeen DEF Kind
        <3>3. b \in virgin[f][k]
            BY <1>2, <1>4, <3>1, <3>2
        <3>4. k = "path" /\ b \in t
            BY <1>4, <3>1, <3>3 DEF Unseen
        <3>5. b \in CovDiff(t, virgin[f]["path"])
            BY <3>3, <3>4, DiffHasNew
        <3> QED
            BY <1>4, <3>1, <3>4, <3>5, ReportSeen
    <2>6. ASSUME NEW t \in Trace, NEW typed, FuzzPath(f, t, typed)
          PROVE  pc'[f] = "sadd" /\ job'[f].kind = k /\ b \in job'[f].case.diff
        <3>1. pc[f] = "run"
            BY <2>6 DEF FuzzPath, HasInput
        <3>2. PICK h \in Download(f, "path") :
                 LET seen == Unseen(h, virgin[f]["path"])
                 IN  /\ virgin' = [virgin EXCEPT ![f]["path"] = Unseen(t, seen)]
                     /\ IF HasNewBits(t, seen) # 0
                        THEN Report(f, "path", t, seen, typed)
                        ELSE UNCHANGED <<job, pc, muted>>
            BY <2>6 DEF FuzzPath
        <3>3. h \subseteq bitmap["path"]
            BY DEF Download, GcovIsOld, Kind
        <3> DEFINE seen == Unseen(h, virgin[f]["path"])
        <3>4. \A j \in Kind : muted[f][j] \subseteq muted'[f][j]
            BY <3>2, ReportSeen DEF Kind
        <3>5. b \in virgin[f][k]
            BY <1>2, <1>4, <3>1, <3>4
        <3>6. k = "path" /\ b \in t /\ b \in seen
            BY <1>1, <1>4, <3>2, <3>3, <3>5 DEF Unseen
        <3>7. HasNewBits(t, seen) # 0
            BY <3>6 DEF HasNewBits
        <3>8. Report(f, "path", t, seen, typed) /\ b \in CovDiff(t, seen)
            BY <3>2, <3>6, <3>7, DiffHasNew
        <3> HIDE DEF seen
        <3> QED
            BY <1>4, <3>6, <3>8, ReportSeen
    <2>7. ASSUME NEW t \in Trace, NEW typed, NEW rerun, Crash(f, t, typed, rerun)
          PROVE  pc'[f] = "sadd" /\ job'[f].kind = k /\ b \in job'[f].case.diff
        <3>1. pc[f] = "run"
            BY <2>7 DEF Crash, HasInput
        <3>2. PICK h \in Download(f, "crash") :
                 LET seen == Unseen(h, virgin[f]["crash"])
                 IN  /\ virgin' = [virgin EXCEPT ![f]["crash"] = Unseen(t, seen)]
                     /\ IF HasNewBits(t, seen) # 0
                        THEN Report(f, "crash", t, seen, typed /\ ~rerun)
                        ELSE UNCHANGED <<job, pc, muted>>
            BY <2>7 DEF Crash
        <3>3. h \subseteq bitmap["crash"]
            BY DEF Download, GcovIsOld, Kind
        <3> DEFINE seen == Unseen(h, virgin[f]["crash"])
        <3>4. \A j \in Kind : muted[f][j] \subseteq muted'[f][j]
            BY <3>2, ReportSeen DEF Kind
        <3>5. b \in virgin[f][k]
            BY <1>2, <1>4, <3>1, <3>4
        <3>6. k = "crash" /\ b \in t /\ b \in seen
            BY <1>1, <1>4, <3>2, <3>3, <3>5 DEF Unseen
        <3>7. HasNewBits(t, seen) # 0
            BY <3>6 DEF HasNewBits
        <3>8. Report(f, "crash", t, seen, typed /\ ~rerun) /\ b \in CovDiff(t, seen)
            BY <3>2, <3>6, <3>7, DiffHasNew
        <3> HIDE DEF seen
        <3> QED
            BY <1>4, <3>6, <3>8, ReportSeen
    <2>8. CASE NextTestcase(f) \/ PopulateSkip(f) \/ Lpush(f) \/ EndRound(f)
        BY <2>2, <2>8 DEF NextTestcase, NextNew, NextNone, NextOld, NextNothing,
                          PopulateSkip, HasInput, Lpush, EndRound, local
    <2>9. CASE NodeDies(f) \/ Die(f)
        BY <2>4, <2>9 DEF NodeDies, Die, local
    <2> QED
        BY <1>4, <2>1, <2>3, <2>5, <2>6, <2>7, <2>8, <2>9 DEF FuzzerNext, Test
<1> QED
    BY <1>3, <1>4

LEMMA StepIInv ==
    IInv /\ [Next]_vars => IInv'
<1> SUFFICES ASSUME IInv, [Next]_vars
             PROVE  IInv'
    OBVIOUS
<1>1. TypeOK'
    BY StepType DEF IInv
<1>2. CASE UNCHANGED vars
    <2>1. \A k \in Kind : Queue(k)' = Queue(k)
        BY <1>2 DEF vars, redis, Queue
    <2>2. CoverageIsCarried' /\ QueuedIsRegistered'
        BY <1>2, <2>1 DEF IInv, CoverageIsCarried, QueuedIsRegistered, Carried,
                          InFlight, vars, redis
    <2>3. SeenIsJustified' /\ PushIsRegistered' /\ GcovIsOld'
        BY <1>2 DEF IInv, SeenIsJustified, PushIsRegistered, GcovIsOld,
                    vars, redis, local
    <2> QED
        BY <1>1, <2>2, <2>3 DEF IInv
<1>3. ASSUME NEW f \in Fuzzer, FuzzerNext(f)
      PROVE  IInv'
    BY <1>1, <1>3, CarriedStep, RegisteredStep, SeenStep, PushStep, GcovStep DEF IInv
<1> QED
    BY <1>2, <1>3 DEF Next

LEMMA Invariance == Spec => []IInv
BY InitIInv, StepIInv, PTL DEF Spec

(* Registered coverage has a test case that shows it, however many fuzzers *)
(* there are and whenever they are killed.                                 *)
THEOREM CarriedAlways == Spec => []CoverageIsCarried
<1>1. IInv => CoverageIsCarried
    BY DEF IInv
<1> QED
    BY <1>1, Invariance, PTL

(* A queued test case never comes before its coverage.                     *)
THEOREM RegisteredAlways == Spec => []QueuedIsRegistered
<1>1. IInv => QueuedIsRegistered
    BY DEF IInv
<1> QED
    BY <1>1, Invariance, PTL

(* A fuzzer never treats coverage as known without a reason: stale and     *)
(* empty downloads are harmless.                                           *)
THEOREM SeenAlwaysJustified == Spec => []SeenIsJustified
<1>1. IInv => SeenIsJustified
    BY DEF IInv
<1> QED
    BY <1>1, Invariance, PTL

-----------------------------------------------------------------------------
LEMMA LengthsGrow ==
    ASSUME TypeOK, NEW f \in Fuzzer, FuzzerNext(f), NEW k \in Kind
    PROVE  Len(Queue(k)) <= Len(Queue(k)')
<1> USE DEF TypeOK, QueueType
<1>0. /\ Len(newPaths) \in Nat /\ Len(oldPaths) \in Nat /\ Len(crashQueue) \in Nat
      /\ Len(newPaths \o oldPaths) = Len(newPaths) + Len(oldPaths)
    BY ConcatProperties, LenProperties
<1>1. CASE Lpush(f)
    <2>1. job[f].case \in Case
        BY <1>1 DEF Lpush, ControlType, Job
    <2>2. CASE newPaths' = Pushed(job[f].case, newPaths) /\ UNCHANGED crashQueue
        <3>1. newPaths' \in Seq(Case) /\ Len(newPaths') = Len(newPaths) + 1
            BY <2>1, <2>2, PushedType
        <3>2. Len(newPaths' \o oldPaths) = Len(newPaths') + Len(oldPaths)
            BY <3>1, ConcatProperties
        <3>3. oldPaths' = oldPaths
            BY <1>1 DEF Lpush
        <3> QED
            BY <1>0, <2>2, <3>1, <3>2, <3>3 DEF Queue
    <2>3. CASE crashQueue' = Pushed(job[f].case, crashQueue) /\ UNCHANGED newPaths
        <3>1. Len(crashQueue') = Len(crashQueue) + 1
            BY <2>1, <2>3, PushedType
        <3>2. oldPaths' = oldPaths
            BY <1>1 DEF Lpush
        <3> QED
            BY <1>0, <2>3, <3>1, <3>2 DEF Queue
    <2> QED
        BY <1>1, <2>2, <2>3 DEF Lpush
<1>2. CASE NextNew(f)
    <2> DEFINE c == newPaths[Len(newPaths)]
    <2>1. /\ newPaths # <<>> /\ crashQueue' = crashQueue
          /\ newPaths' = Popped(newPaths) /\ oldPaths' = Pushed(c, oldPaths)
        BY <1>2 DEF NextNew
    <2>2. /\ newPaths' \in Seq(Case) /\ c \in Case
          /\ Len(newPaths') = Len(newPaths) - 1
        BY <2>1, PoppedType
    <2> HIDE DEF c
    <2>3. oldPaths' \in Seq(Case) /\ Len(oldPaths') = Len(oldPaths) + 1
        BY <2>1, <2>2, PushedType
    <2>4. Len(newPaths' \o oldPaths') = Len(newPaths') + Len(oldPaths')
        BY <2>2, <2>3, ConcatProperties
    <2> QED
        BY <1>0, <2>1, <2>2, <2>3, <2>4 DEF Queue
<1>3. CASE NextOld(f)
    <2> DEFINE c == oldPaths[Len(oldPaths)]
    <2>1. /\ oldPaths # <<>> /\ crashQueue' = crashQueue /\ newPaths' = newPaths
          /\ oldPaths' = Pushed(c, Popped(oldPaths))
        BY <1>3 DEF NextOld
    <2>2. /\ Popped(oldPaths) \in Seq(Case) /\ c \in Case
          /\ Len(Popped(oldPaths)) = Len(oldPaths) - 1
        BY <2>1, PoppedType
    <2> HIDE DEF c
    <2>3. oldPaths' \in Seq(Case) /\ Len(oldPaths') = Len(oldPaths) - 1 + 1
        BY <2>1, <2>2, PushedType
    <2>4. Len(newPaths' \o oldPaths') = Len(newPaths') + Len(oldPaths')
        BY <2>1, <2>3, ConcatProperties
    <2> QED
        BY <1>0, <2>1, <2>3, <2>4 DEF Queue
<1>4. CASE UNCHANGED <<newPaths, oldPaths, crashQueue>>
    BY <1>0, <1>4 DEF Queue
<1>5. \/ Lpush(f) \/ NextNew(f) \/ NextOld(f)
      \/ UNCHANGED <<newPaths, oldPaths, crashQueue>>
    BY DEF FuzzerNext, NextTestcase, Test, Start, NextNone, NextNothing, EndRound,
           NodeDies, Die, Sadd, PopulateSkip, PopulatePath, FuzzPath, Crash, redis
<1> QED
    BY <1>1, <1>2, <1>3, <1>4, <1>5

(* No test case leaves the queues, whoever asks for it and dies.           *)
THEOREM NothingLost == Spec => NoCaseIsLost
<1> DEFINE Keep == \A k \in Kind : /\ Cases(Queue(k)) \subseteq Cases(Queue(k)')
                                   /\ Len(Queue(k)) <= Len(Queue(k)')
<1>1. TypeOK /\ [Next]_vars => [Keep]_vars
    <2> SUFFICES ASSUME TypeOK, Next
                 PROVE  Keep
        OBVIOUS
    <2> QED
        BY QueuesKeep, LengthsGrow DEF Next
<1>2. Spec => [][Keep]_vars
    BY <1>1, TypeCorrect, PTL DEF Spec
<1> QED
    BY <1>2 DEF NoCaseIsLost

-----------------------------------------------------------------------------
(* The race between download and SADD, while no process is killed.  Then   *)
(* every download is current, so what a syncing fuzzer sets out to report  *)
(* is not registered at that moment.                                       *)
LEMMA NewReport ==
    ASSUME MayDie = FALSE, TypeOK, NEW f \in Fuzzer, FuzzerNext(f),
           job'[f] # job[f], job'[f] # NoJob
    PROVE  /\ pc[f] = "run"
           /\ job'[f].case.by = f /\ job'[f].case.run = run[f]
           /\ \/ job'[f].case.diff \cap bitmap[job'[f].kind] = {}
              \/ mode[f] = "populate" /\ job'[f].kind = "path"
<1> USE DEF TypeOK, ControlType
<1> DEFINE New == /\ pc[f] = "run"
                  /\ job'[f].case.by = f /\ job'[f].case.run = run[f]
                  /\ \/ job'[f].case.diff \cap bitmap[job'[f].kind] = {}
                     \/ mode[f] = "populate" /\ job'[f].kind = "path"
<1>1. Test(f)
    BY DEF FuzzerNext, Start, NextTestcase, NextNew, NextNone, NextOld, NextNothing,
           Sadd, Lpush, EndRound, NodeDies, Die, Done
<1>2. pc[f] = "run"
    BY <1>1 DEF Test, PopulatePath, FuzzPath, Crash, PopulateSkip, HasInput
<1>3. ASSUME NEW k, NEW t, NEW seen, NEW typed, Report(f, k, t, seen, typed)
      PROVE  /\ job'[f].kind = k
             /\ job'[f].case.by = f /\ job'[f].case.run = run[f]
             /\ job'[f].case.diff = CovDiff(t, seen)
    <2>1. job' = [job EXCEPT ![f] =
                     [kind |-> k, case |-> [by |-> f, run |-> run[f], cov |-> t,
                                            diff |-> CovDiff(t, seen)]]]
        BY <1>3 DEF Report
    <2> QED
        BY <2>1
<1>4. ASSUME NEW t, NEW typed, PopulatePath(f, t, typed)
      PROVE  New
    <2>1. mode[f] = "populate" /\ Report(f, "path", t, virgin[f]["path"], typed)
        BY <1>4 DEF PopulatePath
    <2> QED
        BY <1>2, <1>3, <2>1
<1>5. ASSUME NEW k \in Kind, NEW t \in Trace, NEW typed, NEW h \in Download(f, k),
             Report(f, k, t, Unseen(h, virgin[f][k]), typed)
      PROVE  New
    <2> DEFINE seen == Unseen(h, virgin[f][k])
    <2>1. seen \cap bitmap[k] = {}
        BY DEF Download, Unseen
    <2>2. Report(f, k, t, seen, typed)
        BY <1>5
    <2> HIDE DEF seen
    <2>3. CovDiff(t, seen) = t \cap seen
        BY DiffIsNew
    <2> QED
        BY <1>2, <1>3, <2>1, <2>2, <2>3
<1>6. ASSUME NEW t \in Trace, NEW typed, FuzzPath(f, t, typed)
      PROVE  New
    <2>1. PICK h \in Download(f, "path") :
             \/ Report(f, "path", t, Unseen(h, virgin[f]["path"]), typed)
             \/ UNCHANGED <<job, pc, muted>>
        BY <1>6 DEF FuzzPath
    <2> QED
        BY <1>5, <2>1 DEF Kind
<1>7. ASSUME NEW t \in Trace, NEW typed, NEW rerun, Crash(f, t, typed, rerun)
      PROVE  New
    <2>1. PICK h \in Download(f, "crash") :
             \/ Report(f, "crash", t, Unseen(h, virgin[f]["crash"]), typed /\ ~rerun)
             \/ UNCHANGED <<job, pc, muted>>
        BY <1>7 DEF Crash
    <2> QED
        BY <1>5, <2>1 DEF Kind
<1>8. ~PopulateSkip(f)
    BY DEF PopulateSkip
<1> QED
    BY <1>1, <1>4, <1>6, <1>7, <1>8 DEF Test

(* The mode of a running fuzzer is the one of its present run.             *)
ModesAreStarts ==
    \A f \in Fuzzer : pc[f] # "off" => mode[f] = Starts[f][run[f]]

LEMMA ModesStep ==
    ASSUME TypeOK, ModesAreStarts, NEW f \in Fuzzer, FuzzerNext(f)
    PROVE  ModesAreStarts'
<1> USE DEF TypeOK, ControlType, DataType, ModesAreStarts
<1>1. CASE Start(f)
    <2>1. /\ run' = [run EXCEPT ![f] = @ + 1]
          /\ mode' = [mode EXCEPT ![f] = Starts[f][run[f] + 1]]
          /\ \A g \in Fuzzer : g # f => pc'[g] = pc[g]
        BY <1>1 DEF Start
    <2> QED
        BY <2>1
<1>2. CASE ~Start(f)
    <2>1. run' = run /\ mode' = mode
        BY <1>2 DEF FuzzerNext, NextTestcase, NextNew, NextNone, NextOld, NextNothing,
                    Test, PopulatePath, FuzzPath, Crash, PopulateSkip, Sadd, Lpush,
                    EndRound, NodeDies, Die, local
    <2>2. pc[f] # "off"
        BY <1>2 DEF FuzzerNext, NextTestcase, NextNew, NextNone, NextOld, NextNothing,
                    Test, PopulatePath, FuzzPath, Crash, PopulateSkip, HasInput, Sadd,
                    Lpush, EndRound, NodeDies, Die
    <2>3. \A g \in Fuzzer : g # f => pc'[g] = pc[g]
        BY OthersStay
    <2> QED
        BY <2>1, <2>2, <2>3
<1> QED
    BY <1>1, <1>2

(* What is queued raced or was not synced, and so did a report that meets  *)
(* bits which have been registered since.                                  *)
Raced(c, k, b) == c \in racing[k][b] \/ Unsynced(c, k)

ReportsRaced ==
    \A f \in Fuzzer : job[f] # NoJob =>
        \A b \in job[f].case.diff \cap bitmap[job[f].kind] :
            Raced(job[f].case, job[f].kind, b)

RInv == IInv /\ ModesAreStarts /\ ReportsRaced /\ OnlyRacersRepeat

LEMMA InitRInv == RaceInit => RInv
<1> SUFFICES ASSUME RaceInit PROVE RInv
    OBVIOUS
<1>1. \A k \in Kind : Cases(Queue(k)) = {}
    BY DEF RaceInit, Init, Queue, Cases
<1> QED
    BY <1>1, InitIInv DEF RaceInit, Init, RInv, ModesAreStarts, ReportsRaced,
                          OnlyRacersRepeat

Recorded ==
    racing' = [k \in Kind |-> [b \in Bit |->
                  IF b \in bitmap'[k] \ bitmap[k] THEN UnderWay(k, b)
                                                  ELSE racing[k][b]]]

(* A race is decided once: the record of a registered bit stays.           *)
LEMMA RacedStays ==
    ASSUME Recorded, NEW k \in Kind, NEW b \in Bit, b \in bitmap[k], NEW c,
           Raced(c, k, b)
    PROVE  c \in racing'[k][b] \/ Unsynced(c, k)
<1>1. racing'[k][b] = racing[k][b]
    BY DEF Recorded
<1> QED
    BY <1>1 DEF Raced

(* ReportsRaced, step by step: a new report meets nothing registered, and  *)
(* when SADD registers a bit, every report of it that is still to be made  *)
(* is recorded.                                                            *)
LEMMA ReportsStep ==
    ASSUME MayDie = FALSE, RInv, NEW f \in Fuzzer, FuzzerNext(f), Recorded
    PROVE  ReportsRaced'
<1> SUFFICES ASSUME NEW g \in Fuzzer, job'[g] # NoJob,
                    NEW b \in job'[g].case.diff, b \in bitmap'[job'[g].kind]
             PROVE  \/ job'[g].case \in racing'[job'[g].kind][b]
                    \/ Unsynced(job'[g].case, job'[g].kind)
    BY DEF ReportsRaced, Raced
<1> USE DEF RInv, IInv
<1> DEFINE k == job'[g].kind
           c == job'[g].case
<1>1. job'[g] \in Job
    BY StepType DEF TypeOK, ControlType, Next
<1>2. /\ k \in Kind /\ b \in Bit
      /\ bitmap[k] \in SUBSET Bit
    BY <1>1 DEF Job, Case, TypeOK, DataType
<1>3. CASE job'[g] # job[g]
    <2>1. g = f
        BY <1>3, OthersStay
    <2>2. /\ pc[f] = "run" /\ c.by = f /\ c.run = run[f]
          /\ \/ c.diff \cap bitmap[k] = {}
             \/ mode[f] = "populate" /\ k = "path"
        BY <1>3, <2>1, NewReport
    <2>3. ~Sadd(f)
        BY <2>2 DEF Sadd
    <2>4. b \in bitmap[k]
        BY <2>3, MapFrame
    <2>5. mode[f] = Starts[f][run[f]]
        BY <2>2 DEF ModesAreStarts
    <2> QED
        BY <2>2, <2>4, <2>5 DEF Unsynced
<1>4. CASE job'[g] = job[g] /\ b \in bitmap[k]
    <2>1. Raced(c, k, b)
        BY <1>4 DEF ReportsRaced
    <2> HIDE DEF c, k
    <2> QED
        BY <1>2, <1>4, <2>1, RacedStays DEF c, k
<1>5. CASE job'[g] = job[g] /\ b \notin bitmap[k]
    <2>1. pc[g] \in {"sadd", "lpush"}
        BY <1>5 DEF TypeOK, ControlType
    <2>2. pc[g] = "sadd"
        BY <1>5, <2>1 DEF PushIsRegistered
    <2>3. c \in UnderWay(k, b)
        BY <1>5, <2>2 DEF UnderWay
    <2>4. racing'[k][b] = UnderWay(k, b)
        BY <1>2, <1>5 DEF Recorded
    <2> QED
        BY <2>3, <2>4
<1> QED
    BY <1>3, <1>4, <1>5

(* What is queued was queued before or was reported.                       *)
LEMMA RepeatsStep ==
    ASSUME RInv, NEW f \in Fuzzer, FuzzerNext(f), Recorded
    PROVE  OnlyRacersRepeat'
<1> SUFFICES ASSUME NEW k \in Kind, NEW c \in Cases(Queue(k)'), NEW b \in c.diff
             PROVE  c \in racing'[k][b] \/ Unsynced(c, k)
    BY DEF OnlyRacersRepeat
<1> USE DEF RInv, IInv
<1>1. CASE c \in Cases(Queue(k))
    <2>1. b \in bitmap[k]
        BY <1>1 DEF QueuedIsRegistered, Carried
    <2>2. b \in Bit
        BY <2>1 DEF TypeOK, DataType
    <2>3. Raced(c, k, b)
        BY <1>1 DEF OnlyRacersRepeat, Raced
    <2> QED
        BY <2>1, <2>2, <2>3, RacedStays
<1>2. CASE Lpush(f) /\ job[f].kind = k /\ c = job[f].case
    <2>1. pc[f] = "lpush" /\ job[f] # NoJob
        BY <1>2 DEF Lpush, TypeOK, ControlType
    <2>2. b \in bitmap[k]
        BY <1>2, <2>1 DEF PushIsRegistered
    <2>3. b \in Bit
        BY <2>2 DEF TypeOK, DataType
    <2>4. Raced(c, k, b)
        BY <1>2, <2>1, <2>2 DEF ReportsRaced
    <2> QED
        BY <2>2, <2>3, <2>4, RacedStays
<1> QED
    BY <1>1, <1>2, QueuesKeep

(* While nothing is killed, only those who were racing for a bit when it   *)
(* was registered queue it again.                                          *)
THEOREM OnlyRacersAlways ==
    ASSUME MayDie = FALSE
    PROVE  RaceSpec => []OnlyRacersRepeat
<1>1. RInv /\ [RaceNext]_raceVars => RInv'
    <2> SUFFICES ASSUME RInv, [RaceNext]_raceVars
                 PROVE  RInv'
        OBVIOUS
    <2>1. CASE RaceNext
        <3>1. PICK f \in Fuzzer : FuzzerNext(f)
            BY <2>1 DEF RaceNext, Next
        <3>2. Recorded
            BY <2>1 DEF RaceNext, Recorded
        <3>3. IInv'
            BY <2>1, StepIInv DEF RInv, RaceNext
        <3>4. ModesAreStarts'
            BY <3>1, ModesStep DEF RInv, IInv
        <3> QED
            BY <3>1, <3>2, <3>3, <3>4, ReportsStep, RepeatsStep DEF RInv
    <2>2. CASE UNCHANGED raceVars
        <3>1. UNCHANGED vars /\ UNCHANGED racing
            BY <2>2 DEF raceVars
        <3>2. IInv'
            BY <3>1, StepIInv DEF RInv
        <3>3. ModesAreStarts' /\ ReportsRaced' /\ OnlyRacersRepeat'
            BY <3>1 DEF RInv, ModesAreStarts, ReportsRaced, Raced, OnlyRacersRepeat,
                        vars, local, redis, Queue, Cases
        <3> QED
            BY <3>2, <3>3 DEF RInv
    <2> QED
        BY <2>1, <2>2
<1>2. RInv => OnlyRacersRepeat
    BY DEF RInv
<1> QED
    BY <1>1, <1>2, InitRInv, PTL DEF RaceSpec

-----------------------------------------------------------------------------
(* A report is of the run that makes it, and what it reports is no longer  *)
(* virgin to the fuzzer.                                                   *)
JobsAreOwn ==
    \A f \in Fuzzer : job[f] # NoJob =>
        /\ job[f].case.by = f /\ job[f].case.run = run[f]
        /\ job[f].case.diff \cap virgin[f][job[f].kind] = {}

(* Nor is what this run has queued.                                        *)
QueuedIsSpent ==
    \A k \in Kind : \A c \in Cases(Queue(k)) :
        /\ c.run <= run[c.by]
        /\ c.run = run[c.by] => c.diff \cap virgin[c.by][k] = {}

(* So what it reports next has nothing in common with that.                *)
JobsAreNew ==
    \A f \in Fuzzer, k \in Kind :
        job[f] # NoJob /\ job[f].kind = k =>
            \A d \in Cases(Queue(k)) :
                d.by = f /\ d.run = run[f] => job[f].case.diff \cap d.diff = {}

(* The strengthening.                                                      *)
SInv == TypeOK /\ JobsAreOwn /\ QueuedIsSpent /\ JobsAreNew

(* Nothing is queued or reported at first.                                 *)
LEMMA InitSInv == Init => SInv
  <1> SUFFICES ASSUME Init PROVE SInv
    OBVIOUS
  <1>1. \A k \in Kind : Cases(Queue(k)) = {}
    BY DEF Init, Queue, Cases
  <1> QED
    BY <1>1, InitType DEF Init, SInv, JobsAreOwn, QueuedIsSpent, JobsAreNew

(* What is queued is a test case.                                          *)
LEMMA QueuedAreCases ==
    ASSUME TypeOK, NEW k \in Kind
    PROVE  Cases(Queue(k)) \subseteq Case
  <1>1. Queue(k) \in Seq(Case)
    BY ConcatProperties DEF TypeOK, QueueType, Queue
  <1> QED
    BY <1>1, ElementOfSeq DEF Cases

(* How a fuzzer comes by a report: from what was virgin to it.             *)
Reported(f) ==
    \E k \in Kind, t \in Trace, seen \in SUBSET Bit :
        /\ job'[f] = [kind |-> k,
                      case |-> [by |-> f, run |-> run[f], cov |-> t,
                                diff |-> CovDiff(t, seen)]]
        /\ seen \subseteq virgin[f][k] /\ virgin'[f][k] \cap t = {}

(* Report leaves the report alone or makes one from what was virgin.       *)
LEMMA ReportGives ==
    ASSUME TypeOK, NEW f \in Fuzzer, NEW k \in Kind, NEW t \in Trace,
           NEW seen \in SUBSET Bit, NEW typed, Report(f, k, t, seen, typed),
           seen \subseteq virgin[f][k], virgin'[f][k] \cap t = {}
    PROVE  job'[f] = job[f] \/ Reported(f)
  <1>1. CASE typed
    BY <1>1 DEF Report, Reported, TypeOK, ControlType
  <1>2. CASE ~typed
    BY <1>2 DEF Report
  <1> QED
    BY <1>1, <1>2

(* Running a test case: the virgin maps only shrink.                       *)
LEMMA TestGives ==
    ASSUME TypeOK, NEW f \in Fuzzer, Test(f)
    PROVE  /\ \A j \in Kind : virgin'[f][j] \subseteq virgin[f][j]
           /\ job'[f] = job[f] \/ Reported(f)
  <1> DEFINE Goal == /\ \A j \in Kind : virgin'[f][j] \subseteq virgin[f][j]
                     /\ job'[f] = job[f] \/ Reported(f)
  <1>0. /\ virgin \in [Fuzzer -> [Kind -> SUBSET Bit]]
        /\ \A j \in Kind : virgin[f][j] \in SUBSET Bit
        /\ "path" \in Kind /\ "crash" \in Kind
    BY DEF TypeOK, DataType, Kind
  <1>1. ASSUME NEW t \in Trace, NEW typed, PopulatePath(f, t, typed)
        PROVE  Goal
    <2>1. virgin' = [virgin EXCEPT ![f]["path"] = Unseen(t, @)]
          /\ Report(f, "path", t, virgin[f]["path"], typed)
      BY <1>1 DEF PopulatePath
    <2>2. /\ \A j \in Kind : virgin'[f][j] \subseteq virgin[f][j]
          /\ virgin'[f]["path"] \cap t = {}
      BY <1>0, <2>1 DEF Unseen
    <2> QED
      BY <1>0, <2>1, <2>2, ReportGives
  <1>2. ASSUME NEW k \in Kind, NEW t \in Trace, NEW typed, NEW h,
               LET seen == Unseen(h, virgin[f][k])
               IN  /\ virgin' = [virgin EXCEPT ![f][k] = Unseen(t, seen)]
                   /\ \/ Report(f, k, t, seen, typed)
                      \/ UNCHANGED job
        PROVE  Goal
    <2> DEFINE seen == Unseen(h, virgin[f][k])
    <2>1. seen \in SUBSET Bit /\ seen \subseteq virgin[f][k]
      BY <1>0 DEF Unseen
    <2>2. /\ virgin' = [virgin EXCEPT ![f][k] = Unseen(t, seen)]
          /\ Report(f, k, t, seen, typed) \/ UNCHANGED job
      BY <1>2
    <2> HIDE DEF seen
    <2>3. /\ \A j \in Kind : virgin'[f][j] \subseteq virgin[f][j]
          /\ virgin'[f][k] \cap t = {}
      BY <1>0, <2>1, <2>2 DEF Unseen
    <2> QED
      BY <2>1, <2>2, <2>3, ReportGives
  <1>3. ASSUME NEW t \in Trace, NEW typed, FuzzPath(f, t, typed)
        PROVE  Goal
    <2>1. PICK h \in Download(f, "path") :
             LET seen == Unseen(h, virgin[f]["path"])
             IN  /\ virgin' = [virgin EXCEPT ![f]["path"] = Unseen(t, seen)]
                 /\ \/ Report(f, "path", t, seen, typed)
                    \/ UNCHANGED job
      BY <1>3 DEF FuzzPath
    <2> QED
      BY <1>0, <1>2, <2>1
  <1>4. ASSUME NEW t \in Trace, NEW typed, NEW rerun, Crash(f, t, typed, rerun)
        PROVE  Goal
    <2>1. PICK h \in Download(f, "crash") :
             LET seen == Unseen(h, virgin[f]["crash"])
             IN  /\ virgin' = [virgin EXCEPT ![f]["crash"] = Unseen(t, seen)]
                 /\ \/ Report(f, "crash", t, seen, typed /\ ~rerun)
                    \/ UNCHANGED job
      BY <1>4 DEF Crash
    <2> QED
      BY <1>0, <1>2, <2>1
  <1>5. CASE PopulateSkip(f)
    BY <1>5 DEF PopulateSkip
  <1> QED
    BY <1>1, <1>3, <1>4, <1>5 DEF Test

(* What the steps of a fuzzer do to its own run, map and report.           *)
LEMMA StepGives ==
    ASSUME TypeOK, NEW f \in Fuzzer, FuzzerNext(f)
    PROVE  \/ /\ pc[f] = "off" /\ job' = job
              /\ run' = [run EXCEPT ![f] = @ + 1]
           \/ /\ run' = run
              /\ \A j \in Kind : virgin'[f][j] \subseteq virgin[f][j]
              /\ job'[f] = NoJob \/ job'[f] = job[f] \/ Reported(f)
  <1>1. CASE Start(f)
    BY <1>1 DEF Start
  <1>2. CASE Test(f)
    <2>1. run' = run
      BY <1>2 DEF Test, PopulatePath, FuzzPath, Crash, PopulateSkip
    <2> QED
      BY <1>2, <2>1, TestGives
  <1>3. CASE NextTestcase(f) \/ Sadd(f) \/ EndRound(f)
    BY <1>3 DEF NextTestcase, NextNew, NextNone, NextOld, NextNothing, Sadd,
                EndRound, local
  <1>4. CASE Lpush(f) \/ NodeDies(f) \/ Die(f)
    <2>1. job'[f] = NoJob
      BY <1>4 DEF Lpush, NodeDies, Die, Done, TypeOK, ControlType
    <2> QED
      BY <1>4, <2>1 DEF Lpush, NodeDies, Die, local
  <1> QED
    BY <1>1, <1>2, <1>3, <1>4 DEF FuzzerNext

(* LPUSH ends the report and touches no map.                               *)
LEMMA PushEnds ==
    ASSUME TypeOK, NEW f \in Fuzzer, Lpush(f)
    PROVE  job'[f] = NoJob /\ run' = run /\ virgin' = virgin
  BY DEF Lpush, Done, TypeOK, ControlType, local

(* JobsAreOwn, step by step: a new report takes its bits off the map.      *)
LEMMA OwnStep ==
    ASSUME SInv, NEW f \in Fuzzer, FuzzerNext(f)
    PROVE  JobsAreOwn'
  <1> SUFFICES ASSUME NEW g \in Fuzzer, job'[g] # NoJob
               PROVE  /\ job'[g].case.by = g /\ job'[g].case.run = run'[g]
                      /\ job'[g].case.diff \cap virgin'[g][job'[g].kind] = {}
    BY DEF JobsAreOwn
  <1> USE DEF SInv
  <1>0. run \in [Fuzzer -> 0 .. MaxRun] /\ job \in [Fuzzer -> Job \cup {NoJob}]
    BY DEF TypeOK, ControlType
  <1>1. CASE g # f
    <2>1. job'[g] = job[g] /\ virgin'[g] = virgin[g]
      BY <1>1, OthersStay
    <2>2. run'[g] = run[g]
      BY <1>0, <1>1, StepGives
    <2> QED
      BY <2>1, <2>2 DEF JobsAreOwn
  <1>2. CASE g = f /\ Reported(f) /\ run' = run
    BY <1>2 DEF Reported, CovDiff
  <1>3. CASE g = f /\ job'[f] = job[f] /\ run' = run
             /\ \A j \in Kind : virgin'[f][j] \subseteq virgin[f][j]
    <2>1. job[f] \in Job
      BY <1>0, <1>3
    <2>2. job[f].kind \in Kind
      BY <2>1 DEF Job
    <2> QED
      BY <1>3, <2>2 DEF JobsAreOwn
  <1>4. ~(pc[f] = "off" /\ job' = job /\ g = f)
    BY DEF TypeOK, ControlType
  <1> QED
    BY <1>1, <1>2, <1>3, <1>4, StepGives

(* QueuedIsSpent: only LPUSH queues, and what it queues is spent.          *)
LEMMA SpentStep ==
    ASSUME SInv, NEW f \in Fuzzer, FuzzerNext(f)
    PROVE  QueuedIsSpent'
  <1> SUFFICES ASSUME NEW k \in Kind, NEW c \in Cases(Queue(k))'
               PROVE  /\ c.run <= run'[c.by]
                      /\ c.run = run'[c.by] => c.diff \cap virgin'[c.by][k] = {}
    BY DEF QueuedIsSpent
  <1> USE DEF SInv
  <1>0. run \in [Fuzzer -> 0 .. MaxRun] /\ MaxRun \in Nat
    BY GlobalSyncAssumption DEF TypeOK, ControlType
  <1>1. ASSUME c \in Cases(Queue(k))
        PROVE  /\ c.run <= run'[c.by]
               /\ c.run = run'[c.by] => c.diff \cap virgin'[c.by][k] = {}
    <2>1. c \in Case
      BY <1>1, QueuedAreCases
    <2>2. c.by \in Fuzzer /\ c.run \in 1 .. MaxRun
      BY <2>1 DEF Case
    <2>3. /\ c.run <= run[c.by]
          /\ c.run = run[c.by] => c.diff \cap virgin[c.by][k] = {}
      BY <1>1 DEF QueuedIsSpent
    <2>4. CASE c.by # f
      <3>1. virgin'[c.by] = virgin[c.by]
        BY <2>2, <2>4, OthersStay
      <3>2. run'[c.by] = run[c.by]
        BY <1>0, <2>2, <2>4, StepGives
      <3> QED
        BY <2>3, <3>1, <3>2
    <2>5. CASE c.by = f /\ run' = [run EXCEPT ![f] = @ + 1]
      BY <1>0, <2>2, <2>3, <2>5
    <2>6. CASE /\ c.by = f /\ run' = run
               /\ \A j \in Kind : virgin'[f][j] \subseteq virgin[f][j]
      BY <2>3, <2>6
    <2> QED
      BY <2>4, <2>5, <2>6, StepGives
  <1>2. ASSUME Lpush(f), job[f].kind = k, c = job[f].case
        PROVE  /\ c.run <= run'[c.by]
               /\ c.run = run'[c.by] => c.diff \cap virgin'[c.by][k] = {}
    <2>1. job[f] # NoJob
      BY <1>2 DEF Lpush, TypeOK, ControlType
    <2>2. /\ c.by = f /\ c.run = run[f]
          /\ c.diff \cap virgin[f][k] = {}
      BY <1>2, <2>1 DEF JobsAreOwn
    <2> QED
      BY <1>0, <1>2, <2>2, PushEnds
  <1> QED
    BY <1>1, <1>2, QueuesKeep

(* JobsAreNew: a new report takes virgin bits, the queued ones are not.    *)
LEMMA NewStep ==
    ASSUME SInv, NEW f \in Fuzzer, FuzzerNext(f)
    PROVE  JobsAreNew'
  <1> SUFFICES ASSUME NEW g \in Fuzzer, NEW k \in Kind,
                      job'[g] # NoJob, job'[g].kind = k,
                      NEW d \in Cases(Queue(k))', d.by = g, d.run = run'[g]
               PROVE  job'[g].case.diff \cap d.diff = {}
    BY DEF JobsAreNew
  <1> USE DEF SInv
  <1>0. run \in [Fuzzer -> 0 .. MaxRun] /\ job \in [Fuzzer -> Job \cup {NoJob}]
    BY DEF TypeOK, ControlType
  <1>1. d \in Cases(Queue(k))
    <2>1. ASSUME Lpush(f), d = job[f].case PROVE FALSE
      <3>1. job[f] # NoJob
        BY <2>1 DEF Lpush, TypeOK, ControlType
      <3>2. g = f
        BY <2>1, <3>1 DEF JobsAreOwn
      <3> QED
        BY <2>1, <3>2, PushEnds
    <2> QED
      BY <2>1, QueuesKeep
  <1>2. CASE g # f
    <2>1. job'[g] = job[g] /\ run'[g] = run[g]
      BY <1>0, <1>2, OthersStay, StepGives
    <2> QED
      BY <1>1, <2>1 DEF JobsAreNew
  <1>3. CASE g = f
    <2>1. CASE Reported(f) /\ run' = run
      <3>1. PICK j \in Kind, t \in Trace, seen \in SUBSET Bit :
               /\ job'[f] = [kind |-> j,
                             case |-> [by |-> f, run |-> run[f], cov |-> t,
                                       diff |-> CovDiff(t, seen)]]
               /\ seen \subseteq virgin[f][j]
        BY <2>1 DEF Reported
      <3>2. j = k /\ d.diff \cap virgin[f][k] = {}
        BY <1>1, <1>3, <2>1, <3>1 DEF QueuedIsSpent
      <3>3. job'[f].case.diff = t \cap seen
        BY <3>1, DiffIsNew
      <3> QED
        BY <1>3, <3>1, <3>2, <3>3
    <2>2. CASE job'[f] = job[f] /\ run' = run
      BY <1>1, <1>3, <2>2 DEF JobsAreNew
    <2>3. ~(pc[f] = "off" /\ job' = job)
      BY <1>3 DEF TypeOK, ControlType
    <2> QED
      BY <1>3, <2>1, <2>2, <2>3, StepGives
  <1> QED
    BY <1>2, <1>3

(* The strengthening is inductive.                                         *)
LEMMA NextSInv == SInv /\ [Next]_vars => SInv'
  <1> SUFFICES ASSUME SInv, [Next]_vars PROVE SInv'
    OBVIOUS
  <1>1. TypeOK'
    BY StepType DEF SInv
  <1>2. ASSUME NEW f \in Fuzzer, FuzzerNext(f) PROVE SInv'
    BY <1>1, <1>2, OwnStep, SpentStep, NewStep DEF SInv
  <1>3. CASE UNCHANGED vars
    <2>1. \A k : Queue(k)' = Queue(k)
      BY <1>3 DEF vars, redis, Queue
    <2> QED
      BY <1>1, <1>3, <2>1 DEF SInv, JobsAreOwn, QueuedIsSpent, JobsAreNew, vars,
                              redis, local, Cases
  <1> QED
    BY <1>2, <1>3 DEF Next

-----------------------------------------------------------------------------
(* What the shared corpus is owed, step by step.                           *)
LEMMA OwedBy ==
    ASSUME SInv, NEW k \in Kind, NEW d \in Owed(k)
    PROVE  \E g \in Fuzzer : /\ pc[g] = "lpush" /\ job[g].kind = k
                             /\ d = job[g].case /\ d.by = g
  <1>1. PICK g \in Fuzzer : pc[g] = "lpush" /\ job[g].kind = k /\ d = job[g].case
    BY DEF Owed
  <1>2. job[g] # NoJob
    BY <1>1 DEF SInv, TypeOK, ControlType
  <1> QED
    BY <1>1, <1>2 DEF SInv, JobsAreOwn

(* Nothing is owed or paid while nobody enters or leaves the LPUSH.        *)
LEMMA OwedKeeps ==
    ASSUME SInv, NEW f \in Fuzzer, FuzzerNext(f), NEW k \in Kind,
           pc[f] # "lpush", pc'[f] # "lpush"
    PROVE  Owed(k)' = Owed(k)
  <1>1. \A g \in Fuzzer : g # f => pc'[g] = pc[g] /\ job'[g] = job[g]
    BY OthersStay DEF SInv
  <1> QED
    BY <1>1 DEF Owed

(* A fuzzer past SADD owes its test case.                                  *)
LEMMA OwedGains ==
    ASSUME SInv, NEW f \in Fuzzer, Sadd(f), NEW k \in Kind
    PROVE  Owed(k)' = IF job[f].kind = k THEN Owed(k) \cup {job[f].case}
                      ELSE Owed(k)
  <1>1. /\ pc[f] = "sadd" /\ job' = job
        /\ pc'[f] = "lpush" /\ \A g \in Fuzzer : g # f => pc'[g] = pc[g]
    BY DEF Sadd, SInv, TypeOK, ControlType
  <1> QED
    BY <1>1 DEF Owed

(* The end of its insertion pays that and nothing else.                    *)
LEMMA OwedLoses ==
    ASSUME SInv, NEW f \in Fuzzer, FuzzerNext(f), pc[f] = "lpush", NEW k \in Kind
    PROVE  Owed(k)' = IF job[f].kind = k THEN Owed(k) \ {job[f].case}
                      ELSE Owed(k)
  <1>1. \A g \in Fuzzer : g # f => pc'[g] = pc[g] /\ job'[g] = job[g]
    BY OthersStay DEF SInv
  <1>2. pc'[f] # "lpush"
    BY AtLpush DEF SInv, Sadd
  <1>3. \A g \in Fuzzer : pc[g] = "lpush" => job[g].case.by = g
    BY DEF SInv, TypeOK, ControlType, JobsAreOwn
  <1> QED
    BY <1>1, <1>2, <1>3 DEF Owed

(* Where the two variables of the shared corpus are in the queues.        *)
Stored == [k \in Kind |-> Cases(Queue(k))]
Owing == [k \in Kind |-> Owed(k)]

(* SADD is the registration: of coverage that nobody else is registering   *)
(* under this name, and that this run has not reported.                    *)
LEMMA SaddRegisters ==
    ASSUME SInv, NEW f \in Fuzzer, Sadd(f)
    PROVE  Corpus!Report
  <1> DEFINE k == job[f].kind
             c == job[f].case
  <1>0. FuzzerNext(f)
    BY DEF FuzzerNext
  <1>1. job[f] # NoJob /\ job[f] \in Job
    BY DEF Sadd, SInv, TypeOK, ControlType
  <1>2. k \in Kind /\ c \in Case /\ c.by = f /\ c.run = run[f]
    BY <1>1 DEF Job, SInv, JobsAreOwn
  <1>3. bitmap' = [bitmap EXCEPT ![k] = @ \cup c.diff \cup {Bit0}]
    BY DEF Sadd, readCovDiffFile
  <1>4. \A j \in Kind : \A d \in Owed(j) : d.by # f
    BY OwedBy DEF Sadd
  <1>5. \A d \in Cases(Queue(k)) : Corpus!SameRun(c, d) => c.diff \cap d.diff = {}
    BY <1>1, <1>2 DEF Corpus!SameRun, SInv, JobsAreNew
  <1>6. Owing' = [Owing EXCEPT ![k] = @ \cup {c}]
    BY <1>2, OwedGains DEF Owing
  <1>7. Stored' = Stored /\ cur' = cur
    <2>1. ~Lpush(f)
      BY DEF Sadd, Lpush
    <2>2. \A j \in Kind : Cases(Queue(j))' = Cases(Queue(j))
      BY <1>0, <2>1, QueuesKeep DEF SInv
    <2> QED
      BY <2>2 DEF Stored, Sadd
  <1>8. Owing' # Owing
    <2>1. c \notin Owing[k] /\ c \in Owing'[k]
      BY <1>2, <1>4, <1>6 DEF Owing
    <2> QED
      BY <2>1
  <1> HIDE DEF k, c
  <1>9. Corpus!Register(k, c)
    BY <1>2, <1>3, <1>4, <1>5, <1>6, <1>7 DEF Corpus!Register, Stored, Owing
  <1> QED
    BY <1>2, <1>8, <1>9 DEF Corpus!Report, Owing

(* The end of an insertion stores its test case or abandons it.            *)
LEMMA EndReports ==
    ASSUME SInv, NEW f \in Fuzzer, FuzzerNext(f), pc[f] = "lpush"
    PROVE  Corpus!Report
  <1> DEFINE k == job[f].kind
             c == job[f].case
  <1>1. job[f] # NoJob /\ job[f] \in Job
    BY DEF SInv, TypeOK, ControlType
  <1>2. k \in Kind /\ c \in Owed(k)
    BY <1>1 DEF Job, Owed
  <1>3. Lpush(f) \/ NodeDies(f) \/ Die(f)
    BY DEF FuzzerNext, Start, NextTestcase, NextNew, NextNone, NextOld, NextNothing,
           Test, PopulatePath, FuzzPath, Crash, PopulateSkip, HasInput, EndRound, Sadd
  <1>4. bitmap' = bitmap /\ cur' = cur
    BY <1>3 DEF Lpush, NodeDies, Die, redis
  <1>5. Owing' = [Owing EXCEPT ![k] = @ \ {c}]
    BY <1>2, OwedLoses DEF Owing
  <1>6. Owing' # Owing
    <2>1. c \in Owing[k] /\ c \notin Owing'[k]
      BY <1>2, <1>5 DEF Owing
    <2> QED
      BY <2>1
  <1>7. Stored' = IF Lpush(f) THEN [Stored EXCEPT ![k] = @ \cup {c}] ELSE Stored
    BY <1>2, QueuesKeep DEF SInv, Stored
  <1> HIDE DEF k, c
  <1>8. Corpus!Store(k, c) \/ Corpus!Abandon(k, c)
    BY <1>2, <1>4, <1>5, <1>7 DEF Corpus!Store, Corpus!Abandon, Stored, Owing
  <1> QED
    BY <1>2, <1>6, <1>8 DEF Corpus!Report, Owing

(* RPOPLPUSH hands a stored test case out, or the answer is lost.          *)
LEMMA NextHandsOut ==
    ASSUME SInv, NEW f \in Fuzzer, NextNew(f) \/ NextOld(f)
    PROVE  \/ cur' = cur
           \/ \E c \in Cases(Queue("path")) : cur' = [cur EXCEPT ![f] = c]
  <1>1. /\ newPaths \in Seq(Case) /\ oldPaths \in Seq(Case)
        /\ Cases(Queue("path")) = Cases(newPaths) \cup Cases(oldPaths)
    BY CasesConcat DEF SInv, TypeOK, QueueType, Queue
  <1>2. CASE NextNew(f)
    <2>1. newPaths[Len(newPaths)] \in Cases(newPaths)
      BY <1>1, <1>2, CasesPopped DEF NextNew
    <2> QED
      BY <1>1, <1>2, <2>1 DEF NextNew, Deliver
  <1>3. CASE NextOld(f)
    <2>1. oldPaths[Len(oldPaths)] \in Cases(oldPaths)
      BY <1>1, <1>3, CasesPopped DEF NextOld
    <2> QED
      BY <1>1, <1>3, <2>1 DEF NextOld, Deliver
  <1> QED
    BY <1>2, <1>3

(* Each step is one of the shared corpus, or none.                         *)
LEMMA StepImplements ==
    ASSUME SInv, NEW f \in Fuzzer, FuzzerNext(f)
    PROVE  Corpus!Next \/ UNCHANGED Corpus!vars
  <1>1. CASE Sadd(f)
    BY <1>1, SaddRegisters DEF Corpus!Next
  <1>2. CASE pc[f] = "lpush"
    BY <1>2, EndReports DEF Corpus!Next
  <1>3. CASE ~Sadd(f) /\ pc[f] # "lpush"
    <2>1. bitmap' = bitmap
      BY <1>3, MapFrame
    <2>2. Stored' = Stored
      BY <1>3, QueuesKeep DEF Stored, SInv, Lpush
    <2>3. Owing' = Owing
      BY <1>3, AtLpush, OwedKeeps DEF Owing, SInv
    <2>4. \/ cur' = cur
          \/ \E c \in Cases(Queue("path")) : cur' = [cur EXCEPT ![f] = c]
      <3>1. CASE NextNew(f) \/ NextOld(f)
        BY <3>1, NextHandsOut
      <3>2. CASE ~NextNew(f) /\ ~NextOld(f)
        BY <3>2 DEF FuzzerNext, Start, NextTestcase, NextNone, NextNothing, Test,
              PopulatePath, FuzzPath, Crash, PopulateSkip, Sadd, Lpush, EndRound,
              NodeDies, Die
      <3> QED
        BY <3>1, <3>2
    <2>5. CASE cur' = cur
      BY <2>1, <2>2, <2>3, <2>5 DEF Corpus!vars, Stored, Owing
    <2>6. ASSUME NEW c \in Cases(Queue("path")), cur' = [cur EXCEPT ![f] = c]
          PROVE  Corpus!Next
      <3>1. Corpus!HandOut(f, c)
        BY <2>1, <2>2, <2>3, <2>6 DEF Corpus!HandOut, Stored, Owing, Kind
      <3>2. c \in [k \in Kind |-> Cases(Queue(k))]["path"]
        BY <2>6 DEF Kind
      <3> QED
        BY <3>1, <3>2 DEF Corpus!Next
    <2> QED
      BY <2>4, <2>5, <2>6
  <1> QED
    BY <1>1, <1>2, <1>3

(* The redis protocol implements the shared corpus: what a fuzzer reports  *)
(* is new to its run, becomes known, and is then stored for good or given  *)
(* up half way; what is stored is handed out and never taken away.         *)
THEOREM Implements == Spec => ImplementsSharedCorpus
  <1>1. Init => Corpus!Init
    <2> SUFFICES ASSUME Init PROVE Corpus!Init
      OBVIOUS
    <2>1. \A k \in Kind : Cases(Queue(k)) = {} /\ Owed(k) = {}
      BY DEF Init, Queue, Cases, Owed
    <2> QED
      BY <2>1 DEF Init, Corpus!Init
  <1>2. SInv /\ [Next]_vars => [Corpus!Next]_(Corpus!vars)
    <2>1. ASSUME SInv, NEW f \in Fuzzer, FuzzerNext(f)
          PROVE  [Corpus!Next]_(Corpus!vars)
      BY <2>1, StepImplements
    <2>2. ASSUME UNCHANGED vars PROVE UNCHANGED Corpus!vars
      BY <2>2 DEF vars, redis, Corpus!vars, Queue, Cases, Owed
    <2> QED
      BY <2>1, <2>2 DEF Next
  <1> QED
    BY <1>1, <1>2, InitSInv, NextSInv, PTL
    DEF Spec, ImplementsSharedCorpus, Corpus!Spec

-----------------------------------------------------------------------------
(* ReportedOnce of a list; it survives when entries change their places.   *)
Once(q) ==
    \A i, j \in 1 .. Len(q) :
        i # j /\ q[i].by = q[j].by /\ q[i].run = q[j].run
        => q[i].diff \cap q[j].diff = {}

(* Moving entries without doubling one.                                    *)
LEMMA OnceMoved ==
    ASSUME NEW q, NEW r, Once(q), NEW from \in [1 .. Len(r) -> 1 .. Len(q)],
           \A i, j \in 1 .. Len(r) : i # j => from[i] # from[j],
           \A i \in 1 .. Len(r) : r[i] = q[from[i]]
    PROVE  Once(r)
  <1> SUFFICES ASSUME NEW i \in 1 .. Len(r), NEW j \in 1 .. Len(r), i # j,
                      r[i].by = r[j].by, r[i].run = r[j].run
               PROVE  r[i].diff \cap r[j].diff = {}
    BY DEF Once
  <1>1. from[i] \in 1 .. Len(q) /\ from[j] \in 1 .. Len(q) /\ from[i] # from[j]
    OBVIOUS
  <1>2. r[i] = q[from[i]] /\ r[j] = q[from[j]]
    OBVIOUS
  <1> QED
    BY <1>1, <1>2 DEF Once

(* LPUSH of a test case: it comes first, the others one place later.       *)
LEMMA PushedCase ==
    ASSUME NEW q \in Seq(Case), NEW c \in Case
    PROVE  /\ Pushed(c, q) \in Seq(Case) /\ Len(Pushed(c, q)) = Len(q) + 1
           /\ Pushed(c, q)[1] = c
           /\ \A i \in 1 .. Len(q) : Pushed(c, q)[i + 1] = q[i]
  BY DEF Pushed

(* Adding an entry that shares no bit with those of its run.               *)
LEMMA OncePushed ==
    ASSUME NEW q \in Seq(Case), Once(q), NEW c \in Case,
           \A d \in Cases(q) :
               d.by = c.by /\ d.run = c.run => c.diff \cap d.diff = {}
    PROVE  Once(Pushed(c, q))
  <1> DEFINE r == Pushed(c, q)
  <1>1. /\ Len(q) \in Nat /\ Len(r) = Len(q) + 1 /\ r[1] = c
        /\ \A i \in 1 .. Len(q) : r[i + 1] = q[i]
    <2>1. /\ Len(Pushed(c, q)) = Len(q) + 1 /\ Pushed(c, q)[1] = c
          /\ \A i \in 1 .. Len(q) : Pushed(c, q)[i + 1] = q[i]
      BY PushedCase
    <2>2. Len(q) \in Nat
      BY LenProperties
    <2> QED
      BY <2>1, <2>2
  <1> HIDE DEF r
  <1>2. \A i \in 1 .. Len(r) : i # 1 => i - 1 \in 1 .. Len(q) /\ r[i] = q[i - 1]
    <2> SUFFICES ASSUME NEW i \in 1 .. Len(r), i # 1
                 PROVE  i - 1 \in 1 .. Len(q) /\ r[i] = q[i - 1]
      OBVIOUS
    <2>1. i - 1 \in 1 .. Len(q) /\ (i - 1) + 1 = i
      BY <1>1
    <2> QED
      BY <1>1, <2>1
  <1> SUFFICES ASSUME NEW i \in 1 .. Len(r), NEW j \in 1 .. Len(r), i # j,
                      r[i].by = r[j].by, r[i].run = r[j].run
               PROVE  r[i].diff \cap r[j].diff = {}
    BY DEF Once, r
  <1>3. CASE i # 1 /\ j # 1
    <2>1. /\ i - 1 \in 1 .. Len(q) /\ r[i] = q[i - 1]
          /\ j - 1 \in 1 .. Len(q) /\ r[j] = q[j - 1] /\ i - 1 # j - 1
      BY <1>1, <1>2, <1>3
    <2> QED
      BY <2>1 DEF Once
  <1>4. CASE i = 1
    <2>1. j - 1 \in 1 .. Len(q) /\ r[j] = q[j - 1] /\ r[i] = c
      BY <1>1, <1>2, <1>4
    <2>2. r[j] \in Cases(q)
      BY <2>1 DEF Cases
    <2> QED
      BY <2>1, <2>2
  <1>5. CASE j = 1
    <2>1. i - 1 \in 1 .. Len(q) /\ r[i] = q[i - 1] /\ r[j] = c
      BY <1>1, <1>2, <1>5
    <2>2. r[i] \in Cases(q)
      BY <2>1 DEF Cases
    <2> QED
      BY <2>1, <2>2
  <1> QED
    BY <1>3, <1>4, <1>5

(* Two lists, one after the other, entry by entry.                         *)
LEMMA Joined ==
    ASSUME NEW p \in Seq(Case), NEW q \in Seq(Case)
    PROVE  /\ p \o q \in Seq(Case) /\ Len(p) \in Nat /\ Len(q) \in Nat
           /\ Len(p \o q) = Len(p) + Len(q)
           /\ \A i \in 1 .. Len(p) + Len(q) :
                 (p \o q)[i] = IF i <= Len(p) THEN p[i] ELSE q[i - Len(p)]
  BY ConcatProperties, LenProperties

(* LPUSH: the new test case comes before all the others.                   *)
LEMMA PushJoined ==
    ASSUME NEW p \in Seq(Case), NEW q \in Seq(Case), NEW c \in Case
    PROVE  Pushed(c, p) \o q = Pushed(c, p \o q)
  <1>1. <<c>> \in Seq(Case)
    OBVIOUS
  <1> QED
    BY <1>1, ConcatAssociative DEF Pushed

(* RPOPLPUSH from one list to the other: the two together stay as they are.*)
LEMMA MovedOver ==
    ASSUME NEW p \in Seq(Case), NEW q \in Seq(Case), p # <<>>, Once(p \o q)
    PROVE  Once(Popped(p) \o Pushed(p[Len(p)], q))
  <1> DEFINE c == p[Len(p)]
             s == Popped(p)
             t == Pushed(c, q)
  <1>1. /\ s \in Seq(Case) /\ c \in Case /\ Len(s) = Len(p) - 1
        /\ \A i \in 1 .. Len(p) - 1 : s[i] = p[i]
    BY PoppedType
  <1> HIDE DEF s
  <1>2. /\ t \in Seq(Case) /\ Len(t) = Len(q) + 1 /\ t[1] = c
        /\ \A i \in 1 .. Len(q) : t[i + 1] = q[i]
    <2> HIDE DEF c
    <2>1. c \in Case /\ q \in Seq(Case)
      BY <1>1
    <2>2. /\ Pushed(c, q) \in Seq(Case) /\ Len(Pushed(c, q)) = Len(q) + 1
          /\ Pushed(c, q)[1] = c
          /\ \A i \in 1 .. Len(q) : Pushed(c, q)[i + 1] = q[i]
      BY <2>1, PushedCase
    <2> QED
      BY <2>2
  <1> HIDE DEF t
  <1>3. /\ Len(s \o t) = Len(s) + Len(t)
        /\ \A i \in 1 .. Len(s) + Len(t) :
              (s \o t)[i] = IF i <= Len(s) THEN s[i] ELSE t[i - Len(s)]
    BY <1>1, <1>2, Joined
  <1>4. /\ Len(p \o q) = Len(p) + Len(q) /\ Len(p) \in Nat /\ Len(q) \in Nat
        /\ \A i \in 1 .. Len(p) + Len(q) :
              (p \o q)[i] = IF i <= Len(p) THEN p[i] ELSE q[i - Len(p)]
    BY Joined
  <1> DEFINE n == Len(p)
             m == Len(q)
             from == [i \in 1 .. n + m |-> i]
  <1>5. Len(s \o t) = n + m
    BY <1>1, <1>2, <1>3, <1>4
  <1>6. ASSUME NEW i \in 1 .. n + m PROVE (s \o t)[i] = (p \o q)[i]
    <2>1. CASE i <= n - 1
      BY <1>1, <1>2, <1>3, <1>4, <2>1
    <2>2. CASE i = n
      BY <1>1, <1>2, <1>3, <1>4, <2>2 DEF c
    <2>3. CASE i > n
      <3>1. i - n \in 1 .. m /\ i - Len(s) = (i - n) + 1
        BY <1>1, <1>4, <2>3
      <3>2. t[i - Len(s)] = q[i - n]
        BY <1>2, <3>1
      <3> QED
        BY <1>1, <1>2, <1>3, <1>4, <2>3, <3>2
    <2>4. n \in Nat /\ m \in Nat
      BY <1>4
    <2> HIDE DEF n, m
    <2>5. i <= n - 1 \/ i = n \/ i > n
      BY <2>4
    <2> QED
      BY <2>1, <2>2, <2>3, <2>5
  <1>7. Once(s \o t)
    <2> DEFINE u == s \o t
               v == p \o q
               k == n + m
    <2>1. Len(u) = k /\ Len(v) = k /\ Once(v) /\ \A i \in 1 .. k : u[i] = v[i]
      BY <1>4, <1>5, <1>6
    <2> HIDE DEF u, v, k
    <2>2. Once(u)
      BY <2>1 DEF Once
    <2> QED
      BY <2>2 DEF u
  <1> QED
    BY <1>7, Zenon DEF s, t

(* RPOPLPUSH of a list to itself: the last entry comes before the others.  *)
LEMMA Rotated ==
    ASSUME NEW p \in Seq(Case), NEW q \in Seq(Case), q # <<>>, Once(p \o q)
    PROVE  Once(p \o Pushed(q[Len(q)], Popped(q)))
  <1> DEFINE c == q[Len(q)]
             s == Popped(q)
             t == Pushed(c, s)
             n == Len(p)
             m == Len(q)
  <1>1. /\ s \in Seq(Case) /\ c \in Case /\ Len(s) = m - 1
        /\ \A i \in 1 .. m - 1 : s[i] = q[i]
    BY PoppedType
  <1> HIDE DEF s
  <1>2. /\ t \in Seq(Case) /\ Len(t) = Len(s) + 1 /\ t[1] = c
        /\ \A i \in 1 .. Len(s) : t[i + 1] = s[i]
    <2> HIDE DEF c
    <2>1. c \in Case /\ s \in Seq(Case)
      BY <1>1
    <2>2. /\ Pushed(c, s) \in Seq(Case) /\ Len(Pushed(c, s)) = Len(s) + 1
          /\ Pushed(c, s)[1] = c
          /\ \A i \in 1 .. Len(s) : Pushed(c, s)[i + 1] = s[i]
      BY <2>1, PushedCase
    <2> QED
      BY <2>2
  <1> HIDE DEF t
  <1>3. /\ Len(p \o t) = n + Len(t)
        /\ \A i \in 1 .. n + Len(t) :
              (p \o t)[i] = IF i <= n THEN p[i] ELSE t[i - n]
    BY <1>2, Joined
  <1>4. /\ Len(p \o q) = n + m /\ n \in Nat /\ m \in Nat /\ m # 0
        /\ \A i \in 1 .. n + m :
              (p \o q)[i] = IF i <= n THEN p[i] ELSE q[i - n]
    BY Joined, EmptySeq
  <1>5. Len(p \o t) = n + m
    BY <1>1, <1>2, <1>3, <1>4
  <1> DEFINE from == [i \in 1 .. n + m |->
                         IF i <= n THEN i ELSE IF i = n + 1 THEN n + m ELSE i - 1]
  <1>6. ASSUME NEW i \in 1 .. n + m PROVE (p \o t)[i] = (p \o q)[from[i]]
    <2>1. CASE i <= n
      BY <1>3, <1>4, <1>5, <2>1
    <2>2. CASE i = n + 1
      <3>1. from[i] = n + m /\ (p \o q)[n + m] = q[m]
        BY <1>4, <2>2
      <3>2. (p \o t)[i] = t[1]
        BY <1>3, <1>4, <1>5, <2>2
      <3> QED
        BY <1>2, <3>1, <3>2 DEF c
    <2>3. CASE i > n + 1
      <3> DEFINE h == i - n - 1
      <3>1. /\ h \in 1 .. m - 1 /\ i - n = h + 1 /\ from[i] = i - 1
            /\ (i - 1) - n = h /\ i - 1 \in 1 .. n + m /\ ~(i - 1 <= n)
        BY <1>4, <2>3
      <3>2. (p \o t)[i] = t[h + 1]
        BY <1>3, <1>4, <1>5, <2>3, <3>1
      <3>3. (p \o q)[from[i]] = q[h]
        BY <1>4, <3>1
      <3> HIDE DEF h
      <3>4. t[h + 1] = s[h] /\ s[h] = q[h]
        BY <1>1, <1>2, <3>1
      <3> QED
        BY <3>2, <3>3, <3>4
    <2>4. n \in Nat /\ m \in Nat
      BY <1>4
    <2> HIDE DEF n, m
    <2>5. i <= n \/ i = n + 1 \/ i > n + 1
      BY <2>4
    <2> QED
      BY <2>1, <2>2, <2>3, <2>5
  <1>7. from \in [1 .. Len(p \o t) -> 1 .. Len(p \o q)]
    BY <1>4, <1>5
  <1>8. \A i, j \in 1 .. Len(p \o t) : i # j => from[i] # from[j]
    BY <1>4, <1>5
  <1> HIDE DEF from
  <1>9. Once(p \o t)
    BY <1>5, <1>6, <1>7, <1>8, OnceMoved
  <1> QED
    BY <1>9 DEF t, s

(* Each step keeps the two queues free of repetitions.                     *)
LEMMA OnceStep ==
    ASSUME SInv, \A k \in Kind : Once(Queue(k)), NEW f \in Fuzzer, FuzzerNext(f)
    PROVE  \A k \in Kind : Once(Queue(k)')
  <1>1. /\ TypeOK /\ newPaths \in Seq(Case) /\ oldPaths \in Seq(Case)
        /\ crashQueue \in Seq(Case)
    BY DEF SInv, TypeOK, QueueType
  <1>2. Once(newPaths \o oldPaths) /\ Once(crashQueue)
    BY DEF Queue, Kind
  <1> SUFFICES Once(newPaths' \o oldPaths') /\ Once(crashQueue')
    BY DEF Queue, Kind
  <1>3. CASE Lpush(f)
    <2> DEFINE c == job[f].case
               k == job[f].kind
    <2>1. job[f] # NoJob /\ job[f] \in Job
      BY <1>1, <1>3 DEF Lpush, TypeOK, ControlType
    <2>2. c \in Case /\ k \in Kind /\ c.by = f /\ c.run = run[f]
      BY <2>1 DEF Job, SInv, JobsAreOwn
    <2>3. \A d \in Cases(Queue(k)) :
             d.by = c.by /\ d.run = c.run => c.diff \cap d.diff = {}
      BY <2>1, <2>2 DEF SInv, JobsAreNew
    <2>4. CASE k = "path"
      <3>1. newPaths' = Pushed(c, newPaths) /\ UNCHANGED <<oldPaths, crashQueue>>
        BY <1>3, <2>4 DEF Lpush
      <3>2. Queue(k) = newPaths \o oldPaths
        BY <2>4 DEF Queue
      <3> HIDE DEF c, k
      <3>3. newPaths \o oldPaths \in Seq(Case)
        BY <1>1, ConcatProperties
      <3>4. Once(Pushed(c, newPaths \o oldPaths))
        BY <1>2, <2>2, <2>3, <3>2, <3>3, OncePushed
      <3>5. newPaths' \o oldPaths' = Pushed(c, newPaths \o oldPaths)
        BY <1>1, <2>2, <3>1, PushJoined
      <3> QED
        BY <1>2, <3>1, <3>4, <3>5
    <2>5. CASE k # "path"
      <3>1. /\ crashQueue' = Pushed(c, crashQueue)
            /\ UNCHANGED <<oldPaths, newPaths>>
        BY <1>3, <2>5 DEF Lpush
      <3>2. Queue(k) = crashQueue
        BY <2>5 DEF Queue
      <3> HIDE DEF c, k
      <3>3. Once(Pushed(c, crashQueue))
        BY <1>1, <1>2, <2>2, <2>3, <3>2, OncePushed
      <3> QED
        BY <1>2, <3>1, <3>3
    <2> QED
      BY <2>4, <2>5
  <1>4. CASE NextNew(f)
    <2>1. /\ newPaths # <<>> /\ newPaths' = Popped(newPaths)
          /\ oldPaths' = Pushed(newPaths[Len(newPaths)], oldPaths)
          /\ UNCHANGED crashQueue
      BY <1>4 DEF NextNew
    <2>2. Once(Popped(newPaths) \o Pushed(newPaths[Len(newPaths)], oldPaths))
      BY <1>1, <1>2, <2>1, MovedOver
    <2> QED
      BY <1>2, <2>1, <2>2
  <1>5. CASE NextOld(f)
    <2>1. /\ oldPaths # <<>>
          /\ oldPaths' = Pushed(oldPaths[Len(oldPaths)], Popped(oldPaths))
          /\ UNCHANGED <<newPaths, crashQueue>>
      BY <1>5 DEF NextOld
    <2>2. Once(newPaths \o Pushed(oldPaths[Len(oldPaths)], Popped(oldPaths)))
      BY <1>1, <1>2, <2>1, Rotated
    <2> QED
      BY <1>2, <2>1, <2>2
  <1>6. CASE UNCHANGED <<newPaths, oldPaths, crashQueue>>
    BY <1>2, <1>6
  <1>7. \/ Lpush(f) \/ NextNew(f) \/ NextOld(f)
        \/ UNCHANGED <<newPaths, oldPaths, crashQueue>>
    BY DEF FuzzerNext, Start, NextTestcase, NextNone, NextNothing, Test,
           PopulatePath, FuzzPath, Crash, PopulateSkip, Sadd, EndRound,
           NodeDies, Die, redis
  <1> QED
    BY <1>3, <1>4, <1>5, <1>6, <1>7

(* A run of a fuzzer never queues a bit twice, however the fuzzers race    *)
(* between the download of the map and SADD and wherever they are killed.  *)
THEOREM ReportedOnceAlways == Spec => []ReportedOnce
  <1> DEFINE OInv == SInv /\ \A k \in Kind : Once(Queue(k))
  <1>1. Init => OInv
    BY InitSInv DEF Init, Queue, Once
  <1>2. OInv /\ [Next]_vars => OInv'
    <2>1. ASSUME OInv, NEW f \in Fuzzer, FuzzerNext(f) PROVE OInv'
      <3>1. Next
        BY <2>1 DEF Next
      <3> QED
        BY <2>1, <3>1, OnceStep, NextSInv DEF Queue
    <2>2. ASSUME OInv, UNCHANGED vars PROVE OInv'
      <3>1. \A k \in Kind : Queue(k)' = Queue(k)
        BY <2>2 DEF vars, redis, Queue
      <3> QED
        BY <2>2, <3>1, NextSInv DEF Once
    <2> QED
      BY <2>1, <2>2 DEF Next
  <1>3. OInv => ReportedOnce
    BY DEF Once, ReportedOnce
  <1> QED
    BY <1>1, <1>2, <1>3, PTL DEF Spec
=============================================================================
