---------------------------- MODULE OutDir_proofs ----------------------------
(***************************************************************************)
(* Type correctness of the output directory and the processes around it;   *)
(* that a process that cleans, builds or fills it is alone there, meets no *)
(* directory that it would make, and loses neither what an earlier session *)
(* found nor its crashes: for any number of processes, of starts and of    *)
(* things to find.                                                         *)
(***************************************************************************)
EXTENDS OutDir, TLAPS

(* The three ways to go on keep the places, the reasons and the lock.      *)
LEMMA ThenPlace ==
    ASSUME PlaceOK, NEW p \in Proc, NEW l \in Place, Then(p, l)
    PROVE  PlaceOK'
BY DEF PlaceOK, Then, Goto

LEMMA EndPlace ==
    ASSUME PlaceOK, NEW p \in Proc, End(p), UNCHANGED why
    PROVE  PlaceOK'
<1>1. "off" \in Place  BY DEF Place
<1>2. QED  BY <1>1 DEF PlaceOK, End, Goto

LEMMA FailPlace ==
    ASSUME PlaceOK, NEW p \in Proc, NEW r \in Reason, Fail(p, r)
    PROVE  PlaceOK'
<1>1. "off" \in Place  BY DEF Place
<1>2. QED  BY <1>1 DEF PlaceOK, Fail, End, Goto

(* What the code names is a place or a reason.                             *)
LEMMA Names ==
    /\ Owning \subseteq Place /\ {"off", "mkOut", "lock", "lockNew"} \subseteq Place
    /\ {"judge", "move", "state", "queue", "saveCrashes", "crashes",
         "saveHangs", "hangs", "dropStats", "dropPlot"} \subseteq Owning
    /\ {"mkQueue", "mkState", "mkCrashes", "mkHangs", "mkPlot"} \subseteq Owning
    /\ {"stats", "close", "loop", "system", "lastStats", "lastClose",
         "lastSystem"} \subseteq Owning
BY DEF Place, Owning, Cleanup, Setup, Running, Helping

-----------------------------------------------------------------------------
(* Each action keeps the places right.                                     *)
LEMMA NextPlace ==
    ASSUME PlaceOK, ProcOK, NEW p \in Proc, ProcNext(p)
    PROVE  PlaceOK'
<1>0. USE Names
<1>1. CASE Start(p)
  <2>1. PlaceOK /\ "mkOut" \in Place /\ "nothing" \in Reason
    BY DEF Reason
  <2>2. QED  BY <1>1, <2>1 DEF Start, PlaceOK, Goto
<1>2. CASE MkOut(p)
  <2>1. "no directory" \in Reason  BY DEF Reason
  <2>2. QED  BY <1>2, <2>1, ThenPlace, FailPlace DEF MkOut
<1>3. CASE Lock(p)
  <2>1. CASE Free
    <3>1. UNCHANGED why /\ lock' = lock \cup {p}
      BY <1>3, <2>1 DEF Lock
    <3>2. pc' = [pc EXCEPT ![p] = "judge"] \/ pc' = [pc EXCEPT ![p] = "mkQueue"]
      BY <1>3, <2>1 DEF Lock, Goto
    <3>3. QED  BY <3>1, <3>2 DEF PlaceOK
  <2>2. CASE ~Free
    <3>1. "in use" \in Reason  BY DEF Reason
    <3>2. Fail(p, "in use")  BY <1>3, <2>2 DEF Lock
    <3>3. QED  BY <3>1, <3>2, FailPlace
  <2>3. QED  BY <2>1, <2>2
<1>4. CASE Judge(p)
  <2>1. {"malformed", "at risk"} \subseteq Reason  BY DEF Reason
  <2>2. \/ Fail(p, "malformed") \/ Fail(p, "at risk")
        \/ Then(p, "move") \/ Then(p, "state")
    BY <1>4 DEF Judge
  <2>3. QED  BY <2>1, <2>2, ThenPlace, FailPlace
<1>5. CASE Move(p) \/ RmState(p) \/ SaveCrashes(p) \/ SaveHangs(p)
           \/ DropStats(p) \/ DropPlot(p) \/ Update(p) \/ System(p) \/ Stop(p)
  <2>1. \E l \in Owning : Then(p, l)
    BY <1>5 DEF Move, RmState, SaveCrashes, SaveHangs, DropStats, DropPlot,
                Update, System, Stop
  <2>2. QED  BY <2>1, ThenPlace
<1>6. CASE TruncStats(p) \/ CloseStats(p)
  <2>1. Then(p, "close") \/ Then(p, "lastClose")
        \/ Then(p, "system") \/ Then(p, "lastSystem")
    BY <1>6 DEF TruncStats, CloseStats
  <2>2. QED  BY <2>1, ThenPlace
<1>7. CASE Unlink(p) \/ Age(p) \/ Keep(p)
  BY <1>7 DEF Unlink, Age, Keep, PlaceOK
<1>8. CASE Rmdir(p)
  <2>1. \/ Fail(p, "cleanup") \/ Then(p, "saveCrashes")
        \/ Then(p, "saveHangs") \/ Then(p, "dropStats")
    BY <1>8 DEF Rmdir, AfterRmdir
  <2>2. "cleanup" \in Reason  BY DEF Reason
  <2>3. QED  BY <2>1, <2>2, ThenPlace, FailPlace
<1>9. CASE MakeDirs(p)
  <2>1. \/ Fail(p, "mkdir") \/ Then(p, "mkState") \/ Then(p, "mkCrashes")
        \/ Then(p, "mkHangs") \/ Then(p, "mkPlot") \/ Then(p, "stats")
    <3>1. ASSUME NEW at, NEW d, NEW l, Mkdir(p, at, d, l)
          PROVE  Fail(p, "mkdir") \/ Then(p, l)
      BY <3>1 DEF Mkdir
    <3>2. CASE MkState(p) \/ MkPlot(p)  BY <3>2 DEF MkState, MkPlot
    <3>3. QED  BY <1>9, <3>1, <3>2 DEF MakeDirs
  <2>2. "mkdir" \in Reason  BY DEF Reason
  <2>3. QED  BY <2>1, <2>2, ThenPlace, FailPlace
<1>10. CASE HelperEnds(p)
  <2>1. \/ Then(p, "loop") \/ (End(p) /\ UNCHANGED why)
        \/ UNCHANGED <<pc, lock, why>>
    BY <1>10 DEF HelperEnds
  <2>2. CASE UNCHANGED <<pc, lock, why>>  BY <2>2 DEF PlaceOK
  <2>3. QED  BY <2>1, <2>2, ThenPlace, EndPlace
<1>11. CASE KeepReadme(p) \/ Die(p)
  BY <1>11, EndPlace DEF KeepReadme, Die
<1>12. CASE Finish(p)
  <2>1. "no _resume" \in Reason  BY DEF Reason
  <2>2. Fail(p, "no _resume") \/ (End(p) /\ UNCHANGED why)
    BY <1>12 DEF Finish
  <2>3. QED  BY <2>1, <2>2, EndPlace, FailPlace
<1>13. QED
  BY <1>1, <1>2, <1>3, <1>4, <1>5, <1>6, <1>7, <1>8, <1>9, <1>10, <1>11,
     <1>12 DEF ProcNext

(* Each action keeps what else is kept of the processes.                   *)
LEMMA NextProc ==
    ASSUME ProcOK, NEW p \in Proc, ProcNext(p)
    PROVE  ProcOK'
<1>1. CASE Start(p)
  <2>1. Head(plan) \in Mode /\ Tail(plan) \in Seq(Mode)
    BY <1>1 DEF Start, ProcOK
  <2>2. QED  BY <1>1, <2>1 DEF Start, ProcOK
<1>2. CASE Lock(p)  BY <1>2 DEF Lock, ProcOK
<1>3. CASE CloseStats(p) \/ Age(p) \/ System(p) \/ HelperEnds(p)
  BY <1>3 DEF CloseStats, Age, System, HelperEnds, ProcOK
<1>4. ASSUME ~Start(p), ~Lock(p), ~CloseStats(p), ~Age(p), ~System(p),
             ~HelperEnds(p)
      PROVE  ProcOK'
  <2>1. UNCHANGED <<plan, mode, old, cleans, helper>>
    BY <1>4 DEF ProcNext, MkOut, Judge, Move, RmState, Unlink, Rmdir,
         SaveCrashes, SaveHangs, DropStats, DropPlot, MakeDirs, Mkdir,
         MkState, MkPlot, TruncStats, Update, Keep, KeepReadme, Stop, Finish,
         Die
  <2>2. QED  BY <2>1 DEF ProcOK
<1>5. QED  BY <1>1, <1>2, <1>3, <1>4

(* Each action keeps the directory right.                                  *)
LEMMA NextDisk ==
    ASSUME DiskOK, NEW p \in Proc, ProcNext(p)
    PROVE  DiskOK'
<1>0. USE DEF Dir
<1>1. CASE MkOut(p) \/ DropStats(p) \/ DropPlot(p) \/ TruncStats(p)
           \/ RmState(p) \/ KeepReadme(p)
  BY <1>1 DEF MkOut, DropStats, DropPlot, TruncStats, RmState, KeepReadme, DiskOK
<1>2. CASE Move(p)
  <2>1. CASE Movable
    <3>1. exists' \subseteq Dir /\ state' \subseteq {"queue", "_resume"}
      BY <1>2, <2>1 DEF Move, DiskOK
    <3>2. files' \in [Dir -> SUBSET Find]
      BY <1>2, <2>1 DEF Move, DiskOK
    <3>3. QED  BY <1>2, <3>1, <3>2 DEF Move, DiskOK
  <2>2. CASE ~Movable  BY <1>2, <2>2 DEF Move, DiskOK
  <2>3. QED  BY <2>1, <2>2
<1>3. CASE Unlink(p)
  <2>1. files' \in [Dir -> SUBSET Find]  BY <1>3 DEF Unlink, DiskOK
  <2>2. QED  BY <1>3, <2>1 DEF Unlink, DiskOK
<1>4. CASE Rmdir(p)  BY <1>4 DEF Rmdir, DiskOK
<1>5. CASE SaveCrashes(p) \/ SaveHangs(p)
  <2>1. /\ files' \in [Dir -> SUBSET Find]
        /\ backup' \subseteq Find /\ exists' \subseteq Dir
    BY <1>5 DEF SaveCrashes, SaveHangs, DiskOK
  <2>2. QED  BY <1>5, <2>1 DEF SaveCrashes, SaveHangs, DiskOK
<1>6. CASE MakeDirs(p)
  <2>1. exists' \subseteq Dir /\ state' \subseteq {"queue", "_resume"}
    BY <1>6 DEF MakeDirs, Mkdir, MkState, MkPlot, DiskOK
  <2>2. plot' \in BOOLEAN
    BY <1>6 DEF MakeDirs, Mkdir, MkState, MkPlot, DiskOK
  <2>3. UNCHANGED <<out, readme, stats, files, backup, aged>>
    BY <1>6 DEF MakeDirs, Mkdir, MkState, MkPlot
  <2>4. QED  BY <2>1, <2>2, <2>3 DEF DiskOK
<1>7. CASE CloseStats(p)
  <2>1. Present \subseteq Find  BY DEF Present, DiskOK
  <2>2. QED  BY <1>7, <2>1 DEF CloseStats, DiskOK
<1>8. CASE Keep(p)
  <2>1. Candidates(p) \subseteq Find  BY DEF Candidates, DiskOK
  <2>2. PICK c \in Candidates(p), d \in Dir \ {"_resume"} :
          /\ files' = [files EXCEPT ![d] = @ \cup {c}]
          /\ readme' = (readme \/ d = "crashes")
    BY <1>8 DEF Keep
  <2>3. files' \in [Dir -> SUBSET Find]  BY <2>1, <2>2 DEF DiskOK
  <2>4. QED  BY <1>8, <2>2, <2>3 DEF Keep, DiskOK
<1>9. ASSUME \/ Start(p) \/ Lock(p) \/ Judge(p) \/ Update(p) \/ Age(p)
             \/ System(p) \/ HelperEnds(p) \/ Stop(p) \/ Finish(p) \/ Die(p)
      PROVE  DiskOK'
  <2>1. UNCHANGED <<disk, aged>>
    BY <1>9 DEF Start, Lock, Judge, Update, Age, System, HelperEnds, Stop,
                Finish, Die
  <2>2. QED  BY <2>1 DEF disk, DiskOK
<1>10. QED
  BY <1>1, <1>2, <1>3, <1>4, <1>5, <1>6, <1>7, <1>8, <1>9 DEF ProcNext

(* Type correctness.                                                       *)
THEOREM TypeCorrect == Spec => []TypeOK
<1>1. Init => TypeOK
  <2>1. "off" \in Place /\ "nothing" \in Reason /\ "fuzz" \in Mode
    BY DEF Place, Reason, Mode
  <2>2. ASSUME Init PROVE DiskOK  BY <2>2 DEF Init, DiskOK
  <2>3. ASSUME Init PROVE PlaceOK  BY <2>1, <2>3 DEF Init, PlaceOK
  <2>4. ASSUME Init PROVE ProcOK
    BY <2>1, <2>4, OutDirAssumption DEF OutDirAssumption, Init, ProcOK
  <2>5. QED  BY <2>2, <2>3, <2>4 DEF TypeOK
<1>2. TypeOK /\ [Next]_vars => TypeOK'
  <2>1. ASSUME TypeOK, Next PROVE TypeOK'
    BY <2>1, NextPlace, NextProc, NextDisk DEF Next, TypeOK
  <2>2. ASSUME TypeOK, UNCHANGED vars PROVE TypeOK'
    BY <2>2 DEF vars, disk, TypeOK, DiskOK, PlaceOK, ProcOK
  <2>3. QED  BY <2>1, <2>2
<1>3. QED  BY <1>1, <1>2, PTL DEF Spec

-----------------------------------------------------------------------------
(* Whoever is at work holds the lock and nobody else does; no program that *)
(* another process started is left; one's own runs only while one waits.   *)
OneOwner ==
    /\ lock = {p \in Proc : pc[p] \in Owning}
    /\ \A p, q \in Proc : pc[p] \in Owning /\ pc[q] \in Owning => p = q
    /\ \A p, q \in Proc : pc[p] \in Owning /\ q \in helper => q = p
    /\ \A p \in helper : pc[p] \in Owning => pc[p] \in Helping

LEMMA OneOwnerSuffices == ASSUME TypeOK, OneOwner PROVE OwnerIsAlone
BY DEF TypeOK, ProcOK, OneOwner, OwnerIsAlone, Alone

(* A process at work goes on with nothing running for it, ...              *)
Works(p) ==
    /\ pc[p] \in Owning \ Helping
    /\ \/ pc' = pc
       \/ \E l \in Owning \ Helping : Goto(p, l)
    /\ UNCHANGED <<lock, helper>>

(* ... or asks for help, ...                                               *)
Asks(p) ==
    /\ pc[p] \in Owning \ Helping
    /\ \E l \in Helping : Goto(p, l)
    /\ helper' = helper \cup {p}
    /\ lock' = lock

(* ... or has got it and goes on, ...                                      *)
Helped(p) ==
    /\ pc[p] \in Owning
    /\ \E l \in Owning : Goto(p, l)
    /\ helper' = helper \ {p}
    /\ lock' = lock

(* ... or ends, with or without its helper.                                *)
Ends(p) == End(p) /\ helper' \in {helper, helper \ {p}}

(* Others prepare to start, or get the lock.                               *)
Prepares(p) ==
    /\ pc[p] \notin Owning
    /\ \E l \in Place \ Owning : Goto(p, l)
    /\ UNCHANGED <<lock, helper>>

Locks(p) ==
    /\ Free
    /\ lock' = {p}
    /\ \E l \in Owning \ Helping : Goto(p, l)
    /\ helper' = helper

(* The helper of a process that was killed ends.                           *)
Orphan(p) == helper' = helper \ {p} /\ UNCHANGED <<pc, lock>>

(* Which places are which.                                                 *)
LEMMA Kinds ==
    /\ Cleanup \cup Setup \cup {"stats", "close", "loop", "lastStats", "lastClose"}
       = Owning \ Helping
    /\ Helping \subseteq Owning
    /\ {"off", "mkOut", "lock", "lockNew"} \subseteq Place \ Owning
BY DEF Place, Owning, Cleanup, Setup, Running, Helping

(* Every step is of one of these kinds.                                    *)
LEMMA StepKinds ==
    ASSUME PlaceOK, NEW p \in Proc, ProcNext(p)
    PROVE  \/ Works(p) \/ Asks(p) \/ Helped(p) \/ Ends(p)
           \/ Prepares(p) \/ Locks(p) \/ Orphan(p)
<1>0. USE Kinds
<1>1. CASE Start(p) \/ MkOut(p)
  <2>1. Prepares(p) \/ Ends(p)
    BY <1>1 DEF Start, MkOut, Then, Fail, Ends, Prepares
  <2>2. QED  BY <2>1
<1>2. CASE Lock(p)
  <2>1. CASE Free
    <3>1. Goto(p, "judge") \/ Goto(p, "mkQueue")  BY <1>2, <2>1 DEF Lock
    <3>2. {"judge", "mkQueue"} \subseteq Owning \ Helping
      BY DEF Cleanup, Setup
    <3>3. lock' = {p} /\ helper' = helper
      BY <1>2, <2>1 DEF Lock, Free
    <3>4. QED  BY <2>1, <3>1, <3>2, <3>3 DEF Locks
  <2>2. CASE ~Free  BY <1>2, <2>2 DEF Lock, Fail, Ends
  <2>3. QED  BY <2>1, <2>2
<1>3. CASE Judge(p) \/ Move(p) \/ RmState(p) \/ SaveCrashes(p)
           \/ SaveHangs(p) \/ DropStats(p) \/ DropPlot(p)
  <2>1. /\ pc[p] \in Cleanup /\ helper' = helper
        /\ \/ \E l \in Cleanup \cup Setup : Goto(p, l) /\ lock' = lock
           \/ End(p)
    BY <1>3 DEF Judge, Move, RmState, SaveCrashes, SaveHangs, DropStats,
                DropPlot, Then, Fail, Cleanup, Setup
  <2>2. QED  BY <2>1 DEF Works, Ends
<1>4. CASE Unlink(p) \/ Rmdir(p)
  <2>1. /\ pc[p] \in Cleanup /\ helper' = helper
        /\ \/ UNCHANGED <<pc, lock>>
           \/ \E l \in Cleanup : Goto(p, l) /\ lock' = lock
           \/ End(p)
    BY <1>4 DEF Unlink, Rmdir, AfterRmdir, Then, Fail, Cleanup
  <2>2. QED  BY <2>1 DEF Works, Ends
<1>5. CASE MakeDirs(p)
  <2>1. /\ pc[p] \in Setup /\ helper' = helper
        /\ \/ \E l \in Setup \cup {"stats"} : Goto(p, l) /\ lock' = lock
           \/ End(p)
    <3>1. ASSUME NEW at \in Setup, NEW d, NEW l \in Setup, Mkdir(p, at, d, l)
          PROVE  /\ pc[p] \in Setup /\ helper' = helper
                 /\ \/ Goto(p, l) /\ lock' = lock
                    \/ End(p)
      BY <3>1 DEF Mkdir, Then, Fail
    <3>2. {"mkQueue", "mkState", "mkCrashes", "mkHangs", "mkPlot"} = Setup
      BY DEF Setup
    <3>3. CASE MkState(p)  BY <3>2, <3>3 DEF MkState, Then, Fail
    <3>4. CASE MkPlot(p)  BY <3>2, <3>4 DEF MkPlot, Then, Fail
    <3>5. CASE \/ Mkdir(p, "mkQueue", "queue", "mkState")
               \/ Mkdir(p, "mkCrashes", "crashes", "mkHangs")
               \/ Mkdir(p, "mkHangs", "hangs", "mkPlot")
      BY <3>1, <3>2, <3>5
    <3>6. QED  BY <1>5, <3>3, <3>4, <3>5 DEF MakeDirs
  <2>2. QED  BY <2>1 DEF Works, Ends
<1>6. CASE TruncStats(p) \/ Update(p) \/ Stop(p)
  BY <1>6 DEF TruncStats, Update, Stop, Then, Works
<1>7. CASE Age(p) \/ Keep(p)  BY <1>7 DEF Age, Keep, Works
<1>8. CASE CloseStats(p) \/ System(p)
  <2>1. {"system", "lastSystem"} = Helping  BY DEF Helping
  <2>2. QED  BY <1>8, <2>1 DEF CloseStats, System, Then, Asks
<1>9. CASE KeepReadme(p) \/ Finish(p) \/ Die(p)
  BY <1>9 DEF KeepReadme, Finish, Die, Fail, Ends
<1>10. CASE HelperEnds(p)
  <2>1. CASE pc[p] = "system"
    <3>1. Goto(p, "loop") /\ lock' = lock /\ helper' = helper \ {p}
      BY <1>10, <2>1 DEF HelperEnds, Helping, Then
    <3>2. "system" \in Helping  BY DEF Helping
    <3>3. QED  BY <2>1, <3>1, <3>2 DEF Helped
  <2>2. CASE pc[p] = "lastSystem"
    BY <1>10, <2>2 DEF HelperEnds, Helping, Ends
  <2>3. CASE pc[p] \notin Helping
    BY <1>10, <2>3 DEF HelperEnds, Helping, Orphan
  <2>4. QED  BY <2>1, <2>2, <2>3 DEF Helping
<1>11. QED
  BY <1>1, <1>2, <1>3, <1>4, <1>5, <1>6, <1>7, <1>8, <1>9, <1>10 DEF ProcNext

(* And no kind makes a second owner.                                       *)
LEMMA NextOwner ==
    ASSUME PlaceOK, ProcOK, OneOwner, NEW p \in Proc, ProcNext(p)
    PROVE  OneOwner'
<1>0. USE Kinds DEF PlaceOK, ProcOK, Goto
<1>1. CASE Works(p)  BY <1>1 DEF Works, OneOwner
<1>2. CASE Asks(p)  BY <1>2 DEF Asks, OneOwner
<1>3. CASE Helped(p)  BY <1>3 DEF Helped, OneOwner
<1>4. CASE Ends(p)  BY <1>4 DEF Ends, End, OneOwner
<1>5. CASE Prepares(p)  BY <1>5 DEF Prepares, OneOwner
<1>6. CASE Locks(p)  BY <1>6 DEF Locks, Free, OneOwner
<1>7. CASE Orphan(p)  BY <1>7 DEF Orphan, OneOwner
<1>8. QED
  BY <1>1, <1>2, <1>3, <1>4, <1>5, <1>6, <1>7, StepKinds

(* A process that cleans, builds or fills the directory is alone there,    *)
(* for any number of processes, killed anywhere.                           *)
THEOREM AloneAlways == Spec => []OwnerIsAlone
<1>1. Init => OneOwner
  BY Kinds DEF Init, OneOwner
<1>2. TypeOK /\ OneOwner /\ [Next]_vars => OneOwner'
  <2>1. ASSUME TypeOK, OneOwner, Next PROVE OneOwner'
    BY <2>1, NextOwner DEF Next, TypeOK
  <2>2. ASSUME OneOwner, UNCHANGED vars PROVE OneOwner'
    BY <2>2 DEF vars, OneOwner
  <2>3. QED  BY <2>1, <2>2
<1>3. TypeOK /\ OneOwner => OwnerIsAlone  BY OneOwnerSuffices
<1>4. QED  BY <1>1, <1>2, <1>3, TypeCorrect, PTL DEF Spec

-----------------------------------------------------------------------------
(* What a step of p leaves to the others, ...                              *)
LEMMA Others ==
    ASSUME TypeOK, NEW p \in Proc, ProcNext(p), NEW q \in Proc, q # p
    PROVE  /\ pc'[q] = pc[q] /\ why'[q] = why[q]
           /\ cleans'[q] = cleans[q] /\ mode'[q] = mode[q] /\ old'[q] = old[q]
<1>0. USE DEF TypeOK, PlaceOK, ProcOK
<1>1. pc'[q] = pc[q] /\ why'[q] = why[q]
  <2>1. /\ UNCHANGED pc \/ \E l : Goto(p, l)
        /\ UNCHANGED why \/ \E r : why' = [why EXCEPT ![p] = r]
    <3>1. CASE MakeDirs(p)
      <4>1. ASSUME NEW at, NEW d, NEW l, Mkdir(p, at, d, l)
            PROVE  Then(p, l) \/ Fail(p, "mkdir")
        BY <4>1 DEF Mkdir
      <4>2. (\E l : Then(p, l)) \/ Fail(p, "mkdir")
        BY <3>1, <4>1 DEF MakeDirs, MkState, MkPlot
      <4>3. QED  BY <4>2 DEF Then, Fail, End
    <3>2. CASE Start(p) \/ MkOut(p) \/ Lock(p) \/ Judge(p) \/ Move(p)
               \/ RmState(p) \/ Rmdir(p) \/ SaveCrashes(p) \/ SaveHangs(p)
               \/ DropStats(p) \/ DropPlot(p)
      BY <3>2 DEF Start, MkOut, Lock, Judge, Move, RmState, Rmdir,
           SaveCrashes, SaveHangs, DropStats, DropPlot, Then, Fail, End
    <3>3. CASE Unlink(p) \/ TruncStats(p) \/ CloseStats(p) \/ Update(p)
               \/ Age(p) \/ Keep(p) \/ KeepReadme(p) \/ System(p)
               \/ HelperEnds(p) \/ Stop(p) \/ Finish(p) \/ Die(p)
      BY <3>3 DEF Unlink, TruncStats, CloseStats, Update, Age, Keep,
           KeepReadme, System, HelperEnds, Stop, Finish, Die, Then, Fail, End
    <3>4. QED  BY <3>1, <3>2, <3>3 DEF ProcNext
  <2>2. QED  BY <2>1 DEF Goto
<1>2. cleans'[q] = cleans[q] /\ mode'[q] = mode[q] /\ old'[q] = old[q]
  <2>1. CASE Start(p)  BY <2>1 DEF Start
  <2>2. CASE Lock(p)  BY <2>2 DEF Lock
  <2>3. CASE Age(p)  BY <2>3 DEF Age
  <2>4. ASSUME ~Start(p), ~Lock(p), ~Age(p) PROVE UNCHANGED <<cleans, mode, old>>
    BY <2>4 DEF ProcNext, MkOut, Judge, Move, RmState, Unlink, Rmdir,
         SaveCrashes, SaveHangs, DropStats, DropPlot, MakeDirs, Mkdir,
         MkState, MkPlot, TruncStats, CloseStats, Update, Keep,
         KeepReadme, System, HelperEnds, Stop, Finish, Die
  <2>5. QED  BY <2>1, <2>2, <2>3, <2>4
<1>3. QED  BY <1>1, <1>2

(* ... and what a process that is not at work leaves alone.                *)
LEMMA OnlyOwnersTouch ==
    ASSUME NEW p \in Proc, ProcNext(p), pc[p] \notin Owning
    PROVE  UNCHANGED <<stats, exists, files, state, readme, backup, plot, aged>>
<1>1. CASE Start(p) \/ MkOut(p) \/ Lock(p) \/ HelperEnds(p) \/ Die(p)
  BY <1>1 DEF Start, MkOut, Lock, HelperEnds, Die, disk
<1>2. ASSUME ~(Start(p) \/ MkOut(p) \/ Lock(p) \/ HelperEnds(p) \/ Die(p))
      PROVE  pc[p] \in Owning
  BY <1>2 DEF ProcNext, Judge, Move, RmState, Unlink, Rmdir, SaveCrashes,
       SaveHangs, DropStats, DropPlot, MakeDirs, Mkdir, MkState, MkPlot,
       TruncStats, CloseStats, Update, Age, Keep, KeepReadme, System, Stop,
       Finish, Owning, Cleanup, Setup, Running, Helping
<1>3. QED  BY <1>1, <1>2

-----------------------------------------------------------------------------
(* A resumed start has renamed what it then removes.                       *)
Saved(p) ==
    mode[p] = "resume" =>
        /\ pc[p] = "crashes" => files["crashes"] = {}
        /\ pc[p] = "hangs" => files["hangs"] = {}

LEMMA NextSaved ==
    ASSUME TypeOK, OneOwner, \A q \in Proc : Saved(q),
           NEW p \in Proc, ProcNext(p), NEW q \in Proc
    PROVE  Saved(q)'
<1>0. {"crashes", "hangs"} \subseteq Owning  BY DEF Owning, Cleanup
<1>1. CASE q # p
  <2>1. pc'[q] = pc[q] /\ mode'[q] = mode[q]  BY <1>1, Others
  <2>2. CASE pc[p] \in Owning
    <3>1. pc[q] \notin Owning  BY <1>1, <2>2 DEF OneOwner
    <3>2. QED  BY <1>0, <2>1, <3>1 DEF Saved
  <2>3. CASE pc[p] \notin Owning
    BY <2>1, <2>3, OnlyOwnersTouch DEF Saved
  <2>4. QED  BY <2>2, <2>3
<1>2. CASE q = p
  <2>0. USE DEF TypeOK, DiskOK, PlaceOK, ProcOK, Dir
  <2>1. CASE SaveCrashes(p) \/ SaveHangs(p)
    BY <1>2, <2>1 DEF SaveCrashes, SaveHangs, Then, Goto, Saved
  <2>2. CASE Unlink(p)  BY <1>2, <2>2 DEF Unlink, Saved
  <2>3. CASE HelperEnds(p) \/ Age(p)
    BY <1>2, <2>3 DEF HelperEnds, Age, disk, Helping, Then, End, Goto, Saved
  <2>4. ASSUME ~SaveCrashes(p), ~SaveHangs(p), ~Unlink(p), ~HelperEnds(p),
               ~Age(p)
        PROVE  pc'[p] \notin {"crashes", "hangs"}
    <3>1. CASE Rmdir(p)
      <4>1. pc[p] \in {"queue", "crashes", "hangs"}  BY <3>1 DEF Rmdir
      <4>2. AfterRmdir[pc[p]] \notin {"crashes", "hangs"}
        BY <4>1 DEF AfterRmdir
      <4>3. QED  BY <3>1, <4>2 DEF Rmdir, Then, Fail, End, Goto
    <3>2. CASE MakeDirs(p)
      BY <3>2 DEF MakeDirs, Mkdir, MkState, MkPlot, Then, Fail, End, Goto
    <3>3. CASE Start(p) \/ MkOut(p) \/ Lock(p)
      <4>1. \E l \in {"mkOut", "lock", "lockNew", "judge", "mkQueue", "off"} :
               pc' = [pc EXCEPT ![p] = l]
        <5>1. CASE Start(p)  BY <5>1 DEF Start, Goto
        <5>2. CASE MkOut(p)  BY <5>2 DEF MkOut, Then, Fail, End, Goto
        <5>3. CASE Lock(p)  BY <5>3 DEF Lock, Fail, End, Goto
        <5>4. QED  BY <3>3, <5>1, <5>2, <5>3
      <4>2. QED  BY <4>1
    <3>3a. CASE Judge(p) \/ Move(p) \/ RmState(p) \/ DropStats(p) \/ DropPlot(p)
      BY <3>3a DEF Judge, Move, RmState, DropStats, DropPlot, Then, Fail,
           End, Goto
    <3>4. CASE TruncStats(p) \/ CloseStats(p) \/ Update(p) \/ Keep(p)
               \/ KeepReadme(p) \/ System(p) \/ Stop(p) \/ Finish(p) \/ Die(p)
      BY <3>4 DEF TruncStats, CloseStats, Update, Keep, KeepReadme, System,
           Stop, Finish, Die, Then, Fail, End, Goto
    <3>5. QED  BY <2>4, <3>1, <3>2, <3>3, <3>3a, <3>4 DEF ProcNext
  <2>5. QED  BY <1>2, <2>1, <2>2, <2>3, <2>4 DEF Saved
<1>3. QED  BY <1>1, <1>2

(* What a step may take from the crashes and hangs.                        *)
LEMMA NextKeeps ==
    ASSUME TypeOK, NEW p \in Proc, Saved(p), ProcNext(p)
    PROVE  \/ Evidence \subseteq Evidence'
           \/ mode[p] # "resume" /\ pc[p] \in Cleanup
<1>0. USE DEF TypeOK, DiskOK, Dir, Evidence
<1>1. CASE Move(p)  BY <1>1 DEF Move
<1>2. CASE Unlink(p)
  <2>1. pc[p] \in Cleanup  BY <1>2 DEF Unlink, Cleanup
  <2>2. CASE mode[p] = "resume"
    <3>1. pc[p] = "queue"  BY <1>2, <2>2 DEF Unlink, Saved
    <3>2. UNCHANGED backup /\ files'["crashes"] = files["crashes"]
          /\ files'["hangs"] = files["hangs"]
      BY <1>2, <3>1 DEF Unlink
    <3>3. QED  BY <3>2
  <2>3. QED  BY <2>1, <2>2
<1>3. CASE SaveCrashes(p) \/ SaveHangs(p)
  BY <1>3 DEF SaveCrashes, SaveHangs
<1>4. CASE Keep(p)  BY <1>4 DEF Keep
<1>5. ASSUME ~Move(p), ~Unlink(p), ~SaveCrashes(p), ~SaveHangs(p), ~Keep(p)
      PROVE  UNCHANGED <<files, backup>>
  BY <1>5 DEF ProcNext, Start, MkOut, Lock, Judge, RmState, Rmdir, DropStats,
       DropPlot, MakeDirs, Mkdir, MkState, MkPlot, TruncStats, CloseStats,
       Update, Age, KeepReadme, System, HelperEnds, Stop, Finish, Die, disk
<1>6. QED  BY <1>1, <1>2, <1>3, <1>4, <1>5

(* Resuming is no way to lose a crash or a hang, for any number of starts, *)
(* however they are mixed and wherever they are killed.                    *)
THEOREM CrashesAreKept == Spec => ResumeKeepsCrashes
<1>1. Init => OneOwner /\ \A p \in Proc : Saved(p)
  BY Kinds DEF Init, OneOwner, Saved
<1>2. /\ TypeOK /\ OneOwner /\ \A p \in Proc : Saved(p)
      /\ [Next]_vars
      => (OneOwner /\ \A p \in Proc : Saved(p))'
  <2>1. ASSUME TypeOK, OneOwner, \A p \in Proc : Saved(p), Next
        PROVE  (OneOwner /\ \A p \in Proc : Saved(p))'
    BY <2>1, NextOwner, NextSaved DEF Next, TypeOK
  <2>2. ASSUME OneOwner, \A p \in Proc : Saved(p), UNCHANGED vars
        PROVE  (OneOwner /\ \A p \in Proc : Saved(p))'
    BY <2>2 DEF vars, disk, OneOwner, Saved
  <2>3. QED  BY <2>1, <2>2
<1>3. TypeOK /\ (\A p \in Proc : Saved(p)) /\ [Next]_vars
      => [\/ Evidence \subseteq Evidence'
          \/ \E p \in Proc : mode[p] # "resume" /\ pc[p] \in Cleanup]_vars
  BY NextKeeps DEF Next
<1>4. QED
  BY <1>1, <1>2, <1>3, TypeCorrect, PTL DEF Spec, ResumeKeepsCrashes

-----------------------------------------------------------------------------
(* Until what is the way clear of what the last session left there?        *)
ToState == {"queue", "saveCrashes", "crashes", "saveHangs", "hangs",
            "dropStats", "dropPlot", "mkQueue", "mkState"}
ToQueue == ToState \ {"queue", "mkState"}
ToCrashes == {"saveHangs", "hangs", "dropStats", "dropPlot", "mkQueue",
              "mkState", "mkCrashes"}
ToHangs == {"dropStats", "dropPlot", "mkQueue", "mkState", "mkCrashes",
            "mkHangs"}
ToPlot == {"mkQueue", "mkState", "mkCrashes", "mkHangs", "mkPlot"}

Way == /\ ToQueue \subseteq Owning /\ ToState \subseteq Owning
       /\ ToCrashes \subseteq Owning /\ ToHangs \subseteq Owning
       /\ ToPlot \subseteq Owning /\ "crashes" \in Owning
       /\ {"mkOut", "lock", "lockNew"} \cap Owning = {}

LEMMA WayIsOwned == Way
BY DEF Way, ToQueue, ToState, ToCrashes, ToHangs, ToPlot, Owning, Cleanup,
       Setup, Running, Helping

Clear(p) ==
    /\ pc[p] \in ToQueue => "queue" \notin exists
    /\ pc[p] \in ToState => "queue" \notin state
    /\ pc[p] = "crashes" => ~readme
    /\ pc[p] \in ToCrashes => "crashes" \notin exists
    /\ pc[p] \in ToHangs => "hangs" \notin exists
    /\ pc[p] \in ToPlot => ~plot

Stopped == {"cleanup", "mkdir"}

(* One that cleans finds the way clear; one that starts has not failed yet.*)
Copes(p) ==
    /\ cleans[p] => Clear(p) /\ why[p] \notin Stopped
    /\ pc[p] \in {"mkOut", "lock", "lockNew"} => why[p] \notin Stopped

(* Each step of a process that finds the way clear does the same.          *)
LEMMA OwnWay ==
    ASSUME TypeOK, NEW p \in Proc, Copes(p), ProcNext(p)
    PROVE  Copes(p)'
<1>0. USE DEF TypeOK, DiskOK, PlaceOK, ProcOK, Dir, Then, Fail, End, Goto,
              ToQueue, ToState, ToCrashes, ToHangs, ToPlot, Stopped
<1>1. CASE Start(p) \/ MkOut(p) \/ Lock(p)
  <2>1. CASE Start(p)
    <3>1. pc'[p] = "mkOut" /\ why'[p] = "nothing"  BY <2>1 DEF Start
    <3>2. QED  BY <3>1 DEF Copes, Clear
  <2>2. CASE MkOut(p)
    <3>1. pc[p] = "mkOut" /\ pc'[p] \in {"lock", "lockNew", "off"}
      BY <2>2 DEF MkOut
    <3>2. why'[p] = "no directory" \/ why' = why  BY <2>2 DEF MkOut
    <3>3. QED  BY <2>2, <3>1, <3>2 DEF MkOut, Copes, Clear
  <2>3. CASE Lock(p)
    <3>1. why'[p] \notin Stopped  BY <2>3 DEF Lock, Copes
    <3>2. pc'[p] \in {"judge", "mkQueue", "off"}  BY <2>3 DEF Lock
    <3>3. cleans'[p] => pc'[p] \in {"judge", "off"}  BY <2>3 DEF Lock
    <3>4. QED  BY <3>1, <3>2, <3>3 DEF Copes, Clear
  <2>4. QED  BY <1>1, <2>1, <2>2, <2>3
<1>2. CASE Judge(p) \/ Move(p)
  <2>1. pc'[p] \in {"move", "state", "off"}  BY <1>2 DEF Judge, Move
  <2>2. cleans' = cleans /\ (why'[p] \in {"malformed", "at risk"} \/ why' = why)
    BY <1>2 DEF Judge, Move
  <2>3. QED  BY <2>1, <2>2 DEF Copes, Clear
<1>3. CASE RmState(p) \/ DropStats(p) \/ DropPlot(p)
  BY <1>3 DEF RmState, DropStats, DropPlot, Copes, Clear
<1>4. CASE Unlink(p)
  BY <1>4 DEF Unlink, Copes, Clear
<1>5. CASE Rmdir(p)
  <2>1. CASE pc[p] = "queue"
    BY <1>5, <2>1 DEF Rmdir, AfterRmdir, Copes, Clear
  <2>2. CASE pc[p] = "crashes"
    BY <1>5, <2>2 DEF Rmdir, AfterRmdir, Copes, Clear
  <2>3. CASE pc[p] = "hangs"
    BY <1>5, <2>3 DEF Rmdir, AfterRmdir, Copes, Clear
  <2>4. QED  BY <1>5, <2>1, <2>2, <2>3 DEF Rmdir
<1>6. CASE SaveCrashes(p)
  BY <1>6 DEF SaveCrashes, Copes, Clear
<1>7. CASE SaveHangs(p)
  BY <1>7 DEF SaveHangs, Copes, Clear
<1>8. CASE MakeDirs(p)
  <2>1. CASE Mkdir(p, "mkQueue", "queue", "mkState")
    BY <2>1 DEF Mkdir, Copes, Clear
  <2>2. CASE Mkdir(p, "mkCrashes", "crashes", "mkHangs")
    BY <2>2 DEF Mkdir, Copes, Clear
  <2>3. CASE Mkdir(p, "mkHangs", "hangs", "mkPlot")
    BY <2>3 DEF Mkdir, Copes, Clear
  <2>4. CASE MkState(p)  BY <2>4 DEF MkState, Copes, Clear
  <2>5. CASE MkPlot(p)  BY <2>5 DEF MkPlot, Copes, Clear
  <2>6. QED  BY <1>8, <2>1, <2>2, <2>3, <2>4, <2>5 DEF MakeDirs
<1>9. CASE TruncStats(p) \/ CloseStats(p) \/ Update(p) \/ Age(p) \/ Keep(p)
           \/ KeepReadme(p)
  <2>1. pc'[p] \in {"close", "lastClose", "system", "lastSystem", "stats",
                    "loop", "off"}
    BY <1>9 DEF TruncStats, CloseStats, Update, Age, Keep, KeepReadme
  <2>2. why' = why /\ cleans' = cleans
    BY <1>9 DEF TruncStats, CloseStats, Update, Age, Keep, KeepReadme
  <2>3. QED  BY <2>1, <2>2 DEF Copes, Clear
<1>10. CASE System(p) \/ HelperEnds(p) \/ Stop(p) \/ Finish(p) \/ Die(p)
  <2>1. \/ pc'[p] \in {"system", "loop", "lastStats", "off"}
        \/ pc' = pc /\ UNCHANGED <<exists, state, readme, plot>>
    BY <1>10 DEF System, HelperEnds, Helping, Stop, Finish, Die, disk
  <2>2. cleans' = cleans /\ (why'[p] = "no _resume" \/ why' = why)
    BY <1>10 DEF System, HelperEnds, Stop, Finish, Die
  <2>3. Copes(p) => Copes(p)'
    <3>1. CASE pc'[p] \in {"system", "loop", "lastStats", "off"}
      BY <2>2, <3>1 DEF Copes, Clear
    <3>2. CASE pc' = pc /\ UNCHANGED <<exists, state, readme, plot>>
      BY <2>2, <3>2 DEF Copes, Clear
    <3>3. QED  BY <2>1, <3>1, <3>2
  <2>4. QED  BY <2>3
<1>11. QED
  BY <1>1, <1>2, <1>3, <1>4, <1>5, <1>6, <1>7, <1>8, <1>9, <1>10 DEF ProcNext

LEMMA NextCopes ==
    ASSUME TypeOK, OneOwner, \A q \in Proc : Copes(q),
           NEW p \in Proc, ProcNext(p), NEW q \in Proc
    PROVE  Copes(q)'
<1>1. CASE q = p  BY <1>1, OwnWay
<1>2. CASE q # p
  <2>1. /\ pc'[q] = pc[q] /\ why'[q] = why[q] /\ cleans'[q] = cleans[q]
    BY <1>2, Others
  <2>2. CASE pc[p] \in Owning
    <3>1. pc[q] \notin Owning  BY <1>2, <2>2 DEF OneOwner
    <3>2. Clear(q)'  BY <2>1, <3>1, WayIsOwned DEF Way, Clear
    <3>3. QED  BY <2>1, <3>2 DEF Copes
  <2>3. CASE pc[p] \notin Owning
    BY <2>1, <2>3, OnlyOwnersTouch DEF Copes, Clear
  <2>4. QED  BY <2>2, <2>3
<1>3. QED  BY <1>1, <1>2

(* Wherever a session or a start was cut, the next one that cleans its     *)
(* directory gets through: for any number of starts cut anywhere.          *)
THEOREM CleanupAlwaysCopes == Spec => []CleanupCopes
<1>1. Init => OneOwner /\ \A p \in Proc : Copes(p)
  BY Kinds DEF Init, OneOwner, Copes, Stopped
<1>2. /\ TypeOK /\ OneOwner /\ \A p \in Proc : Copes(p)
      /\ [Next]_vars
      => (OneOwner /\ \A p \in Proc : Copes(p))'
  <2>1. ASSUME TypeOK, OneOwner, \A p \in Proc : Copes(p), Next
        PROVE  (OneOwner /\ \A p \in Proc : Copes(p))'
    BY <2>1, NextOwner, NextCopes DEF Next, TypeOK
  <2>2. ASSUME OneOwner, \A p \in Proc : Copes(p), UNCHANGED vars
        PROVE  (OneOwner /\ \A p \in Proc : Copes(p))'
    BY <2>2 DEF vars, disk, OneOwner, Copes, Clear
  <2>3. QED  BY <2>1, <2>2
<1>3. (\A p \in Proc : Copes(p)) => CleanupCopes
  BY DEF Copes, Stopped, CleanupCopes
<1>4. QED  BY <1>1, <1>2, <1>3, TypeCorrect, PTL DEF Spec

-----------------------------------------------------------------------------
(* What no start for a new session deletes: the backups, and _resume.      *)
Kept == backup \cup files["_resume"]
Safe == aged \cap Present \subseteq Kept

(* A test case lies in a directory that there is.                          *)
Filled == \A d \in Dir : files[d] # {} => d \in exists

(* Work recorded as old is safe in there or protected by the statistics,   *)
(* which then are old, or will be when the one that writes them is done.   *)
Closing == {"close", "lastClose"}
Recorded ==
    \/ Safe
    \/ stats = "old"
    \/ stats = "torn" /\ \A p \in Proc : pc[p] \in Closing => old[p]

(* What a process has built is there, and empty until it runs.             *)
New(d) == d \in exists /\ files[d] = {}
Built(p) ==
    /\ pc[p] \in {"mkState", "mkCrashes", "mkHangs", "mkPlot"} => New("queue")
    /\ pc[p] \in {"mkHangs", "mkPlot"} => New("crashes")
    /\ pc[p] = "mkPlot" => New("hangs")
    /\ pc[p] \in Running => {"queue", "crashes", "hangs"} \subseteq exists

(* One that has not run for long yet has all old work in backups.          *)
Fresh(p) == pc[p] \in Running /\ ~old[p] => Safe

(* One that deletes for a new session was let through.                     *)
Judged(p) ==
    pc[p] \in Cleanup \ {"judge"} /\ mode[p] # "resume"
        => stats \notin {"old", "torn"}

Stays(p) == Built(p) /\ Fresh(p) /\ Judged(p)
Findings == Filled /\ Recorded /\ \A p \in Proc : Stays(p)

(* Only these steps change what lies where, ...                            *)
Shuffles(p) ==
    Move(p) \/ Unlink(p) \/ Rmdir(p) \/ SaveCrashes(p) \/ SaveHangs(p)
    \/ MakeDirs(p) \/ Keep(p)

LEMMA OthersLeave ==
    ASSUME NEW p \in Proc, ProcNext(p), ~Shuffles(p)
    PROVE  /\ UNCHANGED <<exists, files, backup>>
           /\ aged' = aged \/ (CloseStats(p) /\ old[p])
BY DEF Shuffles, ProcNext, Start, MkOut, Lock, Judge, RmState, DropStats,
     DropPlot, TruncStats, CloseStats, Update, Age, KeepReadme, System,
     HelperEnds, Stop, Finish, Die, disk

(* ... and none of them touches the statistics.                            *)
LEMMA StatsStay ==
    ASSUME NEW p \in Proc, ProcNext(p)
    PROVE  stats' = stats \/ DropStats(p) \/ TruncStats(p) \/ CloseStats(p)
BY DEF ProcNext, Start, MkOut, Lock, Judge, Move, RmState, Unlink, Rmdir,
     SaveCrashes, SaveHangs, DropPlot, MakeDirs, Mkdir, MkState, MkPlot,
     Update, Age, Keep, KeepReadme, System, HelperEnds, Stop, Finish, Die, disk

LEMMA MakeDirsLeaves ==
    ASSUME NEW p \in Proc, MakeDirs(p)
    PROVE  UNCHANGED <<files, backup, aged, stats, old, mode>> /\ exists \subseteq exists'
BY DEF MakeDirs, Mkdir, MkState, MkPlot

(* What is safe stays so.                                                  *)
LEMMA SafeStays ==
    ASSUME DiskOK, NEW p \in Proc, ProcNext(p), Safe, ~(CloseStats(p) /\ old[p])
    PROVE  Safe'
<1>0. USE DEF DiskOK, Dir, Safe, Kept, Present
<1>1. CASE Move(p)
  <2>1. aged' = aged /\ backup' = backup  BY <1>1 DEF Move
  <2>2. CASE Movable
    <3>1. /\ files'["_resume"] = files["queue"] /\ files'["queue"] = {}
          /\ files'["crashes"] = files["crashes"] /\ files'["hangs"] = files["hangs"]
      BY <1>1, <2>2 DEF Move
    <3>2. files["_resume"] = {}  BY <2>2 DEF Movable
    <3>3. QED  BY <2>1, <3>1, <3>2
  <2>3. CASE ~Movable  BY <1>1, <2>1, <2>3 DEF Move
  <2>4. QED  BY <2>2, <2>3
<1>2. CASE Unlink(p)
  <2>1. /\ aged' = aged /\ backup' = backup /\ files'["_resume"] = files["_resume"]
        /\ \A d \in Dir : files'[d] \subseteq files[d]
    BY <1>2 DEF Unlink
  <2>2. QED  BY <2>1
<1>3. CASE Rmdir(p)  BY <1>3 DEF Rmdir
<1>4. CASE SaveCrashes(p) \/ SaveHangs(p)
  <2>1. /\ aged' = aged /\ backup \subseteq backup'
        /\ files'["_resume"] = files["_resume"] /\ Present' \subseteq Present
    BY <1>4 DEF SaveCrashes, SaveHangs
  <2>2. QED  BY <2>1
<1>5. CASE MakeDirs(p)  BY <1>5, MakeDirsLeaves
<1>6. CASE Keep(p)
  <2>1. PICK c \in Candidates(p), d \in Dir \ {"_resume"} :
           files' = [files EXCEPT ![d] = @ \cup {c}]
    BY <1>6 DEF Keep
  <2>2. aged' = aged /\ backup' = backup  BY <1>6 DEF Keep
  <2>3. c \notin aged \/ c \in files["_resume"]  BY <2>1 DEF Candidates
  <2>4. files'["_resume"] = files["_resume"] /\ Present' \subseteq Present \cup {c}
    BY <2>1, <2>2
  <2>5. QED  BY <2>2, <2>3, <2>4
<1>7. CASE ~Shuffles(p)  BY <1>7, OthersLeave
<1>8. QED  BY <1>1, <1>2, <1>3, <1>4, <1>5, <1>6, <1>7 DEF Shuffles

(* No test case lies where no directory is.                                *)
LEMMA NextFilled ==
    ASSUME DiskOK, NEW p \in Proc, ProcNext(p), Filled, Built(p)
    PROVE  Filled'
<1>0. USE DEF DiskOK, Dir, Filled
<1>1. CASE Move(p)  BY <1>1 DEF Move, Movable
<1>2. CASE Unlink(p)
  <2>1. exists' = exists /\ \A d \in Dir : files'[d] \subseteq files[d]
    BY <1>2 DEF Unlink
  <2>2. QED  BY <2>1
<1>3. CASE Rmdir(p)  BY <1>3 DEF Rmdir
<1>4. CASE SaveCrashes(p) \/ SaveHangs(p)
  BY <1>4 DEF SaveCrashes, SaveHangs
<1>5. CASE MakeDirs(p)  BY <1>5, MakeDirsLeaves
<1>6. CASE Keep(p)
  <2>1. {"queue", "crashes", "hangs"} \subseteq exists /\ exists' = exists
    BY <1>6 DEF Keep, Built, Running
  <2>2. PICK d \in Dir \ {"_resume"} :
           \E c \in Candidates(p) : files' = [files EXCEPT ![d] = @ \cup {c}]
    BY <1>6 DEF Keep
  <2>3. QED  BY <2>1, <2>2
<1>7. CASE ~Shuffles(p)  BY <1>7, OthersLeave
<1>8. QED  BY <1>1, <1>2, <1>3, <1>4, <1>5, <1>6, <1>7 DEF Shuffles

(* Only the last of the directories leads into the loop.                   *)
LEMMA WayIn ==
    ASSUME TypeOK, NEW p \in Proc, ProcNext(p), pc'[p] \in Running
    PROVE  pc[p] \in Running \/ MkPlot(p)
<1>0. USE DEF TypeOK, PlaceOK, Then, Fail, End, Goto, Running, Helping
<1>1. CASE Start(p) \/ MkOut(p) \/ Lock(p) \/ Judge(p) \/ Move(p) \/ RmState(p)
           \/ Unlink(p) \/ SaveCrashes(p) \/ SaveHangs(p) \/ DropStats(p) \/ DropPlot(p)
  <2>1. CASE Start(p) \/ MkOut(p) \/ Lock(p)
    BY <2>1 DEF Start, MkOut, Lock
  <2>2. CASE ~(Start(p) \/ MkOut(p) \/ Lock(p))
    BY <1>1, <2>2 DEF Judge, Move, RmState, Unlink, SaveCrashes, SaveHangs,
       DropStats, DropPlot
  <2>3. QED  BY <2>1, <2>2
<1>2. CASE Rmdir(p)
  <2>1. pc[p] \in {"queue", "crashes", "hangs"}  BY <1>2 DEF Rmdir
  <2>2. AfterRmdir[pc[p]] \in {"saveCrashes", "saveHangs", "dropStats"}
    BY <2>1 DEF AfterRmdir
  <2>3. QED  BY <1>2, <2>2 DEF Rmdir
<1>3. CASE MakeDirs(p)  BY <1>3 DEF MakeDirs, Mkdir, MkState, MkPlot
<1>4. CASE TruncStats(p) \/ CloseStats(p) \/ Update(p) \/ Age(p) \/ Keep(p)
           \/ KeepReadme(p) \/ System(p) \/ HelperEnds(p) \/ Stop(p) \/ Finish(p)
           \/ Die(p)
  BY <1>4 DEF TruncStats, CloseStats, Update, Age, Keep, KeepReadme, System,
       HelperEnds, Stop, Finish, Die
<1>5. QED  BY <1>1, <1>2, <1>3, <1>4 DEF ProcNext

(* Each directory a process makes is empty until all are there.            *)
LEMMA OwnBuilt ==
    ASSUME TypeOK, NEW p \in Proc, ProcNext(p), Filled, Built(p)
    PROVE  Built(p)'
<1>0. USE DEF TypeOK, DiskOK, PlaceOK, Dir, Built, New, Running, Helping
<1>1. CASE MakeDirs(p)
  <2>0. USE DEF Then, Fail, End, Goto, Filled
  <2>1. CASE Mkdir(p, "mkQueue", "queue", "mkState")
    BY <2>1 DEF Mkdir
  <2>2. CASE Mkdir(p, "mkCrashes", "crashes", "mkHangs")
    BY <2>2 DEF Mkdir
  <2>3. CASE Mkdir(p, "mkHangs", "hangs", "mkPlot")
    BY <2>3 DEF Mkdir
  <2>4. CASE MkState(p)  BY <2>4 DEF MkState
  <2>5. CASE MkPlot(p)  BY <2>5 DEF MkPlot
  <2>6. QED  BY <1>1, <2>1, <2>2, <2>3, <2>4, <2>5 DEF MakeDirs
<1>2. CASE pc[p] \in Running
  <2>1. exists' = exists
    <3>1. ~(Move(p) \/ Unlink(p) \/ Rmdir(p) \/ SaveCrashes(p) \/ SaveHangs(p)
            \/ MakeDirs(p))
      BY <1>2 DEF Move, Unlink, Rmdir, SaveCrashes, SaveHangs, MakeDirs, Mkdir,
         MkState, MkPlot
    <3>2. CASE Keep(p)  BY <3>2 DEF Keep
    <3>3. CASE ~Keep(p)  BY <3>1, <3>3, OthersLeave DEF Shuffles
    <3>4. QED  BY <3>2, <3>3
  <2>2. pc'[p] \in Running \cup {"off"}
    BY <1>2 DEF ProcNext, Start, MkOut, Lock, Judge, Move, RmState, Unlink,
       Rmdir, SaveCrashes, SaveHangs, DropStats, DropPlot, MakeDirs, Mkdir,
       MkState, MkPlot, TruncStats, CloseStats, Update, Age, Keep, KeepReadme,
       System, HelperEnds, Stop, Finish, Die, Then, Fail, End, Goto
  <2>3. QED  BY <1>2, <2>1, <2>2
<1>3. CASE pc[p] \notin Running /\ ~MakeDirs(p)
  <2>1. pc'[p] \notin Running
    BY <1>3, WayIn DEF MakeDirs
  <2>2. CASE pc' = pc /\ UNCHANGED <<exists, files>>
    BY <2>1, <2>2
  <2>3. CASE ~(pc' = pc /\ UNCHANGED <<exists, files>>)
    <3>0. USE DEF Then, Fail, End, Goto
    <3>1. CASE Rmdir(p)
      <4>1. pc[p] \in {"queue", "crashes", "hangs"}  BY <3>1 DEF Rmdir
      <4>2. AfterRmdir[pc[p]] \in {"saveCrashes", "saveHangs", "dropStats"}
        BY <4>1 DEF AfterRmdir
      <4>3. QED  BY <2>1, <3>1, <4>2 DEF Rmdir
    <3>2. CASE Start(p) \/ MkOut(p) \/ Lock(p)
      <4>1. pc'[p] \in {"mkOut", "lock", "lockNew", "judge", "mkQueue", "off"}
        <5>1. CASE Start(p)  BY <5>1 DEF Start
        <5>2. CASE MkOut(p)  BY <5>2 DEF MkOut
        <5>3. CASE Lock(p)  BY <5>3 DEF Lock
        <5>4. QED  BY <3>2, <5>1, <5>2, <5>3
      <4>2. QED  BY <4>1
    <3>3. CASE Judge(p) \/ Move(p) \/ RmState(p) \/ Unlink(p)
               \/ SaveCrashes(p) \/ SaveHangs(p) \/ DropStats(p) \/ DropPlot(p)
      BY <2>1, <3>3 DEF Judge, Move, RmState, Unlink, SaveCrashes, SaveHangs,
         DropStats, DropPlot
    <3>4. CASE HelperEnds(p) \/ Die(p)
      BY <2>1, <2>3, <3>4 DEF HelperEnds, Die, disk
    <3>5. QED
      BY <1>3, <3>1, <3>2, <3>3, <3>4 DEF ProcNext, TruncStats, CloseStats,
         Update, Age, Keep, KeepReadme, System, Stop, Finish
  <2>4. QED  BY <2>2, <2>3
<1>4. QED  BY <1>1, <1>2, <1>3

(* When all are, what there is lies in backups.                            *)
LEMMA OwnFresh ==
    ASSUME TypeOK, NEW p \in Proc, ProcNext(p), Built(p), Fresh(p)
    PROVE  Fresh(p)'
<1> SUFFICES ASSUME pc'[p] \in Running, ~old'[p] PROVE Safe'
  BY DEF Fresh, Running, Helping
<1>1. CASE pc[p] \in Running /\ ~old[p]
  <2>1. Safe  BY <1>1 DEF Fresh
  <2>2. QED  BY <1>1, <2>1, SafeStays DEF TypeOK
<1>2. CASE pc[p] \in Running /\ old[p]
  <2>1. ~Start(p)  BY <1>2 DEF Start, Running, Helping
  <2>2. CASE Age(p)  BY <1>2, <2>2 DEF Age
  <2>3. CASE ~Age(p)
    <3>1. UNCHANGED old
      BY <2>1, <2>3 DEF ProcNext, MkOut, Lock, Judge, Move, RmState, Unlink,
         Rmdir, SaveCrashes, SaveHangs, DropStats, DropPlot, MakeDirs, Mkdir,
         MkState, MkPlot, TruncStats, CloseStats, Update, Keep, KeepReadme,
         System, HelperEnds, Stop, Finish, Die
    <3>2. QED  BY <1>2, <3>1
  <2>4. QED  BY <2>2, <2>3
<1>3. CASE pc[p] \notin Running
  <2>1. MkPlot(p)  BY <1>3, WayIn
  <2>2. New("queue") /\ New("crashes") /\ New("hangs") /\ UNCHANGED <<files, backup, aged>>
    BY <2>1 DEF MkPlot, Built
  <2>3. QED  BY <2>2 DEF New, Safe, Present, Kept, Dir
<1>4. QED  BY <1>1, <1>2, <1>3

(* What was let through was let through for the whole cleanup.             *)
LEMMA OwnJudged ==
    ASSUME TypeOK, NEW p \in Proc, ProcNext(p), Judged(p)
    PROVE  Judged(p)'
<1> SUFFICES ASSUME pc'[p] \in Cleanup \ {"judge"}, mode'[p] # "resume"
             PROVE  stats' \notin {"old", "torn"}
  BY DEF Judged, Cleanup
<1>0. USE DEF TypeOK, DiskOK, PlaceOK, ProcOK, Cleanup, Then, Fail, End, Goto
<1>1. CASE Start(p) \/ MkOut(p) \/ Lock(p)
  BY <1>1 DEF Start, MkOut, Lock
<1>2. CASE Judge(p)
  BY <1>2 DEF Judge, AtRisk, disk
<1>3. CASE pc[p] \in Cleanup \ {"judge"}
  <2>1. mode' = mode  BY <1>3 DEF ProcNext, Start, MkOut, Lock, Judge, Move,
         RmState, Unlink, Rmdir, SaveCrashes, SaveHangs, DropStats, DropPlot,
         MakeDirs, Mkdir, MkState, MkPlot, TruncStats, CloseStats, Update, Age,
         Keep, KeepReadme, System, HelperEnds, Stop, Finish, Die
  <2>2. stats \notin {"old", "torn"}  BY <1>3, <2>1 DEF Judged
  <2>3. ~TruncStats(p) /\ ~CloseStats(p)  BY <1>3 DEF TruncStats, CloseStats
  <2>4. CASE DropStats(p)  BY <2>1, <2>2, <2>4 DEF DropStats
  <2>5. CASE ~DropStats(p)  BY <2>2, <2>3, <2>5, StatsStay
  <2>6. QED  BY <2>4, <2>5
<1>4. CASE pc[p] \notin Cleanup /\ ~(Start(p) \/ MkOut(p) \/ Lock(p))
  <2>1. CASE MakeDirs(p)  BY <2>1 DEF MakeDirs, Mkdir, MkState, MkPlot
  <2>2. CASE ~MakeDirs(p)
    BY <1>4, <2>2 DEF ProcNext, Judge, Move, RmState, Unlink, Rmdir,
       SaveCrashes, SaveHangs, DropStats, DropPlot, TruncStats, CloseStats,
       Update, Age, Keep, KeepReadme, System, HelperEnds, Helping, Stop,
       Finish, Die
  <2>3. QED  BY <2>1, <2>2
<1>5. CASE pc[p] = "judge" /\ ~Judge(p) /\ ~(Start(p) \/ MkOut(p) \/ Lock(p))
  <2>1. CASE MakeDirs(p)  BY <1>5, <2>1 DEF MakeDirs, Mkdir, MkState, MkPlot
  <2>2. CASE ~MakeDirs(p)
    BY <1>5, <2>2 DEF ProcNext, Move, RmState, Unlink, Rmdir,
       SaveCrashes, SaveHangs, DropStats, DropPlot, TruncStats, CloseStats,
       Update, Age, Keep, KeepReadme, System, HelperEnds, Helping, Stop,
       Finish, Die
  <2>3. QED  BY <2>1, <2>2
<1>6. QED  BY <1>1, <1>2, <1>3, <1>4, <1>5

(* The statistics are never newer than what they protect.                  *)
LEMMA NextRecorded ==
    ASSUME TypeOK, OneOwner, Findings, NEW p \in Proc, ProcNext(p)
    PROVE  Recorded'
<1>0. USE DEF TypeOK, DiskOK, PlaceOK, ProcOK
<1>1. Recorded /\ Stays(p)  BY DEF Findings
<1>2. CASE TruncStats(p)
  <2>1. stats' = "torn" /\ old' = old  BY <1>2 DEF TruncStats
  <2>2. CASE old[p]
    <3>1. \A q \in Proc : q # p => pc'[q] \notin Closing
      <4> TAKE q \in Proc
      <4> HAVE q # p
      <4>1. pc'[q] = pc[q] /\ pc[p] \in Owning /\ pc[q] \notin Owning
        BY <1>2, Others, Names DEF TruncStats, OneOwner
      <4>2. QED  BY <4>1, Names DEF Closing
    <3>2. QED  BY <2>1, <2>2, <3>1 DEF Recorded
  <2>3. CASE ~old[p]
    <3>1. pc[p] \in Running /\ ~CloseStats(p)
      BY <1>2 DEF TruncStats, CloseStats, Running
    <3>2. Safe  BY <1>1, <2>3, <3>1 DEF Stays, Fresh
    <3>3. QED  BY <3>1, <3>2, SafeStays DEF Recorded
  <2>4. QED  BY <2>2, <2>3
<1>3. CASE CloseStats(p)
  <2>1. CASE old[p]  BY <1>3, <2>1 DEF CloseStats, Recorded
  <2>2. CASE ~old[p]
    <3>1. pc[p] \in Running  BY <1>3 DEF CloseStats, Running
    <3>2. Safe  BY <1>1, <2>2, <3>1 DEF Stays, Fresh
    <3>3. QED  BY <2>2, <3>2, SafeStays DEF Recorded
  <2>3. QED  BY <2>1, <2>2
<1>4. CASE DropStats(p)
  <2>1. ~CloseStats(p)  BY <1>4 DEF DropStats, CloseStats
  <2>2. CASE Safe  BY <2>1, <2>2, SafeStays DEF Recorded
  <2>3. CASE ~Safe
    <3>1. mode[p] = "resume"
      BY <1>1, <1>4, <2>3 DEF Stays, Judged, DropStats, Recorded, Cleanup
    <3>2. stats' = stats /\ old' = old /\ \A q \in Proc : pc'[q] \in Closing => pc'[q] = pc[q]
      BY <1>4, <3>1 DEF DropStats, Then, Goto, Closing
    <3>3. QED  BY <1>1, <2>3, <3>2 DEF Recorded
  <2>4. QED  BY <2>2, <2>3
<1>5. CASE ~TruncStats(p) /\ ~CloseStats(p) /\ ~DropStats(p)
  <2>1. stats' = stats  BY <1>5, StatsStay
  <2>2. CASE Safe  BY <1>5, <2>2, SafeStays DEF Recorded
  <2>3. CASE stats = "old"  BY <2>1, <2>3 DEF Recorded
  <2>4. CASE stats = "torn" /\ \A q \in Proc : pc[q] \in Closing => old[q]
    <3>1. ASSUME NEW q \in Proc, pc'[q] \in Closing PROVE old'[q]
      <4>1. CASE q # p  BY <2>4, <3>1, <4>1, Others
      <4>2. CASE q = p
        <5>0. USE DEF Then, Fail, End, Goto, Closing
        <5>1. CASE MakeDirs(p)
          BY <3>1, <4>2, <5>1 DEF MakeDirs, Mkdir, MkState, MkPlot
        <5>2. CASE Rmdir(p)
          <6>1. pc[p] \in {"queue", "crashes", "hangs"}  BY <5>2 DEF Rmdir
          <6>2. AfterRmdir[pc[p]] \in {"saveCrashes", "saveHangs", "dropStats"}
            BY <6>1 DEF AfterRmdir
          <6>3. QED  BY <3>1, <4>2, <5>2, <6>2 DEF Rmdir
        <5>3. CASE Start(p) \/ MkOut(p) \/ Lock(p)
          BY <3>1, <4>2, <5>3 DEF Start, MkOut, Lock
        <5>4. CASE HelperEnds(p)
          BY <2>4, <3>1, <4>2, <5>4 DEF HelperEnds, Helping
        <5>5. QED
          BY <1>5, <3>1, <4>2, <5>1, <5>2, <5>3, <5>4 DEF ProcNext, Judge, Move,
             RmState, Unlink, SaveCrashes, SaveHangs, DropPlot, Update, Age,
             Keep, KeepReadme, System, Stop, Finish, Die
      <4>3. QED  BY <4>1, <4>2
    <3>2. QED  BY <2>1, <2>4, <3>1 DEF Recorded
  <2>5. QED  BY <1>1, <2>2, <2>3, <2>4 DEF Recorded
<1>6. QED  BY <1>2, <1>3, <1>4, <1>5

(* What one process does is no matter of the others.                       *)
LEMMA NextFindings ==
    ASSUME TypeOK, OneOwner, Findings, NEW p \in Proc, ProcNext(p)
    PROVE  Findings'
<1>1. Filled /\ \A q \in Proc : Stays(q)  BY DEF Findings
<1>2. ASSUME NEW q \in Proc PROVE Stays(q)'
  <2>1. CASE q = p
    BY <1>1, <2>1, OwnBuilt, OwnFresh, OwnJudged DEF Stays
  <2>2. CASE q # p
    <3>1. pc'[q] = pc[q] /\ mode'[q] = mode[q] /\ old'[q] = old[q]
      BY <2>2, Others
    <3>2. CASE pc[p] \in Owning
      <4>1. pc[q] \notin Owning  BY <2>2, <3>2 DEF OneOwner
      <4>2. QED
        BY <3>1, <4>1, Names DEF Stays, Built, Fresh, Judged, Owning, Setup,
           Cleanup, Running
    <3>3. CASE pc[p] \notin Owning
      <4>1. UNCHANGED <<stats, exists, files, backup, aged>>
        BY <3>3, OnlyOwnersTouch
      <4>2. Safe' = Safe  BY <4>1 DEF Safe, Present, Kept
      <4>3. QED
        BY <1>1, <3>1, <4>1, <4>2 DEF Stays, Built, New, Fresh, Judged, Running,
           Helping, Cleanup
    <3>4. QED  BY <3>2, <3>3
  <2>3. QED  BY <2>1, <2>2
<1>3. Filled'  BY <1>1, NextFilled DEF TypeOK, Stays
<1>4. QED  BY <1>2, <1>3, NextRecorded DEF Findings

(* What a step may take from what was recorded as old.                     *)
LEMMA NextStays ==
    ASSUME TypeOK, Findings, NEW p \in Proc, Saved(p), ProcNext(p)
    PROVE  \/ aged \cap Present \subseteq Present'
           \/ mode[p] = "resume" /\ pc[p] = "queue"
<1>0. USE DEF TypeOK, DiskOK, Dir, Present
<1>1. CASE Move(p)
  <2>1. CASE Movable
    <3>1. /\ files'["_resume"] = files["queue"] /\ backup' = backup
          /\ files'["crashes"] = files["crashes"] /\ files'["hangs"] = files["hangs"]
      BY <1>1, <2>1 DEF Move
    <3>2. QED  BY <2>1, <3>1 DEF Movable
  <2>2. CASE ~Movable  BY <1>1, <2>2 DEF Move
  <2>3. QED  BY <2>1, <2>2
<1>2. CASE Unlink(p)
  <2>1. CASE mode[p] = "resume"
    BY <1>2, <2>1 DEF Unlink, Saved
  <2>2. CASE mode[p] # "resume"
    <3>1. pc[p] \in Cleanup \ {"judge"}  BY <1>2 DEF Unlink, Cleanup
    <3>2. Safe  BY <2>2, <3>1 DEF Findings, Stays, Judged, Recorded
    <3>3. backup' = backup /\ files'["_resume"] = files["_resume"]
      BY <1>2 DEF Unlink
    <3>4. QED  BY <3>2, <3>3 DEF Safe, Kept
  <2>3. QED  BY <2>1, <2>2
<1>3. CASE Rmdir(p)  BY <1>3 DEF Rmdir
<1>4. CASE SaveCrashes(p) \/ SaveHangs(p)
  BY <1>4 DEF SaveCrashes, SaveHangs
<1>5. CASE MakeDirs(p)  BY <1>5, MakeDirsLeaves
<1>6. CASE Keep(p)  BY <1>6 DEF Keep
<1>7. CASE ~Shuffles(p)  BY <1>7, OthersLeave
<1>8. QED  BY <1>1, <1>2, <1>3, <1>4, <1>5, <1>6, <1>7 DEF Shuffles

(* It holds before the first start, and when nothing happens.              *)
LEMMA InitFindings ==
    ASSUME Init PROVE OneOwner /\ (\A p \in Proc : Saved(p)) /\ Findings
<1>1. OneOwner /\ \A p \in Proc : Saved(p)
  BY Kinds DEF Init, OneOwner, Saved
<1>2. Filled /\ Recorded
  BY DEF Init, Filled, Recorded, Safe
<1>3. \A p \in Proc : Stays(p)
  BY DEF Init, Stays, Built, Fresh, Judged, Running, Helping, Cleanup
<1>4. QED  BY <1>1, <1>2, <1>3 DEF Findings

LEMMA SameFindings ==
    ASSUME OneOwner, \A p \in Proc : Saved(p), Findings, UNCHANGED vars
    PROVE  (OneOwner /\ (\A p \in Proc : Saved(p)) /\ Findings)'
<1>1. (OneOwner /\ \A p \in Proc : Saved(p))'
  BY DEF vars, disk, OneOwner, Saved
<1>2. Safe' = Safe  BY DEF vars, disk, Safe, Present, Kept
<1>3. Filled' /\ Recorded'
  BY <1>2 DEF vars, disk, Findings, Filled, Recorded, Closing
<1>4. (\A p \in Proc : Stays(p))'
  BY <1>2 DEF vars, disk, Findings, Stays, Built, New, Fresh, Judged,
     Running, Helping, Cleanup
<1>5. QED  BY <1>1, <1>3, <1>4 DEF Findings

(* What was once recorded as more than OUTPUT_GRACE minutes of work is     *)
(* there after any step of any number of starts, whatever their modes and  *)
(* wherever they are killed; only a second resumption deletes a queue.     *)
THEOREM OldFindingsAreKept == Spec => OldFindingsStay
<1> DEFINE I == OneOwner /\ (\A p \in Proc : Saved(p)) /\ Findings
<1>1. Init => I  BY InitFindings
<1>2. TypeOK /\ I /\ [Next]_vars => I'
  <2>1. ASSUME TypeOK, I, Next PROVE I'
    BY <2>1, NextOwner, NextSaved, NextFindings DEF Next, TypeOK
  <2>2. ASSUME I, UNCHANGED vars PROVE I'  BY <2>2, SameFindings
  <2>3. QED  BY <2>1, <2>2
<1>3. TypeOK /\ I /\ [Next]_vars
      => [\/ aged \cap Present \subseteq Present'
          \/ \E p \in Proc : mode[p] = "resume" /\ pc[p] = "queue"]_vars
  BY NextStays DEF Next
<1>4. QED
  <2> HIDE DEF I
  <2> QED  BY <1>1, <1>2, <1>3, TypeCorrect, PTL DEF Spec, OldFindingsStay

-----------------------------------------------------------------------------
(* Who is past the judgment of fuzzer_stats, or has made a queue, and does *)
(* not write the file itself, finds it whole.                              *)
Past == (Cleanup \ {"judge"}) \cup (Setup \ {"mkQueue"}) \cup (Running \ Closing)
Whole(p) == pc[p] \in Past => stats # "torn"

(* A torn file was left by one that had built the directory.               *)
Torn ==
    /\ stats = "torn" => out /\ "queue" \in exists
    /\ \A p \in Proc : Whole(p) /\ (pc[p] \notin {"off", "mkOut"} => out)

(* Only these steps lead past the judgment, ...                            *)
LEMMA WayPast ==
    ASSUME TypeOK, NEW p \in Proc, ProcNext(p), pc'[p] \in Past
    PROVE  \/ pc[p] \in Past \/ Judge(p) \/ CloseStats(p)
           \/ Mkdir(p, "mkQueue", "queue", "mkState")
<1>0. USE DEF TypeOK, PlaceOK, Then, Fail, End, Goto
<1>1. /\ {"move", "state", "queue", "saveCrashes", "crashes", "saveHangs",
           "hangs", "dropStats", "dropPlot", "mkState", "mkCrashes",
           "mkHangs", "mkPlot", "loop", "system", "stats", "lastStats"}
         \subseteq Past
      /\ {"off", "mkOut", "lock", "lockNew", "judge", "mkQueue", "close",
          "lastClose"} \cap Past = {}
  BY DEF Past, Cleanup, Setup, Running, Helping, Closing
<1>2. CASE Start(p) \/ MkOut(p) \/ Lock(p)
  <2>1. pc'[p] \in {"mkOut", "lock", "lockNew", "judge", "mkQueue", "off"}
    <3>1. CASE Start(p)  BY <3>1 DEF Start
    <3>2. CASE MkOut(p)  BY <3>2 DEF MkOut
    <3>3. CASE Lock(p)  BY <3>3 DEF Lock
    <3>4. QED  BY <1>2, <3>1, <3>2, <3>3
  <2>2. QED  BY <1>1, <2>1
<1>3. CASE \/ Move(p) \/ RmState(p) \/ Unlink(p) \/ Rmdir(p) \/ SaveCrashes(p)
           \/ SaveHangs(p) \/ DropStats(p) \/ DropPlot(p)
  BY <1>1, <1>3 DEF Move, RmState, Unlink, Rmdir, SaveCrashes, SaveHangs,
     DropStats, DropPlot
<1>4. CASE MakeDirs(p)
  BY <1>1, <1>4 DEF MakeDirs, Mkdir, MkState, MkPlot
<1>5. CASE \/ TruncStats(p) \/ Update(p) \/ Age(p) \/ Keep(p) \/ KeepReadme(p)
           \/ System(p) \/ Stop(p) \/ Finish(p) \/ Die(p)
  BY <1>1, <1>5 DEF TruncStats, Update, Age, Keep, KeepReadme, System, Stop,
     Finish, Die
<1>6. CASE HelperEnds(p)
  <2>1. pc' = pc \/ pc[p] \in Helping  BY <1>6 DEF HelperEnds, Helping
  <2>2. Helping \subseteq Past  BY DEF Past, Running, Helping, Closing
  <2>3. QED  BY <2>1, <2>2
<1>7. QED  BY <1>2, <1>3, <1>4, <1>5, <1>6 DEF ProcNext

(* ... and only one to the writing of the file.                            *)
LEMMA WayToClose ==
    ASSUME TypeOK, NEW p \in Proc, ProcNext(p), pc'[p] \in Closing
    PROVE  pc[p] \in Closing \/ TruncStats(p)
<1>0. USE DEF TypeOK, PlaceOK, Then, Fail, End, Goto, Closing
<1>1. CASE MakeDirs(p)
  BY <1>1 DEF MakeDirs, Mkdir, MkState, MkPlot
<1>2. CASE Rmdir(p)
  <2>1. pc[p] \in {"queue", "crashes", "hangs"}  BY <1>2 DEF Rmdir
  <2>2. AfterRmdir[pc[p]] \in {"saveCrashes", "saveHangs", "dropStats"}
    BY <2>1 DEF AfterRmdir
  <2>3. QED  BY <1>2, <2>2 DEF Rmdir
<1>3. CASE Start(p) \/ MkOut(p) \/ Lock(p)
  BY <1>3 DEF Start, MkOut, Lock
<1>4. CASE HelperEnds(p)
  BY <1>4 DEF HelperEnds, Helping
<1>5. QED
  BY <1>1, <1>2, <1>3, <1>4 DEF ProcNext, Judge, Move, RmState, Unlink,
     SaveCrashes, SaveHangs, DropStats, DropPlot, CloseStats, Update, Age,
     Keep, KeepReadme, System, Stop, Finish, Die

(* The queue goes only while a start cleans, and out stays.                *)
LEMMA QueueGoes ==
    ASSUME TypeOK, NEW p \in Proc, ProcNext(p)
    PROVE  /\ "queue" \in exists => "queue" \in exists' \/ pc[p] \in Cleanup \ {"judge"}
           /\ out => out'
           /\ pc'[p] \notin {"off", "mkOut"} => out' \/ pc[p] \notin {"off", "mkOut"}
<1>0. USE DEF TypeOK, PlaceOK, Then, Fail, End, Goto
<1>1. CASE \/ Move(p) \/ Unlink(p) \/ Rmdir(p) \/ SaveCrashes(p) \/ SaveHangs(p)
  BY <1>1 DEF Move, Unlink, Rmdir, SaveCrashes, SaveHangs, Cleanup
<1>2. CASE MakeDirs(p)
  <2>1. exists \subseteq exists'  BY <1>2, MakeDirsLeaves
  <2>2. out' = out /\ pc[p] \notin {"off", "mkOut"}
    BY <1>2 DEF MakeDirs, Mkdir, MkState, MkPlot
  <2>3. QED  BY <2>1, <2>2
<1>3. CASE Start(p) \/ MkOut(p) \/ Lock(p)
  <2>1. CASE Start(p)  BY <2>1 DEF Start, disk
  <2>2. CASE MkOut(p)  BY <2>2 DEF MkOut
  <2>3. CASE Lock(p)  BY <2>3 DEF Lock, disk
  <2>4. QED  BY <1>3, <2>1, <2>2, <2>3
<1>4. CASE \/ Judge(p) \/ RmState(p) \/ DropStats(p) \/ DropPlot(p)
           \/ TruncStats(p) \/ CloseStats(p) \/ Update(p) \/ Age(p) \/ Keep(p)
           \/ KeepReadme(p) \/ System(p) \/ Stop(p) \/ Finish(p)
  <2>1. UNCHANGED <<exists, out>>
    BY <1>4 DEF Judge, RmState, DropStats, DropPlot, TruncStats, CloseStats,
       Update, Age, Keep, KeepReadme, System, Stop, Finish, disk
  <2>2. pc[p] \notin {"off", "mkOut"}
    BY <1>4 DEF Judge, RmState, DropStats, DropPlot, TruncStats, CloseStats,
       Update, Age, Keep, KeepReadme, System, Stop, Finish
  <2>3. QED  BY <2>1, <2>2
<1>5. CASE HelperEnds(p) \/ Die(p)
  BY <1>5 DEF HelperEnds, Helping, Die, disk
<1>6. QED  BY <1>1, <1>2, <1>3, <1>4, <1>5 DEF ProcNext

LEMMA OwnWhole ==
    ASSUME TypeOK, Torn, NEW p \in Proc, ProcNext(p)
    PROVE  Whole(p)'
<1> SUFFICES ASSUME pc'[p] \in Past PROVE stats' # "torn"
  BY DEF Whole, Past, Cleanup, Setup, Running, Helping, Closing
<1>0. USE DEF TypeOK, PlaceOK, Then, Fail, End, Goto
<1>1. CASE Judge(p)
  <2>1. stats' = stats /\ pc[p] = "judge"  BY <1>1 DEF Judge, disk
  <2>2. "off" \notin Past
    BY DEF Past, Cleanup, Setup, Running, Helping, Closing
  <2>3. QED  BY <1>1, <2>1, <2>2 DEF Judge
<1>2. CASE Mkdir(p, "mkQueue", "queue", "mkState")
  <2>1. "off" \notin Past
    BY DEF Past, Cleanup, Setup, Running, Helping, Closing
  <2>2. "queue" \notin exists /\ stats' = stats  BY <1>2, <2>1 DEF Mkdir
  <2>3. QED  BY <2>2 DEF Torn
<1>3. CASE CloseStats(p)  BY <1>3 DEF CloseStats
<1>4. CASE pc[p] \in Past /\ ~CloseStats(p)
  <2>1. stats # "torn"  BY <1>4 DEF Torn, Whole
  <2>2. CASE DropStats(p)  BY <2>1, <2>2 DEF DropStats
  <2>3. CASE TruncStats(p)
    <3>1. pc'[p] \in Closing  BY <2>3 DEF TruncStats, Closing
    <3>2. Closing \cap Past = {}
      BY DEF Past, Cleanup, Setup, Running, Helping, Closing
    <3>3. QED  BY <3>1, <3>2
  <2>4. CASE ~DropStats(p) /\ ~TruncStats(p)  BY <1>4, <2>1, <2>4, StatsStay
  <2>5. QED  BY <2>2, <2>3, <2>4
<1>5. QED  BY <1>1, <1>2, <1>3, <1>4, WayPast

LEMMA NextTorn ==
    ASSUME TypeOK, OneOwner, Findings, Torn, NEW p \in Proc, ProcNext(p)
    PROVE  Torn'
<1>0. Past \subseteq Owning
  BY DEF Past, Owning
<1>1. ASSUME NEW q \in Proc PROVE Whole(q)' /\ (pc'[q] \notin {"off", "mkOut"} => out')
  <2>1. CASE q = p
    <3>1. Whole(p)'  BY OwnWhole
    <3>2. pc'[p] \notin {"off", "mkOut"} => out'  BY QueueGoes DEF Torn
    <3>3. QED  BY <2>1, <3>1, <3>2
  <2>2. CASE q # p
    <3>1. pc'[q] = pc[q]  BY <2>2, Others
    <3>2. pc[q] \notin {"off", "mkOut"} => out'  BY QueueGoes DEF Torn
    <3>3. Whole(q)'
      <4>1. CASE pc[p] \in Owning
        BY <1>0, <2>2, <3>1, <4>1 DEF OneOwner, Whole, Past, Cleanup, Setup,
           Running, Closing, Helping
      <4>2. CASE pc[p] \notin Owning
        <5>1. stats' = stats  BY <4>2, OnlyOwnersTouch
        <5>2. QED  BY <3>1, <5>1 DEF Torn, Whole, Past, Cleanup, Setup,
                   Running, Closing, Helping
      <4>3. QED  BY <4>1, <4>2
    <3>4. QED  BY <3>1, <3>2, <3>3
  <2>3. QED  BY <2>1, <2>2
<1>2. ASSUME stats' = "torn" PROVE out' /\ "queue" \in exists'
  <2>1. CASE TruncStats(p)
    <3>1. pc[p] \in Running /\ pc[p] \notin {"off", "mkOut"}
      BY <2>1 DEF TruncStats, Running
    <3>2. "queue" \in exists /\ out  BY <3>1 DEF Findings, Stays, Built, Torn
    <3>3. QED  BY <2>1, <3>2 DEF TruncStats
  <2>2. CASE ~TruncStats(p)
    <3>1. stats = "torn"
      <4>0. USE DEF TypeOK, DiskOK
      <4>1. CASE DropStats(p)  BY <1>2, <4>1 DEF DropStats
      <4>2. ~CloseStats(p)  BY <1>2 DEF CloseStats
      <4>3. QED  BY <1>2, <2>2, <4>1, <4>2, StatsStay
    <3>2. pc[p] \notin Cleanup \ {"judge"}  BY <3>1 DEF Torn, Whole, Past
    <3>3. QED  BY <3>1, <3>2, QueueGoes DEF Torn
  <2>3. QED  BY <2>1, <2>2
<1>3. QED  BY <1>1, <1>2 DEF Torn

(* What a step may do to a file that was cut off, ...                      *)
LEMMA CutOffStays ==
    ASSUME TypeOK, OneOwner, Torn, CutOff, NEW p \in Proc, ProcNext(p)
    PROVE  CutOff' /\ UNCHANGED disk
<1>0. stats = "torn" /\ out /\ "queue" \in exists /\ \A q \in Proc : pc[q] \notin Closing
  BY DEF CutOff, Torn, Closing
<1>1. pc[p] \notin Past  BY <1>0 DEF Torn, Whole
<1>2. UNCHANGED disk
  <2>1. CASE pc[p] \notin Owning
    <3>1. UNCHANGED <<stats, exists, files, state, readme, backup, plot>>
      BY <2>1, OnlyOwnersTouch
    <3>2. out' \in BOOLEAN /\ out \in BOOLEAN
      <4>1. out' \in BOOLEAN  BY NextDisk DEF TypeOK, DiskOK
      <4>2. QED  BY <4>1 DEF TypeOK, DiskOK
    <3>3. out' = out  BY <1>0, <3>2, QueueGoes
    <3>4. QED  BY <3>1, <3>3 DEF disk
  <2>2. CASE pc[p] \in Owning
    <3>1. pc[p] \in {"judge", "mkQueue"}
      BY <1>0, <1>1, <2>2 DEF Owning, Past, Cleanup, Setup
    <3>2. CASE MakeDirs(p)
      <4>1. Mkdir(p, "mkQueue", "queue", "mkState")
        BY <3>1, <3>2 DEF MakeDirs, Mkdir, MkState, MkPlot
      <4>2. QED  BY <1>0, <4>1 DEF Mkdir, disk
    <3>3. CASE Judge(p) \/ HelperEnds(p) \/ Die(p)
      BY <3>3 DEF Judge, HelperEnds, Die
    <3>4. QED
      BY <3>1, <3>2, <3>3 DEF ProcNext, Start, MkOut, Lock, Move, RmState, Unlink,
         Rmdir, SaveCrashes, SaveHangs, DropStats, DropPlot, TruncStats,
         CloseStats, Update, Age, Keep, KeepReadme, System, Stop, Finish
  <2>3. QED  BY <2>1, <2>2
<1>3. ASSUME NEW q \in Proc PROVE pc'[q] \notin Closing
  <2>1. CASE q = p
    <3>1. ~TruncStats(p)
      BY <1>1 DEF TruncStats, Past, Running, Closing
    <3>2. QED  BY <1>0, <2>1, <3>1, WayToClose
  <2>2. CASE q # p  BY <1>0, <2>2, Others
  <2>3. QED  BY <2>1, <2>2
<1>4. QED  BY <1>0, <1>2, <1>3 DEF CutOff, disk, Closing

(* ... and when a start may give up on it.                                 *)
LEMMA GivesUp ==
    ASSUME TypeOK, OneOwner, NEW p \in Proc, ProcNext(p), NEW q \in Proc,
           why'[q] = "malformed", why[q] # "malformed"
    PROVE  CutOff
<1>1. q = p  BY Others
<1>2. Judge(p) /\ stats = "torn"
  <2>0. USE DEF TypeOK, PlaceOK, Then, Fail, End, Goto
  <2>1. CASE MakeDirs(p)
    BY <1>1, <2>1 DEF MakeDirs, Mkdir, MkState, MkPlot
  <2>2. CASE Start(p) \/ MkOut(p) \/ Lock(p)
    BY <1>1, <2>2 DEF Start, MkOut, Lock
  <2>3. CASE Judge(p)
    BY <1>1, <2>3 DEF Judge
  <2>4. CASE HelperEnds(p)
    BY <1>1, <2>4 DEF HelperEnds
  <2>5. QED
    BY <1>1, <2>1, <2>2, <2>3, <2>4 DEF ProcNext, Move, RmState, Unlink, Rmdir,
       SaveCrashes, SaveHangs, DropStats, DropPlot, TruncStats, CloseStats,
       Update, Age, Keep, KeepReadme, System, Stop, Finish, Die
<1>3. pc[p] = "judge" /\ "judge" \in Owning /\ {"close", "lastClose"} \subseteq Owning
  BY <1>2, Names DEF Judge
<1>4. \A r \in Proc : pc[r] \notin {"close", "lastClose"}
  BY <1>3 DEF OneOwner
<1>5. QED  BY <1>2, <1>4 DEF CutOff

(* When a kill cut fuzzer_stats off, no start of any mode changes what is  *)
(* there, and only then does one give up on the file, for any number of    *)
(* processes and of starts.                                                *)
THEOREM CutOffAlwaysLeft == Spec => CutOffIsLeft
<1> DEFINE I == OneOwner /\ (\A p \in Proc : Saved(p)) /\ Findings /\ Torn
<1>1. Init => I
  <2> SUFFICES ASSUME Init PROVE I
    OBVIOUS
  <2>1. OneOwner /\ (\A p \in Proc : Saved(p)) /\ Findings
    BY InitFindings
  <2>2. Torn
    BY DEF Init, Torn, Whole, Past, Cleanup, Setup, Running, Helping
  <2>3. QED  BY <2>1, <2>2
<1>2. TypeOK /\ I /\ [Next]_vars => I'
  <2>1. ASSUME TypeOK, I, Next PROVE I'
    BY <2>1, NextOwner, NextSaved, NextFindings, NextTorn DEF Next, TypeOK
  <2>2. ASSUME I, UNCHANGED vars PROVE I'
    <3>1. (OneOwner /\ (\A p \in Proc : Saved(p)) /\ Findings)'
      BY <2>2, SameFindings
    <3>2. Torn'
      BY <2>2 DEF vars, disk, Torn, Whole, Past, Cleanup, Setup, Running,
         Closing, Helping
    <3>3. QED  BY <3>1, <3>2
  <2>3. QED  BY <2>1, <2>2
<1>3. TypeOK /\ I /\ [Next]_vars
      => [/\ CutOff => CutOff' /\ UNCHANGED disk
          /\ \A p \in Proc : why'[p] = "malformed" /\ why[p] # "malformed"
                => CutOff]_vars
  BY CutOffStays, GivesUp DEF Next
<1>4. QED
  <2> HIDE DEF I
  <2> QED  BY <1>1, <1>2, <1>3, TypeCorrect, PTL DEF Spec, CutOffIsLeft
=============================================================================
