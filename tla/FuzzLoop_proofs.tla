---------------------------- MODULE FuzzLoop_proofs ----------------------------
(***************************************************************************)
(* What the fuzzing loop counts and keeps, for every map, every limit and  *)
(* any number of rounds, wherever the signals and the other fuzzers'       *)
(* coverage arrive.                                                        *)
(***************************************************************************)
EXTENDS FuzzLoop, FiniteSetTheorems, TLAPS

(* How it was started does not change.                                     *)
LEMMA SetupStays ==
    ASSUME [Next]_vars
    PROVE  in_dir' = in_dir /\ Reruns' = Reruns /\ Usr1' = Usr1
  <1>1. setup' = setup
    BY DEF Next, Loop, Save, Stop, SkipReq, NextRound, NewDir, Finish, Load,
           Run, PostStopped, PostSkip, PostSave, SaveCorpus, SaveOld, SaveNew,
           SaveTimeoutOld, SaveTimeoutNew, Rerun, Judge, SaveCrash, CrashOld,
           CrashNew, vars, place
  <1> QED
    BY <1>1 DEF in_dir, Reruns, Usr1

LEMMA SimplifiedBits ==
    ASSUME NEW t PROVE Simplified(t) \subseteq Bit
  BY FuzzLoopAssumption DEF Simplified

LEMMA TraceBits == Trace \subseteq SUBSET Bit
  BY DEF Trace

(* The counters after one or two of them were raised.                      *)
LEMMA Raised ==
    ASSUME stats \in [Counter -> Nat], NEW c \in Counter, NEW n \in Nat
    PROVE  /\ Add(c, n) \in [Counter -> Nat]
           /\ Add(c, n)[c] = stats[c] + n
           /\ \A d \in Counter \ {c} : Add(c, n)[d] = stats[d]
  BY DEF Add

LEMMA InitTypes == Init => TypeOK
  <1> SUFFICES ASSUME Init PROVE TypeOK
    OBVIOUS
  <1>1. {} \in Trace
    BY DEF Trace, Classified
  <1>2. /\ setup \in [in_dir : BOOLEAN, reruns : BOOLEAN, usr1 : BOOLEAN]
        /\ 0 \in 0..MaxRound /\ 0 \in 0..MaxFile
    BY FuzzLoopAssumption DEF Init
  <1>3. virgin \in [Map -> SUBSET Bit] /\ stats \in [Counter -> Nat]
    BY DEF Init
  <1> QED
    BY <1>1, <1>2, <1>3 DEF Init, TypeOK, Fault, Requester

(* Who a request is from is one of four.                                   *)
LEMMA NextRequester == TypeOK /\ [Next]_vars => by' \in Requester
  <1> SUFFICES ASSUME TypeOK, [Next]_vars PROVE by' \in Requester
    OBVIOUS
  <1>0. {by, "none", "first run", "second run", "signal"} \subseteq Requester
    BY DEF TypeOK, Requester
  <1>1. CASE Stop \/ SkipReq \/ NextRound \/ NewDir \/ Finish \/ Load
               \/ PostStopped \/ PostSkip \/ PostSave \/ UNCHANGED vars
    BY <1>0, <1>1 DEF Stop, SkipReq, NextRound, NewDir, Finish, Load,
                      PostStopped, PostSkip, PostSave, vars, place
  <1>2. CASE Run \/ Rerun
    BY <1>0, <1>2 DEF Run, Rerun
  <1>3. CASE Save /\ ~Rerun
    BY <1>0, <1>3 DEF Save, SaveCorpus, SaveOld, SaveNew, SaveTimeoutOld,
                      SaveTimeoutNew, Judge, SaveCrash, CrashOld, CrashNew, place
  <1> QED
    BY <1>1, <1>2, <1>3 DEF Next, Loop

LEMMA NextTypes == TypeOK /\ [Next]_vars => TypeOK'
  <1> SUFFICES ASSUME TypeOK, [Next]_vars PROVE TypeOK'
    OBVIOUS
  <1>0. by' \in Requester
    BY NextRequester
  <1> USE <1>0, FuzzLoopAssumption DEF TypeOK, place, verdict, flags, kept
  <1>1. CASE Stop
    BY <1>1 DEF Stop
  <1>2. CASE SkipReq
    BY <1>2 DEF SkipReq
  <1>3. CASE NextRound \/ Finish \/ PostStopped \/ SaveOld \/ SaveCrash
    BY <1>3 DEF NextRound, Finish, PostStopped, SaveOld, SaveCrash
  <1>4. CASE NewDir
    BY <1>4 DEF NewDir
  <1>5. CASE Load
    <2>1. /\ 0 < left /\ left' = left - 1 /\ pc' = "run"
          /\ UNCHANGED <<setup, round, stop_soon, verdict, flags, kept>>
      BY <1>5 DEF Load, MoreFiles
    <2>2. left \in Int /\ MaxFile \in Int /\ left <= MaxFile
      OBVIOUS
    <2>3. left' \in 0 .. MaxFile
      BY <2>1, <2>2
    <2> QED
      BY <2>1, <2>3
  <1>6. CASE Run
    BY <1>6 DEF Run, Outcome, Execute
  <1>7. CASE PostSkip
    <2>1. stats' \in [Counter -> Nat]
      BY <1>7 DEF PostSkip, Counter
    <2> QED
      BY <1>7, <2>1 DEF PostSkip, Streak, RequestServed, TooManyTimeouts
  <1>8. CASE PostSave
    BY <1>8 DEF PostSave, Streak
  <1>9. CASE SaveCorpus
    <2>1. stats' \in [Counter -> Nat]
      BY <1>9, Raised DEF SaveCorpus, Counter
    <2> QED
      BY <1>9, <2>1 DEF SaveCorpus, Send, Keep, Unseen, Map
  <1>10. CASE SaveNew
    <2> PICK g \in SUBSET Bit :
              LET hnb == StillNew("path", g)
                  new == IF hnb # 0 THEN 1 ELSE 0
              IN  /\ Synced("path", g)
                  /\ stats' = [Add("queued_paths", new) EXCEPT
                             !["queued_with_cov"] = IF hnb = 2 THEN @ + 1 ELSE @]
                  /\ Send("path", new) /\ Keep(new)
      BY <1>10 DEF SaveNew
    <2> DEFINE new == IF StillNew("path", g) # 0 THEN 1 ELSE 0
    <2>1. Add("queued_paths", new) \in [Counter -> Nat]
      BY Raised DEF Counter
    <2>2. stats' \in [Counter -> Nat]
      BY <2>1 DEF Counter
    <2>3. virgin' \in [Map -> SUBSET Bit]
      BY DEF Synced, Unseen, Map
    <2> QED
      BY <1>10, <2>2, <2>3 DEF SaveNew, Send, Keep
  <1>11. CASE SaveTimeoutOld \/ CrashOld
    <2>1. stats' \in {Add("total_tmouts", 1), Add("total_crashes", 1)}
      BY <1>11 DEF SaveTimeoutOld, CrashOld
    <2>2. \A c \in Counter : Add(c, 1) \in [Counter -> Nat]
      BY Raised
    <2>3. stats' \in [Counter -> Nat]
      BY <2>1, <2>2 DEF Counter
    <2> QED
      BY <1>11, <2>3 DEF SaveTimeoutOld, CrashOld
  <1>12. CASE SaveTimeoutNew
    <2>1. Add("unique_hangs", IF Reruns THEN 0 ELSE 1) \in [Counter -> Nat]
      BY Raised DEF Counter
    <2>2. stats' \in [Counter -> Nat]
      BY <1>12, <2>1 DEF SaveTimeoutNew, Counter
    <2>3. virgin' \in [Map -> SUBSET Bit]
      BY <1>12 DEF SaveTimeoutNew, Unseen, Map
    <2> QED
      BY <1>12, <2>2, <2>3 DEF SaveTimeoutNew, Keep
  <1>13. CASE Rerun
    BY <1>13 DEF Rerun, Outcome, Execute
  <1>14. CASE Judge
    <2>1. stats' \in [Counter -> Nat]
      BY <1>14, Raised DEF Judge, Counter
    <2> QED
      BY <1>14, <2>1 DEF Judge, Keep
  <1>15. CASE CrashNew
    <2> PICK g \in SUBSET Bit :
              LET new == IF StillNew("crash", g) # 0 THEN 1 ELSE 0
              IN  /\ Synced("crash", g)
                  /\ stats' = [Add("unique_crashes", new) EXCEPT
                              !["total_crashes"] = @ + 1]
                  /\ Send("crash", IF fault = "crash" THEN new ELSE 0)
                  /\ Keep(new)
      BY <1>15 DEF CrashNew
    <2> DEFINE new == IF StillNew("crash", g) # 0 THEN 1 ELSE 0
    <2>1. Add("unique_crashes", new) \in [Counter -> Nat]
      BY Raised DEF Counter
    <2>2. stats' \in [Counter -> Nat]
      BY <2>1 DEF Counter
    <2>3. virgin' \in [Map -> SUBSET Bit]
      BY DEF Synced, Unseen, Map
    <2> QED
      BY <1>15, <2>2, <2>3 DEF CrashNew, Send, Keep
  <1>16. CASE UNCHANGED vars
    BY <1>16 DEF vars
  <1> QED
    BY <1>1, <1>2, <1>3, <1>4, <1>5, <1>6, <1>7, <1>8, <1>9, <1>10, <1>11,
       <1>12, <1>13, <1>14, <1>15, <1>16 DEF Next, Loop, Save

(* Type correctness of the loop.                                           *)
THEOREM TypeCorrect == Spec => []TypeOK
  BY InitTypes, NextTypes, PTL DEF Spec
-----------------------------------------------------------------------------
(* Between the two runs of a timeout the second one may still make a hang  *)
(* of it; and only there does a crash come from a timeout.                 *)
SecondRun ==
    /\ pc \in {"rerun", "judge"} =>
          /\ Reruns
          /\ stats["unique_hangs"] < stats["unique_tmouts"]
          /\ stats["unique_hangs"] < KEEP_UNIQUE_HANG
    /\ pc = "crash" => fault = "crash" \/ Reruns

CountInv == TypeOK /\ CountersAgree /\ SecondRun

LEMMA RaisedByOne ==
    ASSUME TypeOK, NEW c \in Counter, NEW n \in Nat, stats' = Add(c, n)
    PROVE  /\ stats'[c] = stats[c] + n
           /\ \A d \in Counter \ {c} : stats'[d] = stats[d]
  BY Raised DEF TypeOK

LEMMA InitCounts == Init => CountersAgree /\ SecondRun
  BY FuzzLoopAssumption DEF Init, CountersAgree, SecondRun, Counter

(* The counters that SaveNew and CrashNew leave.                           *)
LEMMA CrashCounts ==
    ASSUME CountInv, NEW new \in {0, 1}, new = 1 => stats["unique_crashes"] < KEEP_UNIQUE_CRASH,
           fault = "crash" \/ Reruns, Reruns' = Reruns,
           stats' = [Add("unique_crashes", new) EXCEPT !["total_crashes"] = @ + 1],
           Send("crash", IF fault = "crash" THEN new ELSE 0)
    PROVE  CountersAgree'
  <1> USE DEF CountInv, TypeOK
  <1>1. /\ stats'["unique_crashes"] = stats["unique_crashes"] + new
        /\ stats'["total_crashes"] = stats["total_crashes"] + 1
        /\ \A c \in Counter \ {"unique_crashes", "total_crashes"} : stats'[c] = stats[c]
    BY DEF Add, Counter
  <1>2. /\ inserted'["path"] = inserted["path"]
        /\ inserted'["crash"] = inserted["crash"] + (IF fault = "crash" THEN new ELSE 0)
    BY DEF Send
  <1>3. inserted["crash"] \in Nat /\ \A c \in Counter : stats[c] \in Nat
    OBVIOUS
  <1>4. KEEP_UNIQUE_CRASH \in Nat /\ KEEP_UNIQUE_HANG \in Nat
    BY FuzzLoopAssumption
  <1> QED
    BY <1>1, <1>2, <1>3, <1>4 DEF CountersAgree, Counter

LEMMA NextCounts == CountInv /\ [Next]_vars => CountersAgree' /\ SecondRun'
  <1> SUFFICES ASSUME CountInv, [Next]_vars PROVE CountersAgree' /\ SecondRun'
    OBVIOUS
  <1> USE DEF CountInv, place, verdict, flags, kept
  <1>0. /\ \A c \in Counter : stats[c] \in Nat
        /\ inserted["crash"] \in Nat /\ inserted["path"] \in Nat
        /\ KEEP_UNIQUE_CRASH \in Nat /\ KEEP_UNIQUE_HANG \in Nat
    BY FuzzLoopAssumption DEF TypeOK
  <1>r. Reruns' = Reruns
    BY SetupStays
  <1>1. ASSUME UNCHANGED <<stats, inserted>>,
               pc' \in {"rerun", "judge"} => pc \in {"rerun", "judge"},
               pc' = "crash" => pc = "crash" /\ fault' = fault
        PROVE  CountersAgree' /\ SecondRun'
    BY <1>r, <1>1 DEF CountersAgree, SecondRun
  <1>2. CASE Stop \/ SkipReq
    BY <1>1, <1>2 DEF Stop, SkipReq
  <1>3. CASE NextRound \/ NewDir \/ Finish \/ Load \/ Run \/ PostStopped
                 \/ PostSave \/ SaveOld \/ Rerun
    BY <1>1, <1>3 DEF NextRound, NewDir, Finish, Load, Run, PostStopped,
                      PostSave, SaveOld, Rerun
  <1>4. CASE PostSkip
    <2>1. /\ pc' = "load" /\ inserted' = inserted
          /\ \A c \in Counter \ {"cur_skipped_paths"} : stats'[c] = stats[c]
      BY <1>4 DEF PostSkip, TypeOK, Counter
    <2> QED
      BY <1>r, <2>1 DEF CountersAgree, SecondRun, Counter
  <1>5. CASE SaveCorpus
    <2>1. /\ stats'["queued_paths"] = stats["queued_paths"] + 1
          /\ \A c \in Counter \ {"queued_paths"} : stats'[c] = stats[c]
      <3>1. "queued_paths" \in Counter /\ 1 \in Nat
        BY DEF Counter
      <3>2. stats' = Add("queued_paths", 1)
        BY <1>5 DEF SaveCorpus
      <3> QED
        BY <3>1, <3>2, RaisedByOne
    <2>2. /\ pc' = "load" /\ inserted'["path"] = inserted["path"] + 1
          /\ inserted'["crash"] = inserted["crash"]
      BY <1>5 DEF SaveCorpus, Send, TypeOK
    <2> QED
      BY <1>r, <2>1, <2>2 DEF CountersAgree, SecondRun, Counter
  <1>6. CASE SaveNew
    <2> PICK g \in SUBSET Bit :
              LET hnb == StillNew("path", g)
                  new == IF hnb # 0 THEN 1 ELSE 0
              IN  /\ Synced("path", g)
                  /\ stats' = [Add("queued_paths", new) EXCEPT
                             !["queued_with_cov"] = IF hnb = 2 THEN @ + 1 ELSE @]
                  /\ Send("path", new) /\ Keep(new)
      BY <1>6 DEF SaveNew
    <2> DEFINE new == IF StillNew("path", g) # 0 THEN 1 ELSE 0
    <2>1. new \in {0, 1}
      OBVIOUS
    <2>2. /\ stats' = [Add("queued_paths", new) EXCEPT !["queued_with_cov"] =
                          IF StillNew("path", g) = 2 THEN @ + 1 ELSE @]
          /\ Send("path", new)
      OBVIOUS
    <2> HIDE DEF new
    <2>3. /\ stats'["queued_paths"] = stats["queued_paths"] + new
          /\ \A c \in Counter \ {"queued_paths", "queued_with_cov"} : stats'[c] = stats[c]
      BY <2>1, <2>2 DEF Add, TypeOK, Counter
    <2>4. /\ pc' = "load" /\ inserted'["path"] = inserted["path"] + new
          /\ inserted'["crash"] = inserted["crash"]
      BY <1>6, <2>2 DEF SaveNew, Send, TypeOK
    <2> QED
      BY <1>r, <2>1, <2>3, <2>4 DEF CountersAgree, SecondRun, Counter
  <1>7. CASE SaveTimeoutOld
    <2>1. /\ stats'["total_tmouts"] = stats["total_tmouts"] + 1
          /\ \A c \in Counter \ {"total_tmouts"} : stats'[c] = stats[c]
      <3>1. "total_tmouts" \in Counter /\ 1 \in Nat
        BY DEF Counter
      <3>2. stats' = Add("total_tmouts", 1)
        BY <1>7 DEF SaveTimeoutOld
      <3> QED
        BY <3>1, <3>2, RaisedByOne
    <2>2. pc' = "load" /\ inserted' = inserted
      BY <1>7 DEF SaveTimeoutOld
    <2> QED
      BY <1>r, <1>0, <2>1, <2>2 DEF CountersAgree, SecondRun, Counter
  <1>8. CASE SaveTimeoutNew
    <2> DEFINE hang == IF Reruns THEN 0 ELSE 1
    <2>1. /\ stats'["unique_hangs"] = stats["unique_hangs"] + hang
          /\ stats'["unique_tmouts"] = stats["unique_tmouts"] + 1
          /\ stats'["total_tmouts"] = stats["total_tmouts"] + 1
          /\ stats'["unique_crashes"] = stats["unique_crashes"]
          /\ stats'["total_crashes"] = stats["total_crashes"]
          /\ stats'["queued_paths"] = stats["queued_paths"]
      BY <1>8 DEF SaveTimeoutNew, Add, TypeOK, Counter
    <2>2. /\ ~(stats["unique_hangs"] >= KEEP_UNIQUE_HANG)
          /\ pc' = (IF Reruns THEN "rerun" ELSE "load") /\ inserted' = inserted
      BY <1>8 DEF SaveTimeoutNew, Full
    <2>3. stats["unique_hangs"] \in Nat /\ stats["unique_tmouts"] \in Nat
               /\ stats["total_tmouts"] \in Nat
      BY <1>0 DEF Counter
    <2> QED
      BY <1>r, <1>0, <2>1, <2>2, <2>3 DEF CountersAgree, SecondRun
  <1>9. CASE Judge
    <2> DEFINE hang == IF ~stop_soon /\ new_fault = "tmout" THEN 1 ELSE 0
    <2>1. /\ stats'["unique_hangs"] = stats["unique_hangs"] + hang
          /\ \A c \in Counter \ {"unique_hangs"} : stats'[c] = stats[c]
      <3>1. "unique_hangs" \in Counter /\ hang \in Nat
        BY DEF Counter
      <3>2. stats' = Add("unique_hangs", hang)
        BY <1>9 DEF Judge
      <3> QED
        BY <3>1, <3>2, RaisedByOne
    <2>2. /\ Reruns /\ stats["unique_hangs"] < stats["unique_tmouts"]
          /\ stats["unique_hangs"] < KEEP_UNIQUE_HANG
          /\ pc' \in {"crash", "load"} /\ inserted' = inserted
      BY <1>9 DEF Judge, SecondRun
    <2> QED
      BY <1>r, <1>0, <2>1, <2>2 DEF CountersAgree, SecondRun, Counter
  <1>10. CASE SaveCrash
    BY <1>r, <1>10 DEF SaveCrash, CountersAgree, SecondRun
  <1>11. CASE CrashOld
    <2>1. /\ stats'["total_crashes"] = stats["total_crashes"] + 1
          /\ \A c \in Counter \ {"total_crashes"} : stats'[c] = stats[c]
      <3>1. "total_crashes" \in Counter /\ 1 \in Nat
        BY DEF Counter
      <3>2. stats' = Add("total_crashes", 1)
        BY <1>11 DEF CrashOld
      <3> QED
        BY <3>1, <3>2, RaisedByOne
    <2>2. pc' = "load" /\ inserted' = inserted
      BY <1>11 DEF CrashOld
    <2> QED
      BY <1>r, <1>0, <2>1, <2>2 DEF CountersAgree, SecondRun, Counter
  <1>12. CASE CrashNew
    <2> PICK g \in SUBSET Bit :
              LET new == IF StillNew("crash", g) # 0 THEN 1 ELSE 0
              IN  /\ Synced("crash", g)
                  /\ stats' = [Add("unique_crashes", new) EXCEPT
                              !["total_crashes"] = @ + 1]
                  /\ Send("crash", IF fault = "crash" THEN new ELSE 0)
                  /\ Keep(new)
      BY <1>12 DEF CrashNew
    <2> DEFINE new == IF StillNew("crash", g) # 0 THEN 1 ELSE 0
    <2>1. new \in {0, 1}
      OBVIOUS
    <2>2. stats["unique_crashes"] < KEEP_UNIQUE_CRASH
      BY <1>0, <1>12 DEF CrashNew, Full, Counter
    <2>3. fault = "crash" \/ Reruns
      BY <1>12 DEF CrashNew, SecondRun
    <2>4. CountersAgree'
      BY <1>r, <2>1, <2>2, <2>3, CrashCounts
    <2>5. SecondRun'
      BY <1>12 DEF CrashNew, SecondRun
    <2> QED
      BY <2>4, <2>5
  <1>13. CASE UNCHANGED vars
    BY <1>1, <1>13 DEF vars
  <1> QED
    BY <1>2, <1>3, <1>4, <1>5, <1>6, <1>7, <1>8, <1>9, <1>10, <1>11, <1>12,
       <1>13 DEF Next, Loop, Save

(* The counters of the status page agree and keep to the limits, and what  *)
(* is kept is sent, for every map, every limit and every order of signals, *)
(* also when the second run of a timeout comes back as something else.     *)
THEOREM CountersAlways == Spec => []CountersAgree
  <1>1. Init => CountInv
    BY InitTypes, InitCounts DEF CountInv
  <1>2. CountInv /\ [Next]_vars => CountInv'
    BY NextTypes, NextCounts DEF CountInv
  <1>3. CountInv => CountersAgree
    BY DEF CountInv
  <1> QED
    BY <1>1, <1>2, <1>3, PTL DEF Spec
-----------------------------------------------------------------------------
(* No file is late before the stop, nor while one is judged after it.      *)
NotLateYet ==
    ~stop_soon \/ pc \in {"save", "rerun", "judge", "crash"} => late = 0

LateInv == TypeOK /\ AtMostOneLate /\ NotLateYet

LEMMA InitLate == Init => AtMostOneLate /\ NotLateYet
  BY DEF Init, AtMostOneLate, NotLateYet

(* A verdict that keeps at most one file, and ends there unless it keeps   *)
(* none.                                                                   *)
LEMMA KeptLate ==
    ASSUME LateInv, pc \in {"save", "rerun", "judge", "crash"},
           NEW n \in {0, 1}, Keep(n), n = 0 \/ pc' = "load",
           stop_soon' = stop_soon
    PROVE  AtMostOneLate' /\ NotLateYet'
  BY DEF LateInv, TypeOK, AtMostOneLate, NotLateYet, Keep

LEMMA NextLate == LateInv /\ [Next]_vars => AtMostOneLate' /\ NotLateYet'
  <1> SUFFICES ASSUME LateInv, [Next]_vars PROVE AtMostOneLate' /\ NotLateYet'
    OBVIOUS
  <1> USE DEF place, verdict, flags, kept
  <1>1. CASE SkipReq \/ NextRound \/ NewDir \/ Finish \/ Load \/ Run
               \/ PostStopped \/ UNCHANGED vars
    BY <1>1 DEF LateInv, AtMostOneLate, NotLateYet, SkipReq, NextRound, NewDir,
                Finish, Load, Run, PostStopped, vars
  <1>2. CASE PostSkip \/ PostSave
    BY <1>2 DEF LateInv, AtMostOneLate, NotLateYet, PostSkip, PostSave
  <1>3. CASE SaveOld \/ SaveTimeoutOld \/ Rerun \/ SaveCrash \/ CrashOld
    BY <1>3 DEF LateInv, AtMostOneLate, NotLateYet, SaveOld, SaveTimeoutOld,
                Rerun, SaveCrash, CrashOld
  <1>4. CASE SaveCorpus
    BY <1>4, KeptLate DEF SaveCorpus
  <1>5. CASE SaveNew
    <2>1. PICK g \in SUBSET Bit : Keep(IF StillNew("path", g) # 0 THEN 1 ELSE 0)
      BY <1>5 DEF SaveNew
    <2>2. pc = "save" /\ pc' = "load" /\ stop_soon' = stop_soon
      BY <1>5 DEF SaveNew
    <2> QED
      BY <2>1, <2>2, KeptLate
  <1>6. CASE SaveTimeoutNew
    <2>1. Keep(IF Reruns THEN 0 ELSE 1)
      BY <1>6 DEF SaveTimeoutNew
    <2>2. /\ pc = "save" /\ stop_soon' = stop_soon
          /\ pc' = IF Reruns THEN "rerun" ELSE "load"
      BY <1>6 DEF SaveTimeoutNew
    <2> QED
      BY <2>1, <2>2, KeptLate
  <1>7. CASE Judge
    <2> DEFINE hang == IF ~stop_soon /\ new_fault = "tmout" THEN 1 ELSE 0
    <2>1. Keep(hang)
      BY <1>7 DEF Judge
    <2>2. /\ pc = "judge" /\ stop_soon' = stop_soon
          /\ pc' = IF ~stop_soon /\ new_fault = "crash" THEN "crash" ELSE "load"
      BY <1>7 DEF Judge
    <2>3. hang \in {0, 1} /\ (hang = 0 \/ pc' = "load")
      BY <2>2
    <2> QED
      BY <2>1, <2>2, <2>3, KeptLate
  <1>8. CASE CrashNew
    <2>1. PICK g \in SUBSET Bit : Keep(IF StillNew("crash", g) # 0 THEN 1 ELSE 0)
      BY <1>8 DEF CrashNew
    <2>2. pc = "crash" /\ pc' = "load" /\ stop_soon' = stop_soon
      BY <1>8 DEF CrashNew
    <2> QED
      BY <2>1, <2>2, KeptLate
  <1>9. CASE Stop
    BY <1>9 DEF LateInv, AtMostOneLate, NotLateYet, Stop
  <1> QED
    BY <1>1, <1>2, <1>3, <1>4, <1>5, <1>6, <1>7, <1>8, <1>9 DEF Next, Loop, Save

(* After the user's stop at most the file being judged is kept, wherever   *)
(* the signal arrives and however many test cases the directory still has. *)
THEOREM AtMostOneLateAlways == Spec => []AtMostOneLate
  <1>1. Init => LateInv
    BY InitTypes, InitLate DEF LateInv
  <1>2. LateInv /\ [Next]_vars => LateInv'
    BY NextTypes, NextLate DEF LateInv
  <1>3. LateInv => AtMostOneLate
    BY DEF LateInv
  <1> QED
    BY <1>1, <1>2, <1>3, PTL DEF Spec
-----------------------------------------------------------------------------
(* A set that grows, by an element at least where x is new.                *)
LEMMA Larger ==
    ASSUME NEW T, IsFiniteSet(T), NEW S \in SUBSET T
    PROVE  /\ Cardinality(S) \in Nat /\ Cardinality(T) \in Nat
           /\ Cardinality(S) <= Cardinality(T)
           /\ T \ S # {} => Cardinality(S) + 1 <= Cardinality(T)
  <1>1. IsFiniteSet(S) /\ Cardinality(S) <= Cardinality(T)
    BY FS_Subset
  <1>2. Cardinality(S) \in Nat /\ Cardinality(T) \in Nat
    BY <1>1, FS_CardinalityType
  <1>3. ASSUME NEW x \in T \ S PROVE Cardinality(S) + 1 <= Cardinality(T)
    <2>1. Cardinality(S \cup {x}) = Cardinality(S) + 1
      BY <1>1, <1>3, FS_AddElement
    <2>2. Cardinality(S \cup {x}) <= Cardinality(T)
      BY <1>3, FS_Subset
    <2> QED
      BY <2>1, <2>2
  <1> QED
    BY <1>1, <1>2, <1>3

(* A virgin map only loses bits, and what it loses pays for what is kept.  *)
LEMMA Paid ==
    ASSUME TypeOK, NEW m \in Map, virgin'[m] \subseteq virgin[m]
    PROVE  /\ Cardinality(Seen(m)) \in Nat /\ Cardinality(Seen(m)') \in Nat
           /\ Cardinality(Seen(m)) <= Cardinality(Seen(m)')
           /\ virgin[m] \ virgin'[m] # {} =>
                 Cardinality(Seen(m)) + 1 <= Cardinality(Seen(m)')
  <1> DEFINE S == Bit \ virgin[m]
             T == Bit \ virgin'[m]
  <1>1. IsFiniteSet(T) /\ S \in SUBSET T
    BY FS_Subset, FuzzLoopAssumption
  <1>2. virgin[m] \ virgin'[m] # {} => T \ S # {}
    BY DEF TypeOK
  <1> HIDE DEF S, T
  <1>3. /\ Cardinality(S) \in Nat /\ Cardinality(T) \in Nat
        /\ Cardinality(S) <= Cardinality(T)
        /\ T \ S # {} => Cardinality(S) + 1 <= Cardinality(T)
    BY <1>1, Larger
  <1> QED
    BY <1>2, <1>3 DEF Seen, S, T

LEMMA PaidByBytes ==
    ASSUME TypeOK, NEW m \in Map, virgin'[m] \subseteq virgin[m]
    PROVE  LET B == Cardinality(Byte \ FreshBytes(m))
           IN  /\ B \in Nat /\ B' \in Nat /\ B <= B'
               /\ (\E y \in FreshBytes(m) : y \notin FreshBytes(m)') => B + 1 <= B'
  <1> DEFINE S == Byte \ FreshBytes(m)
             T == Byte \ FreshBytes(m)'
  <1>1. IsFiniteSet(T)
    BY FS_Subset, FuzzLoopAssumption
  <1>2. S \in SUBSET T
    BY DEF FreshBytes
  <1>3. (\E y \in FreshBytes(m) : y \notin FreshBytes(m)') => T \ S # {}
    BY DEF FreshBytes
  <1> HIDE DEF S, T
  <1>4. /\ Cardinality(S) \in Nat /\ Cardinality(T) \in Nat
        /\ Cardinality(S) <= Cardinality(T)
        /\ T \ S # {} => Cardinality(S) + 1 <= Cardinality(T)
    BY <1>1, <1>2, Larger
  <1> QED
    BY <1>3, <1>4 DEF S, T

(* has_new_bits(): what it reports is no longer virgin afterwards.         *)
LEMMA NewBitsAreSpent ==
    ASSUME NEW t \in SUBSET Bit, NEW w \in SUBSET Bit
    PROVE  /\ HasNewBits(t, w) \in {0, 1, 2}
           /\ HasNewBits(t, w) # 0 => w \ Unseen(t, w) # {}
           /\ HasNewBits(t, w) = 2 => \E b \in t : b \in w /\
                  \A c \in Bit : ByteOf[c] = ByteOf[b] => c \in w
  BY DEF HasNewBits, Unseen

Lost(m) == virgin[m] \ virgin'[m]

(* A counter stays, or goes up by one and a bit is taken out of the map.   *)
Costs(c, m) ==
    \/ stats'[c] = stats[c]
    \/ stats'[c] = stats[c] + 1 /\ Lost(m) # {}

PaidInv == TypeOK /\ KeptIsPaidFor

LEMMA StaysPaid ==
    ASSUME PaidInv, in_dir' = in_dir,
           \A m \in Map : virgin'[m] \subseteq virgin[m],
           in_dir \/ Costs("queued_paths", "path"),
           Costs("unique_tmouts", "tmout"), Costs("unique_crashes", "crash"),
           \/ stats'["queued_with_cov"] = stats["queued_with_cov"]
           \/ /\ stats'["queued_with_cov"] = stats["queued_with_cov"] + 1
              /\ \E y \in FreshBytes("path") : y \notin FreshBytes("path")'
    PROVE  KeptIsPaidFor'
  <1> DEFINE k == Cardinality(Byte \ FreshBytes("path"))
  <1>1. /\ "path" \in Map /\ "tmout" \in Map /\ "crash" \in Map
        /\ \A c \in Counter : stats[c] \in Nat
    BY DEF Map, PaidInv, TypeOK
  <1>2. ~in_dir => stats'["queued_paths"] <= Cardinality(Seen("path")')
    BY <1>1, Paid DEF PaidInv, KeptIsPaidFor, Costs, Lost, Counter
  <1>3. stats'["queued_with_cov"] <= k'
    <2>1. /\ k \in Nat /\ k' \in Nat /\ k <= k'
          /\ (\E y \in FreshBytes("path") : y \notin FreshBytes("path")') =>
                k + 1 <= k'
      BY <1>1, PaidByBytes DEF PaidInv
    <2>2. stats["queued_with_cov"] <= k /\ stats["queued_with_cov"] \in Nat
      BY <1>1 DEF PaidInv, KeptIsPaidFor, Counter
    <2> HIDE DEF k
    <2> QED
      BY <2>1, <2>2
  <1>4. stats'["unique_tmouts"] <= Cardinality(Seen("tmout")')
    BY <1>1, Paid DEF PaidInv, KeptIsPaidFor, Costs, Lost, Counter
  <1>5. stats'["unique_crashes"] <= Cardinality(Seen("crash")')
    BY <1>1, Paid DEF PaidInv, KeptIsPaidFor, Costs, Lost, Counter
  <1> QED
    BY <1>2, <1>3, <1>4, <1>5 DEF KeptIsPaidFor

(* The second has_new_bits(), after the download was merged.               *)
LEMMA SyncedPays ==
    ASSUME TypeOK, NEW m \in Map, NEW g \in SUBSET Bit, Synced(m, g)
    PROVE  /\ \A k \in Map : virgin'[k] \subseteq virgin[k]
           /\ StillNew(m, g) \in {0, 1, 2}
           /\ StillNew(m, g) # 0 => Lost(m) # {}
           /\ StillNew(m, g) = 2 =>
                 \E y \in FreshBytes(m) : y \notin FreshBytes(m)'
  <1> DEFINE w == Unseen(g, virgin[m])
  <1>1. trace \in SUBSET Bit /\ w \in SUBSET Bit /\ w \subseteq virgin[m]
    BY TraceBits DEF TypeOK, Unseen
  <1>2. virgin'[m] = w \ trace
    BY DEF Synced, Unseen, TypeOK
  <1>3. \A k \in Map : virgin'[k] \subseteq virgin[k]
    BY DEF Synced, Unseen, TypeOK
  <1>4. /\ HasNewBits(trace, w) \in {0, 1, 2}
        /\ HasNewBits(trace, w) # 0 => w \ Unseen(trace, w) # {}
        /\ HasNewBits(trace, w) = 2 => \E b \in trace : b \in w /\
                  \A c \in Bit : ByteOf[c] = ByteOf[b] => c \in w
    BY <1>1, NewBitsAreSpent
  <1> HIDE DEF w
  <1>5. StillNew(m, g) = HasNewBits(trace, w)
    BY DEF StillNew, w
  <1>6. StillNew(m, g) # 0 => Lost(m) # {}
    BY <1>1, <1>2, <1>4, <1>5 DEF Lost, Unseen
  <1>7. ASSUME StillNew(m, g) = 2
        PROVE  \E y \in FreshBytes(m) : y \notin FreshBytes(m)'
    <2> PICK b \in trace : b \in w /\
                  \A c \in Bit : ByteOf[c] = ByteOf[b] => c \in w
      BY <1>4, <1>5, <1>7
    <2>1. ByteOf[b] \in Byte /\ b \in Bit
      BY <1>1, ByteOfAssumption
    <2>2. ByteOf[b] \in FreshBytes(m)
      BY <1>1, <2>1 DEF FreshBytes
    <2>3. ByteOf[b] \notin FreshBytes(m)'
      BY <1>2, <2>1 DEF FreshBytes
    <2> QED
      BY <2>2, <2>3
  <1> QED
    BY <1>3, <1>4, <1>5, <1>6, <1>7

LEMMA InitPaid == Init => KeptIsPaidFor
  <1> SUFFICES ASSUME Init PROVE KeptIsPaidFor
    OBVIOUS
  <1>1. \A m \in Map : Cardinality(Seen(m)) \in Nat
    <2> SUFFICES ASSUME NEW m \in Map PROVE Cardinality(Seen(m)) \in Nat
      OBVIOUS
    <2>1. IsFiniteSet(Seen(m))
      BY FS_Subset, FuzzLoopAssumption DEF Seen
    <2> QED
      BY <2>1, FS_CardinalityType
  <1>2. Cardinality(Byte \ FreshBytes("path")) \in Nat
    <2>1. IsFiniteSet(Byte \ FreshBytes("path"))
      BY FS_Subset, FuzzLoopAssumption
    <2> QED
      BY <2>1, FS_CardinalityType
  <1>3. \A c \in Counter : stats[c] = 0
    BY DEF Init
  <1> QED
    BY <1>1, <1>2, <1>3 DEF KeptIsPaidFor, Map, Counter

LEMMA NextPaid == PaidInv /\ [Next]_vars => KeptIsPaidFor'
  <1> SUFFICES ASSUME PaidInv, [Next]_vars PROVE KeptIsPaidFor'
    OBVIOUS
  <1> USE DEF place, verdict, flags, kept
  <1>0. TypeOK /\ \A m \in Map : virgin[m] \in SUBSET Bit
    BY DEF PaidInv, TypeOK
  <1>s. in_dir' = in_dir
    BY SetupStays
  <1>a. /\ "path" \in Map /\ "tmout" \in Map /\ "crash" \in Map
        /\ "unique_tmouts" \in Counter /\ "unique_crashes" \in Counter
        /\ "queued_paths" \in Counter /\ "queued_with_cov" \in Counter
        /\ "unique_hangs" \in Counter /\ "total_tmouts" \in Counter
        /\ "total_crashes" \in Counter /\ "cur_skipped_paths" \in Counter
    BY DEF Map, Counter
  <1>1. ASSUME virgin' = virgin,
               \A c \in {"queued_paths", "queued_with_cov", "unique_tmouts",
                         "unique_crashes"} : stats'[c] = stats[c]
        PROVE  KeptIsPaidFor'
    <2>1. \A m \in Map : virgin'[m] \subseteq virgin[m]
      BY <1>1
    <2>2. /\ Costs("queued_paths", "path") /\ Costs("unique_tmouts", "tmout")
          /\ Costs("unique_crashes", "crash")
      BY <1>1 DEF Costs
    <2> QED
      BY <1>s, <1>1, <2>1, <2>2, StaysPaid
  <1>2. CASE Stop \/ SkipReq \/ NextRound \/ NewDir \/ Finish \/ Load \/ Run
               \/ PostStopped \/ PostSave \/ SaveOld \/ Rerun \/ SaveCrash
               \/ UNCHANGED vars
    BY <1>1, <1>2 DEF Stop, SkipReq, NextRound, NewDir, Finish, Load, Run,
                      PostStopped, PostSave, SaveOld, Rerun, SaveCrash, vars
  <1>3. CASE PostSkip
    <2>1. virgin' = virgin
          /\ \A c \in Counter \ {"cur_skipped_paths"} : stats'[c] = stats[c]
      BY <1>0, <1>3 DEF PostSkip, TypeOK
    <2> QED
      BY <1>1, <1>a, <2>1
  <1>4. CASE SaveTimeoutOld \/ CrashOld \/ Judge
    <2>1. PICK c \in {"total_tmouts", "total_crashes", "unique_hangs"}, n \in {0, 1} :
              stats' = Add(c, n)
      BY <1>4 DEF SaveTimeoutOld, CrashOld, Judge
    <2>2. \A d \in Counter \ {c} : stats'[d] = stats[d]
      BY <1>0, <1>a, <2>1, RaisedByOne
    <2>3. virgin' = virgin
      BY <1>4 DEF SaveTimeoutOld, CrashOld, Judge
    <2> QED
      BY <1>1, <1>a, <2>2, <2>3
  <1>5. CASE SaveCorpus
    <2>1. in_dir /\ stats' = Add("queued_paths", 1)
      BY <1>5 DEF SaveCorpus
    <2>2. \A d \in Counter \ {"queued_paths"} : stats'[d] = stats[d]
      BY <1>0, <1>a, <2>1, RaisedByOne
    <2>3. \A m \in Map : virgin'[m] \subseteq virgin[m]
      BY <1>0, <1>5 DEF SaveCorpus, Unseen, TypeOK
    <2>4. Costs("unique_tmouts", "tmout") /\ Costs("unique_crashes", "crash")
      BY <1>a, <2>2 DEF Costs
    <2> QED
      BY <1>s, <1>a, <2>1, <2>2, <2>3, <2>4, StaysPaid
  <1>6. CASE SaveNew
    <2> PICK g \in SUBSET Bit :
              LET hnb == StillNew("path", g)
                  new == IF hnb # 0 THEN 1 ELSE 0
              IN  /\ Synced("path", g)
                  /\ stats' = [Add("queued_paths", new) EXCEPT
                             !["queued_with_cov"] = IF hnb = 2 THEN @ + 1 ELSE @]
                  /\ Send("path", new) /\ Keep(new)
      BY <1>6 DEF SaveNew
    <2>1. /\ \A k \in Map : virgin'[k] \subseteq virgin[k]
          /\ StillNew("path", g) # 0 => Lost("path") # {}
          /\ StillNew("path", g) = 2 =>
                \E y \in FreshBytes("path") : y \notin FreshBytes("path")'
      BY <1>0, <1>a, SyncedPays
    <2>2. /\ stats'["queued_paths"] =
                stats["queued_paths"] + (IF StillNew("path", g) # 0 THEN 1 ELSE 0)
          /\ stats'["queued_with_cov"] = (IF StillNew("path", g) = 2
                THEN stats["queued_with_cov"] + 1 ELSE stats["queued_with_cov"])
          /\ stats'["unique_tmouts"] = stats["unique_tmouts"]
          /\ stats'["unique_crashes"] = stats["unique_crashes"]
      BY <1>0, <1>a DEF Add, TypeOK
    <2>3. stats["queued_paths"] \in Nat
      BY <1>0, <1>6, <1>a DEF SaveNew, TypeOK
    <2>4. /\ Costs("queued_paths", "path") /\ Costs("unique_tmouts", "tmout")
          /\ Costs("unique_crashes", "crash")
      BY <2>1, <2>2, <2>3 DEF Costs
    <2> QED
      BY <1>s, <2>1, <2>2, <2>3, <2>4, StaysPaid
  <1>7. CASE SaveTimeoutNew
    <2> DEFINE t == Simplified(trace)
    <2>1. t \in SUBSET Bit /\ HasNewBits(t, virgin["tmout"]) # 0
      BY <1>7, SimplifiedBits DEF SaveTimeoutNew, NewTimeout
    <2>2. virgin["tmout"] \ Unseen(t, virgin["tmout"]) # {}
      BY <1>0, <1>a, <2>1, NewBitsAreSpent
    <2> HIDE DEF t
    <2>3. virgin' = [virgin EXCEPT !["tmout"] = Unseen(t, @)]
      BY <1>7 DEF SaveTimeoutNew, t
    <2>4. Lost("tmout") # {} /\ \A k \in Map : virgin'[k] \subseteq virgin[k]
      BY <1>0, <1>a, <2>2, <2>3 DEF Lost, Unseen, TypeOK
    <2>5. /\ stats'["unique_tmouts"] = stats["unique_tmouts"] + 1
          /\ \A c \in {"queued_paths", "queued_with_cov", "unique_crashes"} :
                stats'[c] = stats[c]
      BY <1>0, <1>7 DEF SaveTimeoutNew, Add, TypeOK, Counter
    <2>6. /\ Costs("queued_paths", "path") /\ Costs("unique_tmouts", "tmout")
          /\ Costs("unique_crashes", "crash")
      BY <2>4, <2>5 DEF Costs
    <2> QED
      BY <1>s, <2>3, <2>4, <2>5, <2>6, StaysPaid
  <1>8. CASE CrashNew
    <2> PICK g \in SUBSET Bit :
              LET new == IF StillNew("crash", g) # 0 THEN 1 ELSE 0
              IN  /\ Synced("crash", g)
                  /\ stats' = [Add("unique_crashes", new) EXCEPT
                              !["total_crashes"] = @ + 1]
                  /\ Send("crash", IF fault = "crash" THEN new ELSE 0)
                  /\ Keep(new)
      BY <1>8 DEF CrashNew
    <2>1. /\ \A k \in Map : virgin'[k] \subseteq virgin[k]
          /\ StillNew("crash", g) # 0 => Lost("crash") # {}
      BY <1>0, <1>a, SyncedPays
    <2>2. /\ stats'["unique_crashes"] =
                stats["unique_crashes"] + (IF StillNew("crash", g) # 0 THEN 1 ELSE 0)
          /\ \A c \in {"queued_paths", "queued_with_cov", "unique_tmouts"} :
                stats'[c] = stats[c]
      BY <1>0, <1>a DEF Add, TypeOK
    <2>3. stats["unique_crashes"] \in Nat
      BY <1>0, <1>8, <1>a DEF CrashNew, TypeOK
    <2>4. /\ Costs("queued_paths", "path") /\ Costs("unique_tmouts", "tmout")
          /\ Costs("unique_crashes", "crash")
      BY <2>1, <2>2, <2>3 DEF Costs
    <2> QED
      BY <1>s, <2>1, <2>2, <2>3, <2>4, StaysPaid
  <1> QED
    BY <1>2, <1>3, <1>4, <1>5, <1>6, <1>7, <1>8 DEF Next, Loop, Save

(* What is kept never exceeds what the virgin maps have lost, for a map of *)
(* any size, whatever the other fuzzers register between the two calls of  *)
(* has_new_bits().                                                         *)
THEOREM PaidAlways == Spec => []KeptIsPaidFor
  <1>1. Init => PaidInv
    BY InitTypes, InitPaid DEF PaidInv
  <1>2. PaidInv /\ [Next]_vars => PaidInv'
    BY NextTypes, NextPaid DEF PaidInv
  <1>3. PaidInv => KeptIsPaidFor
    BY DEF PaidInv
  <1> QED
    BY <1>1, <1>2, <1>3, PTL DEF Spec
-----------------------------------------------------------------------------
(* A request that is pending is somebody's, and that of a first run is the *)
(* exit status of the test case that is about to be judged.                *)
RequestHasOwner ==
    /\ skip_requested => stop_soon \/ by # "none"
    /\ by = "first run" =>
           stop_soon \/ (pc = "post" /\ fault = "none" /\ skip_requested)

RequestInv == TypeOK /\ RequestHasOwner

LEMMA NextRequest == RequestInv /\ [Next]_vars => RequestInv'
  <1> SUFFICES ASSUME TypeOK, [Next]_vars, RequestHasOwner
               PROVE  RequestHasOwner'
    BY NextTypes DEF RequestInv
  <1> USE DEF RequestHasOwner, place, verdict, flags, kept
  <1>1. CASE Stop
    BY <1>1 DEF Stop
  <1>2. CASE SkipReq
    BY <1>2 DEF SkipReq
  <1>3. CASE PostSave \/ PostStopped \/ NextRound \/ NewDir \/ Finish \/ UNCHANGED vars
    <2>1. UNCHANGED <<skip_requested, stop_soon, by>>
      BY <1>3 DEF PostSave, PostStopped, NextRound, NewDir, Finish, vars
    <2>2. UNCHANGED <<pc, fault>> \/ stop_soon \/ pc # "post" \/ ~skip_requested
      BY <1>3 DEF PostSave, PostStopped, NextRound, NewDir, Finish, vars
    <2> QED
      BY <2>1, <2>2
  <1>4. CASE Load
    <2>1. UNCHANGED <<skip_requested, stop_soon>> /\ pc = "load"
      BY <1>4 DEF Load
    <2>2. by' = by \/ by = "first run"
      BY <1>4 DEF Load
    <2>3. by' # "first run"
      BY <1>4 DEF Load
    <2> QED
      BY <2>1, <2>2, <2>3
  <1>5. CASE Run
    BY <1>5 DEF Run, Outcome, Execute
  <1>6. CASE PostSkip
    BY <1>6 DEF PostSkip, RequestServed, TooManyTimeouts
  <1>7. CASE Rerun
    BY <1>7 DEF Rerun, Outcome, Execute
  <1>8. CASE Save /\ ~Rerun
    <2>1. /\ pc # "post"
          /\ UNCHANGED <<skip_requested, stop_soon, by>>
      BY <1>8 DEF Save, SaveCorpus, SaveOld, SaveNew, SaveTimeoutOld,
                  SaveTimeoutNew, Judge, SaveCrash, CrashOld, CrashNew
    <2> QED
      BY <2>1
  <1> QED
    BY <1>1, <1>2, <1>3, <1>4, <1>5, <1>6, <1>7, <1>8 DEF Next, Loop

LEMMA NextAbandons ==
    RequestInv /\ [Next]_vars =>
        [stats["cur_skipped_paths"]' # stats["cur_skipped_paths"]
            => TooManyTimeouts \/ by # "none"]_vars
  <1> SUFFICES ASSUME RequestInv, Next,
                      stats'["cur_skipped_paths"] # stats["cur_skipped_paths"]
               PROVE  TooManyTimeouts \/ by # "none"
    OBVIOUS
  <1> USE DEF RequestInv, place, verdict, flags, kept
  <1>1. CASE PostSkip
    BY <1>1 DEF PostSkip, RequestHasOwner
  <1>2. CASE SaveCorpus \/ SaveNew \/ SaveTimeoutOld \/ SaveTimeoutNew
               \/ Judge \/ CrashOld \/ CrashNew
    BY <1>2 DEF SaveCorpus, SaveNew, SaveTimeoutOld, SaveTimeoutNew, Judge,
                CrashOld, CrashNew, Add, TypeOK, Counter
  <1>3. CASE Stop \/ SkipReq \/ NextRound \/ NewDir \/ Finish \/ Load \/ Run
               \/ PostStopped \/ PostSave \/ SaveOld \/ Rerun \/ SaveCrash
    BY <1>3 DEF Stop, SkipReq, NextRound, NewDir, Finish, Load, Run,
                PostStopped, PostSave, SaveOld, Rerun, SaveCrash
  <1> QED
    BY <1>1, <1>2, <1>3 DEF Next, Loop, Save

(* A test case is only ever abandoned for its own exit status, at the end  *)
(* of a streak of timeouts, or for one second run or SIGUSR1 that came     *)
(* before, for any limit and any number of directories.                    *)
THEOREM AbandonsAlways == Spec => AbandonsForAReason
  <1>1. Init => RequestInv
    BY InitTypes DEF Init, RequestInv, RequestHasOwner
  <1> QED
    BY <1>1, NextRequest, NextAbandons, PTL DEF Spec, AbandonsForAReason
=============================================================================
