------------------------------ MODULE FuzzLoop ------------------------------
(***************************************************************************)
(* One afl-fuzz process: the main loop, fuzz_js(), fuzz_dir(),             *)
(* common_fuzz_stuff() and save_if_interesting(), with the target's        *)
(* verdicts, the other fuzzers' coverage and the user's signals arriving   *)
(* at any time.  A step is a stretch of code between two points where a    *)
(* signal makes a difference.                                              *)
(***************************************************************************)
EXTENDS Coverage, FiniteSets

CONSTANTS Busy, Quiet,       \* the bits 0x80 and 0x01 of each byte
          Setups,            \* the ways it may be started
          TMOUT_LIMIT, KEEP_UNIQUE_HANG, KEEP_UNIQUE_CRASH,
          MaxRound,          \* bound: directories run
          MaxFile            \* bound: test cases in a directory

ASSUME FuzzLoopAssumption ==
    /\ IsFiniteSet(Bit) /\ IsFiniteSet(Byte)
    /\ Busy \in [Byte -> Bit] /\ Quiet \in [Byte -> Bit]
    /\ \A y \in Byte : /\ ByteOf[Busy[y]] = y /\ ByteOf[Quiet[y]] = y
                       /\ Busy[y] # Quiet[y]
    /\ Setups \subseteq [in_dir : BOOLEAN, reruns : BOOLEAN, usr1 : BOOLEAN]
    /\ TMOUT_LIMIT \in Nat
    /\ KEEP_UNIQUE_HANG \in Nat /\ KEEP_UNIQUE_CRASH \in Nat
    /\ MaxRound \in Nat \ {0} /\ MaxFile \in Nat

VARIABLES pc,              \* where the loop is
          setup,           \* how it was started
          round,           \* directories run so far
          left,            \* test cases of this directory not run yet
          trace,           \* trace_bits, classified
          fault,           \* what run_target() returned
          new_fault,       \* what the second, longer run returned
          stop_soon,       \* SIGINT, SIGTERM, SIGHUP
          skip_requested,  \* SIGUSR1, or an exit status other than 0
          subseq_tmouts,   \* timeouts in a row
          virgin,          \* virgin_bits, virgin_tmout, virgin_crash
          stats,           \* the counters of fuzzer_stats
          inserted,        \* insertPath and insertCrash commands executed
          by,              \* history: who skip_requested is from
          late             \* history: files kept since the stop

place == <<setup, round, left, stop_soon, by>>
verdict == <<trace, fault, new_fault>>
flags == <<skip_requested, subseq_tmouts>>
kept == <<virgin, stats, inserted, late>>
vars == <<pc, place, verdict, flags, kept>>

in_dir == setup.in_dir   \* with -i: run the corpus once
Reruns == setup.reruns   \* exec_tmout < hang_tmout (-t, AFL_HANG_TMOUT)
Usr1 == setup.usr1       \* may SIGUSR1 arrive?

Map == {"path", "tmout", "crash"}
Fault == {"none", "tmout", "crash"}
Requester == {"none", "first run", "second run", "signal"}
Counter == {"queued_paths", "queued_with_cov", "cur_skipped_paths",
            "total_tmouts", "unique_tmouts", "unique_hangs",
            "total_crashes", "unique_crashes"}

(* The type invariant.                                                     *)
TypeOK ==
    /\ pc \in {"gen", "load", "run", "post", "save", "rerun", "judge", "crash",
               "end"}
    /\ setup \in [in_dir : BOOLEAN, reruns : BOOLEAN, usr1 : BOOLEAN]
    /\ round \in 0 .. MaxRound /\ left \in 0 .. MaxFile
    /\ trace \in Trace /\ fault \in Fault /\ new_fault \in Fault
    /\ stop_soon \in BOOLEAN /\ skip_requested \in BOOLEAN
    /\ subseq_tmouts \in Nat
    /\ virgin \in [Map -> SUBSET Bit]
    /\ stats \in [Counter -> Nat]
    /\ inserted \in [{"path", "crash"} -> Nat]
    /\ by \in Requester /\ late \in Nat

(* main() up to the loop, as populate.sh or as run.sh starts it.           *)
Init ==
    /\ setup \in Setups
    /\ pc = "gen" /\ round = 0 /\ left = 0
    /\ trace = {} /\ fault = "none" /\ new_fault = "none"
    /\ stop_soon = FALSE /\ skip_requested = FALSE /\ subseq_tmouts = 0
    /\ virgin = [m \in Map |-> Bit]
    /\ stats = [c \in Counter |-> 0]
    /\ inserted = [k \in {"path", "crash"} |-> 0]
    /\ by = "none" /\ late = 0

-----------------------------------------------------------------------------
(* Signals.                                                                *)
Stop ==
    /\ ~stop_soon /\ pc # "end"
    /\ stop_soon' = TRUE
    /\ UNCHANGED <<pc, setup, round, left, by, verdict, flags, kept>>

SkipReq ==
    /\ Usr1 /\ ~skip_requested /\ pc # "end"
    /\ skip_requested' = TRUE
    /\ by' = "signal"
    /\ UNCHANGED <<pc, setup, round, left, stop_soon, verdict,
                   subseq_tmouts, kept>>

-----------------------------------------------------------------------------
(* fuzz_js() fetches the next test case and has esfuzz mutate it, for as   *)
(* long as the loop has not seen the stop.                                 *)
NextRound ==
    /\ pc = "load" /\ left = 0
    /\ ~in_dir /\ ~stop_soon /\ round < MaxRound
    /\ pc' = "gen"
    /\ UNCHANGED <<place, verdict, flags, kept>>

(* fuzz_dir() lists the test cases that are there, or the corpus.          *)
NewDir ==
    /\ pc = "gen" /\ round < MaxRound
    /\ round' = round + 1
    /\ left' \in 0 .. MaxFile
    /\ pc' = "load"
    /\ UNCHANGED <<setup, stop_soon, by, verdict, flags, kept>>

(* Mutants: the loop ends for one of the two reasons only.                 *)
LeavesPopulated == in_dir
LeavesStopped == stop_soon

Leaves == in_dir \/ stop_soon

(* The corpus has been run, or the loop sees stop_soon.                    *)
Finish ==
    /\ pc = "load" /\ left = 0
    /\ Leaves
    /\ pc' = "end"
    /\ UNCHANGED <<place, verdict, flags, kept>>

MoreFiles == left > 0

Load ==
    /\ pc = "load" /\ MoreFiles
    /\ left' = left - 1
    /\ pc' = "run"
    /\ by' = IF by = "first run" THEN "none" ELSE by
    /\ UNCHANGED <<setup, round, stop_soon, verdict, flags, kept>>

(* What run_target() makes of an execution.  Once stop_soon is set it      *)
(* reports neither crashes nor timeouts.  An exit status other than 0 also *)
(* requests a skip.                                                        *)
Outcome ==
    {o \in [fault : Fault, bad : BOOLEAN] :
        o.bad \/ stop_soon => o.fault = "none"}

Execute(o) ==
    /\ trace' \in Trace
    /\ skip_requested' = (skip_requested \/ o.bad)

Run ==
    /\ pc = "run"
    /\ \E o \in Outcome :
          /\ Execute(o)
          /\ fault' = o.fault
          /\ by' = IF o.bad THEN "first run" ELSE by
    /\ pc' = "post"
    /\ UNCHANGED <<setup, round, left, stop_soon, new_fault, subseq_tmouts,
                   kept>>

-----------------------------------------------------------------------------
(* common_fuzz_stuff() after run_target().                                 *)
Streak == subseq_tmouts' = IF fault = "tmout" THEN subseq_tmouts + 1 ELSE 0

TooManyTimeouts == fault = "tmout" /\ subseq_tmouts > TMOUT_LIMIT

PostStopped ==
    /\ pc = "post" /\ stop_soon
    /\ pc' = "load"
    /\ UNCHANGED <<place, verdict, flags, kept>>

(* Mutant: the request is not cleared.                                     *)
RequestKept == UNCHANGED skip_requested

(* The streak of timeouts is looked at first; the request then stays.      *)
RequestServed == skip_requested' = (TooManyTimeouts /\ skip_requested)

PostSkip ==
    /\ pc = "post" /\ ~stop_soon
    /\ TooManyTimeouts \/ skip_requested
    /\ Streak
    /\ RequestServed
    /\ by' = IF TooManyTimeouts THEN by ELSE "none"
    /\ stats' = [stats EXCEPT !["cur_skipped_paths"] = @ + 1]
    /\ pc' = "load"
    /\ UNCHANGED <<setup, round, left, stop_soon, verdict, virgin, inserted,
                   late>>

(* Mutant: the stop is not looked at after the run.                        *)
PostSaveStopped ==
    /\ pc = "post"
    /\ ~TooManyTimeouts /\ ~skip_requested
    /\ Streak
    /\ pc' = "save"
    /\ UNCHANGED <<place, verdict, skip_requested, kept>>

PostSave ==
    /\ pc = "post" /\ ~stop_soon
    /\ ~TooManyTimeouts /\ ~skip_requested
    /\ Streak
    /\ pc' = "save"
    /\ UNCHANGED <<place, verdict, skip_requested, kept>>

-----------------------------------------------------------------------------
(* save_if_interesting().  A file kept after the stop counts as late.      *)
Keep(n) == late' = IF stop_soon THEN late + n ELSE late

Add(c, n) == [stats EXCEPT ![c] = @ + n]
Send(k, n) == inserted' = [inserted EXCEPT ![k] = @ + n]

(* Mutant: the limit is passed by one.                                     *)
FullOffByOne(c, limit) == stats[c] > limit

Full(c, limit) == stats[c] >= limit

(* The files of the corpus are all queued.                                 *)
SaveCorpus ==
    /\ pc = "save" /\ fault = "none" /\ in_dir
    /\ virgin' = [virgin EXCEPT !["path"] = Unseen(trace, @)]
    /\ stats' = Add("queued_paths", 1)
    /\ Send("path", 1) /\ Keep(1)
    /\ pc' = "load"
    /\ UNCHANGED <<place, verdict, flags>>

SaveOld ==
    /\ pc = "save" /\ fault = "none" /\ ~in_dir
    /\ HasNewBits(trace, virgin["path"]) = 0
    /\ pc' = "load"
    /\ UNCHANGED <<place, verdict, flags, kept>>

(* Mutant: the second has_new_bits() leaves the virgin map alone.          *)
SyncedNoUpdate(m, g) ==
    virgin' = [virgin EXCEPT ![m] = Unseen(g, @)]

(* globally_sync() merges what the download left in the file, g; the       *)
(* second has_new_bits() then takes the trace out of the virgin map.       *)
Synced(m, g) ==
    virgin' = [virgin EXCEPT ![m] = Unseen(trace, Unseen(g, @))]

StillNew(m, g) == HasNewBits(trace, Unseen(g, virgin[m]))

SaveNew ==
    /\ pc = "save" /\ fault = "none" /\ ~in_dir
    /\ HasNewBits(trace, virgin["path"]) # 0
    /\ \E g \in SUBSET Bit :
          LET hnb == StillNew("path", g)
              new == IF hnb # 0 THEN 1 ELSE 0
          IN  /\ Synced("path", g)
              /\ stats' = [Add("queued_paths", new) EXCEPT
                             !["queued_with_cov"] = IF hnb = 2 THEN @ + 1 ELSE @]
              /\ Send("path", new) /\ Keep(new)
    /\ pc' = "load"
    /\ UNCHANGED <<place, verdict, flags>>

(* simplify_trace(): hit or not is all that is left of a byte.             *)
Simplified(t) ==
    {IF \E b \in t : ByteOf[b] = y THEN Busy[y] ELSE Quiet[y] : y \in Byte}

NewTimeout == HasNewBits(Simplified(trace), virgin["tmout"]) # 0

(* A timeout like one seen before, or one too many.                        *)
SaveTimeoutOld ==
    /\ pc = "save" /\ fault = "tmout"
    /\ Full("unique_hangs", KEEP_UNIQUE_HANG) \/ ~NewTimeout
    /\ stats' = Add("total_tmouts", 1)
    /\ pc' = "load"
    /\ UNCHANGED <<place, verdict, flags, virgin, inserted, late>>

(* A new one is a hang right away, unless it is run again first.           *)
SaveTimeoutNew ==
    /\ pc = "save" /\ fault = "tmout"
    /\ ~Full("unique_hangs", KEEP_UNIQUE_HANG) /\ NewTimeout
    /\ LET hang == IF Reruns THEN 0 ELSE 1
       IN  /\ stats' = [Add("unique_hangs", hang) EXCEPT
                          !["total_tmouts"] = @ + 1, !["unique_tmouts"] = @ + 1]
           /\ Keep(hang)
    /\ virgin' = [virgin EXCEPT !["tmout"] = Unseen(Simplified(trace), @)]
    /\ pc' = IF Reruns THEN "rerun" ELSE "load"
    /\ UNCHANGED <<place, verdict, flags, inserted>>

(* The second run, with hang_tmout.                                        *)
Rerun ==
    /\ pc = "rerun"
    /\ \E o \in Outcome :
          /\ Execute(o)
          /\ new_fault' = o.fault
          /\ by' = IF o.bad /\ ~skip_requested THEN "second run" ELSE by
    /\ pc' = "judge"
    /\ UNCHANGED <<setup, round, left, stop_soon, fault, subseq_tmouts, kept>>

(* A hang is confirmed by the second run; a crash there is kept as one.    *)
Judge ==
    /\ pc = "judge"
    /\ LET hang == IF ~stop_soon /\ new_fault = "tmout" THEN 1 ELSE 0
       IN  stats' = Add("unique_hangs", hang) /\ Keep(hang)
    /\ pc' = IF ~stop_soon /\ new_fault = "crash" THEN "crash" ELSE "load"
    /\ UNCHANGED <<place, verdict, flags, virgin, inserted>>

SaveCrash ==
    /\ pc = "save" /\ fault = "crash"
    /\ pc' = "crash"
    /\ UNCHANGED <<place, verdict, flags, kept>>

NewCrash == HasNewBits(trace, virgin["crash"]) # 0

(* The label keep_as_crash, for a crash that is old or one too many.       *)
CrashOld ==
    /\ pc = "crash"
    /\ Full("unique_crashes", KEEP_UNIQUE_CRASH) \/ ~NewCrash
    /\ stats' = Add("total_crashes", 1)
    /\ pc' = "load"
    /\ UNCHANGED <<place, verdict, flags, virgin, inserted, late>>

(* Only the verdict of the first run decides about insertCrash.            *)
CrashNew ==
    /\ pc = "crash"
    /\ ~Full("unique_crashes", KEEP_UNIQUE_CRASH) /\ NewCrash
    /\ \E g \in SUBSET Bit :
          LET new == IF StillNew("crash", g) # 0 THEN 1 ELSE 0
          IN  /\ Synced("crash", g)
              /\ stats' = [Add("unique_crashes", new) EXCEPT
                              !["total_crashes"] = @ + 1]
              /\ Send("crash", IF fault = "crash" THEN new ELSE 0)
              /\ Keep(new)
    /\ pc' = "load"
    /\ UNCHANGED <<place, verdict, flags>>

-----------------------------------------------------------------------------
Save ==
    \/ SaveCorpus \/ SaveOld \/ SaveNew
    \/ SaveTimeoutOld \/ SaveTimeoutNew \/ Rerun \/ Judge
    \/ SaveCrash \/ CrashOld \/ CrashNew

Loop ==
    \/ NextRound \/ NewDir \/ Finish \/ Load \/ Run
    \/ PostStopped \/ PostSkip \/ PostSave
    \/ Save

Next == Loop \/ Stop \/ SkipReq

Spec == Init /\ [][Next]_vars

(* The loop goes on: no call in it blocks for ever.                        *)
FairSpec == Spec /\ WF_vars(Loop)
-----------------------------------------------------------------------------
Seen(m) == Bit \ virgin[m]

FreshBytes(m) == {y \in Byte : \A b \in Bit : ByteOf[b] = y => b \in virgin[m]}

(* Whatever is kept was paid for: each queued test case, unique timeout    *)
(* and unique crash took at least a bit of its virgin map, and one counted *)
(* as new coverage a whole byte.  So the files of a session are bounded by *)
(* the size of the map, whatever the other fuzzers register meanwhile.     *)
KeptIsPaidFor ==
    /\ ~in_dir => stats["queued_paths"] <= Cardinality(Seen("path"))
    /\ stats["queued_with_cov"] <= Cardinality(Byte \ FreshBytes("path"))
    /\ stats["unique_tmouts"] <= Cardinality(Seen("tmout"))
    /\ stats["unique_crashes"] <= Cardinality(Seen("crash"))

(* A hang is a timeout that a second run confirmed, a unique timeout one   *)
(* of all timeouts; the limits on kept files hold although the counters    *)
(* are tested before a re-run that may add to either.  Every queued test   *)
(* case and every kept crash is sent to the other fuzzers, except crashes  *)
(* that only the longer run of a timeout uncovers.                         *)
CountersAgree ==
    /\ stats["unique_hangs"] <= stats["unique_tmouts"]
    /\ stats["unique_tmouts"] <= stats["total_tmouts"]
    /\ stats["unique_crashes"] <= stats["total_crashes"]
    /\ stats["unique_hangs"] <= KEEP_UNIQUE_HANG
    /\ stats["unique_crashes"] <= KEEP_UNIQUE_CRASH
    /\ inserted["path"] = stats["queued_paths"]
    /\ inserted["crash"] <= stats["unique_crashes"]
    /\ ~Reruns => inserted["crash"] = stats["unique_crashes"]

(* When the user stops the fuzzer it keeps no file but the one that it is  *)
(* judging at that moment, although fuzz_dir() goes on through the rest of *)
(* its test cases.                                                         *)
AtMostOneLate == late <= 1

(* The flag skip_requested is set within run_target(), also by the second  *)
(* run of a timeout, and looked at when a later test case is judged.  Yet  *)
(* none is abandoned without a reason: it exited badly itself, or timed    *)
(* out once too often in a row, or takes the blame for one second run of   *)
(* an earlier test case that exited badly, or for one SIGUSR1.  A request  *)
(* is never served twice, and that of a first run never reaches another    *)
(* test case.                                                              *)
AbandonsForAReason ==
    [][stats["cur_skipped_paths"]' # stats["cur_skipped_paths"]
           => TooManyTimeouts \/ by # "none"]_vars

(* A stop ends the fuzzer, and populating ends by itself.                  *)
StopEnds == stop_soon ~> pc = "end"
PopulatingEnds == in_dir => <>(pc = "end")
=============================================================================
