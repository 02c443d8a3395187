----------------------------- MODULE GlobalSync -----------------------------
(***************************************************************************)
(* Several DIE fuzzers around one redis server.  A fuzzer runs test cases, *)
(* compares their coverage with its own virgin map, downloads the global   *)
(* map when something looks new (globally_sync), and reports what is still *)
(* new with redis_ctrl.js, which registers the coverage (SADD) and then    *)
(* queues the test case (LPUSH).  Between rounds it takes the next test    *)
(* case to mutate with RPOPLPUSH.                                          *)
(*                                                                         *)
(* Shared state is touched by redis commands only, each of them atomic, so *)
(* an action of a fuzzer extends from one redis command up to the next.    *)
(***************************************************************************)
EXTENDS Coverage, Sequences

CONSTANTS Fuzzer,            \* the afl-fuzz processes
          Bit0,              \* the bit that every SADD carries: cov = ["0"]
          MaxRun,            \* bound: how often a fuzzer is started
          Starts,            \* the modes each fuzzer is started in, in order
          CorpusSize,        \* bound: the files a populating fuzzer reads
          KEEP_UNIQUE_CRASH, \* crashes kept by one run of a fuzzer
          Crashing,          \* bound: the fuzzers whose test cases crash
          MayDie             \* may processes be killed?

ASSUME GlobalSyncAssumption ==
    /\ Bit0 \in Bit
    /\ MaxRun \in Nat
    /\ Starts \in [Fuzzer -> Seq({"populate", "fuzz"})]
    /\ \A f \in Fuzzer : Len(Starts[f]) <= MaxRun
    /\ CorpusSize \in Nat /\ KEEP_UNIQUE_CRASH \in Nat
    /\ MayDie \in BOOLEAN

VARIABLES bitmap,         \* redis sets pathBitmap and crashBitmap
          newPaths,       \* redis list newPathsQueue
          oldPaths,       \* redis list oldPathsQueue
          crashQueue,     \* redis list crashQueue
          pc,             \* where each fuzzer is
          mode,           \* started with -i (populate) or without (fuzz)
          run,            \* how often it was started
          left,           \* corpus files a populating fuzzer has not read
          virgin,         \* virgin_bits and virgin_crash
          gcov,           \* the files .gcov_path and .gcov_crash
          cur,            \* the file .cur_input.js
          job,            \* what the running redis_ctrl.js is to insert
          unique_crashes, \* crashes saved in this run
          lost,           \* history: registered, test case never queued
          muted           \* history: marked as seen, never registered

redis == <<bitmap, newPaths, oldPaths, crashQueue>>
local == <<mode, run, left, virgin, gcov, unique_crashes>>
vars == <<redis, local, pc, cur, job, lost, muted>>

Kind == {"path", "crash"}

(* A queued test case, with the run that found it, the coverage of that    *)
(* execution and the part of it that was reported with it.                 *)
Case == [by : Fuzzer, run : 1 .. MaxRun, cov : Trace, diff : SUBSET Bit]
NoCase == [by |-> "nobody"]

Job == [kind : Kind, case : Case]
NoJob == [kind |-> "none"]

QueueType ==
    /\ newPaths \in Seq(Case) /\ oldPaths \in Seq(Case)
    /\ crashQueue \in Seq(Case)

(* A fuzzer waits for an insertion exactly while there is one to make.     *)
ControlType ==
    /\ pc \in [Fuzzer -> {"off", "next", "nextOld", "run", "sadd", "lpush"}]
    /\ run \in [Fuzzer -> 0 .. MaxRun]
    /\ job \in [Fuzzer -> Job \cup {NoJob}]
    /\ \A f \in Fuzzer : pc[f] # "off" => run[f] # 0
    /\ \A f \in Fuzzer : pc[f] \in {"sadd", "lpush"} <=> job[f] # NoJob

DataType ==
    /\ bitmap \in [Kind -> SUBSET Bit]
    /\ mode \in [Fuzzer -> {"populate", "fuzz"}]
    /\ left \in [Fuzzer -> 0 .. CorpusSize]
    /\ virgin \in [Fuzzer -> [Kind -> SUBSET Bit]]
    /\ gcov \in [Fuzzer -> [Kind -> SUBSET Bit]]
    /\ cur \in [Fuzzer -> Case \cup {NoCase}]
    /\ unique_crashes \in [Fuzzer -> 0 .. KEEP_UNIQUE_CRASH]
    /\ lost \in [Kind -> SUBSET Bit]
    /\ muted \in [Fuzzer -> [Kind -> SUBSET Bit]]

(* The type invariant.                                                     *)
TypeOK == QueueType /\ ControlType /\ DataType

Init ==
    /\ bitmap = [k \in Kind |-> {}]
    /\ newPaths = <<>> /\ oldPaths = <<>> /\ crashQueue = <<>>
    /\ pc = [f \in Fuzzer |-> "off"]
    /\ mode = [f \in Fuzzer |-> "fuzz"]
    /\ run = [f \in Fuzzer |-> 0]
    /\ left = [f \in Fuzzer |-> 0]
    /\ virgin = [f \in Fuzzer |-> [k \in Kind |-> Bit]]
    /\ gcov = [f \in Fuzzer |-> [k \in Kind |-> {}]]
    /\ cur = [f \in Fuzzer |-> NoCase]
    /\ job = [f \in Fuzzer |-> NoJob]
    /\ unique_crashes = [f \in Fuzzer |-> 0]
    /\ lost = [k \in Kind |-> {}]
    /\ muted = [f \in Fuzzer |-> [k \in Kind |-> {}]]

-----------------------------------------------------------------------------
(* main() up to its loop: every map starts virgin; with -i the fuzzer      *)
(* reads the corpus once, without it it fuzzes.                            *)
Start(f) == LET m == Starts[f][run[f] + 1] IN
    /\ pc[f] = "off" /\ run[f] < Len(Starts[f])
    /\ mode' = [mode EXCEPT ![f] = m]
    /\ run' = [run EXCEPT ![f] = @ + 1]
    /\ left' = [left EXCEPT ![f] = IF m = "populate" THEN CorpusSize ELSE 0]
    /\ pc' = [pc EXCEPT ![f] = IF m = "populate" THEN "run" ELSE "next"]
    /\ virgin' = [virgin EXCEPT ![f] = [k \in Kind |-> Bit]]
    /\ muted' = [muted EXCEPT ![f] = [k \in Kind |-> {}]]
    /\ unique_crashes' = [unique_crashes EXCEPT ![f] = 0]
    /\ UNCHANGED <<redis, gcov, cur, job, lost>>

(* RPOPLPUSH: the last entry of src becomes the first of dst.              *)
Popped(q) == SubSeq(q, 1, Len(q) - 1)
Pushed(c, q) == <<c>> \o q

(* getNextTestcase writes the entry to .cur_input.js, unless it is killed  *)
(* after the redis command.                                                *)
Deliver(f, c) ==
    /\ cur' \in {[cur EXCEPT ![f] = c]} \cup (IF MayDie THEN {cur} ELSE {})
    /\ pc' = [pc EXCEPT ![f] = "run"]

(* Mutant: RPOPLPUSH newPathsQueue newPathsQueue.                          *)
NextNewStays(f) ==
    /\ pc[f] = "next" /\ newPaths # <<>>
    /\ LET c == newPaths[Len(newPaths)]
       IN  newPaths' = Pushed(c, Popped(newPaths)) /\ Deliver(f, c)
    /\ UNCHANGED <<local, bitmap, oldPaths, crashQueue, job, lost, muted>>

NextNew(f) ==
    /\ pc[f] = "next" /\ newPaths # <<>>
    /\ LET c == newPaths[Len(newPaths)]
       IN  /\ newPaths' = Popped(newPaths)
           /\ oldPaths' = Pushed(c, oldPaths)
           /\ Deliver(f, c)
    /\ UNCHANGED <<local, bitmap, crashQueue, job, lost, muted>>

NextNone(f) ==
    /\ pc[f] = "next" /\ newPaths = <<>>
    /\ pc' = [pc EXCEPT ![f] = "nextOld"]
    /\ UNCHANGED <<redis, local, cur, job, lost, muted>>

(* Mutant: RPOP instead of RPOPLPUSH.                                      *)
NextOldPops(f) ==
    /\ pc[f] = "nextOld" /\ oldPaths # <<>>
    /\ oldPaths' = Popped(oldPaths)
    /\ Deliver(f, oldPaths[Len(oldPaths)])
    /\ UNCHANGED <<local, bitmap, newPaths, crashQueue, job, lost, muted>>

(* Mutant: the entry is read and written at the same end.                  *)
NextOldSameEnd(f) ==
    /\ pc[f] = "nextOld" /\ oldPaths # <<>>
    /\ Deliver(f, oldPaths[1])
    /\ UNCHANGED <<local, redis, job, lost, muted>>

NextOld(f) ==
    /\ pc[f] = "nextOld" /\ oldPaths # <<>>
    /\ LET c == oldPaths[Len(oldPaths)]
       IN  /\ oldPaths' = Pushed(c, Popped(oldPaths))
           /\ Deliver(f, c)
    /\ UNCHANGED <<local, bitmap, newPaths, crashQueue, job, lost, muted>>

(* "Need to populate first": .cur_input.js stays as it is.                 *)
NextNothing(f) ==
    /\ pc[f] = "nextOld" /\ oldPaths = <<>>
    /\ pc' = [pc EXCEPT ![f] = "run"]
    /\ UNCHANGED <<redis, local, cur, job, lost, muted>>

-----------------------------------------------------------------------------
(* Mutant: the loop of fuzz_dir() runs once too often.                     *)
HasInputOffByOne(f) ==
    /\ pc[f] = "run"
    /\ mode[f] = "populate" \/ cur[f] # NoCase

(* fuzz_dir() has a file to run: one of the corpus, or one generated from  *)
(* .cur_input.js.                                                          *)
HasInput(f) ==
    /\ pc[f] = "run"
    /\ IF mode[f] = "populate" THEN left[f] > 0 ELSE cur[f] # NoCase

Consume(f) ==
    left' = [left EXCEPT ![f] = IF mode[f] = "populate" THEN @ - 1 ELSE @]

(* What globally_sync() reads back: the global map, or, when the download  *)
(* was killed, the previous file; after a redis error the file is all 0.   *)
Download(f, k) ==
    {bitmap[k]} \cup (IF MayDie THEN {gcov[f][k], {}} ELSE {})

(* Hand the test case to redis_ctrl.js.  It gives up at once when the test *)
(* case has no .t file; then the coverage is never reported.               *)
Report(f, k, t, seen, typed) ==
    LET c == [by |-> f, run |-> run[f], cov |-> t, diff |-> CovDiff(t, seen)]
    IN  IF typed
        THEN /\ job' = [job EXCEPT ![f] = [kind |-> k, case |-> c]]
             /\ pc' = [pc EXCEPT ![f] = "sadd"]
             /\ UNCHANGED muted
        ELSE /\ muted' = [muted EXCEPT ![f][k] = @ \cup c.diff]
             /\ UNCHANGED <<job, pc>>

(* save_if_interesting() while populating: every file of the corpus is     *)
(* queued, whatever it covers.                                             *)
PopulatePath(f, t, typed) ==
    /\ HasInput(f) /\ mode[f] = "populate"
    /\ Consume(f)
    /\ virgin' = [virgin EXCEPT ![f]["path"] = Unseen(t, @)]
    /\ Report(f, "path", t, virgin[f]["path"], typed)
    /\ UNCHANGED <<redis, mode, run, gcov, unique_crashes, cur, lost>>

(* Mutant: the global map is not downloaded.                               *)
FuzzPathNoSync(f, t, typed) ==
    /\ HasInput(f) /\ mode[f] = "fuzz"
    /\ HasNewBits(t, virgin[f]["path"]) # 0
    /\ virgin' = [virgin EXCEPT ![f]["path"] = Unseen(t, @)]
    /\ Report(f, "path", t, virgin[f]["path"], typed)
    /\ UNCHANGED <<redis, mode, run, left, gcov, unique_crashes, cur, lost>>

(* Mutant: the second has_new_bits() does not update the virgin map.       *)
FuzzPathNoUpdate(f, t, typed) ==
    /\ HasInput(f) /\ mode[f] = "fuzz"
    /\ HasNewBits(t, virgin[f]["path"]) # 0
    /\ \E g \in Download(f, "path") :
          LET seen == Unseen(g, virgin[f]["path"])
          IN  /\ gcov' = [gcov EXCEPT ![f]["path"] = g]
              /\ virgin' = [virgin EXCEPT ![f]["path"] = seen]
              /\ IF HasNewBits(t, seen) # 0
                 THEN Report(f, "path", t, seen, typed)
                 ELSE UNCHANGED <<job, pc, muted>>
    /\ UNCHANGED <<redis, mode, run, left, unique_crashes, cur, lost>>

(* Mutant: the first has_new_bits() already updates the virgin map.        *)
FuzzPathUpdateFirst(f, t, typed) ==
    /\ HasInput(f) /\ mode[f] = "fuzz"
    /\ HasNewBits(t, virgin[f]["path"]) # 0
    /\ \E g \in Download(f, "path") :
          LET seen == Unseen(g, Unseen(t, virgin[f]["path"]))
          IN  /\ gcov' = [gcov EXCEPT ![f]["path"] = g]
              /\ virgin' = [virgin EXCEPT ![f]["path"] = seen]
              /\ IF HasNewBits(t, seen) # 0
                 THEN Report(f, "path", t, seen, typed)
                 ELSE UNCHANGED <<job, pc, muted>>
    /\ UNCHANGED <<redis, mode, run, left, unique_crashes, cur, lost>>

(* save_if_interesting() of a test case that looks new to this fuzzer:     *)
(* download the global map, and report what is new to that as well.        *)
FuzzPath(f, t, typed) ==
    /\ HasInput(f) /\ mode[f] = "fuzz"
    /\ HasNewBits(t, virgin[f]["path"]) # 0
    /\ \E g \in Download(f, "path") :
          LET seen == Unseen(g, virgin[f]["path"])
          IN  /\ gcov' = [gcov EXCEPT ![f]["path"] = g]
              /\ virgin' = [virgin EXCEPT ![f]["path"] = Unseen(t, seen)]
              /\ IF HasNewBits(t, seen) # 0
                 THEN Report(f, "path", t, seen, typed)
                 ELSE UNCHANGED <<job, pc, muted>>
    /\ UNCHANGED <<redis, mode, run, left, unique_crashes, cur, lost>>

(* The crash half of save_if_interesting(), in either mode.  rerun: the    *)
(* crash came from the second, longer run of a test case that timed out,   *)
(* so fault is still FAULT_TMOUT and insertCrash is skipped.               *)
Crash(f, t, typed, rerun) ==
    /\ HasInput(f)
    /\ Consume(f)
    /\ unique_crashes[f] < KEEP_UNIQUE_CRASH /\ f \in Crashing
    /\ HasNewBits(t, virgin[f]["crash"]) # 0
    /\ \E g \in Download(f, "crash") :
          LET seen == Unseen(g, virgin[f]["crash"])
          IN  /\ gcov' = [gcov EXCEPT ![f]["crash"] = g]
              /\ virgin' = [virgin EXCEPT ![f]["crash"] = Unseen(t, seen)]
              /\ IF HasNewBits(t, seen) # 0
                 THEN /\ unique_crashes' = [unique_crashes EXCEPT ![f] = @ + 1]
                      /\ Report(f, "crash", t, seen, typed /\ ~rerun)
                 ELSE UNCHANGED <<unique_crashes, job, pc, muted>>
    /\ UNCHANGED <<redis, mode, run, cur, lost>>

(* A corpus file that is not reported: nothing new in its crash, a crash   *)
(* too many, a timeout.                                                    *)
PopulateSkip(f) ==
    /\ HasInput(f) /\ mode[f] = "populate"
    /\ Consume(f)
    /\ UNCHANGED <<redis, mode, run, virgin, gcov, unique_crashes,
                   pc, cur, job, lost, muted>>

Done(f) == pc' = [pc EXCEPT ![f] = "run"] /\ job' = [job EXCEPT ![f] = NoJob]

(* The bits of a file of coverage, and one more: SADD fails without any.   *)
readCovDiffFile(diff) == diff \cup {Bit0}

(* The two commands of insertFileWithCovDiff.                              *)
Sadd(f) ==
    /\ pc[f] = "sadd"
    /\ bitmap' = [bitmap EXCEPT ![job[f].kind] =
                      @ \cup readCovDiffFile(job[f].case.diff)]
    /\ pc' = [pc EXCEPT ![f] = "lpush"]
    /\ UNCHANGED <<newPaths, oldPaths, crashQueue, local, cur, job, lost, muted>>

(* Mutant: insertPath pushes to crashQueue and insertCrash to newPaths.    *)
LpushSwapped(f) ==
    /\ pc[f] = "lpush"
    /\ IF job[f].kind = "crash"
       THEN /\ newPaths' = Pushed(job[f].case, newPaths)
            /\ UNCHANGED crashQueue
       ELSE /\ crashQueue' = Pushed(job[f].case, crashQueue)
            /\ UNCHANGED newPaths
    /\ Done(f)
    /\ UNCHANGED <<bitmap, oldPaths, local, cur, lost, muted>>

(* Mutant: the test case is pushed without waiting for SADD.               *)
LpushEarly(f) ==
    /\ pc[f] \in {"sadd", "lpush"}
    /\ IF job[f].kind = "path"
       THEN /\ newPaths' = Pushed(job[f].case, newPaths)
            /\ UNCHANGED crashQueue
       ELSE /\ crashQueue' = Pushed(job[f].case, crashQueue)
            /\ UNCHANGED newPaths
    /\ Done(f)
    /\ UNCHANGED <<bitmap, oldPaths, local, cur, lost, muted>>

Lpush(f) ==
    /\ pc[f] = "lpush"
    /\ IF job[f].kind = "path"
       THEN /\ newPaths' = Pushed(job[f].case, newPaths)
            /\ UNCHANGED crashQueue
       ELSE /\ crashQueue' = Pushed(job[f].case, crashQueue)
            /\ UNCHANGED newPaths
    /\ Done(f)
    /\ UNCHANGED <<bitmap, oldPaths, local, cur, lost, muted>>

(* fuzz_dir() returns: a fuzzer goes for the next test case, a populating  *)
(* fuzzer is done.                                                         *)
EndRound(f) ==
    /\ pc[f] = "run"
    /\ mode[f] = "populate" => left[f] = 0
    /\ pc' = [pc EXCEPT ![f] = IF mode[f] = "populate" THEN "off" ELSE "next"]
    /\ UNCHANGED <<redis, local, cur, job, lost, muted>>

-----------------------------------------------------------------------------
(* What the end of redis_ctrl.js in the middle of an insertion leaves      *)
(* behind: after SADD the coverage is registered but its test case is      *)
(* gone, before SADD only this fuzzer believes it is known.                *)
CutInsertion(f) ==
    /\ lost' = IF pc[f] = "lpush"
               THEN [lost EXCEPT ![job[f].kind] = @ \cup job[f].case.diff]
               ELSE lost
    /\ muted' = IF pc[f] = "sadd"
                THEN [muted EXCEPT ![f][job[f].kind] = @ \cup job[f].case.diff]
                ELSE muted

(* The node process is killed (Ctrl-C reaches it, but system() shields     *)
(* afl-fuzz from it) or cannot reach redis; afl-fuzz ignores its status.   *)
NodeDies(f) ==
    /\ MayDie /\ pc[f] \in {"next", "nextOld", "sadd", "lpush"}
    /\ CutInsertion(f)
    /\ Done(f)
    /\ UNCHANGED <<redis, local, cur>>

(* The whole session of the fuzzer is killed.                              *)
Die(f) ==
    /\ MayDie /\ pc[f] # "off"
    /\ CutInsertion(f)
    /\ pc' = [pc EXCEPT ![f] = "off"]
    /\ job' = [job EXCEPT ![f] = NoJob]
    /\ UNCHANGED <<redis, local, cur>>

-----------------------------------------------------------------------------
Test(f) ==
    \/ \E t \in Trace, typed \in BOOLEAN :
          \/ PopulatePath(f, t, typed)
          \/ FuzzPath(f, t, typed)
          \/ \E rerun \in BOOLEAN : Crash(f, t, typed, rerun)
    \/ PopulateSkip(f)

NextTestcase(f) == NextNew(f) \/ NextNone(f) \/ NextOld(f) \/ NextNothing(f)

FuzzerNext(f) ==
    \/ Start(f)
    \/ NextTestcase(f)
    \/ Test(f)
    \/ Sadd(f)
    \/ Lpush(f)
    \/ EndRound(f)
    \/ NodeDies(f)
    \/ Die(f)

Next == \E f \in Fuzzer : FuzzerNext(f)

Spec == Init /\ [][Next]_vars

(* afl-fuzz and the node processes it waits for keep running.              *)
Fairness == \A f \in Fuzzer :
    WF_vars(NextTestcase(f) \/ Sadd(f) \/ Lpush(f) \/ EndRound(f))

FairSpec == Spec /\ Fairness
-----------------------------------------------------------------------------
(* The test cases of a redis list, and all those queued for a kind.        *)
Cases(q) == {q[i] : i \in 1 .. Len(q)}

Queue(k) == IF k = "path" THEN newPaths \o oldPaths ELSE crashQueue

Carried(k) == UNION {c.diff : c \in Cases(Queue(k))}

InFlight(k, at) ==
    UNION {job[f].case.diff :
              f \in {g \in Fuzzer : pc[g] \in at /\ job[g].kind = k}}

(* Coverage in the global map, which every fuzzer will take as known, has  *)
(* a test case that shows it: in a queue, or about to be pushed, unless    *)
(* the insertion was cut.  Bit 0 is registered without any test case.      *)
CoverageIsCarried ==
    \A k \in Kind :
        bitmap[k] \subseteq {Bit0} \cup Carried(k) \cup InFlight(k, {"lpush"})
                            \cup lost[k]

(* SADD comes first, so a fuzzer that mutates a queued test case finds its *)
(* coverage in the global map.                                             *)
QueuedIsRegistered == \A k \in Kind : Carried(k) \subseteq bitmap[k]

(* What a fuzzer no longer counts as new is in the global map, or its own  *)
(* report is on the way or has failed.  A stale or empty download never    *)
(* makes it skip coverage that nobody has reported.                        *)
SeenIsJustified ==
    \A f \in Fuzzer, k \in Kind :
        Bit \ virgin[f][k] \subseteq
            bitmap[k] \cup muted[f][k]
            \cup (IF pc[f] = "sadd" /\ job[f].kind = k
                  THEN job[f].case.diff ELSE {})

(* A run of a fuzzer reports a bit at most once, so fuzzers that race      *)
(* between download and SADD queue a bit at most once each.                *)
ReportedOnce ==
    \A k \in Kind : \A i, j \in 1 .. Len(Queue(k)) :
        LET c == Queue(k)[i]
            d == Queue(k)[j]
        IN  i # j /\ c.by = d.by /\ c.run = d.run => c.diff \cap d.diff = {}

(* No test case leaves the queues: RPOPLPUSH moves it, whatever happens to *)
(* the fuzzer that asked for it.                                           *)
NoCaseIsLost ==
    [][\A k \in Kind : /\ Cases(Queue(k)) \subseteq Cases(Queue(k)')
                       /\ Len(Queue(k)) <= Len(Queue(k)')]_vars

(* While a fuzzer fuzzes, newly covered bits come up for mutation: new     *)
(* test cases that keep arriving cannot hold one back for ever.            *)
SomeFuzzer == \E f \in Fuzzer : mode[f] = "fuzz" /\ pc[f] # "off"

Shows(q, b) == \E c \in Cases(q) : b \in c.cov

NewCoverageIsScheduled ==
    <>[]SomeFuzzer => \A b \in Bit : Shows(newPaths, b) ~> Shows(oldPaths, b)

(* And every test case in the old queue comes up again and again.          *)
OldCasesRecur ==
    <>[]SomeFuzzer =>
        \A b \in Bit : Shows(oldPaths, b) ~>
            (\E f \in Fuzzer : cur[f] # NoCase /\ b \in cur[f].cov)
=============================================================================
