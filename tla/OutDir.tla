------------------------------- MODULE OutDir -------------------------------
(***************************************************************************)
(* The output directory of afl-fuzz across sessions: how a start decides   *)
(* what becomes of the last session (maybe_delete_out_dir), takes its      *)
(* directory apart, builds a new one (setup_dirs_fds), and keeps the       *)
(* statistics by which the next start will judge this session.  A process  *)
(* may be killed after every system call, several may be started on one    *)
(* directory, and the programs that afl-fuzz runs with system() inherit    *)
(* its lock and may outlive it.                                            *)
(***************************************************************************)
EXTENDS Naturals, Sequences, FiniteSets

CONSTANTS Proc,    \* the processes; one that has ended can be started again
          Find,    \* bound: what all sessions together can find
          Plans    \* the modes of the starts to come, in order

(* With -i a directory, without -i, with -i -.                             *)
Mode == {"populate", "fuzz", "resume"}

ASSUME OutDirAssumption == IsFiniteSet(Find) /\ Plans \subseteq Seq(Mode)

VARIABLES out,     \* does the output directory exist?
          stats,   \* fuzzer_stats: missing, torn, or the age of the session
          exists,  \* the directories that there are
          files,   \* the test cases in each
          state,   \* those that contain .state
          readme,  \* is there a crashes/README.txt?
          backup,  \* what the renamed crashes.<date> and hangs.<date> hold
          plot,    \* is there a plot_data?
          plan,    \* the starts to come
          pc,      \* where each process is
          mode,    \* how it was started
          old,     \* has it run longer than OUTPUT_GRACE?
          cleans,  \* did it find the directory there, and cleans it?
          lock,    \* who holds the lock on the output directory
          helper,  \* those whose system() runs a program, or still does
          why,     \* what the last start of each process died of
          aged     \* history: what lay in a directory recorded as old

disk == <<out, stats, exists, files, state, readme, backup, plot>>
vars == <<disk, plan, pc, mode, old, cleans, lock, helper, why, aged>>

Dir == {"queue", "_resume", "crashes", "hangs"}

(* The system calls of a start, in the order of the code; "stats" and      *)
(* "close" are the two halves of write_stats_file.                         *)
Cleanup == {"judge", "move", "state", "queue", "saveCrashes", "crashes",
            "saveHangs", "hangs", "dropStats", "dropPlot"}
Setup == {"mkQueue", "mkState", "mkCrashes", "mkHangs", "mkPlot"}
Helping == {"system", "lastSystem"}
Running == {"stats", "close", "loop", "lastStats", "lastClose"} \cup Helping

(* The places where a process has the directory for itself.                *)
Owning == Cleanup \cup Setup \cup Running

Place == {"off", "mkOut", "lock", "lockNew"} \cup Owning

Reason == {"nothing", "in use", "malformed", "at risk", "no directory",
           "no _resume", "cleanup", "mkdir"}

(* The type invariant: the directory, and the processes.                   *)
DiskOK ==
    /\ out \in BOOLEAN /\ readme \in BOOLEAN /\ plot \in BOOLEAN
    /\ stats \in {"missing", "torn", "young", "old"}
    /\ exists \subseteq Dir /\ state \subseteq {"queue", "_resume"}
    /\ files \in [Dir -> SUBSET Find]
    /\ backup \subseteq Find /\ aged \subseteq Find

PlaceOK ==
    /\ pc \in [Proc -> Place] /\ why \in [Proc -> Reason]
    /\ lock \subseteq Proc

ProcOK ==
    /\ plan \in Seq(Mode) /\ mode \in [Proc -> Mode]
    /\ old \in [Proc -> BOOLEAN] /\ cleans \in [Proc -> BOOLEAN]
    /\ helper \subseteq Proc

TypeOK == DiskOK /\ PlaceOK /\ ProcOK

Init ==
    /\ out = FALSE /\ stats = "missing"
    /\ exists = {} /\ files = [d \in Dir |-> {}] /\ state = {}
    /\ readme = FALSE /\ backup = {} /\ plot = FALSE
    /\ plan \in Plans
    /\ pc = [p \in Proc |-> "off"]
    /\ mode = [p \in Proc |-> "fuzz"]
    /\ old = [p \in Proc |-> FALSE]
    /\ cleans = [p \in Proc |-> FALSE]
    /\ lock = {} /\ helper = {}
    /\ why = [p \in Proc |-> "nothing"]
    /\ aged = {}

Goto(p, l) == pc' = [pc EXCEPT ![p] = l]

(* exit(), by itself: the lock goes with the last descriptor.              *)
End(p) == Goto(p, "off") /\ lock' = lock \ {p}

(* FATAL and PFATAL.                                                       *)
Fail(p, reason) == End(p) /\ why' = [why EXCEPT ![p] = reason]

(* The next step of the start.                                             *)
Then(p, l) == Goto(p, l) /\ UNCHANGED <<lock, why>>

Start(p) ==
    /\ pc[p] = "off" /\ plan # <<>>
    /\ plan' = Tail(plan)
    /\ mode' = [mode EXCEPT ![p] = Head(plan)]
    /\ old' = [old EXCEPT ![p] = FALSE]
    /\ why' = [why EXCEPT ![p] = "nothing"]
    /\ Goto(p, "mkOut")
    /\ UNCHANGED <<disk, cleans, lock, helper, aged>>

(* mkdir(out_dir) tells a first session from the others.                   *)
MkOut(p) ==
    /\ pc[p] = "mkOut"
    /\ out' = TRUE
    /\ IF out THEN Then(p, "lock")
       ELSE IF mode[p] = "resume" THEN Fail(p, "no directory")
       ELSE Then(p, "lockNew")
    /\ UNCHANGED <<stats, exists, files, state, readme, backup, plot,
                   plan, mode, old, cleans, helper, aged>>

(* Mutant: the descriptor is closed on exec.                               *)
FreeOnExec == lock = {}

(* flock(out_dir_fd, LOCK_EX | LOCK_NB): the descriptor, and with it the   *)
(* lock, is inherited by what system() runs.                               *)
Free == lock = {} /\ helper = {}

Lock(p) ==
    /\ pc[p] \in {"lock", "lockNew"}
    /\ IF Free
       THEN /\ lock' = lock \cup {p}
            /\ Goto(p, IF pc[p] = "lock" THEN "judge" ELSE "mkQueue")
            /\ UNCHANGED why
       ELSE Fail(p, "in use")
    /\ cleans' = [cleans EXCEPT ![p] = pc[p] = "lock"]
    /\ UNCHANGED <<disk, plan, mode, old, helper, aged>>

-----------------------------------------------------------------------------
(* Mutant: the statistics are not compared.                                *)
AtRiskNever(p) == FALSE

(* Is much work at stake?                                                  *)
AtRisk(p) == stats = "old" /\ mode[p] # "resume"

(* Mutant: statistics that cannot be read are taken for missing ones.      *)
JudgeTornAsMissing(p) ==
    /\ pc[p] = "judge"
    /\ IF AtRisk(p) THEN Fail(p, "at risk")
       ELSE Then(p, IF mode[p] = "resume" THEN "move" ELSE "state")
    /\ UNCHANGED <<disk, plan, mode, old, cleans, helper, aged>>

Judge(p) ==
    /\ pc[p] = "judge"
    /\ IF stats = "torn" THEN Fail(p, "malformed")
       ELSE IF AtRisk(p) THEN Fail(p, "at risk")
       ELSE Then(p, IF mode[p] = "resume" THEN "move" ELSE "state")
    /\ UNCHANGED <<disk, plan, mode, old, cleans, helper, aged>>

(* rename() of a directory needs a target that is missing or empty.        *)
Movable ==
    /\ "queue" \in exists
    /\ files["_resume"] = {} /\ "_resume" \notin state

(* rename(queue, _resume), whatever it returns.                            *)
Move(p) ==
    /\ pc[p] = "move"
    /\ IF Movable
       THEN /\ exists' = (exists \cup {"_resume"}) \ {"queue"}
            /\ files' = [files EXCEPT !["_resume"] = files["queue"],
                                      !["queue"] = {}]
            /\ state' = IF "queue" \in state THEN {"_resume"} ELSE {}
       ELSE UNCHANGED <<exists, files, state>>
    /\ Then(p, "state")
    /\ UNCHANGED <<out, stats, readme, backup, plot,
                   plan, mode, old, cleans, helper, aged>>

(* Mutant: queue/.state stays.                                             *)
RmStateNot(p) ==
    /\ pc[p] = "state"
    /\ Then(p, "queue")
    /\ UNCHANGED <<disk, plan, mode, old, cleans, helper, aged>>

(* The four directories in queue/.state, and it.                           *)
RmState(p) ==
    /\ pc[p] = "state"
    /\ state' = state \ {"queue"}
    /\ Then(p, "queue")
    /\ UNCHANGED <<out, stats, exists, files, readme, backup, plot,
                   plan, mode, old, cleans, helper, aged>>

(* delete_files(): one file after the other, then rmdir.                   *)
AfterRmdir == [queue |-> "saveCrashes", crashes |-> "saveHangs",
               hangs |-> "dropStats"]

Unlink(p) ==
    /\ pc[p] \in {"queue", "crashes", "hangs"}
    /\ \E c \in files[pc[p]] : files' = [files EXCEPT ![pc[p]] = @ \ {c}]
    /\ UNCHANGED <<out, stats, exists, state, readme, backup, plot,
                   plan, pc, mode, old, cleans, lock, helper, why, aged>>

Rmdir(p) == LET d == pc[p] IN
    /\ d \in {"queue", "crashes", "hangs"} /\ files[d] = {}
    /\ IF d \in state \/ (d = "crashes" /\ readme)
       THEN Fail(p, "cleanup") /\ UNCHANGED exists
       ELSE Then(p, AfterRmdir[d]) /\ exists' = exists \ {d}
    /\ UNCHANGED <<out, stats, files, state, readme, backup, plot,
                   plan, mode, old, cleans, helper, aged>>

(* A new session unlinks the README; a resumed one renames the directory   *)
(* unless it can be removed.  The name has the date, to the second.        *)
SaveCrashes(p) ==
    /\ pc[p] = "saveCrashes"
    /\ readme' = FALSE
    /\ IF mode[p] = "resume"
       THEN /\ backup' = backup \cup files["crashes"]
            /\ files' = [files EXCEPT !["crashes"] = {}]
            /\ exists' = exists \ {"crashes"}
       ELSE UNCHANGED <<backup, files, exists>>
    /\ Then(p, "crashes")
    /\ UNCHANGED <<out, stats, state, plot, plan, mode, old, cleans, helper, aged>>

(* Mutant: no backup of the hangs.                                         *)
SaveHangsNot(p) ==
    /\ pc[p] = "saveHangs"
    /\ Then(p, "hangs")
    /\ UNCHANGED <<disk, plan, mode, old, cleans, helper, aged>>

SaveHangs(p) ==
    /\ pc[p] = "saveHangs"
    /\ IF mode[p] = "resume"
       THEN /\ backup' = backup \cup files["hangs"]
            /\ files' = [files EXCEPT !["hangs"] = {}]
            /\ exists' = exists \ {"hangs"}
       ELSE UNCHANGED <<backup, files, exists>>
    /\ Then(p, "hangs")
    /\ UNCHANGED <<out, stats, state, readme, plot,
                   plan, mode, old, cleans, helper, aged>>

(* fuzzer_stats goes last, so that a start that is cut short is judged by  *)
(* it again; a resumed session keeps it.                                   *)
DropStats(p) ==
    /\ pc[p] = "dropStats"
    /\ stats' = IF mode[p] = "resume" THEN stats ELSE "missing"
    /\ Then(p, "dropPlot")
    /\ UNCHANGED <<out, exists, files, state, readme, backup, plot,
                   plan, mode, old, cleans, helper, aged>>

DropPlot(p) ==
    /\ pc[p] = "dropPlot"
    /\ plot' = FALSE
    /\ Then(p, "mkQueue")
    /\ UNCHANGED <<out, stats, exists, files, state, readme, backup,
                   plan, mode, old, cleans, helper, aged>>

-----------------------------------------------------------------------------
(* setup_dirs_fds() wants none of what it makes to be there yet.           *)
Mkdir(p, at, d, next) ==
    /\ pc[p] = at
    /\ IF d \in exists
       THEN Fail(p, "mkdir") /\ UNCHANGED exists
       ELSE Then(p, next) /\ exists' = exists \cup {d}
    /\ UNCHANGED <<out, stats, files, state, readme, backup, plot,
                   plan, mode, old, cleans, helper, aged>>

MkState(p) ==
    /\ pc[p] = "mkState"
    /\ IF "queue" \in state
       THEN Fail(p, "mkdir") /\ UNCHANGED state
       ELSE Then(p, "mkCrashes") /\ state' = state \cup {"queue"}
    /\ UNCHANGED <<out, stats, exists, files, readme, backup, plot,
                   plan, mode, old, cleans, helper, aged>>

(* plot_data is opened with O_EXCL.                                        *)
MkPlot(p) ==
    /\ pc[p] = "mkPlot"
    /\ plot' = TRUE
    /\ IF plot THEN Fail(p, "mkdir") ELSE Then(p, "stats")
    /\ UNCHANGED <<out, stats, exists, files, state, readme, backup,
                   plan, mode, old, cleans, helper, aged>>

MakeDirs(p) ==
    \/ Mkdir(p, "mkQueue", "queue", "mkState")
    \/ MkState(p)
    \/ Mkdir(p, "mkCrashes", "crashes", "mkHangs")
    \/ Mkdir(p, "mkHangs", "hangs", "mkPlot")
    \/ MkPlot(p)

-----------------------------------------------------------------------------
(* The crashes and hangs, and all that there is.                           *)
Evidence == backup \cup files["crashes"] \cup files["hangs"]
Present == backup \cup UNION {files[d] : d \in Dir}

(* write_stats_file(): the file is truncated, and written when it is       *)
(* closed; reportStatus is run on it.  start_time is that of this process, *)
(* resumed or not.                                                         *)
TruncStats(p) ==
    /\ pc[p] \in {"stats", "lastStats"}
    /\ stats' = "torn"
    /\ Then(p, IF pc[p] = "stats" THEN "close" ELSE "lastClose")
    /\ UNCHANGED <<out, exists, files, state, readme, backup, plot,
                   plan, mode, old, cleans, helper, aged>>

CloseStats(p) ==
    /\ pc[p] \in {"close", "lastClose"}
    /\ stats' = IF old[p] THEN "old" ELSE "young"
    /\ aged' = IF old[p] THEN Present ELSE aged
    /\ helper' = helper \cup {p}
    /\ Then(p, IF pc[p] = "close" THEN "system" ELSE "lastSystem")
    /\ UNCHANGED <<out, exists, files, state, readme, backup, plot,
                   plan, mode, old, cleans>>

(* Every minute, from show_stats().                                        *)
Update(p) ==
    /\ pc[p] = "loop"
    /\ Then(p, "stats")
    /\ UNCHANGED <<disk, plan, mode, old, cleans, helper, aged>>

(* OUTPUT_GRACE minutes later.                                             *)
Age(p) ==
    /\ pc[p] = "loop" /\ ~old[p]
    /\ old' = [old EXCEPT ![p] = TRUE]
    /\ UNCHANGED <<disk, plan, pc, mode, cleans, lock, helper, why, aged>>

(* What a session may keep: something new, or, resumed, what it runs again.*)
Candidates(p) ==
    IF mode[p] = "resume"
    THEN files["_resume"]
    ELSE {c \in Find : c \notin Present \cup aged}

(* save_if_interesting() keeps a test case; the first crash comes with the *)
(* README.                                                                 *)
Keep(p) ==
    /\ pc[p] = "loop"
    /\ \E c \in Candidates(p), d \in Dir \ {"_resume"} :
          /\ files' = [files EXCEPT ![d] = @ \cup {c}]
          /\ readme' = (readme \/ d = "crashes")
    /\ UNCHANGED <<out, stats, exists, state, backup, plot,
                   plan, pc, mode, old, cleans, lock, helper, why, aged>>

(* Killed between the README and the first crash.                          *)
KeepReadme(p) ==
    /\ pc[p] = "loop" /\ Candidates(p) # {}
    /\ readme' = TRUE
    /\ End(p)
    /\ UNCHANGED <<out, stats, exists, files, state, backup, plot,
                   plan, mode, old, cleans, helper, why, aged>>

(* system(): a redis_ctrl.js, or esfuzz.js for the next test cases.        *)
System(p) ==
    /\ pc[p] = "loop"
    /\ helper' = helper \cup {p}
    /\ Then(p, "system")
    /\ UNCHANGED <<disk, plan, mode, old, cleans, aged>>

(* It ends, and afl-fuzz goes on if it is still there; after the last      *)
(* report it exits.                                                        *)
HelperEnds(p) ==
    /\ p \in helper
    /\ helper' = helper \ {p}
    /\ \/ pc[p] = "system" /\ Then(p, "loop")
       \/ pc[p] = "lastSystem" /\ End(p) /\ UNCHANGED why
       \/ pc[p] \notin Helping /\ UNCHANGED <<pc, lock, why>>
    /\ UNCHANGED <<disk, plan, mode, old, cleans, aged>>

(* A stop: only the loop without -i writes the statistics once more.       *)
Stop(p) ==
    /\ pc[p] = "loop" /\ mode[p] = "fuzz"
    /\ Then(p, "lastStats")
    /\ UNCHANGED <<disk, plan, mode, old, cleans, helper, aged>>

(* With -i, fuzz_dir() is through, or in_dir cannot be read.               *)
Finish(p) ==
    /\ pc[p] = "loop" /\ mode[p] # "fuzz"
    /\ IF mode[p] = "resume" /\ "_resume" \notin exists
       THEN Fail(p, "no _resume")
       ELSE End(p) /\ UNCHANGED why
    /\ UNCHANGED <<disk, plan, mode, old, cleans, helper, aged>>

(* SIGKILL.                                                                *)
Die(p) ==
    /\ pc[p] # "off"
    /\ End(p)
    /\ UNCHANGED <<disk, plan, mode, old, cleans, helper, why, aged>>

ProcNext(p) ==
    \/ Start(p) \/ MkOut(p) \/ Lock(p)
    \/ Judge(p) \/ Move(p) \/ RmState(p) \/ Unlink(p) \/ Rmdir(p)
    \/ SaveCrashes(p) \/ SaveHangs(p) \/ DropStats(p) \/ DropPlot(p)
    \/ MakeDirs(p)
    \/ TruncStats(p) \/ CloseStats(p) \/ Update(p) \/ Age(p)
    \/ Keep(p) \/ KeepReadme(p) \/ System(p) \/ HelperEnds(p)
    \/ Stop(p) \/ Finish(p) \/ Die(p)

Next == \E p \in Proc : ProcNext(p)

Spec == Init /\ [][Next]_vars

-----------------------------------------------------------------------------
(* A process that cleans, builds or fills the directory is alone there:    *)
(* neither a second afl-fuzz nor a program that a killed one had started   *)
(* (a generator that still writes into fuzz_inputs) is at work.            *)
Alone(p) ==
    /\ \A q \in Proc : pc[q] \in Owning => q = p
    /\ helper \subseteq {p}
    /\ p \in helper => pc[p] \in Helping

OwnerIsAlone == \A p \in Proc : pc[p] \in Owning => Alone(p)

(* Wherever the cleaning or building of a directory was cut, the next      *)
(* start copes: it never stops at a file or directory in its way.  Only a  *)
(* start that made the directory itself may do so, when another one got    *)
(* the lock before it.                                                     *)
CleanupCopes ==
    \A p \in Proc : cleans[p] => why[p] \notin {"cleanup", "mkdir"}

(* "To avoid data loss, afl-fuzz will *NOT* automatically delete this data *)
(* for you": what was once recorded as more than OUTPUT_GRACE minutes of   *)
(* work is still there after any step, also of a start that is cut short   *)
(* and after a resumed session has reset the clock.  Only the queue can be *)
(* lost, to a second resumption (see ResumeKeepsAll).                      *)
OldFindingsStay ==
    [][\/ aged \cap Present \subseteq Present'
       \/ \E p \in Proc : mode[p] = "resume" /\ pc[p] = "queue"]_vars

(* A kill that fell between the truncation of fuzzer_stats and its writing *)
(* leaves a file on which every start gives up: "Malformed data in '%s'".   *)
(* Nothing says then how much work is at stake.  So what is there stays as *)
(* it is, however young, also when a start that made the directory gets    *)
(* the lock only now; and none gives up because another process is just    *)
(* writing the file.                                                       *)
CutOff == stats = "torn" /\ \A p \in Proc : pc[p] \notin {"close", "lastClose"}

CutOffIsLeft ==
    [][/\ CutOff => CutOff' /\ UNCHANGED disk
       /\ \A p \in Proc : why'[p] = "malformed" /\ why[p] # "malformed"
             => CutOff]_vars

(* Resuming is no way to lose a crash or a hang, whatever ran in between   *)
(* and wherever a start is cut: only the cleaning for a new session takes  *)
(* them away.                                                              *)
ResumeKeepsCrashes ==
    [][\/ Evidence \subseteq Evidence'
       \/ \E p \in Proc : mode[p] # "resume" /\ pc[p] \in Cleanup]_vars

(* Nor is it a way to lose a test case from the queue: "we temporarily     *)
(* move the old queue/ to a new location that gets deleted once import to  *)
(* the new queue/ is finished".                                            *)
ResumeKeepsAll ==
    [][\/ Present \subseteq Present'
       \/ \E p \in Proc : mode[p] # "resume" /\ pc[p] \in Cleanup]_vars
=============================================================================
