----------------------------- MODULE ForkServer -----------------------------
(***************************************************************************)
(* How a test case is executed: run_target() in afl-fuzz asks the fork     *)
(* server inside the target for a process, arms a timer and waits for the  *)
(* process to end, or to stop itself in persistent mode.  Both talk over   *)
(* two pipes, and the signals SIGALRM and SIGINT run their handlers        *)
(* between any two steps of afl-fuzz.                                      *)
(***************************************************************************)
EXTENDS Integers, Sequences

CONSTANTS Persistent,  \* the target stops itself after a test case
          MaxExec,     \* bound: test cases executed
          MaxChild,    \* bound: processes forked
          MayStop,     \* may the user stop afl-fuzz?
          MayFail      \* may fork() fail, or afl-fuzz end unexpectedly?

ASSUME ForkServerAssumption ==
    /\ Persistent \in BOOLEAN /\ MayStop \in BOOLEAN /\ MayFail \in BOOLEAN
    /\ MaxExec \in Nat /\ MaxChild \in Nat

VARIABLES pc,               \* where afl-fuzz is
          child_pid,        \* -1 before the first run, 0 when there is none
          child_timed_out, prev_timed_out, stop_soon,
          timer,            \* is ITIMER_REAL armed?
          status,           \* the wait status read last
          verdict,          \* what run_target() returned last
          srv,              \* where the fork server is
          srvPid,           \* its child_pid
          child_stopped,    \* its child_stopped
          srvStatus,        \* its status
          ctl, st,          \* the control and the status pipe
          child,            \* the processes forked so far
          execs,            \* test cases requested so far
          did,              \* history: what the target did with this one
          blind             \* history: left without killing the child

flags == <<child_timed_out, prev_timed_out, stop_soon>>
result == <<status, verdict>>
afl == <<pc, child_pid, flags, timer, result>>
server == <<srvPid, child_stopped, srvStatus>>
history == <<execs, did, blind>>
rest == <<srv, server, ctl, child, history>>
vars == <<afl, st, rest>>

Status == {"exited", "crashed", "killed", "stopped"}
Pid == 1 .. MaxChild
Message == {[type |-> "hello"]} \cup [type : {"pid"}, pid : Pid]
               \cup [type : {"status"}, status : Status]

(* The type invariant.                                                     *)
TypeOK ==
    /\ pc \in {"hello", "idle", "readpid", "arm", "wait", "clear", "disarm",
               "verdict", "end"}
    /\ child_pid \in -1 .. MaxChild
    /\ child_timed_out \in BOOLEAN /\ prev_timed_out \in BOOLEAN
    /\ stop_soon \in BOOLEAN /\ timer \in BOOLEAN
    /\ status \in Status /\ srvStatus \in Status
    /\ verdict \in {"none", "tmout", "crash"}
    /\ srv \in {"boot", "read", "reap", "start", "pid", "wait", "status",
                "dead"}
    /\ srvPid \in 0 .. MaxChild /\ child_stopped \in BOOLEAN
    /\ ctl \in Seq(BOOLEAN) /\ st \in Seq(Message)
    /\ child \in Seq(Status \cup {"running", "gone"})
    /\ Len(child) <= MaxChild
    /\ execs \in 0 .. MaxExec
    /\ did \in {"nothing", "finished", "crashed"} /\ blind \in BOOLEAN

(* init_forkserver() has forked the target and armed its timer.            *)
Init ==
    /\ pc = "hello" /\ child_pid = -1
    /\ child_timed_out = FALSE /\ prev_timed_out = FALSE /\ stop_soon = FALSE
    /\ timer = TRUE /\ status = "exited" /\ verdict = "none"
    /\ srv = "boot" /\ srvPid = 0 /\ child_stopped = FALSE
    /\ srvStatus = "exited"
    /\ ctl = <<>> /\ st = <<>> /\ child = <<>>
    /\ execs = 0 /\ did = "nothing" /\ blind = FALSE

Alive(p) == p \in DOMAIN child /\ child[p] \in {"running", "stopped"}

(* SIGKILL: without effect on a process that has ended already.            *)
Killed(p) == IF Alive(p) THEN [child EXCEPT ![p] = "killed"] ELSE child

-----------------------------------------------------------------------------
(* afl-fuzz                                                                *)

(* A read from the status pipe: a message of the kind that is due, or, once *)
(* the fork server is dead and the pipe empty, the end of the file.        *)
Eof == st = <<>> /\ srv = "dead"

Hello ==
    /\ pc = "hello" /\ st # <<>>
    /\ st' = Tail(st)
    /\ timer' = FALSE
    /\ pc' = "idle"
    /\ UNCHANGED <<child_pid, flags, result, rest>>

(* A FATAL() of either function: the fork server is gone.                  *)
Fatal ==
    /\ \/ pc = "hello" /\ Eof
       \/ ~stop_soon /\ \/ pc \in {"readpid", "wait"} /\ Eof
                        \/ pc = "idle" /\ srv = "dead" /\ execs < MaxExec
    /\ pc' = "end"
    /\ UNCHANGED <<child_pid, flags, timer, result, rest, st>>

(* run_target() asks for a process, and says whether it killed the last.   *)
Request ==
    /\ pc = "idle" /\ execs < MaxExec /\ srv # "dead"
    /\ child_timed_out' = FALSE
    /\ ctl' = Append(ctl, prev_timed_out)
    /\ execs' = execs + 1 /\ did' = "nothing"
    /\ pc' = "readpid"
    /\ UNCHANGED <<child_pid, prev_timed_out, stop_soon, timer, result, srv,
                   server, st, child, blind>>

(* After the stop run_target() returns as soon as the fork server is gone, *)
(* leaving the timer as it is; further calls return at once.               *)
RequestStopped ==
    /\ stop_soon /\ pc = "idle" /\ srv = "dead"
    /\ child_timed_out' = FALSE
    /\ verdict' = "none"
    /\ UNCHANGED <<pc, child_pid, prev_timed_out, stop_soon, timer, status, st,
                   rest>>

ReturnStopped ==
    /\ stop_soon /\ pc \in {"readpid", "wait"} /\ Eof
    /\ verdict' = "none"
    /\ pc' = "idle"
    /\ UNCHANGED <<child_pid, flags, timer, status, rest, st>>

ReadPid ==
    /\ pc = "readpid" /\ st # <<>>
    /\ child_pid' = st[1].pid
    /\ st' = Tail(st)
    /\ pc' = "arm"
    /\ UNCHANGED <<flags, timer, result, rest>>

(* Mutant: a timeout of 0, setitimer() disarms the timer.                  *)
ArmZero ==
    /\ pc = "arm"
    /\ timer' = FALSE
    /\ pc' = "wait"
    /\ UNCHANGED <<child_pid, flags, result, rest, st>>

Arm ==
    /\ pc = "arm"
    /\ timer' = TRUE
    /\ pc' = "wait"
    /\ UNCHANGED <<child_pid, flags, result, rest, st>>

ReadStatus ==
    /\ pc = "wait" /\ st # <<>>
    /\ status' = st[1].status
    /\ st' = Tail(st)
    /\ pc' = "clear"
    /\ UNCHANGED <<child_pid, flags, timer, verdict, rest>>

(* Mutant: a stopped child is forgotten as well.                           *)
ClearAlways ==
    /\ pc = "clear"
    /\ child_pid' = 0
    /\ pc' = "disarm"
    /\ UNCHANGED <<flags, timer, result, rest, st>>

(* A stopped child is still there, and its pid still known.                *)
Clear ==
    /\ pc = "clear"
    /\ child_pid' = IF status = "stopped" THEN child_pid ELSE 0
    /\ pc' = "disarm"
    /\ UNCHANGED <<flags, timer, result, rest, st>>

Disarm ==
    /\ pc = "disarm"
    /\ timer' = FALSE
    /\ pc' = "verdict"
    /\ UNCHANGED <<child_pid, flags, result, rest, st>>

(* After a stop a child that was killed is no crash.                       *)
Fault ==
    IF status \in {"crashed", "killed"} /\ ~stop_soon
    THEN IF child_timed_out /\ status = "killed" THEN "tmout" ELSE "crash"
    ELSE "none"

(* Mutant: prev_timed_out is taken from the verdict, not from the handler. *)
ReturnTmoutOnly ==
    /\ pc = "verdict"
    /\ prev_timed_out' = (Fault = "tmout")
    /\ verdict' = Fault
    /\ pc' = "idle"
    /\ UNCHANGED <<child_pid, child_timed_out, stop_soon, timer, status, rest,
                   st>>

Return ==
    /\ pc = "verdict"
    /\ prev_timed_out' = child_timed_out
    /\ verdict' = Fault
    /\ pc' = "idle"
    /\ UNCHANGED <<child_pid, child_timed_out, stop_soon, timer, status, rest,
                   st>>

(* The main loop ends after a stop.                                        *)
Finish ==
    /\ pc = "idle" /\ stop_soon
    /\ pc' = "end"
    /\ UNCHANGED <<child_pid, flags, timer, result, rest, st>>

(* afl-fuzz gives up for a reason of its own, or is killed.                *)
Abort ==
    /\ MayFail /\ pc # "end"
    /\ pc' = "end" /\ blind' = TRUE
    /\ UNCHANGED <<child_pid, flags, timer, result, srv, server, ctl, st, child,
                   execs, did>>

-----------------------------------------------------------------------------
(* Signal handlers.                                                        *)

(* Mutant: the handler makes run_target() give up on the status.           *)
AlarmReturns ==
    /\ timer /\ pc # "end"
    /\ timer' = FALSE
    /\ child_timed_out' = (child_timed_out \/ child_pid # 0)
    /\ child' = Killed(child_pid)
    /\ srv' = IF child_pid = -1 THEN "dead" ELSE srv
    /\ pc' = IF pc = "wait" THEN "disarm" ELSE pc
    /\ UNCHANGED <<child_pid, prev_timed_out, stop_soon, result, server, ctl, st,
                   history>>

(* handle_timeout(): the child, or, before there was any, the fork server. *)
Alarm ==
    /\ timer /\ pc # "end"
    /\ timer' = FALSE
    /\ child_timed_out' = (child_timed_out \/ child_pid # 0)
    /\ child' = Killed(child_pid)
    /\ srv' = IF child_pid = -1 THEN "dead" ELSE srv
    /\ UNCHANGED <<pc, child_pid, prev_timed_out, stop_soon, result, server, ctl,
                   st, history>>

(* handle_stop_sig(); a second signal finds what the first did not know.   *)
Stop ==
    /\ MayStop /\ pc # "end"
    /\ stop_soon' = TRUE
    /\ child' = Killed(child_pid)
    /\ srv' = "dead"
    /\ blind' = (blind \/ pc = "readpid")
    /\ UNCHANGED <<pc, child_pid, child_timed_out, prev_timed_out, timer, result,
                   server, ctl, st, execs, did>>

-----------------------------------------------------------------------------
(* The fork server, __afl_start_forkserver().                              *)

Boot ==
    /\ srv = "boot"
    /\ st' = Append(st, [type |-> "hello"])
    /\ srv' = "read"
    /\ UNCHANGED <<afl, server, ctl, child, history>>

(* The target crashes or exits before it gets as far as the fork server.   *)
BootFails ==
    /\ srv = "boot"
    /\ srv' = "dead"
    /\ UNCHANGED <<afl, server, ctl, st, child, history>>

(* Mutant: the message of afl-fuzz is ignored.                             *)
SrvReadIgnores ==
    /\ srv = "read" /\ ctl # <<>>
    /\ ctl' = Tail(ctl)
    /\ srv' = "start"
    /\ UNCHANGED <<afl, server, st, child, history>>

SrvRead ==
    /\ srv = "read" /\ ctl # <<>>
    /\ ctl' = Tail(ctl)
    /\ srv' = IF child_stopped /\ ctl[1] THEN "reap" ELSE "start"
    /\ UNCHANGED <<afl, server, st, child, history>>

(* The stopped child was killed meanwhile: write it off.                   *)
SrvReap ==
    /\ srv = "reap" /\ child[srvPid] \in {"exited", "crashed", "killed"}
    /\ child' = [child EXCEPT ![srvPid] = "gone"]
    /\ child_stopped' = FALSE
    /\ srv' = "start"
    /\ UNCHANGED <<afl, srvPid, srvStatus, ctl, st, history>>

SrvFork ==
    /\ srv = "start" /\ ~child_stopped /\ Len(child) < MaxChild
    /\ child' = Append(child, "running")
    /\ srvPid' = Len(child) + 1
    /\ srv' = "pid"
    /\ UNCHANGED <<afl, child_stopped, srvStatus, ctl, st, history>>

SrvForkFails ==
    /\ MayFail /\ srv = "start" /\ ~child_stopped
    /\ srv' = "dead"
    /\ UNCHANGED <<afl, server, ctl, st, child, history>>

(* SIGCONT wakes a stopped child; one that is dead stays dead.             *)
SrvCont ==
    /\ srv = "start" /\ child_stopped
    /\ child' = [child EXCEPT ![srvPid] =
                     IF @ = "stopped" THEN "running" ELSE @]
    /\ child_stopped' = FALSE
    /\ srv' = "pid"
    /\ UNCHANGED <<afl, srvPid, srvStatus, ctl, st, history>>

SrvPid ==
    /\ srv = "pid" /\ pc # "end"
    /\ st' = Append(st, [type |-> "pid", pid |-> srvPid])
    /\ srv' = "wait"
    /\ UNCHANGED <<afl, server, ctl, child, history>>

(* waitpid() returns: the child has ended, or stopped itself.              *)
SrvWait ==
    /\ srv = "wait"
    /\ \/ /\ child[srvPid] \in {"exited", "crashed", "killed"}
          /\ child' = [child EXCEPT ![srvPid] = "gone"]
       \/ /\ Persistent /\ child[srvPid] = "stopped"
          /\ UNCHANGED child
    /\ srvStatus' = child[srvPid]
    /\ child_stopped' = (child[srvPid] = "stopped")
    /\ srv' = "status"
    /\ UNCHANGED <<afl, srvPid, ctl, st, history>>

SrvStatus ==
    /\ srv = "status" /\ pc # "end"
    /\ st' = Append(st, [type |-> "status", status |-> srvStatus])
    /\ srv' = "read"
    /\ UNCHANGED <<afl, server, ctl, child, history>>

(* Without afl-fuzz at the other end every read and write fails.           *)
SrvQuits ==
    /\ pc = "end"
    /\ srv \in {"pid", "status"} \/ (srv = "read" /\ ctl = <<>>)
    /\ srv' = "dead"
    /\ UNCHANGED <<afl, server, ctl, st, child, history>>

-----------------------------------------------------------------------------
(* The child runs the test case.                                           *)
ChildEnds ==
    \E p \in DOMAIN child :
        /\ child[p] = "running"
        /\ \E s \in {"exited", "crashed", "stopped"} :
              /\ s = "stopped" => Persistent
              /\ child' = [child EXCEPT ![p] = s]
              /\ did' = IF s = "crashed" THEN "crashed" ELSE "finished"
        /\ UNCHANGED <<afl, srv, server, ctl, st, execs, blind>>

RunTarget ==
    \/ Hello \/ Request \/ RequestStopped \/ ReadPid \/ Arm \/ ReadStatus
    \/ Clear \/ Disarm \/ Return \/ ReturnStopped \/ Fatal \/ Finish

Server ==
    \/ Boot \/ BootFails \/ SrvRead \/ SrvReap \/ SrvFork \/ SrvForkFails
    \/ SrvCont \/ SrvPid \/ SrvWait \/ SrvStatus \/ SrvQuits

Next == RunTarget \/ Alarm \/ Stop \/ Abort \/ Server \/ ChildEnds

Spec == Init /\ [][Next]_vars

(* afl-fuzz and the fork server are scheduled and the timer expires; the   *)
(* target may run for ever, even before it becomes a fork server.          *)
Fairness ==
    /\ WF_vars(RunTarget) /\ WF_vars(Alarm)
    /\ WF_vars(SrvRead \/ SrvReap \/ SrvFork \/ SrvCont \/ SrvPid \/ SrvWait
                   \/ SrvStatus)

FairSpec == Spec /\ Fairness
-----------------------------------------------------------------------------
(* Until the stop the verdict says what happened to this test case: a      *)
(* crash is the target's own, a timeout is a child that the handler        *)
(* killed, and otherwise the target got through.  In particular a child    *)
(* that the timer killed between two test cases, after it had stopped, is  *)
(* not taken for a crash of the second.                                    *)
VerdictIsRight ==
    pc = "idle" /\ execs > 0 /\ ~stop_soon =>
        /\ verdict = "crash" => did = "crashed"
        /\ verdict = "tmout" => child_timed_out /\ did # "crashed"
        /\ verdict = "none" => did = "finished"

(* The two sides never get out of step: a message in the status pipe is    *)
(* the one that afl-fuzz reads next, and it is about the child of this     *)
(* test case.                                                              *)
PipesInStep ==
    pc # "end" /\ st # <<>> =>
        CASE st[1].type = "hello" -> pc = "hello"
          [] st[1].type = "pid" -> pc = "readpid" /\ st[1].pid = srvPid
          [] st[1].type = "status" -> pc \in {"arm", "wait"}

(* A stop leaves no target process behind, except one that was forked when *)
(* the signal came and whose pid had not been read yet.                    *)
NoOrphans ==
    pc = "end" /\ srv = "dead" /\ ~blind => \A p \in DOMAIN child : ~Alive(p)

(* Whatever the target does, afl-fuzz gets on with the next test case, or  *)
(* gives up.                                                               *)
RunsEnd == pc \notin {"idle", "end"} ~> pc \in {"idle", "end"}
=============================================================================
