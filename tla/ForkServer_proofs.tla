--------------------------- MODULE ForkServer_proofs ---------------------------
(***************************************************************************)
(* afl-fuzz and the fork server stay in step, verdicts are about their own *)
(* test case and a stop leaves no process it knew of, for any number of    *)
(* test cases and processes, wherever the timer and the signals strike.    *)
(***************************************************************************)
EXTENDS ForkServer, SequenceTheorems, TLAPS

(* The three messages, as the fork server would send them now.             *)
HelloMsg == [type |-> "hello"]
PidMsg == [type |-> "pid", pid |-> srvPid]
StatusMsg == [type |-> "status", status |-> srvStatus]

Over == srv = "dead"
Working(phases) == Over \/ (srv \in phases /\ ctl = <<>>)

(* Where both sides are, and what is in the pipes between them.            *)
InStep ==
    \/ pc = "end"
    \/ pc = "hello" /\ st = <<>> /\ Working({"boot"})
    \/ pc = "hello" /\ st = <<HelloMsg>> /\ Working({"read"})
    \/ pc \in {"idle", "clear", "disarm", "verdict"} /\ st = <<>>
       /\ Working({"read"})
    \/ pc = "readpid" /\ st = <<>> /\ srv = "read" /\ ctl \in {<<TRUE>>, <<FALSE>>}
    \/ pc = "readpid" /\ st = <<>> /\ Working({"reap", "start", "pid"})
    \/ pc = "readpid" /\ st = <<PidMsg>> /\ Working({"wait", "status"})
    \/ pc = "readpid" /\ st = <<PidMsg, StatusMsg>> /\ Working({"read"})
    \/ pc \in {"arm", "wait"} /\ st = <<>> /\ Working({"wait", "status"})
    \/ pc \in {"arm", "wait"} /\ st = <<StatusMsg>> /\ Working({"read"})

(* The fork server has sent, or is about to send, the status of this test  *)
(* case, and afl-fuzz has not read it.                                     *)
Reported ==
    \/ srv = "status"
    \/ srv = "read" /\ pc \in {"arm", "wait"}
    \/ srv = "read" /\ pc = "readpid" /\ ctl = <<>>

(* Only the last process that was forked may still be there, and the fork  *)
(* server knows whether it is.                                             *)
Last == child[srvPid]
Custody ==
    /\ srvPid = Len(child)
    /\ \A p \in 1 .. Len(child) - 1 : child[p] = "gone"
    /\ pc = "hello" \/ srv = "boot" => srvPid = 0
    /\ srv = "boot" => ~child_stopped
    /\ srv \in {"read", "reap", "start"} =>
          IF child_stopped THEN srvPid > 0 /\ Last \in {"stopped", "killed"}
          ELSE srvPid > 0 => Last = "gone"
    /\ srv = "reap" => child_stopped
    /\ srv \in {"pid", "wait"} => srvPid > 0 /\ Last # "gone" /\ ~child_stopped
    /\ Reported =>
          /\ srvPid > 0 /\ (child_stopped <=> srvStatus = "stopped")
          /\ IF child_stopped THEN Last \in {"stopped", "killed"}
             ELSE Last = "gone"

Judging == {"clear", "disarm", "verdict"}

(* A status that says what the target did with this test case.             *)
Agrees(s) ==
    /\ s \in {"exited", "stopped"} => did = "finished"
    /\ s = "crashed" => did = "crashed"
    /\ s = "killed" => did # "crashed" /\ child_timed_out

IInv == TypeOK /\ InStep /\ Custody

-----------------------------------------------------------------------------
LEMMA Messages ==
    ASSUME NEW m, NEW n
    PROVE  /\ Append(<<>>, m) = <<m>> /\ Append(<<m>>, n) = <<m, n>>
           /\ Tail(<<m>>) = <<>> /\ Tail(<<m, n>>) = <<n>>
           /\ <<m>>[1] = m /\ <<m, n>>[1] = m
           /\ <<m>> # <<>> /\ <<m, n>> # <<>>
  <1>1. Append(<<>>, m) = <<m>>
    OBVIOUS
  <1>2. Append(<<m>>, n) = <<m, n>>
    <2> DEFINE s == Append(<<m>>, n)
               t == <<m, n>>
    <2>1. <<m>> \in Seq({m, n}) /\ Len(<<m>>) = 1 /\ <<m>>[1] = m
      OBVIOUS
    <2>2. s \in Seq({m, n}) /\ Len(s) = 2 /\ s[1] = m /\ s[2] = n
      BY <2>1, AppendProperties
    <2>3. t \in Seq({m, n}) /\ Len(t) = 2 /\ t[1] = m /\ t[2] = n
      OBVIOUS
    <2> HIDE DEF s, t
    <2>4. \A i \in 1 .. Len(s) : s[i] = t[i]
      BY <2>2, <2>3
    <2>5. s = t
      BY <2>2, <2>3, <2>4, SeqEqual
    <2> QED
      BY <2>5 DEF s, t
  <1>3. Tail(<<m>>) = <<>>
    OBVIOUS
  <1>4. Tail(<<m, n>>) = <<n>>
    OBVIOUS
  <1>5. <<m>>[1] = m /\ <<m, n>>[1] = m /\ <<m>> # <<>> /\ <<m, n>> # <<>>
    OBVIOUS
  <1> QED
    BY <1>1, <1>2, <1>3, <1>4, <1>5

(* One process changes its state.                                          *)
LEMMA ChildChanges ==
    ASSUME TypeOK, NEW p \in 1 .. Len(child),
           NEW s \in Status \cup {"running", "gone"},
           child' = [child EXCEPT ![p] = s]
    PROVE  /\ child' \in Seq(Status \cup {"running", "gone"})
           /\ Len(child') = Len(child)
           /\ child'[p] = s
           /\ \A q \in 1 .. Len(child) : q # p => child'[q] = child[q]
  BY ExceptSeq DEF TypeOK

(* A SIGKILL, or none.                                                     *)
LEMMA ChildKilled ==
    ASSUME TypeOK, child' = Killed(child_pid)
    PROVE  /\ child' \in Seq(Status \cup {"running", "gone"})
           /\ Len(child') = Len(child)
           /\ \A q \in 1 .. Len(child) : child'[q] =
                 IF q = child_pid /\ child[q] \in {"running", "stopped"}
                 THEN "killed" ELSE child[q]
  <1>1. CASE Alive(child_pid)
    <2>1. child_pid \in 1 .. Len(child) /\ child' = [child EXCEPT ![child_pid] = "killed"]
      BY <1>1 DEF Alive, Killed, TypeOK
    <2> QED
      BY <1>1, <2>1, ChildChanges DEF Alive, Status
  <1>2. CASE ~Alive(child_pid)
    <2>1. child' = child /\ DOMAIN child = 1 .. Len(child)
      BY <1>2 DEF Killed, TypeOK
    <2> QED
      BY <1>2, <2>1 DEF Alive, TypeOK
  <1> QED
    BY <1>1, <1>2

(* A process is forked.                                                    *)
LEMMA ChildForked ==
    ASSUME TypeOK, child' = Append(child, "running")
    PROVE  /\ child' \in Seq(Status \cup {"running", "gone"})
           /\ Len(child') = Len(child) + 1
           /\ child'[Len(child) + 1] = "running"
           /\ \A q \in 1 .. Len(child) : child'[q] = child[q]
  BY AppendProperties DEF TypeOK

LEMMA InitIInv == Init => IInv
  <1> SUFFICES ASSUME Init PROVE IInv
    OBVIOUS
  <1>1. /\ 0 \in 0 .. MaxChild /\ -1 \in -1 .. MaxChild /\ 0 \in 0 .. MaxExec
        /\ Len(child) = 0 /\ 0 <= MaxChild
    BY ForkServerAssumption DEF Init
  <1>a. ctl \in Seq(BOOLEAN) /\ st \in Seq(Message)
        /\ child \in Seq(Status \cup {"running", "gone"})
    BY DEF Init
  <1>2. TypeOK
    BY <1>1, <1>a DEF Init, TypeOK, Status
  <1>3. InStep
    BY DEF Init, InStep, Working, Over
  <1>4. Custody
    BY <1>1 DEF Init, Custody, Reported
  <1> QED
    BY <1>2, <1>3, <1>4 DEF IInv

LEMMA NextTypes == IInv /\ [Next]_vars => TypeOK'
  <1> SUFFICES ASSUME IInv, [Next]_vars PROVE TypeOK'
    OBVIOUS
  <1> USE DEF flags, result, afl, server, history, rest
  <1>0. TypeOK /\ MaxExec \in Nat /\ MaxChild \in Nat
    BY ForkServerAssumption DEF IInv
  <1>1. CASE Fatal \/ RequestStopped \/ ReturnStopped \/ Arm \/ Disarm
               \/ Finish \/ Abort
    <2>1. pc' \in {pc, "end", "idle", "wait", "verdict"}
          /\ child_timed_out' \in BOOLEAN /\ timer' \in BOOLEAN
          /\ verdict' \in {verdict, "none"} /\ blind' \in BOOLEAN
      BY <1>0, <1>1 DEF TypeOK, Fatal, RequestStopped, ReturnStopped, Arm, Disarm,
                        Finish, Abort
    <2>2. UNCHANGED <<child_pid, prev_timed_out, stop_soon, status, srv, server, ctl,
                      st, child, execs, did>>
      BY <1>1 DEF Fatal, RequestStopped, ReturnStopped, Arm, Disarm, Finish, Abort
    <2> QED
      BY <1>0, <2>1, <2>2 DEF TypeOK
  <1>a. CASE Clear
    <2>1. child_pid' \in -1 .. MaxChild
      BY <1>0, <1>a DEF Clear, TypeOK
    <2> QED
      BY <1>0, <1>a, <2>1 DEF TypeOK, Clear
  <1>b. CASE Return
    BY <1>0, <1>b DEF TypeOK, Return, Fault
  <1>2. CASE BootFails \/ SrvForkFails \/ SrvQuits \/ UNCHANGED vars
    BY <1>0, <1>2 DEF TypeOK, BootFails, SrvForkFails, SrvQuits, vars
  <1>3. CASE Hello
    <2>1. st' \in Seq(Message)
      BY <1>0, <1>3, HeadTailProperties DEF Hello, TypeOK
    <2> QED
      BY <1>0, <1>3, <2>1, ZenonT(40) DEF TypeOK, Hello
  <1>4. CASE Request
    <2>1. ctl' \in Seq(BOOLEAN)
      BY <1>0, <1>4, AppendProperties DEF Request, TypeOK
    <2>2. execs' \in 0 .. MaxExec
      BY <1>0, <1>4 DEF Request, TypeOK
    <2> QED
      BY <1>0, <1>4, <2>1, <2>2 DEF TypeOK, Request
  <1>5. CASE ReadPid
    <2>1. st \in {<<PidMsg>>, <<PidMsg, StatusMsg>>}
      BY <1>5, Messages DEF ReadPid, IInv, InStep
    <2>2. st[1] = PidMsg
      BY <2>1, Messages
    <2>3. st' \in Seq(Message)
      BY <1>0, <1>5, HeadTailProperties DEF ReadPid, TypeOK
    <2>4. child_pid' \in -1 .. MaxChild
      BY <1>0, <1>5, <2>2 DEF ReadPid, PidMsg, TypeOK
    <2> QED
      BY <1>0, <1>5, <2>3, <2>4 DEF TypeOK, ReadPid
  <1>6. CASE ReadStatus
    <2>1. st = <<StatusMsg>>
      BY <1>6, Messages DEF ReadStatus, IInv, InStep
    <2>2. st' \in Seq(Message)
      BY <1>0, <1>6, HeadTailProperties DEF ReadStatus, TypeOK
    <2>3. status' \in Status
      BY <1>0, <1>6, <2>1, Messages DEF ReadStatus, StatusMsg, TypeOK
    <2> QED
      BY <1>0, <1>6, <2>2, <2>3 DEF TypeOK, ReadStatus
  <1>7. CASE Alarm \/ Stop
    <2>1. child' \in Seq(Status \cup {"running", "gone"}) /\ Len(child') = Len(child)
      BY <1>0, <1>7, ChildKilled DEF Alarm, Stop
    <2>2. srv' \in {srv, "dead"} /\ timer' \in BOOLEAN /\ stop_soon' \in BOOLEAN
          /\ child_timed_out' \in BOOLEAN /\ blind' \in BOOLEAN
      BY <1>0, <1>7 DEF TypeOK, Alarm, Stop
    <2>3. UNCHANGED <<pc, child_pid, prev_timed_out, status, verdict, server, ctl,
                      st, execs, did>>
      BY <1>7 DEF Alarm, Stop
    <2> QED
      BY <1>0, <2>1, <2>2, <2>3 DEF TypeOK
  <1>8. CASE Boot
    <2>1. [type |-> "hello"] \in Message
      BY DEF Message
    <2>2. st' \in Seq(Message)
      BY <1>0, <1>8, <2>1, AppendProperties DEF Boot, TypeOK
    <2> QED
      BY <1>0, <1>8, <2>2 DEF TypeOK, Boot
  <1>9. CASE SrvRead
    <2>1. ctl' \in Seq(BOOLEAN)
      BY <1>0, <1>9, HeadTailProperties DEF SrvRead, TypeOK
    <2> QED
      BY <1>0, <1>9, <2>1 DEF TypeOK, SrvRead
  <1>10. CASE SrvReap \/ SrvCont \/ SrvWait
    <2>1. srv \in {"reap", "start", "wait"} /\ (srv = "start" => child_stopped)
      BY <1>10 DEF SrvReap, SrvCont, SrvWait
    <2>2. srvPid \in 1 .. Len(child) /\ Last \in Status \cup {"running", "gone"}
      BY <1>0, <2>1 DEF IInv, Custody, TypeOK, Last
    <2>3. child' \in Seq(Status \cup {"running", "gone"}) /\ Len(child') = Len(child)
      BY <1>0, <1>10, <2>2, ChildChanges DEF SrvReap, SrvCont, SrvWait, TypeOK, Last
    <2>4. srvStatus' \in Status /\ child_stopped' \in BOOLEAN
          /\ srv' \in {"start", "pid", "status"}
      BY <1>0, <1>10 DEF SrvReap, SrvCont, SrvWait, TypeOK, Status
    <2>5. UNCHANGED <<afl, srvPid, ctl, st, history>>
      BY <1>10 DEF SrvReap, SrvCont, SrvWait
    <2> QED
      BY <1>0, <2>3, <2>4, <2>5 DEF TypeOK
  <1>11. CASE SrvFork
    <2>1. child' \in Seq(Status \cup {"running", "gone"}) /\ Len(child') = Len(child) + 1
      BY <1>0, <1>11, ChildForked DEF SrvFork
    <2> QED
      BY <1>0, <1>11, <2>1 DEF TypeOK, SrvFork
  <1>12. CASE SrvPid
    <2>1. PidMsg \in Message
      <3>1. srvPid \in Pid
        BY <1>0, <1>12 DEF SrvPid, IInv, Custody, TypeOK, Pid
      <3> QED
        BY <3>1 DEF Message, PidMsg
    <2>2. st' \in Seq(Message)
      BY <1>0, <1>12, <2>1, AppendProperties DEF SrvPid, TypeOK, PidMsg
    <2> QED
      BY <1>0, <1>12, <2>2 DEF TypeOK, SrvPid
  <1>13. CASE SrvStatus
    <2>1. StatusMsg \in Message
      BY <1>0 DEF Message, StatusMsg, TypeOK
    <2>2. st' \in Seq(Message)
      BY <1>0, <1>13, <2>1, AppendProperties DEF SrvStatus, TypeOK, StatusMsg
    <2> QED
      BY <1>0, <1>13, <2>2 DEF TypeOK, SrvStatus
  <1>14. CASE ChildEnds
    <2>1. PICK p \in DOMAIN child, s \in {"exited", "crashed", "stopped"} :
              child' = [child EXCEPT ![p] = s]
      BY <1>14 DEF ChildEnds
    <2>2. p \in 1 .. Len(child) /\ s \in Status
      BY <1>0, <2>1 DEF TypeOK, Status
    <2>3. child' \in Seq(Status \cup {"running", "gone"}) /\ Len(child') = Len(child)
      BY <1>0, <2>1, <2>2, ChildChanges
    <2> QED
      BY <1>0, <1>14, <2>3 DEF TypeOK, ChildEnds
  <1> QED
    BY <1>1, <1>a, <1>b, <1>2, <1>3, <1>4, <1>5, <1>6, <1>7, <1>8, <1>9, <1>10,
       <1>11, <1>12, <1>13, <1>14 DEF Next, RunTarget, Server

LEMMA NextInStep == IInv /\ [Next]_vars => InStep'
  <1> SUFFICES ASSUME IInv, [Next]_vars PROVE InStep'
    OBVIOUS
  <1> USE DEF flags, result, afl, server, history, rest
  <1>0. TypeOK /\ InStep
    BY DEF IInv
  <1>1. CASE Fatal \/ Finish \/ Abort
    BY <1>1 DEF InStep, Fatal, Finish, Abort
  <1>2. ASSUME UNCHANGED <<pc, st, ctl, srvPid, srvStatus>>, srv' \in {srv, "dead"}
        PROVE  InStep'
    BY <1>0, <1>2 DEF InStep, Working, Over, PidMsg, StatusMsg, HelloMsg
  <1>3. CASE BootFails \/ SrvForkFails \/ SrvQuits \/ ChildEnds \/ UNCHANGED vars
    BY <1>2, <1>3 DEF BootFails, SrvForkFails, SrvQuits, ChildEnds, vars
  <1>4. CASE Alarm \/ Stop
    BY <1>2, <1>4 DEF Alarm, Stop
  <1>5. CASE RequestStopped
    BY <1>2, <1>5 DEF RequestStopped
  <1>6. CASE Hello
    <2>1. st = <<HelloMsg>> /\ Working({"read"})
      BY <1>0, <1>6 DEF Hello, InStep
    <2>2. st' = <<>>
      BY <1>6, <2>1, Messages DEF Hello
    <2> QED
      BY <1>6, <2>1, <2>2 DEF Hello, InStep, Working, Over
  <1>7. CASE Request
    <2>1. srv = "read" /\ st = <<>> /\ ctl = <<>>
      BY <1>0, <1>7 DEF Request, InStep, Working, Over
    <2>2. ctl' = <<prev_timed_out>> /\ prev_timed_out \in BOOLEAN
      BY <1>0, <1>7, <2>1, Messages DEF Request, TypeOK
    <2> QED
      BY <1>7, <2>1, <2>2 DEF Request, InStep
  <1>8. CASE ReturnStopped
    BY <1>0, <1>8 DEF ReturnStopped, Eof, InStep, Working, Over
  <1>9. CASE ReadPid
    <2>1. \/ st = <<PidMsg>> /\ Working({"wait", "status"})
          \/ st = <<PidMsg, StatusMsg>> /\ Working({"read"})
      BY <1>0, <1>9, Messages DEF ReadPid, InStep
    <2>2. \/ st' = <<>> /\ Working({"wait", "status"})
          \/ st' = <<StatusMsg>> /\ Working({"read"})
      <3>1. st' = Tail(st)
        BY <1>9 DEF ReadPid
      <3>2. Tail(<<PidMsg>>) = <<>> /\ Tail(<<PidMsg, StatusMsg>>) = <<StatusMsg>>
        BY Messages
      <3> QED
        BY <2>1, <3>1, <3>2
    <2>3. pc' = "arm" /\ UNCHANGED <<srv, ctl, srvPid, srvStatus>>
      BY <1>9 DEF ReadPid
    <2> QED
      BY <2>2, <2>3 DEF InStep, Working, Over, StatusMsg
  <1>10. CASE Arm
    BY <1>0, <1>10 DEF Arm, InStep, Working, Over, StatusMsg
  <1>11. CASE ReadStatus
    <2>1. st = <<StatusMsg>> /\ Working({"read"})
      BY <1>0, <1>11 DEF ReadStatus, InStep
    <2>2. st' = <<>>
      BY <1>11, <2>1, Messages DEF ReadStatus
    <2> QED
      BY <1>11, <2>1, <2>2 DEF ReadStatus, InStep, Working, Over
  <1>12. CASE Clear \/ Disarm \/ Return
    BY <1>0, <1>12 DEF Clear, Disarm, Return, InStep, Working, Over
  <1>13. CASE Boot
    <2>1. (pc = "hello" /\ st = <<>> /\ ctl = <<>>) \/ pc = "end"
      BY <1>0, <1>13 DEF Boot, InStep, Working, Over
    <2>2. st = <<>> => st' = <<HelloMsg>>
      BY <1>13, Messages DEF Boot, HelloMsg
    <2> QED
      BY <1>13, <2>1, <2>2 DEF Boot, InStep, Working, HelloMsg
  <1>14. CASE SrvRead
    <2>1. \/ pc = "readpid" /\ st = <<>> /\ ctl \in {<<TRUE>>, <<FALSE>>}
          \/ pc = "end"
      BY <1>0, <1>14 DEF SrvRead, InStep, Working, Over
    <2>2. ctl \in {<<TRUE>>, <<FALSE>>} => ctl' = <<>>
      BY <1>14, Messages DEF SrvRead
    <2> QED
      BY <1>14, <2>1, <2>2 DEF SrvRead, InStep, Working
  <1>15. CASE SrvReap \/ SrvFork \/ SrvCont
    BY <1>0, <1>15 DEF SrvReap, SrvFork, SrvCont, InStep, Working, Over
  <1>16. CASE SrvPid
    <2>1. pc = "readpid" /\ st = <<>> /\ ctl = <<>>
      BY <1>0, <1>16 DEF SrvPid, InStep, Working, Over
    <2>2. st' = <<PidMsg>>
      BY <1>16, <2>1, Messages DEF SrvPid, PidMsg
    <2> QED
      BY <1>16, <2>1, <2>2 DEF SrvPid, InStep, Working, PidMsg
  <1>17. CASE SrvWait
    <2>1. \/ pc = "readpid" /\ st = <<PidMsg>> /\ ctl = <<>>
          \/ pc \in {"arm", "wait"} /\ st = <<>> /\ ctl = <<>>
          \/ pc = "end"
      BY <1>0, <1>17 DEF SrvWait, InStep, Working, Over
    <2> QED
      BY <1>17, <2>1 DEF SrvWait, InStep, Working, PidMsg
  <1>18. CASE SrvStatus
    <2>1. \/ pc = "readpid" /\ st = <<PidMsg>> /\ ctl = <<>>
          \/ pc \in {"arm", "wait"} /\ st = <<>> /\ ctl = <<>>
      BY <1>0, <1>18 DEF SrvStatus, InStep, Working, Over
    <2>2. \/ pc = "readpid" /\ st' = <<PidMsg, StatusMsg>> /\ ctl = <<>>
          \/ pc \in {"arm", "wait"} /\ st' = <<StatusMsg>> /\ ctl = <<>>
      BY <1>18, <2>1, Messages DEF SrvStatus, StatusMsg
    <2> QED
      BY <1>18, <2>2 DEF SrvStatus, InStep, Working, PidMsg, StatusMsg
  <1> QED
    BY <1>1, <1>3, <1>4, <1>5, <1>6, <1>7, <1>8, <1>9, <1>10, <1>11, <1>12, <1>13,
       <1>14, <1>15, <1>16, <1>17, <1>18 DEF Next, RunTarget, Server

LEMMA NextCustody == IInv /\ [Next]_vars => Custody'
  <1> SUFFICES ASSUME IInv, [Next]_vars PROVE Custody'
    OBVIOUS
  <1> USE DEF flags, result, afl, server, history, rest
  <1>0. /\ TypeOK /\ InStep /\ Custody
        /\ srvPid \in Nat /\ Len(child) \in Nat /\ srvPid = Len(child)
    BY DEF IInv, Custody, TypeOK
  <1>1. ASSUME UNCHANGED <<srv, child, srvPid, child_stopped, srvStatus>>,
               Reported' => Reported, pc' = "hello" => pc = "hello"
        PROVE  Custody'
    BY <1>0, <1>1 DEF Custody, Last
  <1>2. CASE Hello \/ Fatal \/ RequestStopped \/ ReturnStopped \/ Arm \/ ReadStatus
               \/ Clear \/ Disarm \/ Return \/ Finish \/ Abort
    BY <1>1, <1>2 DEF Hello, Fatal, RequestStopped, ReturnStopped, Arm, ReadStatus,
                      Clear, Disarm, Return, Finish, Abort, Reported
  <1>3. CASE Request
    <2>1. srv = "read" /\ ctl = <<>>
      BY <1>0, <1>3 DEF Request, InStep, Working, Over
    <2>2. ctl' # <<>>
      BY <1>3, <2>1, Messages DEF Request
    <2> QED
      BY <1>1, <1>3, <2>1, <2>2 DEF Request, Reported
  <1>4. CASE ReadPid
    <2>1. srv = "read" => ctl = <<>>
      BY <1>0, <1>4 DEF ReadPid, InStep, Working, Over
    <2> QED
      BY <1>1, <1>4, <2>1 DEF ReadPid, Reported
  <1>5. CASE BootFails \/ SrvForkFails \/ SrvQuits
    BY <1>0, <1>5 DEF BootFails, SrvForkFails, SrvQuits, Custody, Last, Reported
  <1>6. CASE Alarm \/ Stop
    <2>1. /\ Len(child') = Len(child)
          /\ \A q \in 1 .. Len(child) : child'[q] =
                 IF q = child_pid /\ child[q] \in {"running", "stopped"}
                 THEN "killed" ELSE child[q]
      BY <1>0, <1>6, ChildKilled DEF Alarm, Stop
    <2>2. /\ srv' \in {srv, "dead"}
          /\ UNCHANGED <<pc, srvPid, child_stopped, srvStatus, ctl>>
      BY <1>6 DEF Alarm, Stop
    <2>3. \A p \in 1 .. Len(child') - 1 : child'[p] = "gone"
      BY <1>0, <2>1 DEF Custody
    <2>4. srvPid > 0 =>
            \/ Last' = Last
            \/ Last \in {"running", "stopped"} /\ Last' = "killed"
      BY <1>0, <2>1, <2>2 DEF Last
    <2>5. srv' = "dead" => Custody'
      BY <1>0, <2>1, <2>2, <2>3 DEF Custody, Reported
    <2>6. srv' = srv => Custody'
      BY <1>0, <2>1, <2>2, <2>3, <2>4 DEF Custody, Reported
    <2> QED
      BY <2>2, <2>5, <2>6
  <1>7. CASE Boot
    BY <1>0, <1>7 DEF Boot, Custody, Last, Reported, InStep, Working, Over
  <1>8. CASE SrvRead
    BY <1>0, <1>8 DEF SrvRead, Custody, Last, Reported
  <1>9. CASE SrvReap
    <2>1. srvPid \in 1 .. Len(child) /\ pc # "hello"
      BY <1>0, <1>9 DEF SrvReap, Custody
    <2>2. /\ Len(child') = Len(child) /\ child'[srvPid] = "gone"
          /\ \A q \in 1 .. Len(child) : q # srvPid => child'[q] = child[q]
      BY <1>0, <1>9, <2>1, ChildChanges DEF SrvReap
    <2> QED
      BY <1>0, <1>9, <2>1, <2>2 DEF SrvReap, Custody, Last, Reported
  <1>10. CASE SrvFork
    <2>1. /\ Len(child') = Len(child) + 1 /\ child'[Len(child) + 1] = "running"
          /\ \A q \in 1 .. Len(child) : child'[q] = child[q]
      BY <1>0, <1>10, ChildForked DEF SrvFork
    <2>2. pc # "hello"
      BY <1>0, <1>10 DEF SrvFork, InStep, Working, Over
    <2>3. \A q \in 1 .. Len(child) : child[q] = "gone"
      BY <1>0, <1>10 DEF SrvFork, Custody, Last
    <2> QED
      BY <1>0, <1>10, <2>1, <2>2, <2>3 DEF SrvFork, Custody, Last, Reported
  <1>11. CASE SrvCont
    <2>1. srvPid \in 1 .. Len(child) /\ pc # "hello" /\ Last \in {"stopped", "killed"}
      BY <1>0, <1>11 DEF SrvCont, Custody
    <2>2. /\ Len(child') = Len(child) /\ child'[srvPid] \in {"running", "killed"}
          /\ \A q \in 1 .. Len(child) : q # srvPid => child'[q] = child[q]
      BY <1>0, <1>11, <2>1, ChildChanges DEF SrvCont, Last, Status
    <2> QED
      BY <1>0, <1>11, <2>1, <2>2 DEF SrvCont, Custody, Last, Reported
  <1>12. CASE SrvPid
    BY <1>0, <1>12 DEF SrvPid, Custody, Last, Reported
  <1>13. CASE SrvWait
    <2>1. srvPid \in 1 .. Len(child) /\ pc # "hello" /\ ~child_stopped
      BY <1>0, <1>13 DEF SrvWait, Custody
    <2>2. srvPid' = srvPid /\ srv' = "status" /\ srvStatus' = Last /\ pc' = pc
          /\ (child_stopped' <=> Last = "stopped")
      BY <1>13 DEF SrvWait, Last
    <2>3. CASE /\ Last \in {"exited", "crashed", "killed"}
               /\ child' = [child EXCEPT ![srvPid] = "gone"]
      <3>1. /\ Len(child') = Len(child) /\ child'[srvPid] = "gone"
            /\ \A q \in 1 .. Len(child) : q # srvPid => child'[q] = child[q]
        BY <1>0, <2>1, <2>3, ChildChanges
      <3> QED
        BY <1>0, <2>1, <2>2, <2>3, <3>1 DEF Custody, Last, Reported
    <2>4. CASE Last = "stopped" /\ child' = child
      BY <1>0, <2>1, <2>2, <2>4 DEF Custody, Last, Reported
    <2> QED
      BY <1>13, <2>3, <2>4 DEF SrvWait, Last
  <1>14. CASE SrvStatus
    BY <1>0, <1>14 DEF SrvStatus, Custody, Last, Reported
  <1>15. CASE ChildEnds
    <2>a. DOMAIN child = 1 .. Len(child)
      BY <1>0 DEF TypeOK
    <2>b. PICK p \in DOMAIN child, s \in {"exited", "crashed", "stopped"} :
              child[p] = "running" /\ child' = [child EXCEPT ![p] = s]
      BY <1>15 DEF ChildEnds
    <2>1. p \in 1 .. Len(child)
      BY <2>a, <2>b
    <2>2. p = srvPid /\ Last = "running"
      BY <1>0, <2>b, <2>1 DEF Custody, Last
    <2>3. /\ Len(child') = Len(child) /\ child'[srvPid] = s
          /\ \A q \in 1 .. Len(child) : q # srvPid => child'[q] = child[q]
      BY <1>0, <2>b, <2>1, <2>2, ChildChanges DEF Status
    <2>4. UNCHANGED <<afl, srv, server, ctl, st>>
      BY <1>15 DEF ChildEnds
    <2>5. srv \in {"pid", "wait", "dead"}
      <3>1. srv # "boot"
        BY <1>0, <2>1, <2>2 DEF Custody
      <3> QED
        BY <1>0, <2>2, <3>1 DEF Custody, Reported, TypeOK
    <2> QED
      BY <1>0, <2>1, <2>2, <2>3, <2>4, <2>5 DEF Custody, Last, Reported
  <1>16. CASE UNCHANGED vars
    BY <1>1, <1>16 DEF vars, Reported
  <1> QED
    BY <1>2, <1>3, <1>4, <1>5, <1>6, <1>7, <1>8, <1>9, <1>10, <1>11, <1>12, <1>13,
       <1>14, <1>15, <1>16 DEF Next, RunTarget, Server

(* Type correctness of both sides.                                         *)
THEOREM TypeCorrect == Spec => []TypeOK
  <1>1. IInv /\ [Next]_vars => IInv'
    BY NextTypes, NextInStep, NextCustody DEF IInv
  <1>2. IInv => TypeOK
    BY DEF IInv
  <1> QED
    BY InitIInv, <1>1, <1>2, PTL DEF Spec

(* The two sides never get out of step, although no message has a number:  *)
(* for any number of test cases, whenever a signal kills either side.      *)
THEOREM AlwaysInStep == Spec => []PipesInStep
  <1>1. IInv /\ [Next]_vars => IInv'
    BY NextTypes, NextInStep, NextCustody DEF IInv
  <1>2. IInv => PipesInStep
    <2> SUFFICES ASSUME InStep, pc # "end", st # <<>> PROVE PipesInStep
      BY DEF IInv, PipesInStep
    <2>a. \/ pc = "hello" /\ st = <<HelloMsg>>
          \/ pc = "readpid" /\ st \in {<<PidMsg>>, <<PidMsg, StatusMsg>>}
          \/ pc \in {"arm", "wait"} /\ st = <<StatusMsg>>
      BY DEF InStep
    <2>b. /\ <<HelloMsg>>[1] = HelloMsg /\ <<StatusMsg>>[1] = StatusMsg
          /\ <<PidMsg>>[1] = PidMsg /\ <<PidMsg, StatusMsg>>[1] = PidMsg
      BY Messages
    <2>1. \/ pc = "hello" /\ st[1] = HelloMsg
          \/ pc = "readpid" /\ st[1] = PidMsg
          \/ pc \in {"arm", "wait"} /\ st[1] = StatusMsg
      BY <2>a, <2>b
    <2>2. HelloMsg.type = "hello" /\ PidMsg.type = "pid" /\ PidMsg.pid = srvPid
          /\ StatusMsg.type = "status"
      BY DEF HelloMsg, PidMsg, StatusMsg
    <2> QED
      BY <2>1, <2>2 DEF PipesInStep
  <1> QED
    BY InitIInv, <1>1, <1>2, PTL DEF Spec

LEMMA NextIInv == IInv /\ [Next]_vars => IInv'
  BY NextTypes, NextInStep, NextCustody DEF IInv

-----------------------------------------------------------------------------
(* Until the stop: when the timer runs, when the fork server may be gone,  *)
(* and which process the handlers know of.                                 *)
Known ==
    ~stop_soon =>
    /\ timer => pc \in {"hello", "wait", "clear", "disarm", "end"}
    /\ Over => \/ pc \in {"hello", "end"}
               \/ pc = "idle" /\ execs = 0
               \/ pc = "readpid" /\ st = <<>>
    /\ pc = "hello" => execs = 0
    /\ pc \in {"arm", "wait", "clear"} => child_pid = srvPid
    /\ pc \in {"disarm", "verdict"} =>
          child_pid = IF status = "stopped" THEN srvPid ELSE 0
    /\ pc = "idle" /\ srv = "read" /\ child_stopped => child_pid = srvPid
    /\ pc \in Judging => (child_stopped <=> status = "stopped")

LEMMA StopStays == [Next]_vars /\ ~stop_soon' => ~stop_soon
  BY DEF Next, RunTarget, Server, Hello, Fatal, Request, RequestStopped,
         ReturnStopped, ReadPid, Arm, ReadStatus, Clear, Disarm, Return, Finish,
         Abort, Alarm, Stop, Boot, BootFails, SrvRead, SrvReap, SrvFork,
         SrvForkFails, SrvCont, SrvPid, SrvWait, SrvStatus, SrvQuits, ChildEnds,
         vars, flags, result, afl, server, history, rest

(* What the steps that move a process do to the last one.                  *)
LEMMA Alarmed ==
    ASSUME IInv, child' = Killed(child_pid), srvPid' = srvPid, srvPid > 0
    PROVE  \/ Last' = Last /\ (child_pid = srvPid => ~(Last \in {"running", "stopped"}))
           \/ child_pid = srvPid /\ Last \in {"running", "stopped"} /\ Last' = "killed"
  <1>1. TypeOK /\ srvPid \in 1 .. Len(child)
    BY DEF IInv, Custody, TypeOK
  <1> QED
    BY <1>1, ChildKilled DEF Last

LEMMA LastEnds ==
    ASSUME IInv, ChildEnds
    PROVE  /\ srvPid > 0 /\ Last = "running" /\ srv \in {"pid", "wait", "dead"}
           /\ Last' \in {"exited", "crashed", "stopped"}
           /\ did' = IF Last' = "crashed" THEN "crashed" ELSE "finished"
  <1>0. TypeOK /\ Custody /\ DOMAIN child = 1 .. Len(child) /\ Len(child) \in Nat
    BY DEF IInv, TypeOK
  <1>1. PICK p \in DOMAIN child, s \in {"exited", "crashed", "stopped"} :
            /\ child[p] = "running" /\ child' = [child EXCEPT ![p] = s]
            /\ did' = IF s = "crashed" THEN "crashed" ELSE "finished"
    BY DEF ChildEnds
  <1>2. p = srvPid /\ Last = "running" /\ srvPid > 0
    BY <1>0, <1>1 DEF Custody, Last
  <1>3. srvPid' = srvPid
    BY DEF ChildEnds, server
  <1>4. Last' = s
    BY <1>0, <1>1, <1>2, <1>3, ChildChanges DEF Last, Status
  <1>5. srv \in {"pid", "wait", "dead"}
    BY <1>0, <1>2 DEF Custody, Reported, TypeOK
  <1> QED
    BY <1>1, <1>2, <1>4, <1>5

LEMMA LastForked ==
    ASSUME IInv, SrvFork
    PROVE  srvPid' > 0 /\ Last' = "running"
  <1>1. TypeOK /\ Len(child) \in Nat
    BY DEF IInv, TypeOK
  <1> QED
    BY <1>1, ChildForked DEF SrvFork, Last

LEMMA LastMoves ==
    ASSUME IInv
    PROVE  /\ SrvReap => Last' = "gone"
           /\ SrvCont => Last' = IF Last = "stopped" THEN "running" ELSE Last
           /\ SrvWait => \/ Last' = "gone" /\ Last \in {"exited", "crashed", "killed"}
                         \/ Last' = Last /\ Last = "stopped"
  <1>0. TypeOK
    BY DEF IInv
  <1>1. SrvReap \/ SrvCont \/ SrvWait => srvPid \in 1 .. Len(child) /\ srvPid' = srvPid
    BY DEF SrvReap, SrvCont, SrvWait, IInv, Custody, TypeOK
  <1>2. SrvReap => Last' = "gone"
    BY <1>0, <1>1, ChildChanges DEF SrvReap, Last
  <1>3. SrvCont => Last' = IF Last = "stopped" THEN "running" ELSE Last
    <2> SUFFICES ASSUME SrvCont PROVE Last' = IF Last = "stopped" THEN "running" ELSE Last
      OBVIOUS
    <2>1. Last \in {"stopped", "killed"}
      BY DEF SrvCont, IInv, Custody
    <2> QED
      BY <1>0, <1>1, <2>1, ChildChanges DEF SrvCont, Last, Status
  <1>4. SrvWait => \/ Last' = "gone" /\ Last \in {"exited", "crashed", "killed"}
                   \/ Last' = Last /\ Last = "stopped"
    <2>1. CASE SrvWait /\ Last \in {"exited", "crashed", "killed"}
      <3>1. child' = [child EXCEPT ![srvPid] = "gone"]
        BY <2>1 DEF SrvWait, Last
      <3> QED
        BY <1>0, <1>1, <2>1, <3>1, ChildChanges DEF Last
    <2>2. CASE SrvWait /\ Last = "stopped"
      BY <1>1, <2>2 DEF SrvWait, Last
    <2> QED
      BY <2>1, <2>2 DEF SrvWait, Last
  <1> QED
    BY <1>2, <1>3, <1>4

LEMMA NextKnown == IInv /\ Known /\ [Next]_vars => Known'
  <1> SUFFICES ASSUME IInv, Known, [Next]_vars, ~stop_soon' PROVE Known'
    BY DEF Known
  <1> USE DEF flags, result, afl, server, history, rest
  <1>0. /\ TypeOK /\ InStep /\ Custody /\ ~stop_soon
        /\ srvPid \in Nat
    BY StopStays DEF IInv, TypeOK
  <1>1. CASE Fatal \/ Finish \/ Abort
    BY <1>1 DEF Known, Fatal, Finish, Abort, Judging
  <1>2. CASE Stop \/ RequestStopped \/ ReturnStopped
    BY <1>0, <1>2 DEF Stop, RequestStopped, ReturnStopped
  <1>3. CASE Hello
    BY <1>0, <1>3 DEF Hello, Known, Over, Judging, Custody
  <1>4. CASE Request
    BY <1>0, <1>4 DEF Request, Known, Over, Judging
  <1>5. CASE ReadPid
    <2>1. st \in {<<PidMsg>>, <<PidMsg, StatusMsg>>} /\ ~Over
      BY <1>0, <1>5, Messages DEF ReadPid, InStep, Known
    <2>2. st[1] = PidMsg
      BY <2>1, Messages
    <2>3. child_pid' = srvPid
      BY <1>5, <2>2 DEF ReadPid, PidMsg
    <2> QED
      BY <1>0, <1>5, <2>1, <2>3 DEF ReadPid, Known, Over, Judging
  <1>6. CASE Arm
    BY <1>0, <1>6 DEF Arm, Known, Over, Judging
  <1>7. CASE ReadStatus
    <2>1. st = <<StatusMsg>> /\ srv = "read" /\ pc = "wait"
      BY <1>0, <1>7, Messages DEF ReadStatus, InStep, Working, Known
    <2>2. status' = srvStatus
      BY <1>7, <2>1, Messages DEF ReadStatus, StatusMsg
    <2>3. child_stopped <=> srvStatus = "stopped"
      BY <1>0, <2>1 DEF Custody, Reported
    <2> QED
      BY <1>0, <1>7, <2>1, <2>2, <2>3 DEF ReadStatus, Known, Over, Judging
  <1>8. CASE Clear \/ Disarm \/ Return
    BY <1>0, <1>8 DEF Clear, Disarm, Return, Known, Over, Judging
  <1>9. CASE Alarm
    <2>1. pc \in {"wait", "clear", "disarm"} => child_pid # -1
      BY <1>0 DEF Known
    <2> QED
      BY <1>0, <1>9, <2>1 DEF Alarm, Known, Over, Judging
  <1>10. CASE Boot \/ BootFails
    BY <1>0, <1>10 DEF Boot, BootFails, Known, Over, Judging, InStep, Working
  <1>11. CASE SrvRead \/ SrvReap \/ SrvFork \/ SrvForkFails \/ SrvCont \/ SrvPid
               \/ SrvWait
    <2>1. pc \in {"readpid", "arm", "wait", "end"}
          /\ (srv \in {"read", "reap", "start"} => pc \in {"readpid", "end"})
      BY <1>0, <1>11 DEF SrvRead, SrvReap, SrvFork, SrvForkFails, SrvCont, SrvPid,
                         SrvWait, InStep, Working, Over
    <2>2. srv = "start" /\ pc = "readpid" => st = <<>>
      BY <1>0 DEF InStep, Working, Over
    <2> QED
      BY <1>0, <1>11, <2>1, <2>2 DEF SrvRead, SrvReap, SrvFork, SrvForkFails,
                SrvCont, SrvPid, SrvWait, Known, Over, Judging
  <1>12. CASE SrvStatus
    <2>1. pc \in {"readpid", "arm", "wait"}
      BY <1>0, <1>12 DEF SrvStatus, InStep, Working, Over
    <2> QED
      BY <1>0, <1>12, <2>1 DEF SrvStatus, Known, Over, Judging
  <1>13. CASE SrvQuits \/ ChildEnds \/ UNCHANGED vars
    BY <1>0, <1>13 DEF SrvQuits, ChildEnds, vars, Known, Over, Judging
  <1> QED
    BY <1>1, <1>2, <1>3, <1>4, <1>5, <1>6, <1>7, <1>8, <1>9, <1>10, <1>11, <1>12,
       <1>13 DEF Next, RunTarget, Server

(* Until the stop the timer is the only killer, and whoever meets the      *)
(* process it killed is told.                                              *)
Told ==
    ~stop_soon =>
    /\ pc = "readpid" => ~child_timed_out
    /\ srvPid > 0 /\ Last = "killed" =>
          /\ pc \in {"arm", "wait"} \cup Judging => child_timed_out
          /\ pc = "idle" => prev_timed_out
          /\ pc = "readpid" /\ ctl # <<>> => ctl[1]
          /\ pc = "readpid" /\ ctl = <<>> => srv \in {"reap", "dead"}

RInv == IInv /\ Known /\ Told

LEMMA NextTold == RInv /\ [Next]_vars => Told'
  <1> SUFFICES ASSUME RInv, [Next]_vars, ~stop_soon' PROVE Told'
    BY DEF Told
  <1> USE DEF flags, result, afl, server, history, rest
  <1>0. /\ IInv /\ TypeOK /\ InStep /\ Custody /\ Known /\ Told /\ ~stop_soon
        /\ srvPid \in Nat
    BY StopStays DEF RInv, IInv, TypeOK
  <1>1. ASSUME UNCHANGED <<srvPid, child>>
        PROVE  Last' = Last
    BY <1>1 DEF Last
  <1>2. CASE Fatal \/ Finish \/ Abort
    BY <1>2 DEF Told, Fatal, Finish, Abort, Judging
  <1>3. CASE Stop \/ RequestStopped \/ ReturnStopped
    BY <1>0, <1>3 DEF Stop, RequestStopped, ReturnStopped
  <1>4. CASE Hello
    BY <1>0, <1>1, <1>4 DEF Hello, Told, Judging, Custody
  <1>5. CASE Request
    <2>1. ctl = <<>> /\ srv = "read"
      BY <1>0, <1>5 DEF Request, InStep, Working, Over
    <2>2. ctl' # <<>> /\ ctl'[1] = prev_timed_out
      BY <1>5, <2>1, Messages DEF Request
    <2>3. Last' = Last /\ srvPid' = srvPid /\ pc' = "readpid" /\ ~child_timed_out'
      BY <1>1, <1>5 DEF Request
    <2>4. srvPid > 0 /\ Last = "killed" => prev_timed_out
      BY <1>0, <1>5 DEF Request, Told
    <2> QED
      BY <2>2, <2>3, <2>4 DEF Told, Judging
  <1>6. CASE ReadPid
    <2>1. st # <<>> /\ ctl = <<>> /\ srv \notin {"reap", "dead"}
      BY <1>0, <1>6 DEF ReadPid, InStep, Working, Over, Known
    <2>2. ~(srvPid > 0 /\ Last = "killed")
      BY <1>0, <1>6, <2>1 DEF ReadPid, Told
    <2> QED
      BY <1>1, <1>6, <2>2 DEF ReadPid, Told
  <1>7. CASE Arm \/ ReadStatus \/ Clear \/ Disarm
    BY <1>0, <1>1, <1>7 DEF Arm, ReadStatus, Clear, Disarm, Told, Judging
  <1>8. CASE Return
    BY <1>0, <1>1, <1>8 DEF Return, Told, Judging
  <1>9. CASE Alarm
    <2>1. pc \in {"hello", "wait", "clear", "disarm"} /\ pc' = pc /\ srvPid' = srvPid
      BY <1>0, <1>9 DEF Alarm, Known
    <2>2. CASE pc = "hello"
      BY <1>0, <2>1, <2>2 DEF Told, Judging, Custody
    <2>3. CASE pc # "hello"
      <3>1. child_timed_out => child_timed_out'
        BY <1>9 DEF Alarm
      <3>2. child_pid = srvPid /\ srvPid > 0 => child_timed_out'
        <4>1. child_pid # 0 => child_timed_out'
          BY <1>9 DEF Alarm
        <4> QED
          BY <1>0, <4>1
      <3>3. srvPid > 0 /\ Last' = "killed" => Last = "killed" \/ child_pid = srvPid
        BY <1>0, <1>9, <2>1, Alarmed DEF Alarm
      <3> QED
        BY <1>0, <2>1, <2>3, <3>1, <3>2, <3>3 DEF Told, Judging
    <2> QED
      BY <2>2, <2>3
  <1>10. CASE Boot \/ BootFails \/ SrvQuits
    BY <1>0, <1>1, <1>10 DEF Boot, BootFails, SrvQuits, Told, Judging, InStep,
                             Working, Over
  <1>11. CASE SrvRead
    <2>1. pc = "end" \/ (pc = "readpid" /\ ctl \in {<<TRUE>>, <<FALSE>>})
      BY <1>0, <1>11 DEF SrvRead, InStep, Working, Over
    <2>2. CASE pc = "end"
      BY <1>11, <2>2 DEF SrvRead, Told, Judging
    <2>3. CASE pc = "readpid" /\ ctl \in {<<TRUE>>, <<FALSE>>}
      <3>1. ctl' = <<>> /\ ctl # <<>>
        BY <1>11, <2>3, Messages DEF SrvRead
      <3>2. srvPid > 0 /\ Last = "killed" => ctl[1] /\ child_stopped
        BY <1>0, <1>11, <2>3, <3>1 DEF SrvRead, Told, Custody
      <3> QED
        BY <1>0, <1>1, <1>11, <2>3, <3>1, <3>2 DEF SrvRead, Told, Judging
    <2> QED
      BY <2>1, <2>2, <2>3
  <1>12. CASE SrvReap \/ SrvFork \/ SrvCont \/ SrvWait
    <2>1. srv # "reap" /\ pc = "readpid" => ctl = <<>> /\ srv # "dead"
      BY <1>0, <1>12 DEF SrvReap, SrvFork, SrvCont, SrvWait, InStep, Working, Over
    <2>2. Last' = "killed" => SrvCont /\ Last = "killed" /\ srvPid > 0
      BY <1>0, <1>12, LastMoves, LastForked DEF SrvCont, Custody
    <2>3. SrvCont => pc \in {"readpid", "end"} /\ pc' = pc /\ srv = "start"
      BY <1>0 DEF SrvCont, InStep, Working, Over
    <2>4. Last' = "killed" => pc' = "end"
      BY <1>0, <2>1, <2>2, <2>3 DEF Told
    <2>5. UNCHANGED <<pc, child_timed_out>>
      BY <1>12 DEF SrvReap, SrvFork, SrvCont, SrvWait
    <2> QED
      BY <1>0, <2>4, <2>5 DEF Told, Judging
  <1>13. CASE SrvForkFails
    BY <1>0, <1>1, <1>13 DEF SrvForkFails, Told, Judging, Custody
  <1>14. CASE SrvPid \/ SrvStatus
    BY <1>0, <1>1, <1>14 DEF SrvPid, SrvStatus, Told, Judging
  <1>15. CASE ChildEnds
    <2>1. Last' # "killed" /\ UNCHANGED <<pc, child_timed_out>>
      BY <1>0, <1>15, LastEnds DEF ChildEnds
    <2> QED
      BY <1>0, <2>1 DEF Told
  <1>16. CASE UNCHANGED vars
    BY <1>0, <1>1, <1>16 DEF vars, Told
  <1> QED
    BY <1>2, <1>3, <1>4, <1>5, <1>6, <1>7, <1>8, <1>9, <1>10, <1>11, <1>12,
       <1>13, <1>14, <1>15, <1>16 DEF Next, RunTarget, Server

-----------------------------------------------------------------------------
(* Until the stop every status on its way, and the verdict made of it, is  *)
(* what the target did with this test case.                                *)
Story ==
    ~stop_soon /\ pc # "end" =>
    /\ /\ pc = "readpid"
       /\ srv \in {"reap", "start"} \/ (srv = "read" /\ ctl # <<>>)
       => did = "nothing"
    /\ srv \in {"pid", "wait"} =>
          IF Last = "running" THEN did = "nothing" ELSE Agrees(Last)
    /\ Reported => Agrees(srvStatus)
    /\ pc \in Judging => Agrees(status)
    /\ VerdictIsRight

LEMMA NextStory == RInv /\ Story /\ [Next]_vars => Story'
  <1> SUFFICES ASSUME RInv, Story, [Next]_vars, ~stop_soon', pc' # "end" PROVE Story'
    BY DEF Story
  <1> USE DEF flags, result, afl, server, history, rest
  <1>0. /\ IInv /\ TypeOK /\ InStep /\ Custody /\ Known /\ Told /\ ~stop_soon
        /\ srvPid \in Nat
    BY StopStays DEF RInv, IInv, TypeOK
  <1>a. pc # "end"
    BY <1>0 DEF Next, RunTarget, Server, Hello, Fatal, Request, RequestStopped,
             ReturnStopped, ReadPid, Arm, ReadStatus, Clear, Disarm, Return, Finish,
             Abort, Alarm, Stop, Boot, BootFails, SrvRead, SrvReap, SrvFork,
             SrvForkFails, SrvCont, SrvPid, SrvWait, SrvStatus, SrvQuits, ChildEnds,
             vars
  <1>1. ASSUME UNCHANGED <<srvPid, child>>
        PROVE  Last' = Last
    BY <1>1 DEF Last
  <1>2. ASSUME UNCHANGED <<did, child_timed_out>>, NEW s
        PROVE  Agrees(s)' <=> Agrees(s)
    BY <1>2 DEF Agrees
  <1>3. CASE Fatal \/ Finish \/ Abort \/ Stop \/ RequestStopped \/ ReturnStopped
                \/ SrvQuits
    BY <1>0, <1>3, <1>a DEF Fatal, Finish, Abort, Stop, RequestStopped,
                            ReturnStopped, SrvQuits
  <1>4. CASE Hello
    <2>1. srv \in {"read", "dead"} /\ execs = 0
      BY <1>0, <1>4 DEF Hello, InStep, Working, Over, Known
    <2> QED
      BY <1>4, <2>1 DEF Hello, Story, Reported, Judging, VerdictIsRight
  <1>5. CASE Request
    <2>1. ctl = <<>> /\ srv = "read"
      BY <1>0, <1>5 DEF Request, InStep, Working, Over
    <2>2. ctl' # <<>>
      BY <1>5, <2>1, Messages DEF Request
    <2> QED
      BY <1>5, <2>1, <2>2 DEF Request, Story, Reported, Judging, VerdictIsRight
  <1>6. CASE ReadPid
    <2>1. st # <<>> /\ ctl = <<>> /\ srv \in {"wait", "status", "read"}
      BY <1>0, <1>6 DEF ReadPid, InStep, Working, Over, Known
    <2>2. Reported' => Reported
      BY <1>6, <2>1 DEF ReadPid, Reported
    <2>3. Last' = Last /\ srvStatus' = srvStatus /\ srv' = srv /\ pc' = "arm"
          /\ UNCHANGED <<did, child_timed_out>>
      BY <1>1, <1>6 DEF ReadPid
    <2> QED
      BY <1>0, <1>2, <1>a, <2>2, <2>3 DEF Story, Judging, VerdictIsRight
  <1>7. CASE Arm \/ Clear \/ Disarm
    <2>1. Reported' => Reported
      BY <1>7 DEF Arm, Clear, Disarm, Reported
    <2>2. UNCHANGED <<did, child_timed_out, srv, srvStatus, status, stop_soon>>
          /\ Last' = Last
      BY <1>1, <1>7 DEF Arm, Clear, Disarm
    <2>3. pc' \in {"wait", "disarm", "verdict"} /\ (pc' \in Judging => pc \in Judging)
      BY <1>7 DEF Arm, Clear, Disarm, Judging
    <2> QED
      BY <1>0, <1>2, <1>a, <2>1, <2>2, <2>3 DEF Story, VerdictIsRight
  <1>8. CASE ReadStatus
    <2>1. st = <<StatusMsg>> /\ srv = "read" /\ pc = "wait"
      BY <1>0, <1>8, Messages DEF ReadStatus, InStep, Working, Known
    <2>2. status' = srvStatus
      BY <1>8, <2>1, Messages DEF ReadStatus, StatusMsg
    <2>3. Agrees(srvStatus)
      BY <1>0, <1>a, <2>1 DEF Story, Reported
    <2>4. pc' = "clear" /\ srv' = "read" /\ UNCHANGED <<did, child_timed_out>>
      BY <1>8, <2>1 DEF ReadStatus
    <2> QED
      BY <1>2, <2>2, <2>3, <2>4 DEF Story, Reported, Judging, VerdictIsRight, Agrees
  <1>9. CASE Return
    <2>1. Agrees(status) /\ status \in {"exited", "crashed", "killed", "stopped"}
          /\ (srv = "read" \/ srv = "dead")
      BY <1>0, <1>9, <1>a DEF Return, Story, Judging, TypeOK, Status, InStep, Working, Over
    <2>2. pc' = "idle" /\ verdict' = Fault
          /\ UNCHANGED <<did, child_timed_out, srv, stop_soon, execs>>
      BY <1>9 DEF Return
    <2>3. VerdictIsRight'
      BY <1>0, <2>1, <2>2 DEF VerdictIsRight, Fault, Agrees
    <2> QED
      BY <2>1, <2>2, <2>3 DEF Story, Reported, Judging
  <1>10. CASE Alarm
    <2>1. pc \in {"hello", "wait", "clear", "disarm"}
      BY <1>0, <1>10 DEF Alarm, Known
    <2>2. /\ pc' = pc /\ UNCHANGED <<srvPid, srvStatus, ctl, status, did>>
          /\ (child_timed_out => child_timed_out')
      BY <1>10 DEF Alarm
    <2>3. CASE pc = "hello"
      <3>1. srv' \in {"boot", "read", "dead"}
        BY <1>0, <1>10, <2>3 DEF Alarm, InStep, Working, Over
      <3> QED
        BY <2>2, <2>3, <3>1 DEF Story, Reported, Judging, VerdictIsRight
    <2>4. CASE pc # "hello"
      <3>1. srv' = srv
        BY <1>0, <1>10, <2>1, <2>4 DEF Alarm, Known
      <3>2. \A s : Agrees(s) => Agrees(s)'
        BY <2>2 DEF Agrees
      <3>3. (Reported' <=> Reported)
        BY <2>2, <3>1 DEF Reported
      <3>4. ASSUME srv \in {"pid", "wait"}
            PROVE  IF Last' = "running" THEN did' = "nothing" ELSE Agrees(Last)' /\ TRUE
        <4>1. srvPid > 0 /\ (IF Last = "running" THEN did = "nothing" ELSE Agrees(Last))
          BY <1>0, <1>a, <3>4 DEF Story, Custody
        <4>2. CASE Last' = Last
          BY <2>2, <4>1, <4>2 DEF Agrees
        <4>3. CASE child_pid = srvPid /\ Last \in {"running", "stopped"} /\ Last' = "killed"
          <5>1. child_pid # 0 => child_timed_out'
            BY <1>10 DEF Alarm
          <5>2. did # "crashed" /\ did' = did
            BY <2>2, <4>1, <4>3 DEF Agrees
          <5> QED
            BY <1>0, <4>1, <4>3, <5>1, <5>2 DEF Agrees
        <4> QED
          BY <1>0, <1>10, <2>2, <4>1, <4>2, <4>3, Alarmed DEF Alarm
      <3> QED
        BY <1>0, <1>a, <2>1, <2>2, <2>4, <3>1, <3>2, <3>3, <3>4
           DEF Story, Judging, VerdictIsRight, Agrees
    <2> QED
      BY <2>3, <2>4
  <1>11. CASE Boot \/ BootFails
    BY <1>0, <1>11, <1>a DEF Boot, BootFails, Story, Reported, Judging, InStep,
                             Working, Over, VerdictIsRight
  <1>12. CASE SrvRead
    <2>1. pc = "readpid" /\ ctl # <<>>
      BY <1>0, <1>12, <1>a DEF SrvRead, InStep, Working, Over
    <2> QED
      BY <1>0, <1>12, <1>a, <2>1 DEF SrvRead, Story, Reported, Judging, VerdictIsRight
  <1>13. CASE SrvReap \/ SrvForkFails
    BY <1>0, <1>13, <1>a DEF SrvReap, SrvForkFails, Story, Reported, Judging,
                             InStep, Working, Over, VerdictIsRight
  <1>14. CASE SrvFork \/ SrvCont
    <2>a. srv = "start"
      BY <1>14 DEF SrvFork, SrvCont
    <2>b. pc = "readpid" /\ ctl = <<>>
      BY <1>0, <1>a, <2>a DEF InStep, Working, Over
    <2>1. pc = "readpid" /\ ctl = <<>> /\ srv = "start" /\ did = "nothing"
      BY <1>0, <1>a, <2>a, <2>b DEF Story
    <2>2. Last' = "running"
      <3>1. SrvCont => srvPid > 0 /\ Last = "stopped"
        BY <1>0, <2>1 DEF SrvCont, Custody, Told
      <3> QED
        BY <1>0, <1>14, <3>1, LastForked, LastMoves
    <2> QED
      BY <1>14, <2>1, <2>2 DEF SrvFork, SrvCont, Story, Reported, Judging,
                               VerdictIsRight
  <1>15. CASE SrvPid
    <2>1. pc = "readpid"
      BY <1>0, <1>15, <1>a DEF SrvPid, InStep, Working, Over
    <2>2. UNCHANGED <<did, child_timed_out>> /\ Last' = Last /\ srv' = "wait" /\ pc' = pc
      BY <1>1, <1>15 DEF SrvPid
    <2>3. IF Last = "running" THEN did = "nothing" ELSE Agrees(Last)
      BY <1>0, <1>15, <1>a DEF SrvPid, Story
    <2> QED
      BY <2>1, <2>2, <2>3 DEF Story, Reported, Judging, VerdictIsRight, Agrees
  <1>16. CASE SrvWait
    <2>1. pc \in {"readpid", "arm", "wait"}
      BY <1>0, <1>16, <1>a DEF SrvWait, InStep, Working, Over
    <2>2. Last # "running" /\ srvStatus' = Last /\ srv' = "status" /\ pc' = pc
          /\ UNCHANGED <<did, child_timed_out>>
      BY <1>16 DEF SrvWait, Last
    <2>3. Agrees(Last)
      BY <1>0, <1>16, <1>a, <2>2 DEF SrvWait, Story
    <2> QED
      BY <2>1, <2>2, <2>3 DEF Story, Judging, VerdictIsRight, Agrees
  <1>17. CASE SrvStatus
    <2>1. pc \in {"readpid", "arm", "wait"} /\ ctl = <<>>
      BY <1>0, <1>17, <1>a DEF SrvStatus, InStep, Working, Over
    <2>2. Agrees(srvStatus)
      BY <1>0, <1>17, <1>a DEF SrvStatus, Story, Reported
    <2> QED
      BY <1>17, <2>1, <2>2 DEF SrvStatus, Story, Judging, VerdictIsRight, Agrees
  <1>18. CASE ChildEnds
    <2>1. /\ srv \in {"pid", "wait", "dead"}
          /\ Last' \in {"exited", "crashed", "stopped"}
          /\ did' = IF Last' = "crashed" THEN "crashed" ELSE "finished"
      BY <1>0, <1>18, LastEnds
    <2>2. UNCHANGED <<pc, srv, execs, stop_soon>>
      BY <1>18 DEF ChildEnds
    <2>3. pc \notin Judging /\ (pc = "idle" => execs = 0)
      BY <1>0, <2>1 DEF Judging, InStep, Working, Over, Known
    <2> QED
      BY <2>1, <2>2, <2>3 DEF Story, Reported, VerdictIsRight, Agrees
  <1>19. CASE UNCHANGED vars
    BY <1>0, <1>1, <1>19, <1>a DEF vars, Story, Reported, Agrees, VerdictIsRight
  <1> QED
    BY <1>3, <1>4, <1>5, <1>6, <1>7, <1>8, <1>9, <1>10, <1>11, <1>12, <1>13, <1>14,
       <1>15, <1>16, <1>17, <1>18, <1>19 DEF Next, RunTarget, Server

LEMMA NextRInv == RInv /\ [Next]_vars => RInv'
  BY NextIInv, NextKnown, NextTold DEF RInv

LEMMA InitRInv == Init => RInv
  <1> SUFFICES ASSUME Init PROVE RInv
    OBVIOUS
  <1>1. Known
    BY DEF Init, Known, Over, Judging
  <1>2. Told
    BY DEF Init, Told
  <1> QED
    BY InitIInv, <1>1, <1>2 DEF RInv

(* Until the stop each verdict is about its own test case, for any number  *)
(* of test cases, persistent or not, wherever the timer strikes.           *)
THEOREM VerdictsAreRight == Spec => []VerdictIsRight
  <1>1. Init => Story
    BY DEF Init, Story, Reported, Judging, VerdictIsRight
  <1>2. RInv /\ Story /\ [Next]_vars => (RInv /\ Story)'
    BY NextRInv, NextStory
  <1>3. RInv /\ Story => VerdictIsRight
    BY DEF Story, VerdictIsRight
  <1> QED
    BY InitRInv, <1>1, <1>2, <1>3, PTL DEF Spec

-----------------------------------------------------------------------------
(* A stop takes the fork server and the process that is known.             *)
NoneLeft ==
    /\ stop_soon => Over
    /\ pc = "end" => Over \/ blind
    /\ child_pid = -1 => ~timer \/ pc \in {"hello", "end"}
    /\ pc \in {"arm", "wait"} \cup Judging => child_pid # -1
    /\ Over /\ ~blind => \A p \in 1 .. Len(child) : ~Alive(p)

(* A process is alive only if it is the last one.                          *)
LEMMA OnlyLastAlive ==
    ASSUME IInv, \/ srvPid = 0
                 \/ srvPid > 0 /\ Last \notin {"running", "stopped"}
    PROVE  \A p \in 1 .. Len(child) : ~Alive(p)
  BY DEF IInv, TypeOK, Custody, Alive, Last

LEMMA StopLeavesNone ==
    ASSUME RInv, NoneLeft, IInv', Stop, ~blind'
    PROVE  \A p \in 1 .. Len(child') : ~Alive(p)'
  <1>a. pc # "readpid" /\ ~blind /\ pc # "end" /\ srvPid' = srvPid
    BY DEF Stop, server
  <1>0. /\ IInv /\ TypeOK /\ Custody /\ Known /\ srvPid \in Nat /\ pc # "readpid"
        /\ ~blind /\ pc # "end" /\ srvPid' = srvPid
    BY <1>a DEF RInv, IInv, TypeOK
  <1>1. /\ Len(child') = Len(child)
        /\ \A q \in 1 .. Len(child) : child'[q] =
               IF q = child_pid /\ child[q] \in {"running", "stopped"}
               THEN "killed" ELSE child[q]
    BY <1>0, ChildKilled DEF Stop
  <1>2. CASE Over
    <2>1. \A p \in 1 .. Len(child) : child[p] \notin {"running", "stopped"}
      BY <1>0, <1>2 DEF NoneLeft, Alive, TypeOK
    <2> QED
      BY <1>1, <2>1 DEF Alive
  <1>3. CASE ~Over /\ srvPid > 0
    <2>1. ~stop_soon
      BY <1>3 DEF NoneLeft
    <2>2. Last \in {"running", "stopped"} => child_pid = srvPid
      <3>1. pc \in {"idle", "clear", "disarm", "verdict"} => srv = "read"
        BY <1>3 DEF RInv, IInv, InStep, Working, Over
      <3>2. pc \in {"arm", "wait", "clear"} => child_pid = srvPid
        BY <1>0, <2>1 DEF Known
      <3>3. pc = "idle" /\ child_stopped => child_pid = srvPid
        BY <1>0, <2>1, <3>1 DEF Known
      <3>4. pc \in {"disarm", "verdict"} /\ child_stopped => child_pid = srvPid
        BY <1>0, <2>1 DEF Known, Judging
      <3>5. srv = "read" /\ ~child_stopped => Last = "gone"
        BY <1>0, <1>3 DEF Custody
      <3>6. pc # "hello"
        BY <1>0, <1>3 DEF Custody
      <3> QED
        BY <1>0, <3>1, <3>2, <3>3, <3>4, <3>5, <3>6 DEF TypeOK
    <2>3. Last' \notin {"running", "stopped"}
      BY <1>0, <1>1, <1>3, <2>2 DEF Last, Custody
    <2>4. \A p \in 1 .. Len(child') - 1 : child'[p] = "gone"
      BY DEF IInv, Custody
    <2>5. srvPid' = Len(child')
      BY DEF IInv, Custody
    <2> QED
      BY <1>0, <1>3, <2>3, <2>4, <2>5 DEF Alive, Last
  <1>4. CASE srvPid = 0
    BY <1>0, <1>1, <1>4 DEF Custody
  <1> QED
    BY <1>0, <1>2, <1>3, <1>4

LEMMA NextNoneLeft == RInv /\ NoneLeft /\ [Next]_vars => NoneLeft'
  <1> SUFFICES ASSUME RInv, NoneLeft, [Next]_vars PROVE NoneLeft'
    OBVIOUS
  <1> USE DEF flags, result, afl, server, history, rest
  <1>0. /\ IInv /\ IInv' /\ TypeOK /\ InStep /\ Custody /\ Known
        /\ srvPid \in Nat /\ srvPid = Len(child)
        /\ DOMAIN child = 1 .. Len(child)
    BY NextIInv DEF RInv, IInv, TypeOK, Custody
  <1>1. ASSUME UNCHANGED child, NEW p
        PROVE  Alive(p)' <=> Alive(p)
    BY <1>1 DEF Alive
  <1>2. CASE Fatal \/ Finish \/ Abort
    BY <1>1, <1>2 DEF Fatal, Eof, Finish, Abort, NoneLeft, Over, Judging
  <1>3. CASE Hello \/ Request \/ RequestStopped \/ ReturnStopped \/ Arm
               \/ ReadStatus \/ Disarm \/ Return
    BY <1>1, <1>3 DEF Hello, Request, RequestStopped, ReturnStopped, Arm,
                      ReadStatus, Disarm, Return, NoneLeft, Over, Judging
  <1>4. CASE ReadPid
    <2>1. st \in {<<PidMsg>>, <<PidMsg, StatusMsg>>}
      BY <1>0, <1>4, Messages DEF ReadPid, InStep
    <2>2. st[1] = PidMsg
      BY <2>1, Messages
    <2>3. child_pid' = srvPid
      BY <1>4, <2>2 DEF ReadPid, PidMsg
    <2> QED
      BY <1>0, <1>1, <1>4, <2>3 DEF ReadPid, NoneLeft, Over, Judging
  <1>5. CASE Clear
    BY <1>0, <1>1, <1>5 DEF Clear, NoneLeft, Over, Judging
  <1>6. CASE Alarm
    <2>1. /\ Len(child') = Len(child)
          /\ \A q \in 1 .. Len(child) : child'[q] =
                 IF q = child_pid /\ child[q] \in {"running", "stopped"}
                 THEN "killed" ELSE child[q]
      BY <1>0, <1>6, ChildKilled DEF Alarm
    <2>2. child_pid = -1 => Len(child') = 0
      BY <1>0, <1>6, <2>1 DEF Alarm, NoneLeft, Custody
    <2>3. \A p \in 1 .. Len(child) : ~Alive(p) => ~Alive(p)'
      BY <1>0, <2>1 DEF Alive
    <2>4. child_pid # -1 => srv' = srv
      BY <1>6 DEF Alarm
    <2>5. Over' /\ ~blind' => \A p \in 1 .. Len(child') : ~Alive(p)'
      BY <1>6, <2>1, <2>2, <2>3, <2>4 DEF Alarm, NoneLeft, Over
    <2> QED
      BY <1>6, <2>5 DEF Alarm, NoneLeft, Over, Judging
  <1>7. CASE Stop
    <2>1. Over' /\ ~blind' => \A p \in 1 .. Len(child') : ~Alive(p)'
      BY <1>0, <1>7, StopLeavesNone
    <2> QED
      BY <1>7, <2>1 DEF Stop, NoneLeft, Over, Judging
  <1>8. CASE BootFails \/ SrvForkFails \/ SrvQuits
    <2>1. CASE SrvQuits
      BY <1>1, <2>1 DEF SrvQuits, NoneLeft, Over, Judging
    <2>2. CASE BootFails \/ SrvForkFails
      <3>1. \A p \in 1 .. Len(child) : ~Alive(p)
        BY <1>0, <2>2, OnlyLastAlive DEF BootFails, SrvForkFails, Custody
      <3> QED
        BY <1>1, <2>2, <3>1 DEF BootFails, SrvForkFails, NoneLeft, Over, Judging
    <2> QED
      BY <1>8, <2>1, <2>2
  <1>9. CASE Boot \/ SrvRead \/ SrvReap \/ SrvFork \/ SrvCont \/ SrvPid \/ SrvWait
               \/ SrvStatus
    <2>1. ~Over /\ ~Over'
      BY <1>9 DEF Boot, SrvRead, SrvReap, SrvFork, SrvCont, SrvPid, SrvWait,
                  SrvStatus, Over
    <2>2. UNCHANGED <<pc, child_pid, timer, stop_soon, blind>>
      BY <1>9 DEF Boot, SrvRead, SrvReap, SrvFork, SrvCont, SrvPid, SrvWait,
                  SrvStatus
    <2> QED
      BY <2>1, <2>2 DEF NoneLeft
  <1>10. CASE ChildEnds
    <2>1. srvPid \in 1 .. Len(child) /\ Alive(srvPid)
      BY <1>0, <1>10, LastEnds DEF Alive, Last
    <2>2. ~Over \/ blind
      BY <2>1 DEF NoneLeft
    <2> QED
      BY <1>10, <2>2 DEF ChildEnds, NoneLeft, Over
  <1>11. CASE UNCHANGED vars
    BY <1>1, <1>11 DEF vars, NoneLeft, Over
  <1> QED
    BY <1>2, <1>3, <1>4, <1>5, <1>6, <1>7, <1>8, <1>9, <1>10, <1>11
       DEF Next, RunTarget, Server

(* A stop at any moment leaves no process behind but one that was forked   *)
(* and not yet known, for any number of processes.                         *)
THEOREM StopsLeaveNoOrphan == Spec => []NoOrphans
  <1>1. Init => NoneLeft
    BY DEF Init, NoneLeft, Over, Judging
  <1>2. RInv /\ NoneLeft /\ [Next]_vars => (RInv /\ NoneLeft)'
    BY NextRInv, NextNoneLeft
  <1>3. RInv /\ NoneLeft => NoOrphans
    BY DEF RInv, IInv, TypeOK, NoneLeft, NoOrphans, Over
  <1> QED
    BY InitRInv, <1>1, <1>2, <1>3, PTL DEF Spec
=============================================================================
