------------------------------ MODULE SyncRace ------------------------------
(***************************************************************************)
(* The race of GlobalSync.  globally_sync() downloads the global map, and  *)
(* what is new to it is registered only when the redis_ctrl.js that        *)
(* afl-fuzz starts afterwards gets to its SADD.  Fuzzers that find a bit   *)
(* in between all queue a test case for it.  A history variable records,   *)
(* as each bit is registered, whose reports of it were under way then.     *)
(***************************************************************************)
EXTENDS GlobalSync

VARIABLE racing  \* history: the test cases that raced to register each bit

raceVars == <<vars, racing>>

(* The test cases of the insertions that have not reached their SADD.      *)
UnderWay(k, b) ==
    {job[f].case :
        f \in {g \in Fuzzer : /\ pc[g] = "sadd" /\ job[g].kind = k
                              /\ b \in job[g].case.diff}}

RaceInit == Init /\ racing = [k \in Kind |-> [b \in Bit |-> {}]]

RaceNext ==
    /\ Next
    /\ racing' = [k \in Kind |-> [b \in Bit |->
                     IF b \in bitmap'[k] \ bitmap[k] THEN UnderWay(k, b)
                                                     ELSE racing[k][b]]]

RaceSpec == RaceInit /\ [][RaceNext]_raceVars

FairRaceSpec == RaceSpec /\ Fairness
-----------------------------------------------------------------------------
(* insertPath of a populating fuzzer does not ask what others have.        *)
Unsynced(c, k) == k = "path" /\ Starts[c.by][c.run] = "populate"

(* While no process is killed, a test case is queued for a bit only if its *)
(* own report was under way when the bit was first registered: once a bit  *)
(* is registered nobody sets out to report it, and those who had already   *)
(* set out are all that can queue it again.                                *)
OnlyRacersRepeat ==
    \A k \in Kind : \A c \in Cases(Queue(k)) : \A b \in c.diff :
        c \in racing[k][b] \/ Unsynced(c, k)
=============================================================================
