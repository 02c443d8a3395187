---------------------------- MODULE MCGlobalSync ----------------------------
(* Two hit-count buckets of an edge, a0 and a1, and one of another, b0; the*)
(* maps of the runs are {a0, b0}.  Bit a0 is the bit 0 of the map.         *)
EXTENDS SyncRefinement, TLC

CONSTANTS p, f1, f2, a0, a1, b0

MCByte == {"a", "b"}
MCByteOf == [b \in Bit |-> IF b = b0 THEN "b" ELSE "a"]

(* populate.sh on one machine, then run.sh on the others.                  *)
PopulateThenFuzz == (p :> <<"populate">>) @@ (f1 :> <<"fuzz">>) @@ (f2 :> <<"fuzz">>)
(* A populating fuzzer next to one that is started again after a kill.     *)
Restarts == (f1 :> <<"populate">>) @@ (f2 :> <<"fuzz", "fuzz">>)
=============================================================================
