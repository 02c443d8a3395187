----------------------------- MODULE MCFuzzLoop -----------------------------
(* A map of one edge with the two buckets that matter to simplify_trace(): *)
(* hit once (0x01) and hit very often (0x80); afl-fuzz as the scripts      *)
(* start it, and with a time limit that makes it run timeouts again, once  *)
(* over a corpus and with SIGUSR1 at any time.                             *)
EXTENDS FuzzLoop, TLC

CONSTANTS a01, a80

OneByte == {"a"}
OneByteOf == (a01 :> "a") @@ (a80 :> "a")
OneBusy == "a" :> a80
OneQuiet == "a" :> a01

AsScripts == [in_dir : BOOLEAN, reruns : {FALSE}, usr1 : {FALSE}]
WithReruns == {[in_dir |-> FALSE, reruns |-> TRUE, usr1 |-> FALSE],
               [in_dir |-> TRUE, reruns |-> TRUE, usr1 |-> TRUE]}
AnySetup == AsScripts \cup WithReruns
=============================================================================
