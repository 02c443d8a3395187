--------------------------- MODULE SyncRefinement ---------------------------
(***************************************************************************)
(* The redis protocol of GlobalSync implements the shared corpus: SADD     *)
(* makes coverage known, LPUSH stores the test case, RPOPLPUSH hands one   *)
(* out without taking it away.                                             *)
(***************************************************************************)
EXTENDS GlobalSync

Owed(k) == {job[f].case : f \in {g \in Fuzzer : pc[g] = "lpush" /\ job[g].kind = k}}

Corpus == INSTANCE SharedCorpus WITH
    known  <- bitmap,
    corpus <- [k \in Kind |-> Cases(Queue(k))],
    owed   <- [k \in Kind |-> Owed(k)],
    given  <- cur

(* Every step of every fuzzer, killed or not, is a step of the shared      *)
(* corpus or leaves it alone.                                              *)
ImplementsSharedCorpus == Corpus!Spec
=============================================================================
