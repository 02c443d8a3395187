------------------------------ MODULE MCOutDir ------------------------------
(* Three or four starts, by two processes, on one directory.               *)
EXTENDS OutDir, TLC

(* What the scripts start, in any order, and sessions resumed after that.  *)
Campaigns == {<<"populate", "fuzz", "fuzz">>,
              <<"fuzz", "resume", "resume">>,
              <<"fuzz", "resume", "populate">>,
              <<"fuzz", "resume", "fuzz", "resume">>}

(* A new session between two that are resumed.                             *)
ResumedTwice == {<<"fuzz", "resume", "fuzz", "resume">>}

Symmetry == Permutations(Proc) \cup Permutations(Find)
=============================================================================
