---------------------------- MODULE SharedCorpus ----------------------------
(***************************************************************************)
(* What the fuzzers expect from redis_ctrl.js: a corpus shared by all of   *)
(* them.  Reporting a test case makes its new coverage known and then      *)
(* stores the test case for good, unless the report is abandoned half way; *)
(* a stored test case can be handed out any number of times.               *)
(***************************************************************************)
CONSTANTS Fuzzer,  \* who reports and asks for test cases
          Kind,    \* the corpora: "path" and "crash"
          Case,    \* test cases, with fields by, run and diff
          NoCase,  \* not a test case
          Bit0     \* a bit that is known as soon as any is

VARIABLES known,   \* for each kind, the coverage that counts as known
          corpus,  \* the stored test cases
          owed,    \* the test cases whose coverage is known already
          given    \* the last test case handed out to each fuzzer

vars == <<known, corpus, owed, given>>

Init ==
    /\ known = [k \in Kind |-> {}]
    /\ corpus = [k \in Kind |-> {}]
    /\ owed = [k \in Kind |-> {}]
    /\ given = [f \in Fuzzer |-> NoCase]

SameRun(c, d) == c.by = d.by /\ c.run = d.run

(* A fuzzer reports one test case at a time, and only coverage that it did *)
(* not report in this run before.                                          *)
Register(k, c) ==
    /\ known' = [known EXCEPT ![k] = @ \cup c.diff \cup {Bit0}]
    /\ \A j \in Kind : \A d \in owed[j] : d.by # c.by
    /\ \A d \in corpus[k] : SameRun(c, d) => c.diff \cap d.diff = {}
    /\ owed' = [owed EXCEPT ![k] = @ \cup {c}]
    /\ UNCHANGED <<corpus, given>>

Store(k, c) ==
    /\ c \in owed[k]
    /\ corpus' = [corpus EXCEPT ![k] = @ \cup {c}]
    /\ owed' = [owed EXCEPT ![k] = @ \ {c}]
    /\ UNCHANGED <<known, given>>

Abandon(k, c) ==
    /\ c \in owed[k]
    /\ owed' = [owed EXCEPT ![k] = @ \ {c}]
    /\ UNCHANGED <<known, corpus, given>>

HandOut(f, c) ==
    /\ c \in corpus["path"]
    /\ given' = [given EXCEPT ![f] = c]
    /\ UNCHANGED <<known, corpus, owed>>

(* A report changes what is owed; asked first, that spares TLC the search  *)
(* for a case to register in every other step.                             *)
Report ==
    /\ owed' # owed
    /\ \E k \in Kind : \/ \E c \in owed[k] : Store(k, c) \/ Abandon(k, c)
                       \/ \E c \in Case : Register(k, c)

Next == Report \/ \E f \in Fuzzer : \E c \in corpus["path"] : HandOut(f, c)

Spec == Init /\ [][Next]_vars
=============================================================================
