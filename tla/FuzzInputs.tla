----------------------------- MODULE FuzzInputs -----------------------------
(***************************************************************************)
(* The directory fuzz_inputs: fuzz_js() has esfuzz write mutants of a test *)
(* case into it, each as a .js and a .js.t file, under a limit of thirty   *)
(* seconds, and fuzz_dir() runs what is there and queues what is new.      *)
(* Nobody empties the directory.  One round follows the other.             *)
(***************************************************************************)
EXTENDS Integers, FiniteSets

CONSTANTS Cnt,        \* test cases per input; generate_js() asks for 100
          Size,       \* how many nodes a test case may have
          MaxRound    \* bound: rounds

ASSUME FuzzInputsAssumption ==
    /\ Cnt \in Nat /\ Size \subseteq Nat /\ MaxRound \in Nat

(* A .js file is known by the round and place it was made in; its .t file  *)
(* lists a type for each of its nodes.                                     *)
Case == [round : 0 .. MaxRound, i : 0 .. Cnt, size : Size]
Absent == [file |-> "absent"]
Empty == [file |-> "empty"]   \* opened for writing, and killed
File == Case \cup {Absent, Empty}

VARIABLES phase,   \* where fuzz_js() and esfuzz are
          made,    \* the rounds so far
          input,   \* .cur_input.js and .cur_input.js.t
          js, jst, \* the files of fuzz_inputs, .js and .js.t
          place,   \* the test case that is written or run
          queue,   \* what the queues of redis hold
          ran,     \* history: the test cases that were run
          kills    \* history: how often the thirty seconds were over

filesVars == <<phase, made, input, js, jst, place, queue, ran, kills>>

(* The type invariant.                                                     *)
TypeOK ==
    /\ phase \in {"fetch", "parse", "code", "types", "run"}
    /\ made \in 0 .. MaxRound
    /\ input \in [js : File, t : File]
    /\ js \in [0 .. Cnt - 1 -> File] /\ jst \in [0 .. Cnt - 1 -> File]
    /\ place \in 0 .. Cnt
    /\ queue \subseteq [js : Case, t : Case \cup {Empty}]
    /\ ran \subseteq Case /\ kills \in 0 .. made

(* An empty directory; the queues hold nothing yet, or a test case of the  *)
(* corpus.                                                                 *)
FilesInit ==
    /\ phase = "fetch" /\ made = 0
    /\ input = [js |-> Absent, t |-> Absent]
    /\ js = [k \in 0 .. Cnt - 1 |-> Absent]
    /\ jst = [k \in 0 .. Cnt - 1 |-> Absent]
    /\ place = 0
    /\ \/ queue = {}
       \/ \E s \in Size :
             LET c == [round |-> 0, i |-> Cnt, size |-> s]
             IN  queue = {[js |-> c, t |-> c]}
    /\ ran = {} /\ kills = 0

-----------------------------------------------------------------------------
(* getNextTestcase, which leaves .cur_input.js alone if there is none.     *)
Fetch ==
    /\ phase = "fetch" /\ made < MaxRound
    /\ IF queue = {} THEN input' = input ELSE input' \in queue
    /\ made' = made + 1
    /\ phase' = "parse"
    /\ UNCHANGED <<js, jst, place, queue, ran, kills>>

(* esfuzz reads the input: both files must be there, and JSON.parse()      *)
(* throws on an empty one.                                                 *)
Readable == input.js # Absent /\ input.t \notin {Absent, Empty}

ReadInput ==
    /\ phase = "parse" /\ Readable
    /\ place' = 0
    /\ phase' = "code"
    /\ UNCHANGED <<made, input, js, jst, queue, ran, kills>>

(* The input is not readable, or babel does not parse what was printed.    *)
ParseFails ==
    /\ phase = "parse"
    /\ place' = 0
    /\ phase' = "run"
    /\ UNCHANGED <<made, input, js, jst, queue, ran, kills>>

(* dumpCode().                                                             *)
DumpCode ==
    /\ phase = "code" /\ place < Cnt
    /\ \E s \in Size :
          js' = [js EXCEPT ![place] = [round |-> made, i |-> place, size |-> s]]
    /\ phase' = "types"
    /\ UNCHANGED <<made, input, jst, place, queue, ran, kills>>

(* Mutant: the types are those of the tree before it was mutated.          *)
DumpTypesOfInput ==
    /\ phase = "types"
    /\ jst' = [jst EXCEPT ![place] = input.t]
    /\ place' = place + 1
    /\ phase' = "code"
    /\ UNCHANGED <<made, input, js, queue, ran, kills>>

(* dumpTypes(), one type per node of the same tree.                        *)
DumpTypes ==
    /\ phase = "types"
    /\ jst' = [jst EXCEPT ![place] = js[place]]
    /\ place' = place + 1
    /\ phase' = "code"
    /\ UNCHANGED <<made, input, js, queue, ran, kills>>

EndGenerate ==
    /\ phase = "code" /\ place = Cnt
    /\ place' = 0
    /\ phase' = "run"
    /\ UNCHANGED <<made, input, js, jst, queue, ran, kills>>

(* Mutant: "Something wrong during fuzz, normally timeout", goto out.      *)
TimeOutSkips ==
    /\ phase \in {"code", "types"}
    /\ UNCHANGED <<js, jst>>
    /\ place' = 0
    /\ phase' = "fetch"
    /\ kills' = kills + 1
    /\ UNCHANGED <<made, input, queue, ran>>

(* The thirty seconds are over, between two writes or when the file that   *)
(* is written next was opened; fuzz_dir() comes next all the same.         *)
TimeOut ==
    /\ phase \in {"code", "types"}
    /\ \/ UNCHANGED <<js, jst>>
       \/ /\ phase = "code" /\ place < Cnt
          /\ js' = [js EXCEPT ![place] = Empty] /\ UNCHANGED jst
       \/ /\ phase = "types"
          /\ jst' = [jst EXCEPT ![place] = Empty] /\ UNCHANGED js
    /\ place' = 0
    /\ phase' = "run"
    /\ kills' = kills + 1
    /\ UNCHANGED <<made, input, queue, ran>>

-----------------------------------------------------------------------------
(* fuzz_dir() leaves out what is not there and what is empty.              *)
RunNothing ==
    /\ phase = "run" /\ place < Cnt /\ js[place] \in {Absent, Empty}
    /\ place' = place + 1
    /\ UNCHANGED <<phase, made, input, js, jst, queue, ran, kills>>

(* insertPath gives up without the .t file.                                *)
Insert ==
    IF jst[place] = Absent THEN queue
    ELSE queue \cup {[js |-> js[place], t |-> jst[place]]}

(* A test case is run, and queued when it covers something new.            *)
RunCase ==
    /\ phase = "run" /\ place < Cnt /\ js[place] \notin {Absent, Empty}
    /\ ran' = ran \cup {js[place]}
    /\ queue' \in {queue, Insert}
    /\ place' = place + 1
    /\ UNCHANGED <<phase, made, input, js, jst, kills>>

EndDir ==
    /\ phase = "run" /\ place = Cnt
    /\ place' = 0
    /\ phase' = "fetch"
    /\ UNCHANGED <<made, input, js, jst, queue, ran, kills>>

FilesNext ==
    \/ Fetch \/ ReadInput \/ ParseFails
    \/ DumpCode \/ DumpTypes \/ EndGenerate \/ TimeOut
    \/ RunNothing \/ RunCase \/ EndDir

FilesSpec == FilesInit /\ [][FilesNext]_filesVars

-----------------------------------------------------------------------------
(* No test case is overwritten before it was run, although the same names  *)
(* are used again in every round and esfuzz may be killed anywhere.        *)
EveryCaseRuns ==
    [][\A k \in 0 .. Cnt - 1 :
          js'[k] # js[k] /\ js[k] \in Case => js[k] \in ran]_filesVars

(* A test case is queued with types that are not its own, or with an empty *)
(* file of types, only because esfuzz was killed, and then once for every  *)
(* time.                                                                   *)
OneMixUpPerKill == Cardinality({e \in queue : e.t # e.js}) <= kills

(* "There are types not consumed!?": reading a test case uses up all the   *)
(* types of its .t file.                                                   *)
TypesAreConsumed == phase = "code" => input.t.size <= input.js.size
=============================================================================
