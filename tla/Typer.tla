-------------------------------- MODULE Typer --------------------------------
(***************************************************************************)
(* How a corpus comes by its types before a campaign: typer.py runs every  *)
(* program of a directory with instrumentation and writes what it printed  *)
(* of the types to a .t, resolve.py puts that together line by line, and   *)
(* make_initial_corpus.py deals the typed programs to the CPUs.  Scripts   *)
(* are killed anywhere, die of an exception, and typer.py is run again.    *)
(***************************************************************************)
EXTENDS Integers, Sequences, FiniteSets

CONSTANTS File,         \* the .js of the directory
          Size,         \* their sizes
          MAX_SIZE,     \* 128 KiB
          Loc, Type,    \* places in a program, and types of values there
          Output,       \* what d8 may print: sequences of lines
          Noise, Broken, Undecodable,    \* lines that hold no type
          Absent, Torn, \* no .t, and one that was opened and not written
          CpuCount,     \* what cpu_count() may return
          MaxRun        \* bound: how often typer.py is started

(* A line without the prefix is noise; one that is cut or has the          *)
(* program's own output in it is broken when it is no JSON, and            *)
(* undecodable when it is not even UTF-8.                                  *)
Value == [loc : Loc, type : Type]
Other == {Noise, Broken, Undecodable}
Line == Value \cup Other

(* What is known of a place: no type, one, or the subTypes of a mixed one. *)
NoRecords == [l \in Loc |-> << >>]
Record == [Loc -> Seq(Type)]

ASSUME TyperAssumption ==
    /\ IsFiniteSet(File) /\ Size \in [File -> Nat] /\ MAX_SIZE \in Nat
    /\ Output \subseteq Seq(Line)
    /\ Other \cap Value = {} /\ Noise # Broken
    /\ Absent \notin Record /\ Torn \notin Record /\ Absent # Torn
    /\ CpuCount \subseteq Nat
    /\ MaxRun \in Nat \ {0}

VARIABLES pc, runs,
          types,     \* the .t of each file
          walk,      \* files that typer.py has not come to
          cur,       \* the one that it is at
          output,    \* lines that resolve() has not come to
          records,   \* what resolve() made of those before
          seen,      \* history: the values printed in the lines before
          saw,       \* history: those printed by the run of each .t
          files, i, j, splits,    \* of make_initial_corpus.py
          outputDir  \* the output-%d directories
typerVars == <<walk, cur, output, records, seen>>
corpusVars == <<files, i, j, splits, outputDir>>
vars == <<pc, runs, types, saw, typerVars, corpusVars>>

Phases == {"walk", "profile", "resolve", "write", "typed", "died", "deal",
           "copyJs", "copyTypes", "done", "cut", "raised"}
TypeOK ==
    /\ pc \in Phases /\ runs \in 0..MaxRun
    /\ types \in [File -> Record \cup {Absent, Torn}]
    /\ saw \in [File -> SUBSET Value]
    /\ walk \subseteq File /\ cur \in File
    /\ output \in Seq(Line) /\ records \in Record
    /\ seen \in SUBSET Value

Init ==
    /\ pc = "walk" /\ runs = 1
    /\ types = [f \in File |-> Absent] /\ saw = [f \in File |-> {}]
    /\ walk = File /\ cur \in File
    /\ output = << >> /\ records = NoRecords /\ seen = {}
    /\ files = << >> /\ i = 0 /\ j = 0 /\ splits = << >> /\ outputDir = << >>
-----------------------------------------------------------------------------
(* typer.py.  The next file in the order of os.walk: instrumented and run, *)
(* unless a .t is there, whatever is in it.                                *)
Visit ==
    /\ pc = "walk"
    /\ \E f \in walk :
          /\ walk' = walk \ {f}
          /\ IF types[f] # Absent
             THEN UNCHANGED <<pc, cur>>
             ELSE pc' = "profile" /\ cur' = f
    /\ UNCHANGED <<runs, types, saw, output, records, seen, corpusVars>>

WalkEnds ==
    /\ pc = "walk" /\ walk = {}
    /\ pc' = "typed"
    /\ UNCHANGED <<runs, types, saw, typerVars, corpusVars>>

(* d8 ends, fails, or is killed after thirty seconds: what it printed      *)
(* until then goes to resolve().                                           *)
Profile ==
    /\ pc = "profile"
    /\ output' \in Output
    /\ pc' = "resolve"
    /\ UNCHANGED <<runs, types, saw, walk, cur, records, seen, corpusVars>>

(* When it printed nothing in that time e.output is None, which has no     *)
(* split(): the script ends, and later files are not typed.                *)
ProfileTimesOut ==
    /\ pc = "profile"
    /\ pc' = "died"
    /\ UNCHANGED <<runs, types, saw, typerVars, corpusVars>>

(* Mutant: a mixed type starts again with the new type.                    *)
MergedAnew(known, t) ==
    IF \E k \in DOMAIN known : known[k] = t THEN known
    ELSE IF Len(known) = 2 THEN <<t, Head(known)>> ELSE Append(known, t)
(* What is known of a place when another value was seen there.             *)
Merged(known, t) ==
    IF \E k \in DOMAIN known : known[k] = t THEN known
    ELSE IF Len(known) = 1 THEN <<t, Head(known)>> ELSE Append(known, t)

ResolveLine ==
    /\ pc = "resolve" /\ output # << >>
    /\ output' = Tail(output)
    /\ LET line == Head(output) IN
       /\ line \notin {Broken, Undecodable}
       /\ IF line = Noise
          THEN UNCHANGED <<records, seen>>
          ELSE /\ records' = [records EXCEPT ![line.loc] = Merged(@, line.type)]
               /\ seen' = seen \cup {line}
    /\ UNCHANGED <<pc, runs, types, saw, walk, cur, corpusVars>>

(* A line that is no JSON returns "", and what was resolved is dropped;    *)
(* a UnicodeDecodeError is not caught.                                     *)
Dropped == output' = << >> /\ records' = NoRecords /\ seen' = {}
ResolveFails ==
    /\ pc = "resolve" /\ output # << >>
    /\ Head(output) \in {Broken, Undecodable}
    /\ pc' = IF Head(output) = Broken THEN "walk" ELSE "died"
    /\ Dropped
    /\ UNCHANGED <<runs, types, saw, walk, cur, corpusVars>>

(* Without a single record there will be no .t, and open() tears an old    *)
(* one before it is written: here there is none, but there is from now on. *)
OpenTypes ==
    /\ pc = "resolve" /\ output = << >>
    /\ IF records = NoRecords
       THEN pc' = "walk" /\ UNCHANGED types
       ELSE pc' = "write" /\ types' = [types EXCEPT ![cur] = Torn]
    /\ UNCHANGED <<runs, saw, typerVars, corpusVars>>

WriteTypes ==
    /\ pc = "write"
    /\ types' = [types EXCEPT ![cur] = records]
    /\ saw' = [saw EXCEPT ![cur] = seen]
    /\ pc' = "walk" /\ records' = NoRecords /\ seen' = {}
    /\ UNCHANGED <<runs, walk, cur, output, corpusVars>>

(* Killed at any point; the user may start it again.                       *)
Kill ==
    /\ pc \in {"walk", "profile", "resolve", "write"}
    /\ pc' = "died"
    /\ Dropped
    /\ UNCHANGED <<runs, types, saw, walk, cur, corpusVars>>

Restart ==
    /\ pc \in {"died", "typed"} /\ runs < MaxRun
    /\ runs' = runs + 1 /\ walk' = File
    /\ pc' = "walk"
    /\ UNCHANGED <<types, saw, cur, output, records, seen, corpusVars>>
-----------------------------------------------------------------------------
(* make_initial_corpus.py.  A .t need only be there.                       *)
Eligible == {f \in File : types[f] # Absent /\ 0 < Size[f] /\ Size[f] < MAX_SIZE}
Sorted(S) == {s \in [1..Cardinality(S) -> S] :
                 \A m, n \in 1..Cardinality(S) :
                    m < n => s[m] # s[n] /\ Size[s[m]] <= Size[s[n]]}

(* No CPU to deal to: range() refuses a step of 0, after the output        *)
(* directory was made; with a negative step there is nothing to do.        *)
Sort ==
    /\ pc \in {"typed", "died"}
    /\ files' \in Sorted(Eligible)
    /\ \E c \in CpuCount :
          LET n_cpu == c - 4 IN
          /\ splits' = [k \in 1..n_cpu |-> << >>]
          /\ pc' = IF n_cpu = 0 THEN "raised"
                   ELSE IF n_cpu < 0 THEN "done" ELSE "deal"
    /\ i' = 0 /\ j' = 0
    /\ UNCHANGED <<runs, types, saw, typerVars, outputDir>>

(* Mutant: the first file is taken for number 1.                           *)
DealtFrom1 == i + j
(* Python counts from 0: files[i + j].                                     *)
Dealt == i + j + 1
Deal ==
    /\ pc = "deal" /\ i < Len(files)
    /\ splits' = IF Dealt \in DOMAIN files
                 THEN [splits EXCEPT ![j + 1] = Append(@, files[Dealt])]
                 ELSE splits
    /\ IF j + 1 < Len(splits)
       THEN j' = j + 1 /\ UNCHANGED i
       ELSE j' = 0 /\ i' = i + Len(splits)
    /\ UNCHANGED <<pc, runs, types, saw, files, typerVars, outputDir>>

DealEnds ==
    /\ pc = "deal" /\ i >= Len(files)
    /\ outputDir' = [k \in DOMAIN splits |-> << >>]
    /\ pc' = "copyJs"
    /\ UNCHANGED <<runs, types, saw, files, i, j, splits, typerVars>>

(* Directory by directory, each file and then its .t.                      *)
Uncopied == {k \in DOMAIN splits : Len(outputDir[k]) < Len(splits[k])}
First == CHOOSE k \in Uncopied : \A m \in Uncopied : k <= m
CopyJs ==
    /\ pc = "copyJs" /\ Uncopied # {}
    /\ LET f == splits[First][Len(outputDir[First]) + 1] IN
       outputDir' = [outputDir EXCEPT ![First] = Append(@, [js |-> f, t |-> Absent])]
    /\ j' = First /\ pc' = "copyTypes"
    /\ UNCHANGED <<runs, types, saw, files, i, splits, typerVars>>
CopyTypes ==
    /\ pc = "copyTypes"
    /\ LET n == Len(outputDir[j]) IN
       outputDir' = [outputDir EXCEPT ![j][n].t = types[splits[j][n]]]
    /\ pc' = "copyJs"
    /\ UNCHANGED <<runs, types, saw, files, i, j, splits, typerVars>>
CopyEnds ==
    /\ pc = "copyJs" /\ Uncopied = {}
    /\ pc' = "done"
    /\ UNCHANGED <<runs, types, saw, typerVars, corpusVars>>

(* Killed: the output directory is there, and another start refuses it.    *)
KillCopy ==
    /\ pc \in {"deal", "copyJs", "copyTypes"}
    /\ pc' = "cut"
    /\ UNCHANGED <<runs, types, saw, typerVars, corpusVars>>

Next ==
    \/ Visit \/ WalkEnds \/ Profile \/ ProfileTimesOut
    \/ ResolveLine \/ ResolveFails \/ OpenTypes \/ WriteTypes
    \/ Kill \/ Restart
    \/ Sort \/ Deal \/ DealEnds \/ CopyJs \/ CopyTypes \/ CopyEnds \/ KillCopy

Spec == Init /\ [][Next]_vars
-----------------------------------------------------------------------------
(* A list of types holds each type of a set, and each once.                *)
Lists(list, set) ==
    /\ {list[k] : k \in DOMAIN list} = set
    /\ \A m, n \in DOMAIN list : list[m] = list[n] => m = n
At(values, l) == {v.type : v \in {w \in values : w.loc = l}}

(* A .t that was written holds, for each place of the program, every type  *)
(* that the run printed for it and none twice, however many were seen, in  *)
(* whatever order, and in whichever start of typer.py; and what it holds   *)
(* comes from one run.  Only a file at which the script was stopped stays  *)
(* torn, so there are no more of these than starts.                        *)
TypesAreWhole ==
    /\ \A f \in File : types[f] \notin {Absent, Torn} =>
          \A l \in Loc : Lists(types[f][l], At(saw[f], l))
    /\ Cardinality({f \in File : types[f] = Torn}) <= runs

(* Dealing leaves no program out, takes none twice and gives no CPU two    *)
(* more than another: in a corpus that is complete each eligible program   *)
(* is once, with its own types; from a script that was killed there is at  *)
(* most one program without any.                                           *)
Copies == UNION {{<<k, n>> : n \in DOMAIN outputDir[k]} : k \in DOMAIN outputDir}
Copy(c) == outputDir[c[1]][c[2]]
CorpusIsDealt ==
    /\ pc = "done" /\ Len(splits) > 0 =>
          /\ \A f \in Eligible : \E c \in Copies : Copy(c).js = f
          /\ \A k, m \in DOMAIN outputDir :
                Len(outputDir[k]) - Len(outputDir[m]) <= 1
    /\ \A c, d \in Copies : Copy(c).js = Copy(d).js => c = d
    /\ \A c \in Copies : Copy(c).t \in {types[Copy(c).js], Absent}
    /\ Cardinality({c \in Copies : Copy(c).t = Absent})
          <= IF pc \in {"copyTypes", "cut"} THEN 1 ELSE 0
=============================================================================
