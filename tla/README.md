# A TLA+ model of DIE

DIE is a distributed fuzzer for JavaScript engines: a fork of afl-fuzz
(`src/fuzz/afl`) that lets a TypeScript mutator (`src/fuzz/TS`) make its test
cases and shares what it finds with other machines through redis. This directory
holds TLA+ specifications of the parts whose correctness depends on order,
interleaving or failure, the TLC configurations that check them on small
instances, and machine-checked proofs about them. `PROJECT.json` lists every run,
every theorem and, for each definition, the lines of the source it stands for.

## 1. The system

| Part | State it keeps | Operations | Talks to |
|---|---|---|---|
| Shared corpus (`redis_ctrl.ts`, called from `afl-fuzz.c`) | redis sets `pathBitmap`, `crashBitmap`; lists `newPathsQueue`, `oldPathsQueue`, `crashQueue` | `downloadBitmap`, `insertPath`, `insertCrash`, `getNextTestcase`, `reportStatus` | every fuzzer, through `system("node redis_ctrl.js ...")` |
| Fuzzing loop (`main`, `fuzz_js`, `fuzz_dir`, `common_fuzz_stuff`, `save_if_interesting`) | virgin maps, counters, `stop_soon`, `skip_requested`, `subseq_tmouts` | run a directory of test cases, keep what is new | redis, esfuzz, the target |
| Target execution (`init_forkserver`, `run_target`, signal handlers, `afl-llvm-rt.o.c`) | `child_pid`, timer, two pipes, the fork server's own state | ask for a process, wait, time out, stop | the kernel, the target |
| Test case mutation (`esfuzz.ts`, `base/estestcase.ts`, `esmutator.ts`, `esgenerator.ts`, `espreference.ts`) | the typed tree of one test case and its undo log | mutate, insert, revert, print | code builder, typed AST |
| Code builder (`base/engine`, tables of `esspecs.ts` and `esweight.ts`) | the building context: what may be built at one place, by type | build an expression of a type, a statement, a function | mutation, typed AST |
| Typed AST (`esparse.ts`, `esinfer.ts`, `esverifier.ts`, `estypes.ts`, `esspecs.ts`) | the `itype` of every node, `funcMap` | infer, dump and read types, depth and weight of nodes | mutation, the corpus on disk |
| Type collection (`typer.py`, `resolve.py`) | a `.t` beside every `.js` | run the instrumented program, merge what it printed | `typer.ts`, d8, the corpus on disk |
| Corpus dealing (`make_initial_corpus.py`) | one directory per CPU | choose, sort, deal, copy | the corpus on disk |
| Output directory (`setup_dirs_fds`, `maybe_delete_out_dir`, `write_stats_file`) | `queue`, `_resume`, `crashes`, `hangs`, `fuzzer_stats`, a lock | judge and take apart an old session, build a new one, keep statistics | later sessions, and what `system()` runs |
| Campaign scripts (`fuzz/scripts`) | tmux windows | populate, run, kill | afl-fuzz |
| Stock AFL (`cull_queue`, `fuzz_one`, trimming, `sync_fuzzers`, the other tools) | AFL's queue | not reached in a DIE campaign | |

Before a campaign, `typer.py` runs every program of a corpus with instrumentation and
writes the types its values had to a `.t`; types that were not observed are
inferred. `make_initial_corpus.py` deals the typed programs to the CPUs. One machine
runs one afl-fuzz per CPU. `populate.sh` starts them with `-i` on a slice of the
corpus: every file is executed once and queued in redis whatever it covers. `run.sh`
starts them without: each takes the next test case from redis (`RPOPLPUSH`), has
`esfuzz.js` write about a hundred mutants of it into `fuzz_inputs`, executes those, and
reports the ones whose coverage is new to itself and then, after a download, to
everybody. A mutant has nodes replaced by new ones of the same type, or statements
inserted, which the code builder makes of the variables in scope there.

What makes this hard:

* several fuzzers and redis, with nothing but single redis commands atomic: the
  download, the registration (`SADD`) and the queueing (`LPUSH`) of one find are
  three separate commands of two node processes;
* node processes, fuzzers and scripts that are killed between any two of those, and
  whose exit status nobody looks at;
* three signals whose handlers share variables with the code they interrupt;
* counters and flags that outlive the test case they belong to;
* a syntax tree that is changed in place, printed and changed back a hundred times,
  with undo logs that are never emptied, in a process that is killed after thirty
  seconds while it overwrites the files of the round before;
* mutually recursive builders whose tables must fit each other: a hole in one shows
  as an assertion or an endless loop in another, in contexts nobody tried;
* types that are inferred by a fixpoint over a tree, and written without the nodes
  they belong to.

The list of hazards in `PROJECT.json` gives the line where each one bites and the
property that watches it.

## 2. The modules

### Coverage

The map one level above its bytes: a set of bits, each belonging to a byte. A trace
has at most one bit in a byte, because `classify_counts` replaces a hit count by
its bucket. `HasNewBits`, `NewBytes`, `CovDiff` and `Unseen` are what
`has_new_bits` and `write_coverage_diff` compute. `Coverage` declares no variable;
`GlobalSync` and `FuzzLoop` extend it.

### GlobalSync, SharedCorpus, SyncRefinement, SyncRace

`GlobalSync` has any number of fuzzers around one redis server. An action of a
fuzzer extends from one redis command to the next, since nothing else is shared:

| Action | Code |
|---|---|
| `Start` | `main` up to its loop, in one of the two modes |
| `NextNew`, `NextNone`, `NextOld`, `NextNothing` | the two `RPOPLPUSH` of `getNextTestcase` |
| `PopulatePath`, `PopulateSkip`, `FuzzPath`, `Crash` | one test case through `save_if_interesting` with `globally_sync` |
| `Sadd`, `Lpush` | the two steps of `insertFileWithCovDiff` |
| `EndRound` | the end of `fuzz_dir` |
| `NodeDies`, `Die` | a killed node process, a killed fuzzer |

A download reads the global map; if it was killed it leaves the file of the previous
round, and after a redis error it writes a map of zeros (`Download`). A test case
without a `.t` file is given up after its coverage was taken for known (`typed`).

Two history variables say what a kill destroyed: `lost` is coverage registered
without its test case, `muted` what one fuzzer wrongly takes for known. Without
them the properties would have to be weaker, not the code different.

`SharedCorpus` is what the fuzzers expect of all this: reporting makes coverage
known and then stores a test case for good, or is abandoned half way; stored test
cases can be handed out any number of times. `SyncRefinement` maps redis onto it
and states that the protocol implements it (`ImplementsSharedCorpus`).

`SyncRace` adds to `GlobalSync` one history variable, `racing`: as a bit is registered, the
test cases whose reports of it have not reached their `SADD`. The code lets fuzzers race
between the download and `SADD`, so a bit may be queued several times; `OnlyRacersRepeat`
says by whom: only by the reports that were under way then. A populating fuzzer
does not ask what others have, and is the exception (`Unsynced`).

### FuzzLoop

One afl-fuzz process from `main` to `save_if_interesting`. The target's verdict, the
coverage of other fuzzers (`g` in `SaveNew`, `CrashNew`) and the signals are
nondeterministic. The steps are the stretches between two points where a signal can
make a difference: list a directory, load a test case, run it, look at the flags
(`PostStopped`, `PostSkip`, `PostSave`), save it (one action per branch), run it again
when it timed out and `exec_tmout < hang_tmout` (`Rerun`, `Judge`), keep a crash.
Of the counters it has those that `save_if_interesting` and `common_fuzz_stuff`
maintain. `setup`, which never changes, is how it was started: with `-i` or without
(`in_dir`), with limits that make it run timeouts again (`Reruns`), with somebody who
sends `SIGUSR1` (`Usr1`). The history variable `by` says who set a pending
`skip_requested`: the first run of a test case, a second run, or the signal. It
forgets a first run when the next test case is loaded, so that a request of a first run that
reached that test case would abandon it for no reason (`AbandonsForAReason`).

### ForkServer

`run_target` in one-read-or-write steps, the fork server of `afl-llvm-rt.o.c`, the
processes it forks, the two pipes, the interval timer and the two handlers that kill
(`Alarm`, `Stop`). A write to a pipe and a change of a process's state are one step
each. The child may end, crash, stop itself (persistent mode) or do none of it for
ever. `FuzzLoop` uses its result: a run returns, and the verdict is the test case's own.

### TestCase

`main` of `esfuzz.ts` with `mutate`, `insert` and `revert` of `estestcase.ts`. The parsed
program is a constant (`Node`, `Parent`, `Kind`, `Role`, `Stmts`, `OpOf`); the state is what the
mutator may change of it and how it remembers:

| Variable | Code |
|---|---|
| `at`, `op`, `body` | `path.node` of each parsed path, `operator`, the `body` of `bodies` |
| `removed`, `opchanged` | the undo logs of the same names |
| `cur` | the nodes of `curNodesMap` that weigh more than 0 |
| `todo`, `target`, `num` | the loop counters of `mutate` and `insert` |
| `varCnt` | the builder's counter of `__es_v` variables |

`mutateOp` has the operators that the four builders of `exp.ts` may put in a node's place;
`Given`, `Own` and `Mark` are `preMutate`, `nodes` and `Weighted` the map `preVisit` makes. The
builder is a choice: nothing, a statement that declares the next variable, or
something that declares none. A pick, a try and an insertion are one action each
(`MutateNothing`, `ReplaceNode`, `ChangeOp`, `BeginTry`, `InsertStatement`), `revert` is one,
since nothing runs beside it. What `replaceWith`, `insertAfter` and `remove` do, and that
babel keeps the `key` of a path right, is external; that `replaceWith` may throw is not.
`main` never mutates and inserts in one test case, so neither does the model.

### FuzzInputs

The directory `fuzz_inputs` across rounds: `Fetch` (`getNextTestcase`), `ReadInput` (`Code.parse`), the two
writes of each test case (`DumpCode`, `DumpTypes`), the end of the thirty seconds
(`TimeOut`), then `fuzz_dir` (`RunNothing`, `RunCase` with `Insert`). A test case is known by
the round and place it was made in, its types by the test case they belong to, both
by how many nodes they are about. A file is written in one piece, but may be left
empty when esfuzz is killed after it was opened. The specification is `FilesSpec`: its names are
apart from those of `TypedAST`, as `Types_proofs` extends both.

### Types, Specs, Weights, Builtins

The tables of the code builder. `Types` abstracts a type to the set of its members
(a `MixedType` has several), each with the class it is of and, for arrays,
constructors and prototypes, what it is of; `isMatch` and the keys of `typeMap` are
operators on that. Two instances of one class count as one type. `Specs` has the
operators, properties and functions of `esspecs.ts`: what each needs and gives. Those of one
table that need and give the same are one entry, named after the first. `Weights` says
which of them the builders may use, `Builtins` which belong to which builtin class and
constructor, with the order in which `engine/builtin.ts` fills its maps.

### BuildContext, Expressions, Builder

One call of the code builder, from the place in the test case to the node.
`BuildContext` is the constructor of `BuildingContext` one builder at a time (`turn`): the
literals, the variables in scope and the constructors they bring are offered, then
every builder imports the rules whose needs are offered, round after round while an
expression builder adds something. `Expressions` says, for a wanted type and a
preference, from what `typeBuilder.build` chooses and, per builder, which parts it builds
first and which node it makes of them. `Builder` runs that: the recursion of the
code is a stack of frames, `now` is the call or the return in progress, so that every
intermediate node is a state. An action is one call or one return (`BuildNode`,
`ReturnPart`, ... , `ChooseStatement`, `ReturnBody`, `ReturnTry`). `inFuncExp` is the flag of
`FunctionBuilder`. Any operator and any variable of the right kind may be taken, since the
weights only say how often.

What reading the code for this module showed, and the model reproduces:
`Random.number(1)` is always 0, so the properties of weight 1 of a descriptor are never
built (`exp.ts`); `genBuiltinStmt` and `genFunctionStmt` go on with -1 at step 0, so that
nothing bounds the depth below them (`statement.ts:171`, `:188`; `NestingIsBounded` says it
is nobody else); a unary operator, a property without an object and
arguments of `new` whose types are asked as one mixed type never yield a node; a variable of type
`any` may be picked where an array is wanted, and its element then has no type
(the exception in `NodesMatch`); `StringCtor` and `ArrayCtor` take the weights of the date
constructor. The flag `inFuncExp` is not reset when a builder throws; nothing in the
model throws, as the assertions that could are the properties.

### TypeTerms, TypedAST

The types of a program from the trace to the fuzzer. `TypeTerms` has types with their
parts, as far as `isEqual` looks (a type is a tree, given as the function from the paths in
it to its nodes, so that types of any depth need no recursive definition), what they are made of in the typer's trace (`json2type`)
and by the name of a builtin (`getType`), and what JSON does to them (`deserialize`, which
turns a function expression into a function and a named prototype into the singleton). A
tree in `TypedAST` is the sequence of its nodes in the order of entering. `InferEnter`,
`InferExit` and `EndRound` are the traversals of `infer()`, with one operator for each
node type's rule; `writeToFile` writes the program and, separately, the types;
`Parse`, `ParseEnter`, `ParseExit` and `ParseEnd` read them back and compute depths;
`MutateNode` is a mutation, which gives a node a new subtree with types of its own. Of a
number only what is printed of it is kept: many texts in the table of `const/number.ts` are
not numbers, so that `gen` gives `NaN`, which is negated and comes back as `-` and an
identifier; the tree keeps its shape all the same. babel's generator also puts a block around an
`if` that ends the consequent of an `if` with an `else`, a node without a type: the programs are
assumed to have that block already (`Braced`, an assumption that the run evaluates and
`AlignedAlways` rests on; section 6).

`isEqual` is equality of trees. The code compares the keys of two object types by reference
(`estypes.ts:1203-1206`) and takes any two function expressions for equal (`:1230`). A type
reaches another node by reference, so for a type and its copy there is no difference; where
objects of one shape were seen in two places the code needs another round to copy one over
the other, and ends with the same types.

### Typer

`typer.py` walks a directory: `Profile` or `ProfileTimesOut` (d8 prints any sequence of
lines, whole, noisy, cut off or not even text), `ResolveLine`, `ResolveFails`, then
the two steps of writing a `.t` (`OpenTypes`, `WriteTypes`). It may be killed or die of an
exception anywhere (`Kill`) and be started again (`Restart`). `Sort`, `Deal`, `CopyJs`, `CopyTypes`
are `make_initial_corpus.py`, killed anywhere as well (`KillCopy`). Faithfully to the code: a
timeout leaves an output of `None`, which ends the script; a `.t` that was opened and
not written is taken for types from then on; on four CPUs or fewer there is nothing
to deal to (`range` raises for none, and deals nothing for less than none).

### OutDir

The output directory of one CPU from session to session, in steps of one system call,
so that a kill (`Die`) falls between any two. `Start`, `MkOut`, `Lock` and `Judge` decide
whether a start may have the directory; `Move` to `DropPlot` are `maybe_delete_out_dir`
(`Unlink` and `Rmdir` are `delete_files`, one file at a time), `MakeDirs` the rest of
`setup_dirs_fds`. Then a session keeps what it finds (`Keep`, `KeepReadme`), runs
programs (`System`, `HelperEnds`) and rewrites its statistics (`TruncStats`, `CloseStats`);
`Stop` and `Finish` are its two ends. `plan` is the order in which new sessions (`-i` a
directory, or none) and resumed ones (`-i -`) are started, by any process that is not running.

The programs that `system()` runs inherit the descriptor of the lock, so the lock is free
(`Free`) only when no process holds it and no such program is left. Of the statistics
it matters whether they are missing, cut off (`torn`), or of a session that is younger
or older than `OUTPUT_GRACE`. `cleans` and `why` say what a start found and died
of, `aged` is a history variable: what there was when a session last called
itself old. Not told apart: the four directories in `queue/.state`, whose absence
`delete_files` takes for success, files of a fixed name that
are unlinked and may be missing, and the names of the backups, which have the time to the second:
two resumptions that both find a crash are assumed to be a second apart.

### MC modules

`MCGlobalSync`, `MCSyncRace`, `MCFuzzLoop`, `MCTestCase`, `MCBuilder`, `MCTypedAST`, `MCTyper`
and `MCOutDir` give the constants of the runs.

## 3. The runs

| Run | Instance | Shows |
|---|---|---|
| `sync_corpus` | a populating fuzzer whose test cases crash and a fuzzing one started twice, kills at every step | registered coverage keeps its test case except where an insertion was cut, a fuzzer takes for known only what it may, what is queued is registered, nothing is reported twice, and all of it implements the shared corpus |
| `sync_live` | one populating and two fuzzing fuzzers, two edges, fair | only reports that raced for a bit repeat it, new coverage is scheduled for mutation, old test cases recur |
| `loop` | two directories of two, or a corpus, as the scripts start it and with re-runs, stopped at every step, skipped at any, fair | what is kept is new, sent and within the limits; one file at most is kept after a stop; a test case is abandoned only for its own exit, a streak of timeouts, or one second run or `SIGUSR1` before it; a stop ends the loop, populating ends |
| `fork_server` | four executions of a persistent target, stops, failures, fair | verdicts are right, stops leave no known process, the pipes stay in step, every run ends |
| `testcase` | `function f([a]) { +b; return; } c < d;`, two test cases of up to three mutations, or two tries of two insertions | revert restores, mutations do not overlap, declarations stay, nothing goes behind a return, variables are fresh |
| `inputs` | two test cases a round, three rounds, killed anywhere | nothing is overwritten before it ran, a kill mixes up one test case at most, or leaves it an empty file of types |
| `inputs_stale` | the same with two sizes | a disagreement of section 6 |
| `builder` | contexts of up to two types of variables out of five, four waiting calls | the context is complete, nodes have the wanted type and can be assigned to where they must, functions do not nest, a new variable can always be made |
| `typed_ast` | three functions that return each other, calls of each other or literals, 576 programs, with three types of a variable | inference settles but for two shapes of programs, calls agree with functions wherever they are, types written without nodes are read back to their nodes, weights are defined |
| `typer` | four programs, two starts, three to seven CPUs, killed anywhere | a written `.t` holds everything the run showed and nothing twice; every typed program is dealt once and evenly |
| `out_dir` | two processes, four orders of three or four starts, two things to find, killed at every step | one owner at a time, every cleanup copes with what an earlier one left, old work is not deleted for a new session, a directory whose statistics were cut off is left as it is, resuming loses no crash or hang |
| `out_dir_mixed` | a session resumed, then a new one resumed | a disagreement of section 6 |

Why the bounds are enough. The properties of `GlobalSync` relate two fuzzers and one
bit: a second bit is there to have something that is not bit 0 (which every `SADD`
registers), a third fuzzer, in `sync_live`, to keep producing. A fuzzer is started at
most twice, since a restart only forgets; the crash half of the code mirrors the path
half, so one fuzzer that crashes (`Crashing`) and one crash to keep show it. In
`FuzzLoop` what leaks from a test case leaks into the next, so two in a directory and
two directories show it; the limits are 1, so that they are reached; a map of one edge
with two buckets has both kinds of new coverage. In `ForkServer` a
stale flag reaches the next execution; four executions leave room for two in a row
after a kill; a persistent target may also end after each test case, as the engines
do, so its behaviours include theirs. In `TestCase` the logs of one test case meet the
next one, so two are made; the tree has an operator inside an expression statement
inside a function, which is what an overlap needs, a body that ends in a return and
one that does not. `MUTATE_MIN`, `MUTATE_MAX` and `MAX_TRY` are 4, 8 and 3 in the code:
smaller ones make the same tree fill up. In `FuzzInputs` the types of round 1 must meet
the code of round 2 and be read in round 3; that takes more than one size of test case
only when the sizes are compared (`inputs_stale`).

In `Builder` the context only asks which types are offered, so more than two types of
variables in scope add nothing but offers; the five types are those that the rules
treat differently (`MCBuilder`). `DEPTH` and `FUNC_SIZE` are 2 as `esfuzz.ts` sets them; a
`MaxStack` of 4 lets a statement, a function expression, its body and a part wait for each
other; `Ops` takes one operator for each way an operator is built. In `TypedAST` a type
travels from a function to a call through `funcMap`; three functions make chains and
cycles of calls in either order of declaration. The code gives up after 50 rounds; the
run after 9, which is more than any program needs that settles at all, and the others
go on for ever. `Typer` has a program that is too long and two of one size, and
outputs of up to three types of one place, which is what takes a record from a
type to a list. `OutDir` has a start that is cut, one that copes with it and one after
that, with a second process to race them; two finds let one be deleted and one not.
The orders of starts are those of the scripts and those with resumed sessions before,
between and after new ones (`Campaigns`). `CHECK_DEADLOCK` is off throughout because the instances stop at their
bounds, and because afl-fuzz really ends.

## 4. Fairness

* `sync_live`: weak fairness of each fuzzer's steps between two rounds. `system()` waits
  for the node process and redis answers; the run has no kills, as `SomeFuzzer`
  only asks that some fuzzer stays. There is no fairness of starting a fuzzer or
  of finding anything.
* `loop`: weak fairness of the loop. Its steps are calls that
  return; for `run_target` that is `RunsEnd`.
* `fork_server`: weak fairness of afl-fuzz, of the timer and of the fork server's own
  steps, which the kernel schedules. None of the child: a target may run for
  ever. None of `Boot`: a target may never become a fork server.

## 5. The proofs

The theorems are about every value of the constants that the assumptions in the
modules allow; the runs evaluate those assumptions. Each argument is an inductive
invariant, proved action by action.

**`GlobalSync_proofs`**, for every set of fuzzers, every map, every bound, with kills
anywhere: `TypeCorrect`, `CarriedAlways`, `RegisteredAlways`, `SeenAlwaysJustified`,
`NothingLost`, `Implements`, `ReportedOnceAlways`; and, about `SyncRace`, `OnlyRacersAlways`, which
assumes that nothing is killed (`MayDie = FALSE`), because a stale download makes it false. The
first four and the last rest on

    IInv == TypeOK /\ CoverageIsCarried /\ QueuedIsRegistered
                   /\ SeenIsJustified /\ PushIsRegistered /\ GcovIsOld

The properties are not inductive alone. That queued coverage is registered needs
`PushIsRegistered`: a fuzzer about to push has registered that very coverage.
That a fuzzer takes for known only what it may needs `GcovIsOld`: the file that a
failed download leaves is an older state of the global map, which only grows. The
steps that leave the queues alone share one lemma, those that add to the end or
the front of a list another. `OnlyRacersAlways` (`OnlyRacersRepeat`) adds `ReportsRaced`: a report
that meets registered bits was under way when they were registered. A new report meets none,
since its download was current (`NewReport`), and `SADD` records all that are left.

`Implements` (`ImplementsSharedCorpus`) and `ReportedOnceAlways` (`ReportedOnce`) rest on

    SInv == TypeOK /\ JobsAreOwn /\ QueuedIsSpent /\ JobsAreNew

A report is of the run that makes it; what a run is reporting, or has queued, is no longer
virgin to it, and virgin maps only shrink during a run, so its next report has nothing
in common with what it queued. Hence `SADD` maps to `Register`, whose
demand it meets (one report at a time, and no bit that this run has stored), `LPUSH` to
`Store`, a kill after `SADD` to `Abandon`, `RPOPLPUSH` to `HandOut`, and all else to a stutter
(`StepImplements`). For `ReportedOnce`, the lemmas `PushJoined`, `MovedOver` and `Rotated` say
what the three redis commands do to the two path lists taken as one.

**`TestCase_proofs`** proves every property of the run, for every tree, every choice of the
builder and every number of mutations. The first invariant is about the nodes:

    IInv == /\ Types /\ LogsAreParsed /\ ChangesAreLogged
            /\ PickableIsUntouched /\ NextIsParsed /\ RevertIsDefined

The heart is the pair `LogsAreParsed`, every entry ever logged is the parsed node or
operator of its path, and `PickableIsUntouched`, what can still be picked is unchanged
and neither above nor below anything replaced. The second makes the first inductive:
only untouched nodes are logged. Then undoing the logs in any order restores the
nodes (`NodesRestored`), the operators find a node that has one (`RevertDefined`), and
no mutation hits another (`NoOverlap`).

The second is about the bodies. `BodyInv` says that a body is always its parsed statements, in
their order, woven with built ones (`Weave`), and that a return stays at its end (`Woven`).
An insertion weaves one more statement in (`InsertStatementBodyInv`); what
`LocsToRemove` leaves of a woven body are the parsed statements (`RevertBodyInv`). Both halves
together are `RevertRestored` (`RevertRestores`), the second alone `ReturnStaysLast`.

`VarsStayFresh` adds `Fresh` and `Single`: a variable in the tree has a number above those of the
parsed program and not above `varCnt`, and is in one place only. `DeclarationsStay` adds
`OnlyWeighted`, only nodes that `preVisit` gave a positive weight are replaced, and that the
traversal gives no weight below a node that is marked -1. It assumes that no parameter has a default value
or is a rest parameter: those mark themselves 0 after their function marked them
-1, and then the property is false (section 6). The definitions of `Visited` and `Above` are recursive functions
on the tree; `VisitedDef` shows that they have the values their equations give, from the
assumption that every set of nodes has one whose parent is outside.

**`Builder_proofs`**: `NodesAlwaysMatch` (`NodesMatch`), `NestingAlwaysBounded`
(`NestingIsBounded`), `NewVariablesAlways` (`NewVariablesCanBeMade`), `ContextAlwaysClosed`
(`ContextIsClosed`) and the type invariant (`BuilderTyped`), for every set of variable types but those that no declaration
gives (`BuildContextAssumption`), any number of variables, any depth and any stack. The
invariant of the first two is that the stack and the call or return in progress are sound:

* `FrameOK`: what a frame still has to build, and what it will return, are goals and nodes
  that fit (`GoalOK`, `NodeOK`). A lost type can only come from an array index whose goal is open to
  anything (`MayBeAny`), which is the exception in `NodesMatch`;
* `Framed` and `Backed`: a step below 0 anywhere has a frame under it that
  started below 0 on purpose (`Over`), which is the exception in `NestingIsBounded`;
* `OneFunction`: at most one frame is a function, and `inFuncExp` says whether.

That a rule gives what its table says is one lemma for each table of `Specs`, that a builder
returns what was asked of it one for each builder of `Expressions`. `Provided` says what a context has
offered by when: the literals always, so that the declarations follow from them, and from
these that a variable can be made.

`ContextAlwaysClosed` says that the constructor of the context may stop when the expression
builders have nothing new, although the others could. It rests on

    ContextInv == TypeOK /\ Early /\ Provided /\ Founded /\ Marked /\ Closing

Table by table (`ValuesServe`, `ConstructorsServe`, ...), the entries of a builder wait for one
type at most that the literals do not bring (`Uniform`): it is one of six that
only variables bring (`Founded`), or an array, a typed array, an iterator or a
buffer. `+` is new in the first round, so that there is a second, and
four entries (`match`, `entries`, `of`, `buffer`) make these four types in the first round or, in
any later one, before the turn of the builder that waits for them (`Marked`). So in a round in which the
expressions find nothing new, every builder that has had its turn has offered all
it ever can (`Closing`), and the round that ends the loop is such a round.

**`Types_proofs`** proves the three properties of `TypedAST` that do not depend on how often
`infer()` goes round, for every tree that babel may give (`Parsed`), everything that the typer may
have seen (`Traced`), any number of rounds and any number of mutations and rewrites; and
those of `FuzzInputs`. A traversal is characterised once (`Walk`: the open nodes lie above the next
one, and all that came after one of them is deeper than it), with `WalkEnters`, `WalkExits`
and `WalkEnds` for its steps; `Done` are the nodes that were left, and leaving a node finds all that is
below it done.

`CallsAlwaysAgree` (`CallsAgree`) rests on

    InferInv == pc \in {"infer", "typed"} =>
                    /\ InferTyped /\ Declared
                    /\ ~change => ReturnsAgree /\ NamesAgree /\ CalleesAgree
                    /\ pc = "typed" => Done = Nodes

In a round without a change so far, each node that was left has the type that would be inferred
for it *now*, although what it was inferred from may lie anywhere: a function's type has what the
function returns (`ReturnsAgree`), the names have what `funcMap` has (`NamesAgree`), and the calls what
their callees say (`CalleesAgree`). An exit that changes nothing keeps all three (`QuietExit`), but for the
parameters that `inferFunction` sets to any without reporting it, and none of these is what a return gives or a call calls. `Declared` ties
`funcMap` to the node of a function whose name no other function has (`Sole`); with two of one name
the property is not true, and does not claim to be.

`AlignedAlways` (`TypesStayAligned`) and `WeightsAlways` (`WeightsAreDefined`) rest on

    ParseInv == /\ Stored(code, itype)
                /\ pc = "written" => Stored(file.code, file.types)
                /\ pc \in {"parse", "parsed"} => Reading /\ Measured
                /\ pc = "parsed" => Done = Nodes

`Stored` says that a tree is one that is printed node by node: none of its numbers is negative, so that none
becomes an operator and a number. `BuiltDef` and `MutantStored` show that nothing the builder makes
breaks this, `PrintedDef` that such a tree comes back with as many nodes, in the same places. `Reading` says
which types have been read so far, `Measured` what the depths cover: a node that was left covers all
below it, an open one what came after it, up to the next open one. `ReadDef` shows that `deserialize`
loses something of a type at most once, node by node of the type's tree.

Of `FuzzInputs`, for any number of rounds and test cases, it proves `NothingOverwritten`. The invariant `RanSoFar` says, for each place in the
directory and each point of the round, whether what lies there has been run. `MixUpsAreRare` proves
`OneMixUpPerKill` by counting: the mixed-up pairs that are queued or still lie in the
directory (`MixUps`) are together no more than kills, since only a kill adds one and
running a pair again queues no other.

**`FuzzLoop_proofs`** proves every invariant of `FuzzLoop`, for every map, limit and number of
files, with signals anywhere:

* `CountersAlways` (`CountersAgree`) from `TypeOK`, the property and `SecondRun`, which says
  what the second run of a timeout has already counted;
* `AtMostOneLateAlways` with `NotLateYet`: until the stop nothing counts as late, and at
  the stop at most one file is being judged;
* `PaidAlways` (`KeptIsPaidFor`): a virgin map only loses bits, so whatever is counted is
  paid by bits that are gone; the lemmas `Larger` to `NewBitsAreSpent` are the arithmetic of that;
* `AbandonsAlways` (`AbandonsForAReason`): a request that is pending has an owner, and that of a
  first run is pending only while its own test case is judged (`RequestHasOwner`).

**`ForkServer_proofs`** proves the three invariants of `ForkServer`. `AlwaysInStep` rests on

    IInv == TypeOK /\ InStep /\ Custody

`InStep` says for every pair of places of afl-fuzz and the fork server what lies in
the two pipes, `Custody` which process the fork server has and may still be alive.
`VerdictsAreRight` adds `Known` (when the timer runs, when the fork server may be gone,
which process the handlers know) and `Told` (what the status on its way says
about the test case), `StopsLeaveNoOrphan` adds who is left after a stop.

**`Typer_proofs`**, for every set of programs, places, types and outputs and every number of CPUs:
`WholeAlways` (`TypesAreWhole`), as what was merged so far lists exactly what the lines so far
showed, and torn files are paid by starts of the script; and `DealtAlways` (`CorpusIsDealt`) from

    CorpusInv == DealInv /\ CopyInv

`DealInv` follows the two loops of `make_initial_corpus.py`: after r whole rounds
and q CPUs of the next, the first q CPUs have r + 1 programs and the others r (`Level`), no program was dealt
twice (`SplitsAreDistinct`) and those of the rounds so far were (`FirstAreDealt`). When the
dealing ends that is all of them (`SplitsAreDealt`), which `CopyInv` carries through the copying: a
directory is the beginning of its CPU's split, with types, except for the copy in progress.

**`OutDir_proofs`** proves, for any number of processes, finds and orders of starts, everything
the run checks. `StepKinds` sorts the actions by what they do to the lock, to the
helper and to the place of the process; no kind makes a second owner (`OneOwner`,
for `AloneAlways`). So what one process does to the directory concerns no other
(`Others`, `OnlyOwnersTouch`), and the other theorems follow one process through its
start: `CleanupAlwaysCopes` with `Clear`, which says for every place between the cleaning
and the making of a directory that it is not there; `CrashesAreKept` (`ResumeKeepsCrashes`) with
`Saved`, that a resumed start has renamed what it removes; and `OldFindingsAreKept`
(`OldFindingsStay`) with `Findings`: work that was once recorded as old lies in a backup or in
`_resume`, where no start deletes it, or the statistics that protect it are old, or are
being rewritten by the session that is old (`Recorded`). `CutOffAlwaysLeft` (`CutOffIsLeft`) needs
`Torn`: a file that was cut off lies in a directory that was built, and whoever is past the
judgment of it, and does not write it, found it whole (`Whole`).

Model-checked only:

* liveness (`RunsEnd`, `StopEnds`, `PopulatingEnds`, `NewCoverageIsScheduled`, `OldCasesRecur`), which is
  outside the prover's reach;
* `InferenceSettles`, which is about a number of rounds: a chain of more than 50 functions that are declared
  in the wrong order would need more than the code makes, so it holds of programs of a few functions and is no
  theorem about all of them.

## 6. Disagreements found

With a run that shows them:

* `inputs_stale`: "There are types not consumed!?" is asserted when a test case is read.
  When `timeout 30` ends esfuzz between a `.js` and its `.t`, the new code is run, and
  perhaps queued, with the types of an earlier test case. The assertion is caught
  and not reported; the mutator goes on with wrong types.
* `out_dir_mixed`: a resumed session moves `queue` to `_resume`, "that gets deleted once
  import to the new queue/ is finished". The import (`pivot_inputs`, which ends with
  `nuke_resume_dir`) is commented out in `main`, so `_resume` stays for good. When a later
  session is resumed the rename fails, its queue is deleted, and the files of the first
  one are run once more. What was in the queue is still in redis; crashes and hangs
  are not touched (`ResumeKeepsCrashes`).

In the models, without a run of their own:

* `run_target` sets `skip_requested` when a test case exits with a status other than 0.
  When that happens in the second run of a timeout, which `save_if_interesting` starts,
  nobody clears it, and the next test case is abandoned although it exited
  normally (`Rerun`, then `PostSkip`); the comment in `common_fuzz_stuff` speaks of "the current input". It takes
  an `-t` below, or an `AFL_HANG_TMOUT` above, one second. `AbandonsForAReason` says that this
  is all: each such second run costs one later test case at most.
* "Any existing output directory can be also used to resume aborted jobs" (`docs/README`).
  `write_stats_file` truncates `fuzzer_stats` every minute and writes it when the buffer
  is flushed; a session killed in between leaves an empty file, on which every
  later start gives up until somebody removes it (`stats = "torn"` and `Judge` in `OutDir`). At
  least none touches what is there (`CutOffIsLeft`).
* `TMOUT_LIMIT` is "the number of subsequent timeouts before abandoning an input file"
  (`config.h`). `fuzz_one` resets the streak for each input file, and DIE replaced `fuzz_one` by
  `fuzz_js`, which does not: the timeouts of earlier input files abandon test cases of
  a new one (`Streak`, `TooManyTimeouts` in `FuzzLoop`).
* "Function Args are a type of declaration" (`estestcase.ts`), so they weigh -1 and their
  subtree is skipped. A rest parameter gets 0 again when it is visited itself, and
  the name in it is mutated like any expression (`Own` and `Mark` in `TestCase`; the tree of
  the run has none).
* A program with an `if` at the end of the consequent of an `if` with an `else`, and no braces there, is
  printed with braces, and all types after them are off by one when they are read back. This is how
  babel's generator is known to print; it is not part of the repository, so `Braced` takes such programs
  out and no run shows it.
* `inferPlus` reads `node.left` twice and never `node.right` (`esspecs.ts:137`).
* A function that returns itself, or whose result reaches itself, gets a type that
  grows by a level in every round of inference, and a parameter whose default has no
  type loses and regains its own: both use up all the rounds (`Nests`, `UntypedDefault`).
* A prototype is serialized as `Prototype` and looked for as `PrototypeType`
  (`estypes.ts:83`); a function expression is read back as a function. Both lose
  something once and are stable then (`TypesStayAligned`).
* `typer.py` writes types by location as an object, `esfuzz` reads a list; the inference
  between the two (`ParseRaw`, `Inferer`) is called from no entry point of the repository.
* A resumed session counts its age from its own start, so its directory is soon young
  again and a new session may clean it (`Age`, `CloseStats`); what it was resumed from stays in
  `_resume` and in the backups (`OldFindingsStay`).
* `kill.sh` kills the windows `fuzz-N` and `corpus-N`; `run-all.py` names them otherwise.
* `typer.py` dies of a timeout (`e.output` is `None`), of an output that is not UTF-8 and when
  d8 is missing; it ignores the exit status of `typer.ts`.

## 7. Not modelled, and the plan

Out of scope, and why:

* the rest of `base/const` and most of `esspecs.ts`: names, literals and regular
  expressions to print. They are more than half of the lines of the
  repository's own code and choose what is printed, never what happens;
* `typer.ts` and `jslib`: a source to source rewriting without state, and stubs for the
  globals of test suites; what the instrumented program prints is an input of `Typer`;
* `reportStatus` and the status page, plots and statistics of afl-fuzz: pure output;
* dumb mode and crash exploration mode (`-n`, `-C`), which no script of DIE uses;
* the queue of stock AFL (`calibrate_case`, `cull_queue`, `fuzz_one`, `trim_case`,
  `sync_fuzzers`): `fuzz_js` adds nothing to it;
* of the output directory, `.synced` (only with `-M` or `-S`), the auto dictionary and
  the bitmap file, which nothing in DIE reads again;
* the other AFL tools, qemu mode, the engine builds.

Done so far, in the order of risk (what several actors share first, then what one
process does, then the algorithms): `GlobalSync` with its refinement, `FuzzLoop`,
`ForkServer`, `TestCase`, `FuzzInputs`, the code builder, the typed AST, the typer, `OutDir`, and the
proofs of section 5, among them every safety property that a run checks and that is true of all programs.
Left: a bound on the rounds that `infer()` needs, by the number of functions of a program, instead of
`InferenceSettles`; class inference and `NewExpression` in `TypedAST`.
