------------------------------- MODULE Builder -------------------------------
(***************************************************************************)
(* The code builder (engine/type.ts, exp.ts, statement.ts, builtin.ts): a  *)
(* node of a wanted type, or a statement, is built from the offers of the  *)
(* building context by recursive descent.  The recursion is a stack of     *)
(* frames, one per call that waits for a part; now is what is done next.   *)
(* A node is the type it was given, and whether it is an identifier or a   *)
(* member, which may be assigned to.                                       *)
(***************************************************************************)
EXTENDS Expressions

CONSTANTS
    FUNC_SIZE,  \* builder.config
    Ops,        \* bound: the operators that a random choice may take
    MaxStack    \* bound: the calls that wait at a time

ASSUME BuilderAssumption == FUNC_SIZE \in Nat \ {0} /\ MaxStack \in Nat

VARIABLES stack, now, inFuncExp

builderVars == <<stack, now, inFuncExp>>

-----------------------------------------------------------------------------
(* What is done next: nothing, build a node, a statement, a statement on   *)
(* an object, or return a node.                                            *)
Idle == [do |-> "idle"]
Build(goal, step) == [do |-> "build", goal |-> goal, step |-> step]
BuildStatement == [do |-> "statement"]
OnObject(itype, step) == [do |-> "object", itype |-> itype, step |-> step]

(* In which order the parts are built makes no difference to the node.     *)
First(todo) == CHOOSE g \in todo : TRUE

(* A frame that waits for nothing is never pushed.                         *)
Enter(f) ==
    IF f.todo = {} THEN now' = f.done /\ UNCHANGED stack
    ELSE /\ Len(stack) < MaxStack
         /\ stack' = Append(stack, f)
         /\ now' = Build(First(f.todo), f.step)

Failed(f) ==
    Return(Null, IF f.done.do = "return" THEN f.done.goal ELSE Statement)

-----------------------------------------------------------------------------
BuilderInit ==
    /\ Init
    /\ stack = <<>> /\ now = Idle /\ inFuncExp = FALSE

Try(n) == [Frame("try", {}, DEPTH, Idle) EXCEPT !.left = n]

(* buildNodeForMutation, buildStatementForMutation: three attempts; the    *)
(* statements that are inserted are attempted once.                        *)
BuildNodeForMutation ==
    /\ mode = "mutate" /\ now = Idle
    /\ \E t \in VarTypes \cup {any, number},
          p \in {defaultPreference, lValPreference, complexPreference} :
            now' = Build(Goal(t, p), DEPTH)
    /\ stack' = <<Try(2)>>
    /\ UNCHANGED inFuncExp

BuildStatements ==
    /\ now = Idle
    /\ now' = BuildStatement
    /\ stack' = <<Try(IF mode = "mutate" THEN 2 ELSE 0)>>
    /\ UNCHANGED inFuncExp

(* typeBuilder.build of a type that is not built directly.                 *)
Choose ==
    /\ now.do = "build" /\ now.goal.type \notin {functionExp, descriptor}
    /\ LET allowed == {o \in offers : o.dsp.op \in Ops \cup {"var"}}
           C == Candidates(allowed, now.goal.type, now.goal.pref, now.step)
       IN \/ C = {} /\ now' = Return(Null, now.goal) /\ UNCHANGED stack
          \/ \E o \in C : \E way \in Ways(o, now.goal, now.step) : Enter(way)
    /\ UNCHANGED inFuncExp

BuildFunctionExpression ==
    /\ now.do = "build" /\ now.goal.type = functionExp
    /\ IF inFuncExp
       THEN now' = Return(Null, now.goal) /\ UNCHANGED <<stack, inFuncExp>>
       ELSE /\ Len(stack) < MaxStack
            /\ inFuncExp' = TRUE
            /\ stack' = Append(stack,
                  [Frame("function", {}, DEPTH,
                         Return(Node(functionExp, FALSE), now.goal))
                      EXCEPT !.left = FUNC_SIZE])
            /\ now' = BuildStatement

(* Random.number(w) is 0 for a property of weight 1: of those, none.  The  *)
(* values of the others are functions, and one of any type.                *)
BuildShapedObject ==
    /\ now.do = "build" /\ now.goal.type = descriptor
    /\ \E todo \in SUBSET Sub({any, functionExp}) :
          Enter(Frame("shape", todo, DEPTH,
                      Return(Node(descriptor, FALSE), now.goal)))
    /\ UNCHANGED inFuncExp

-----------------------------------------------------------------------------
(* StatementBuilder.build: on a variable, a new variable, on a constructor.*)
Done == Return(Node({}, FALSE), Statement)
Failure == Return(Null, Statement)

ChooseStatement ==
    /\ now.do = "statement"
    /\ \/ \E t \in variables : now' = OnObject(t, DEPTH) /\ UNCHANGED stack
       \/ \E t \in typesForNewVar :
             Enter(Frame("all", {Goal(t, initPreference)}, DEPTH, Done))
       \/ \E c \in ctors :
             IF CtorBuilderOf[c].funcs = {} THEN now' = Failure /\ UNCHANGED stack
             ELSE \E d \in {d \in CtorBuilderOf[c].funcs : d.op \in Ops} :
                    \E call \in Calls(d, {d.on}, DEPTH, Done) : Enter(call)
    /\ UNCHANGED inFuncExp

(* genObjBasedStmt: by the class of the object, which a mixed type has not.*)
On(classes) ==
    /\ now.do = "object"
    /\ \E m \in now.itype : now.itype = {m} /\ m.base \in classes
Class == CHOOSE c \in {m.base : m \in now.itype} : TRUE
ElemOf(itype) ==
    UNION {T(m.of) : m \in {m \in itype : itype = {m} /\ m.base = "array"}}

Assign ==
    /\ On({"number", "string", "boolean", "array", "typedarray", "any",
           "object"})
    /\ Enter(Frame("all", Sub({now.itype}), DEPTH, Done))
    /\ UNCHANGED inFuncExp

UpdateObject ==
    /\ On({"number"})
    /\ now' = Done
    /\ UNCHANGED <<stack, inFuncExp>>

MemberType == IF Class = "array" THEN ElemOf(now.itype) ELSE number
Index ==
    /\ On({"array", "typedarray"}) /\ now.step # 0
    /\ Enter(Frame("all", Sub({number}), Less(now.step),
                   OnObject(MemberType, Less(now.step))))
    /\ UNCHANGED inFuncExp

MemberOf ==
    /\ On({"object"}) /\ now.step # 0
    /\ \E t \in VarTypes : now' = OnObject(t, Less(now.step))
    /\ UNCHANGED <<stack, inFuncExp>>

(* genBuiltinStmt: whatever the step.                                      *)
CallBuiltin ==
    /\ On({"string", "array", "typedarray", "any", "object", "date", "regexp",
           "map", "set", "weakmap", "weakset", "arraybuffer", "dataview"})
    /\ \/ \E d \in BuilderOf[Class].props :
             /\ d.op \in Ops
             /\ now' = OnObject(d.gives, Less(now.step)) /\ UNCHANGED stack
       \/ \E d \in {d \in BuilderOf[Class].funcs : d.op \in Ops} :
             \E call \in Calls(d, {}, now.step, Done) : Enter(call)
    /\ UNCHANGED inFuncExp

(* A function is called unless it is the one the path is in, or a member.  *)
CallFunction ==
    /\ On({"function"})
    /\ \/ now' = Failure /\ UNCHANGED stack
       \/ \E todo \in SUBSET Sub({any}) :
             Enter(Frame("all", todo, Less(now.step), Done))
    /\ UNCHANGED inFuncExp

NoStatement ==
    /\ now.do = "object"
    /\ ~On(DOMAIN BuilderOf \cup {"boolean", "function"}) \/ On({"iterator"})
    /\ now' = Failure
    /\ UNCHANGED <<stack, inFuncExp>>

-----------------------------------------------------------------------------
(* A node, or null, is returned to the frame that waits for it.            *)
Top == stack[Len(stack)]
Pop == stack' = SubSeq(stack, 1, Len(stack) - 1)
Returned(kinds) == now.do = "return" /\ stack # <<>> /\ Top.kind \in kinds

(* The parts that are left, or what the frame does when there is none.     *)
Continue(done) ==
    LET todo == Top.todo \ {now.goal} IN
    IF todo = {} THEN now' = done /\ Pop
    ELSE /\ now' = Build(First(todo), Top.step)
         /\ stack' = [stack EXCEPT ![Len(stack)].todo = todo,
                                   ![Len(stack)].done = done]

ReturnPart ==
    /\ Returned({"all", "update", "index", "member"})
    /\ IF now.node.null \/ (Top.kind = "update" /\ ~now.node.lval)
       THEN now' = Failed(Top) /\ Pop
       ELSE Continue(IF Top.kind = "index" /\ now.goal.type # number
                     THEN [Top.done EXCEPT !.node.itype = ElemOf(now.node.itype)]
                     ELSE Top.done)
    /\ UNCHANGED inFuncExp

(* An element that could not be built is built again.                      *)
ReturnElement ==
    /\ Returned({"elements"})
    /\ \/ now' = Build(now.goal, Top.step) /\ UNCHANGED stack
       \/ ~now.node.null /\ now' = Top.done /\ Pop
    /\ UNCHANGED inFuncExp

ReturnProperty ==
    /\ Returned({"shape"})
    /\ Continue(Top.done)
    /\ UNCHANGED inFuncExp

resetInFuncExp == inFuncExp' = FALSE

(* FUNC_SIZE statements, each repeated until it is built, and then perhaps *)
(* a return value.                                                         *)
retTypes == {any, undefined, boolean}
ReturnBody ==
    /\ Returned({"function"})
    /\ IF now.goal = Statement
       THEN /\ UNCHANGED inFuncExp
            /\ IF now.node.null \/ Top.left > 1
               THEN /\ now' = BuildStatement
                    /\ stack' = [stack EXCEPT ![Len(stack)].left =
                                     IF now.node.null THEN @ ELSE @ - 1]
               ELSE \E t \in retTypes :
                       /\ now' = Build(Goal(t, defaultPreference), DEPTH)
                       /\ UNCHANGED stack
       ELSE now' = Top.done /\ Pop /\ resetInFuncExp

Retries == Top.left > 0
ReturnTry ==
    /\ Returned({"try"})
    /\ IF now.node.null /\ Retries
       THEN /\ now' = IF now.goal = Statement THEN BuildStatement
                      ELSE Build(now.goal, DEPTH)
            /\ stack' = [stack EXCEPT ![Len(stack)].left = @ - 1]
       ELSE now' = Idle /\ Pop
    /\ UNCHANGED inFuncExp

BuilderNext ==
    \/ Next /\ UNCHANGED builderVars
    \/ /\ pc = "ready" /\ UNCHANGED vars
       /\ \/ BuildNodeForMutation \/ BuildStatements
          \/ Choose \/ BuildFunctionExpression \/ BuildShapedObject
          \/ ChooseStatement \/ Assign \/ UpdateObject \/ Index \/ MemberOf
          \/ CallBuiltin \/ CallFunction \/ NoStatement
          \/ ReturnPart \/ ReturnElement \/ ReturnProperty \/ ReturnBody \/ ReturnTry

BuilderSpec == BuilderInit /\ [][BuilderNext]_<<vars, builderVars>>

-----------------------------------------------------------------------------
Kinds == {"all", "update", "index", "member", "elements", "shape", "function", "try"}
BuilderTypeOK ==
    /\ TypeOK
    /\ now.do \in {"idle", "build", "statement", "object", "return"}
    /\ Len(stack) <= MaxStack + 1 /\ (now = Idle <=> stack = <<>>)
    /\ \A k \in DOMAIN stack : /\ stack[k].kind \in Kinds
                              /\ stack[k].kind = "try" <=> k = 1
                              /\ stack[k].step \in Int /\ stack[k].left \in Nat
    /\ inFuncExp \in BOOLEAN

MayBeAny(type) == \E m \in type : m.base = "any"
TypeMatches ==
    \/ isMatch(now.node.itype, now.goal.type, TRUE)
    \/ now.node.itype = {} /\ MayBeAny(now.goal.type)

(* A node that is built has a type that matches the one wanted; only where *)
(* any type will do, the type may be lost: buildArrayIndex takes the       *)
(* elemType of whatever the variable builder picked for an array.  What    *)
(* replaces the target of an assignment, of ++ or of delete may be         *)
(* assigned to, and what a statement is built on has a type, as            *)
(* genObjBasedStmt asserts.                                                *)
NodesMatch ==
    /\ now.do = "return" /\ ~now.node.null /\ now.goal # Statement =>
          /\ TypeMatches
          /\ now.goal.pref = lValPreference => now.node.lval
    /\ now.do = "object" => now.itype # {}

(* inFuncExp is set exactly while a function expression is built.          *)
FlagTracksFunction ==
    LET functions == {k \in DOMAIN stack : stack[k].kind = "function"}
    IN  Cardinality(functions) = IF inFuncExp THEN 1 ELSE 0

(* The step is tested for 0 only, and genBuiltinStmt goes on at step 0: but *)
(* for such a statement on an object, in whose parts nothing bounds the    *)
(* depth any more, a step never passes 0.                                  *)
OnlyStatementsOverrun ==
    now.do = "build" /\ now.step < 0 =>
        \E k \in DOMAIN stack :
            /\ stack[k].step < 0
            /\ \/ stack[k].done.do = "object"
               \/ stack[k].done.do = "return" /\ stack[k].done.goal = Statement

(* What ends the recursion of the builders: function expressions do not    *)
(* nest, although their bodies are built by the very builder that builds   *)
(* them, and with no step left only statements on an object go on.         *)
NestingIsBounded == FlagTracksFunction /\ OnlyStatementsOverrun

(* In every context, even one without a variable, a new variable of every  *)
(* type that genNewVar may choose can be made, if need be of one operator  *)
(* and its leaves: BlockStatementBuilder, which repeats a statement until  *)
(* there is one, is never given a context that has none.                   *)
NewVariablesCanBeMade ==
    pc = "ready" /\ now = Idle =>
        \A t \in typesForNewVar :
            \E way \in Possible(Goal(t, initPreference), DEPTH) : FromLeaves(way)
=============================================================================
