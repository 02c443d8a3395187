----------------------------- MODULE Expressions -----------------------------
(***************************************************************************)
(* How a node of a wanted type can be built from the offers of a building  *)
(* context: the choice of typeBuilder.build (engine/type.ts) and, for each *)
(* builder of exp.ts, literal.ts, var.ts and builtin.ts, the parts that it *)
(* builds first and the node that it makes of them.                        *)
(***************************************************************************)
EXTENDS BuildContext, Integers

CONSTANT DEPTH  \* builder.config

ASSUME ExpressionsAssumption == DEPTH \in Nat \ {0}

-----------------------------------------------------------------------------
(* Preferences: the maps of the context a node may be built from.          *)
Maps == {"var", "lit", "mem", "exp", "bui", "def"}
Preference(barred, objectLike) ==
    [maps |-> Maps \ barred, objectLike |-> objectLike]
defaultPreference == Preference({"def"}, TRUE)
lValPreference == Preference({"def", "lit", "exp", "bui"}, TRUE)
objMemPreference == Preference({"def", "lit", "exp", "bui"}, FALSE)
complexPreference == Preference({"def", "var", "lit"}, TRUE)
(* Mutant: the initial value of a variable is chosen by default.           *)
initPreferenceDefault == defaultPreference
initPreference == Preference({}, TRUE)
updatePreference == Preference({"def", "lit", "exp"}, TRUE)

MapOf(builder) ==
    CASE builder = "Variable" -> "var"
      [] builder = "Literal" -> "lit"
      [] builder = "MemberExpression" -> "mem"
      [] builder \in {"BinaryExpression", "UnaryExpression", "UpdateExpression",
                      "LogicalExpression"} -> "exp"
      [] builder \in {"NewExpression", "ArrayExpression"} -> "def"
      [] OTHER -> "bui"

(* Mutant: with no step left, a member expression is built as well.        *)
LeafMem(builder) == MapOf(builder) \in {"var", "lit", "mem"}
(* What may be built with no step left.                                    *)
Leaf(builder) == MapOf(builder) \in {"var", "lit"}

(* What typeBuilder.build chooses from.                                    *)
Candidates(offered, type, pref, step) ==
    {o \in offered :
        /\ MapOf(o.builder) \in pref.maps
        /\ isMatch(o.dsp.gives, type, pref.objectLike)
        /\ \/ type = any
           \/ getCompatibleBaseTypes(o.dsp.gives, FALSE)
                 \cap getCompatibleBaseTypes(type, pref.objectLike) # {}
        /\ step # 0 \/ Leaf(o.builder)}

-----------------------------------------------------------------------------
(* What is done next: build a node, a statement, a statement on an object, *)
(* or return a node for what was asked (goal).                             *)
Goal(type, pref) == [type |-> type, pref |-> pref]
Sub(types) == {Goal(t, defaultPreference) : t \in types}
Statement == Goal({}, defaultPreference)  \* no node is asked of this type

Node(itype, lval) == [itype |-> itype, lval |-> lval, null |-> FALSE]
Null == [itype |-> {}, lval |-> FALSE, null |-> TRUE]

Return(node, goal) == [do |-> "return", node |-> node, goal |-> goal]

(* A frame waits for the goals of todo, built with step, then does done.   *)
Frame(kind, todo, step, done) ==
    [kind |-> kind, todo |-> todo, step |-> step, done |-> done, left |-> 0]

-----------------------------------------------------------------------------
(* step - 1.  The step is only ever tested for 0: those below are alike.   *)
Less(step) == IF step < 0 THEN step ELSE step - 1

(* The ways a candidate builds a node for the goal, one frame each.        *)
Calls(d, types, step, done) ==
    {Frame("all", Sub(types \cup d.must \cup may), Less(step), done) :
        may \in SUBSET d.may}

(* Mutant: any variable of the context is taken.                           *)
VariableWaysAny(goal) ==
    {Frame("all", {}, 0, Return(Node(t, TRUE), goal)) : t \in variables}
VariableWays(goal) ==
    LET matching == {t \in variables : isMatch(t, goal.type, FALSE)}
    IN  {Frame("all", {}, 0, Return(Node(t, TRUE), goal)) : t \in matching}
        \cup IF matching # {} THEN {}
             ELSE {Frame("all", {}, 0, Return(Null, goal))}

(* buildBuiltinConstructor goes by the type wanted, not by the one offered.*)
LiteralWays(d, goal) ==
    LET known == {Ctor(constructorTypes[b]) : b \in DOMAIN constructorTypes}
        node == IF d.op # "BuiltinConstructor" THEN Node(d.gives, d.op = "Math")
                ELSE IF goal.type \in known THEN Node(goal.type, TRUE) ELSE Null
    IN  {Frame("all", {}, 0, Return(node, goal))}

BinaryWays(d, goal, step) ==
    IF d.op = "+" THEN
        {Frame("all", Sub({goal.type}), Less(step),
               Return(Node(goal.type, FALSE), goal))}
    ELSE IF d.op = "==" THEN
        {Frame("all", Sub({t}), Less(step),
               Return(Node(boolean, FALSE), goal)) :
            t \in {number, string, object}}
    ELSE Calls(d, {}, step, Return(Node(d.gives, FALSE), goal))

(* doBuild tests argument, the node it was called with, which is null.     *)
UnaryWays(d, goal, step) == Calls(d, {}, step, Return(Null, goal))

UpdateWays(d, goal, step) ==
    {Frame("update", {Goal(number, updatePreference)}, Less(step),
           Return(Node(d.gives, FALSE), goal))}

(* The index of an array gives the element type of the array that is built.*)
MemberWays(d, goal, step) ==
    CASE d.op = "array" ->
            {Frame("index", Sub({getArrayType(goal.type), number}), Less(step),
                   Return(Node({}, TRUE), goal))}
      [] d.op = "typedarray" ->
            {IF goal.type # number THEN Frame("all", {}, 0, Return(Null, goal))
             ELSE Frame("all", Sub({typedarray, number}), Less(step),
                        Return(Node(number, TRUE), goal))}
      [] d.op = "object" ->
            {Frame("member", {Goal(object, objMemPreference)}, Less(step),
                   Return(Node(t, TRUE), goal)) :
                t \in {t \in VarTypes : isMatch(t, goal.type, TRUE)}}
            \cup {Frame("member", {Goal(object, objMemPreference)}, Less(step),
                        Return(Null, goal))}

NewWays(d, goal, step) == Calls(d, {}, step, Return(Node(d.gives, FALSE), goal))

ArrayWays(d, goal, step) ==
    {Frame("elements", Sub({IF d.op = "Any" THEN any ELSE number}), Less(step),
           Return(Node(d.gives, FALSE), goal)),
     Frame("elements", {}, Less(step), Return(Node(d.gives, FALSE), goal))}

PropertyDsps == UNION {Builders[k].props : k \in DOMAIN Builders}

(* buildProp tests object as well: a property is built for statements only.*)
BuiltinWays(d, goal, step) ==
    IF d \in PropertyDsps
    THEN {Frame("all", Sub({d.on}), Less(step), Return(Null, goal))}
    ELSE Calls(d, {d.on}, step, Return(Node(d.gives, FALSE), goal))

Ways(o, goal, step) ==
    CASE o.builder = "Variable" -> VariableWays(goal)
      [] o.builder = "Literal" -> LiteralWays(o.dsp, goal)
      [] o.builder = "MemberExpression" -> MemberWays(o.dsp, goal, step)
      [] o.builder = "BinaryExpression" -> BinaryWays(o.dsp, goal, step)
      [] o.builder = "UnaryExpression" -> UnaryWays(o.dsp, goal, step)
      [] o.builder = "UpdateExpression" -> UpdateWays(o.dsp, goal, step)
      [] o.builder = "NewExpression" -> NewWays(o.dsp, goal, step)
      [] o.builder = "ArrayExpression" -> ArrayWays(o.dsp, goal, step)
      [] OTHER ->
            IF MapOf(o.builder) = "exp" THEN Calls(o.dsp, {}, step,
                Return(Node(o.dsp.gives, FALSE), goal))
            ELSE BuiltinWays(o.dsp, goal, step)

-----------------------------------------------------------------------------
(* The types of the variables that a statement may declare.                *)
typesForNewVar == {number, object, array, numberArray, typedarray, string,
                   date, regexp, map, set, any}

(* A way to the goal that may succeed: at the last step, from a leaf.      *)
Possible(goal, step) ==
    {way \in UNION {Ways(o, goal, step) :
                     o \in Candidates(offers, goal.type, goal.pref, step)} :
        ~way.done.node.null}
FromLeaves(way) ==
    \A g \in way.todo :
        g.type \in {functionExp, descriptor} \/ Possible(g, 0) # {}
=============================================================================
