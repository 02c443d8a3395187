---------------------------- MODULE BuildContext ----------------------------
(***************************************************************************)
(* The building context (engine/context.ts): which variables, literals,    *)
(* expressions and builtins may be used to build code at one place of a    *)
(* test case.  The constructor of BuildingContext offers the literals, the *)
(* variables in scope and their constructors, then imports the rules of    *)
(* every builder whose needs are offered, and goes round the builders for  *)
(* as long as an expression builder adds something.                        *)
(***************************************************************************)
EXTENDS Builtins, Naturals, Sequences, FiniteSets

CONSTANTS
    VarTypes,  \* the types the variables of the test case may have
    InScope    \* bound: how many of them there are above the path

(* Function expressions and descriptors are types of arguments only: those *)
(* of a variable are Function and Object.                                  *)
ASSUME BuildContextAssumption ==
    InScope \in Nat /\ \A t \in VarTypes : t \notin {{}, functionExp, descriptor}

VARIABLES
    mode,        \* "mutate" a node or "insert" statements
    bindings,    \* path.scope.getAllBindings(): where declared, and its itype
    pc,
    variables,   \* context.variables, their types
    ctors,       \* availCtors, then ctorWeights
    offers,      \* the seven maps: rules, and with it typeMap, is read off it
    turn,        \* the builder of the loop whose turn it is
    updated

vars == <<mode, bindings, pc, variables, ctors, offers, turn, updated>>

-----------------------------------------------------------------------------
Offer(builder, dsp) == [builder |-> builder, dsp |-> dsp]

(* The keys of typeMap: the base types of everything offered.              *)
BaseTypes(offered) ==
    UNION {getCompatibleBaseTypes(o.dsp.gives, FALSE) : o \in offered}

isTypeSupported(type, bases) ==
    \/ type \in {any, object, descriptor, functionExp}
    \/ getCompatibleBaseTypes(type, FALSE) \cap bases # {}

(* What tryImportBuilder asks for: dsp.args is null for literals, members, *)
(* new and array expressions; a function is asked for its object as well.  *)
Unchecked == {"Literal", "MemberExpression", "NewExpression", "ArrayExpression"}
Needs(builder, dsp) ==
    IF builder \in Unchecked THEN {}
    ELSE (IF dsp.on = {} THEN {} ELSE {dsp.on}) \cup dsp.must \cup dsp.may

Importable(builder, dsps, offered) ==
    LET bases == BaseTypes(offered) IN
    {o \in {Offer(builder, d) : d \in dsps} \ offered :
        \A type \in Needs(builder, o.dsp) : isTypeSupported(type, bases)}

-----------------------------------------------------------------------------
(* The builders in the order of the loop, and after it.                    *)
Expression(name, dsps, weights) == Builtin(name, dsps, weights, {}, {})
Expressions == <<
    Expression("MemberExpression",
               MemberExpressionDsps, MemberExpressionWeight),
    Expression("BinaryExpression",
               BinaryExpressionDsps, BinaryExpressionWeight),
    Expression("UnaryExpression",
               UnaryExpressionDsps, UnaryExpressionWeight),
    Expression("UpdateExpression",
               UpdateExpressionDsps, UpdateExpressionWeight),
    Expression("LogicalExpression",
               LogicalExpressionDsps, LogicalExpressionWeight)>>
Builders == Expressions \o builtinBuilders \o builtinCtorBuilders
Declarations ==
    {Offer("NewExpression", d) :
        d \in Weighted(NewExpressionDsps, NewExpressionWeight)}
    \cup {Offer("ArrayExpression", d) : d \in ArrayExpressionDsps}

(* A variable brings the builtin constructor its class is named after,     *)
(* unless isNotInterestingCtors.                                           *)
constructorTypes ==
    [number |-> "Number", date |-> "Date", string |-> "String",
     regexp |-> "RegExp", array |-> "Array", typedarray |-> "TypedArray",
     map |-> "Map", set |-> "Set", weakmap |-> "WeakMap", weakset |-> "WeakSet",
     arraybuffer |-> "ArrayBuffer", dataview |-> "DataView",
     function |-> "Function", object |-> "Object", boolean |-> "Boolean",
     error |-> "Error", promise |-> "Promise", proxy |-> "Proxy",
     symbol |-> "Symbol"]
NotInterestingCtors ==
    {"Function", "Error", "Promise", "Proxy", "Symbol", "Boolean", "Reflect"}
ConstructorsOf(types) ==
    {constructorTypes[b] :
        b \in {b \in DOMAIN constructorTypes :
                    \E t \in types : \E m \in t : t = {m} /\ m.base = b}}
    \ NotInterestingCtors

-----------------------------------------------------------------------------
(* A binding is above the path, is the function the path declares (own,    *)
(* where statements are inserted into its body), or is neither of them;    *)
(* one that inference left untyped has no itype.                           *)
Binding == {[place |-> p, itype |-> t] : p \in {"above", "below"},
                                         t \in VarTypes \cup {{}}}
           \cup {[place |-> "own", itype |-> function]}

isValidBinding(b) ==
    b.place = "above" \/ (mode = "insert" /\ b.place = "own")

Init ==
    /\ mode \in {"mutate", "insert"}
    /\ \E typed \in {s \in SUBSET VarTypes : Cardinality(s) <= InScope},
          own \in {FALSE, mode = "insert"} :
         bindings = {b \in Binding : \/ b.itype \in typed /\ b.place = "above"
                                     \/ b.itype \notin typed /\ b.place = "below"
                                     \/ b.itype = {}
                                     \/ b.place = "own" /\ own}
    /\ pc = "literals"
    /\ variables = {} /\ ctors = {"Number", "Object"} /\ offers = {}
    /\ turn = 1 /\ updated = FALSE

ImportLiterals ==
    /\ pc = "literals"
    /\ offers' = Importable("Literal", Weighted(LiteralDsps, LiteralWeight),
                             offers)
    /\ pc' = "bindings"
    /\ UNCHANGED <<mode, bindings, variables, ctors, turn, updated>>

hasType(b) == b.itype # {}
ImportBindings ==
    /\ pc = "bindings"
    /\ variables' =
          {b.itype : b \in {v \in bindings : isValidBinding(v) /\ hasType(v)}}
    /\ ctors' = ctors \cup ConstructorsOf(variables')
    /\ offers' = offers \cup
          {Offer("Variable", Operator("var", {}, t)) : t \in variables'}
    /\ pc' = "constructors"
    /\ UNCHANGED <<mode, bindings, turn, updated>>

AddConstructors ==
    /\ pc = "constructors"
    /\ offers' = offers \cup
          {Offer("Literal", Operator("BuiltinConstructor", {}, Ctor(c))) :
              c \in ctors}
    /\ pc' = "loop"
    /\ UNCHANGED <<mode, bindings, variables, ctors, turn, updated>>

(* tryImportBuilder for the properties, then for the functions of the next *)
(* builder; only the expression builders' results are looked at.           *)
ImportNext ==
    /\ pc = "loop" /\ turn <= Len(Builders)
    /\ LET b == Builders[turn]
           props == Importable(b.name, b.props, offers)
           funcs == Importable(b.name, b.funcs, offers \cup props)
       IN  /\ offers' = offers \cup props \cup funcs
           /\ updated' = (updated \/ (turn <= Len(Expressions) /\ props # {}))
    /\ turn' = turn + 1
    /\ UNCHANGED <<mode, bindings, pc, variables, ctors>>

(* Mutant: the builders are gone round once.                               *)
NeverAgain == FALSE
Again == updated
GoRound ==
    /\ pc = "loop" /\ turn > Len(Builders)
    /\ turn' = 1
    /\ updated' = FALSE
    /\ pc' = IF Again THEN "loop" ELSE "declarations"
    /\ UNCHANGED <<mode, bindings, variables, ctors, offers>>

ImportDeclarations ==
    /\ pc = "declarations"
    /\ offers' = offers \cup Declarations
    /\ pc' = "ready"
    /\ UNCHANGED <<mode, bindings, variables, ctors, turn, updated>>

Next == \/ ImportLiterals \/ ImportBindings \/ AddConstructors
        \/ ImportNext \/ GoRound \/ ImportDeclarations

Spec == Init /\ [][Next]_vars
-----------------------------------------------------------------------------
(* Every variable holds what its declaration says: what is offered is an   *)
(* entry of a table, a variable in scope or an available constructor.      *)
Table == UNION {{Offer(b.name, d) : d \in b.props \cup b.funcs} :
                    b \in {Builders[k] : k \in DOMAIN Builders}}
Literals ==
    {Offer("Literal", d) : d \in Weighted(LiteralDsps, LiteralWeight)}
Entries == Literals \cup Table \cup Declarations
TypeOK ==
    /\ mode \in {"mutate", "insert"} /\ bindings \subseteq Binding
    /\ pc \in {"literals", "bindings", "constructors", "loop", "declarations",
               "ready"}
    /\ variables \subseteq VarTypes \cup {function}
    /\ ctors \subseteq {constructorTypes[b] : b \in DOMAIN constructorTypes}
    /\ turn \in 1..Len(Builders) + 1 /\ updated \in BOOLEAN
    /\ offers \ Entries \subseteq
          {Offer("Variable", Operator("var", {}, t)) : t \in variables}
          \cup {Offer("Literal", Operator("BuiltinConstructor", {}, Ctor(c))) :
                    c \in ctors}

(* No entry of a table becomes importable by another entry of the table    *)
(* alone, so that the order of a table (left out here) does not matter.    *)
TablesAreOrderless ==
    pc = "loop" /\ turn <= Len(Builders) =>
        LET b == Builders[turn]
            props == offers \cup Importable(b.name, b.props, offers)
            funcs == props \cup Importable(b.name, b.funcs, props)
        IN  /\ Importable(b.name, b.props, props) = {}
            /\ Importable(b.name, b.funcs, funcs) = {}

(* The loop looks only at what the expression builders report, yet when it *)
(* ends no rule of any builder is importable that was not imported: all    *)
(* the types of the builtins are there a round before the expressions end. *)
(* And every constructor that a statement may be built on has a builder of *)
(* its own, which genConstructorStmt asserts.                              *)
ContextIsClosed ==
    /\ TablesAreOrderless
    /\ ctors \subseteq DOMAIN CtorBuilderOf
    /\ pc = "declarations" => \A k \in DOMAIN Builders :
          LET b == Builders[k] IN
          /\ Importable(b.name, b.props, offers) = {}
          /\ Importable(b.name, b.funcs, offers) = {}
=============================================================================
