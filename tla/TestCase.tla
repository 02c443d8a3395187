------------------------------ MODULE TestCase ------------------------------
(***************************************************************************)
(* The mutator: esfuzz.js makes many test cases of one parsed program.     *)
(* Each is made by changing the syntax tree in place, by mutate() or by    *)
(* insert(), printing it, and changing it back by revert().  The tree is a *)
(* constant; what the parsed nodes were replaced by, their operators and   *)
(* the statements of the bodies are the state.                             *)
(***************************************************************************)
EXTENDS Integers, Sequences, FiniteSets, SequencesExt

CONSTANTS Node, Root, Parent,  \* the tree, the Program at its root
          Kind, Role,          \* what a node is, and what it is to its parent
          Typed,               \* nodes with an itype other than undefined
          Body, Stmts,         \* Program and BlockStatements with statements
          Op, OpOf,            \* operators, and those of the parsed program
          OfNumbers,           \* nodes with two operands of st.numberType
          Vars,                \* the k of the variables __es_vk declared
          MUTATE_MIN, MUTATE_MAX, INSERT_LOC_MAX, MAX_TRY,
          Cnt                  \* test cases to make

Kinds == {"program", "block", "expression statement", "return", "statement",
          "function declaration", "function", "method", "declarator",
          "main call", "assignment", "default", "rest", "for in", "catch",
          "property", "break", "labeled", "expression",
          "binary", "logical", "unary", "update"}
Roles == {"id", "param", "key", "callee", "left", "label", "child"}
OpMutable == {"binary", "logical", "unary", "update"}

(* The operators that one of the builder's lists has, or that belong to a  *)
(* class of two.                                                           *)
EqualOps == {"==", "===", "!=", "!=="}
CompOps == EqualOps \cup {">", "<", ">=", "<="}
NumArithOps == {"+", "-", "/", "%", "*", "**", "&", "|", ">>", ">>>", "<<", "^"}
LogicalOps == {"&&", "||"}
UpdateOps == {"++", "--"}

ASSUME TestCaseAssumption ==
    /\ IsFiniteSet(Node) /\ Root \in Node
    /\ Parent \in [Node \ {Root} -> Node]
    /\ \A S \in SUBSET (Node \ {Root}) :      \* it is a tree
          S # {} => \E n \in S : Parent[n] \notin S
    /\ Kind \in [Node -> Kinds] /\ Role \in [Node -> Roles]
    /\ Typed \subseteq Node \ {Root}
    /\ Body \subseteq Node /\ Stmts \in [Body -> Seq(Node)]
    /\ \A b \in Body : IsInjective(Stmts[b])
    /\ CompOps \cup NumArithOps \cup LogicalOps \cup UpdateOps \subseteq Op
    /\ OpOf \in [{n \in Node : Kind[n] \in OpMutable} -> Op]
    /\ OfNumbers \subseteq Node
    /\ Vars \subseteq Nat
    /\ Vars # {} => \E k \in Vars : \A j \in Vars : j <= k
    /\ MUTATE_MIN \in Nat /\ MUTATE_MAX \in Nat /\ MUTATE_MIN <= MUTATE_MAX
    /\ INSERT_LOC_MAX \in Nat /\ MAX_TRY \in Nat /\ Cnt \in Nat

(* A node that was parsed, and a built one, which may declare __es_vk.     *)
Parsed(n) == <<"parsed", n>>
Built(k) == <<"built", k>>
NoVar == -1
Operation == DOMAIN OpOf

VARIABLES pc,         \* what esfuzz does next
          made,       \* test cases made
          at,         \* path.node of every parsed path
          op,         \* the operators of the parsed nodes
          body,       \* what the bodies hold
          cur,        \* curNodesMap: the nodes of positive weight
          removed,    \* undo log of replacements, never emptied
          opchanged,  \* undo log of operators, never emptied
          todo,       \* mutations, or tries of an insertion, left
          target,     \* the body of this try, as a set of at most one
          num,        \* the places of this try so far
          varCnt      \* of the last variable the builder named

tree == <<at, op, body>>
log == <<removed, opchanged>>
try == <<target, num>>
vars == <<pc, made, tree, cur, log, todo, try, varCnt>>

-----------------------------------------------------------------------------
(* preMutate() gives a node a weight of 0, or of -1 to leave out what is   *)
(* below it too.                                                           *)
None == 1
Function == {"function declaration", "function", "method"}

(* Mutant: the parameters of a function are not marked.                    *)
GivenIdsOnly(n) ==
    IF n # Root /\ Role[n] \in {"id", "key", "label"} THEN -1 ELSE None

(* What visiting the parent of a node marks it with.                       *)
Given(n) ==
    LET k == IF n = Root THEN "none" ELSE Kind[Parent[n]]
        r == Role[n]
    IN  IF \/ k \in {"function declaration", "declarator"} /\ r = "id"
           \/ k \in Function /\ r = "param"
           \/ k = "property" /\ r = "key"
           \/ k = "labeled" /\ r = "label"
        THEN -1
        ELSE IF \/ k = "main call" /\ r = "callee"
                \/ k \in {"default", "for in"} /\ r = "left"
                \/ k = "catch" /\ r = "param"
             THEN 0
             ELSE None

(* What visiting a node marks it with, whatever its parent said.           *)
Own(n) ==
    CASE Kind[n] \in {"method", "break"} -> -1
      [] Kind[n] \in {"function declaration", "function", "main call",
                      "assignment", "default", "rest"} -> 0
      [] OTHER -> None

Mark(n) == IF Own(n) # None THEN Own(n) ELSE Given(n)

(* preVisit() does not go below a node marked -1.                          *)
Visited[n \in Node] ==
    n = Root \/ (Visited[Parent[n]] /\ Mark(Parent[n]) # -1)

(* The map of weights: what was visited and has a type or a mark of its    *)
(* own, and what the visit of its parent marked, be it left out itself as  *)
(* the parameters of a method with a static key are.                       *)
nodes ==
    {n \in Node : \/ Visited[n] /\ (Own(n) # None \/ n \in Typed)
                  \/ n # Root /\ Visited[Parent[n]] /\ Given(n) # None}
Weighted == {n \in nodes : Mark(n) = None}

Above[n \in Node] == IF n = Root THEN {} ELSE {Parent[n]} \cup Above[Parent[n]]
Below(n) == {m \in Node : n \in Above[m]}

Lesser(x, y) == IF x < y THEN x ELSE y
Greater(x, y) == IF x < y THEN y ELSE x

(* How many mutations a test case gets at most.                            *)
mutateMax ==
    Greater(Lesser(Cardinality(nodes) \div 5, MUTATE_MAX), MUTATE_MIN)

-----------------------------------------------------------------------------
(* setVarCnt(tast.maxVarCnt) before every test case.                       *)
maxVarCnt ==
    IF Vars = {} THEN -1 ELSE CHOOSE k \in Vars : \A j \in Vars : j <= k

(* Mutant: the counter is incremented after the name was made.             *)
genVarIdLate == varCnt

genVarId == varCnt + 1

(* A statement of the builder: with a new variable, or without.            *)
Statement == {Built(NoVar), Built(genVarId)}
VarCntAfter(stmt) == IF stmt = Built(NoVar) THEN varCnt ELSE varCnt + 1

Init ==
    /\ pc = "next" /\ made = 0
    /\ at = [n \in Node |-> Parsed(n)]
    /\ op = OpOf
    /\ body = [b \in Body |-> [j \in DOMAIN Stmts[b] |-> Parsed(Stmts[b][j])]]
    /\ cur = {} /\ removed = <<>> /\ opchanged = <<>>
    /\ todo = 0 /\ target = {} /\ num = 0
    /\ varCnt = maxVarCnt

(* The two cases of main() that call mutate().                             *)
BeginMutate ==
    /\ pc = "next" /\ made < Cnt
    /\ varCnt' = maxVarCnt
    /\ cur' = Weighted
    /\ todo' \in MUTATE_MIN .. mutateMax
    /\ pc' = "mutate"
    /\ UNCHANGED <<made, tree, log, try>>

(* The case that calls insert().                                           *)
BeginInsert ==
    /\ pc = "next" /\ made < Cnt
    /\ varCnt' = maxVarCnt
    /\ todo' = MAX_TRY
    /\ pc' = "insert"
    /\ UNCHANGED <<made, tree, cur, log, try>>

-----------------------------------------------------------------------------
(* The builder finds nothing that fits, or throws, or the node is a        *)
(* statement that is no expression: the pick is spent.                     *)
MutateNothing(n) ==
    /\ pc = "mutate" /\ todo > 0 /\ n \in cur
    /\ todo' = todo - 1
    /\ UNCHANGED <<pc, made, tree, cur, log, try, varCnt>>

(* Mutant: the parents of a replaced node stay in the map.                 *)
InvalidatedBelow(n) == {n} \cup Below(n)

(* invalidChildrens() and invalidParents(), which stops at the Program.    *)
Invalidated(n) == {n} \cup Below(n) \cup (Above[n] \ {Root})

Unbuilt == {"program", "block", "return", "statement", "declarator"}

(* MUTATE_NODE.  When replaceWith() throws, the node stays but is logged.  *)
ReplaceNode(n) ==
    /\ pc = "mutate" /\ todo > 0 /\ n \in cur /\ Kind[n] \notin Unbuilt
    /\ \E new \in IF Kind[n] = "expression statement" THEN Statement
                  ELSE {Built(NoVar)} :
        /\ varCnt' = VarCntAfter(new)
        /\ at' \in {at, [at EXCEPT ![n] = new]}
    /\ removed' = Append(removed, [path |-> n, old |-> at[n]])
    /\ cur' = cur \ Invalidated(n)
    /\ todo' = todo - 1
    /\ UNCHANGED <<pc, made, op, body, opchanged, try>>

(* What the operator of a node can become, which may be what it was.  The  *)
(* operands are the parsed ones: a replaced operand takes n out of cur.    *)
mutateOp(n) ==
    CASE Kind[n] = "binary" /\ op[n] \in NumArithOps ->
             IF op[n] # "+" \/ n \in OfNumbers THEN NumArithOps ELSE {}
      [] Kind[n] = "binary" /\ op[n] \in CompOps ->
             IF n \in OfNumbers THEN CompOps ELSE EqualOps
      [] Kind[n] = "logical" -> {IF op[n] = "&&" THEN "||" ELSE "&&"}
      [] Kind[n] = "unary" /\ op[n] \in {"+", "-"} -> {"+", "-"} \ {op[n]}
      [] Kind[n] = "update" -> {IF op[n] = "++" THEN "--" ELSE "++"}
      [] OTHER -> {}

(* MUTATE_OPRND.                                                           *)
ChangeOp(n) ==
    /\ pc = "mutate" /\ todo > 0 /\ n \in cur \cap Operation
    /\ \E new \in mutateOp(n) : op' = [op EXCEPT ![n] = new]
    /\ opchanged' = Append(opchanged, [path |-> n, old |-> op[n]])
    /\ cur' = cur \ {n}
    /\ todo' = todo - 1
    /\ UNCHANGED <<pc, made, at, body, removed, try, varCnt>>

(* All mutations are made, or no node can be picked.                       *)
EndMutate ==
    /\ pc = "mutate" /\ (todo = 0 \/ cur = {})
    /\ pc' = "revert"
    /\ cur' = {}
    /\ UNCHANGED <<made, tree, log, todo, try, varCnt>>

-----------------------------------------------------------------------------
EndsWithReturn(b) == Kind[Stmts[b][Len(Stmts[b])]] = "return"

(* Mutant: statements may be put after a return.                           *)
PlacesAll(b) == Len(Stmts[b])

(* Statements of a body that a new one may follow.                         *)
Places(b) == Len(Stmts[b]) - (IF EndsWithReturn(b) THEN 1 ELSE 0)

BeginTry(b) ==
    /\ pc = "insert" /\ target = {} /\ todo > 0
    /\ todo' = todo - 1
    /\ target' = IF Stmts[b] = <<>> THEN {} ELSE {b}
    /\ num' = 0
    /\ UNCHANGED <<pc, made, tree, cur, log, varCnt>>

(* A statement at the beginning, or after the loc-th parsed one; or the    *)
(* builder returns none.  Nothing is ever added to the set locs, so every  *)
(* place is good.                                                          *)
InsertStatement(b, loc) ==
    /\ pc = "insert" /\ b \in target /\ loc <= Places(b)
    /\ num < Lesser(INSERT_LOC_MAX, Places(b) + 1)
    /\ num' = num + 1
    /\ \/ UNCHANGED <<body, varCnt>>
       \/ \E stmt \in Statement, key \in 0 .. Len(body[b]) :
            /\ IF loc = 0 THEN key = 0
               ELSE key > 0 /\ body[b][key] = Parsed(Stmts[b][loc])
            /\ body' = [body EXCEPT ![b] = InsertAt(@, key + 1, stmt)]
            /\ varCnt' = VarCntAfter(stmt)
    /\ UNCHANGED <<pc, made, at, op, cur, log, todo, target>>

EndTry ==
    /\ pc = "insert"
    /\ \E b \in target : num = Lesser(INSERT_LOC_MAX, Places(b) + 1)
    /\ target' = {} /\ num' = 0
    /\ UNCHANGED <<pc, made, tree, cur, log, todo, varCnt>>

EndInsert ==
    /\ pc = "insert" /\ target = {} /\ todo = 0
    /\ pc' = "revert"
    /\ UNCHANGED <<made, tree, cur, log, todo, try, varCnt>>

-----------------------------------------------------------------------------
(* Where the j-th parsed statement of a body is now; 0 for j = 0.          *)
Key(b, j) ==
    IF j = 0 THEN 0
    ELSE CHOOSE k \in DOMAIN body[b] : body[b][k] = Parsed(Stmts[b][j])

(* Mutant: what was inserted after the last statement is forgotten.        *)
LocsToRemoveBetween(b) ==
    UNION {Key(b, j - 1) + 1 .. Key(b, j) - 1 :
              j \in {i \in DOMAIN Stmts[b] : Key(b, i) # i}}

LocsToRemove(b) ==
    IF Len(Stmts[b]) = Len(body[b]) THEN {}
    ELSE (UNION {Key(b, j - 1) + 1 .. Key(b, j) - 1 :
                    j \in {i \in DOMAIN Stmts[b] : Key(b, i) # i}})
         \cup Key(b, Len(Stmts[b])) + 1 .. Len(body[b])

Remaining(b) ==
    LET kept == DOMAIN body[b] \ LocsToRemove(b)
        nth(k) == CHOOSE j \in kept : Cardinality({i \in kept : i <= j}) = k
    IN  [k \in 1 .. Cardinality(kept) |-> body[b][nth(k)]]

(* Undoing a log from its beginning: the last entry of a path stays.       *)
Undone(f, undo) ==
    [n \in DOMAIN f |->
        LET mine == {k \in DOMAIN undo : undo[k].path = n}
        IN  IF mine = {} THEN f[n]
            ELSE undo[CHOOSE k \in mine : \A j \in mine : j <= k].old]

(* After the test case is written: revert(), the bodies first, then the    *)
(* nodes, then the operators.  revertOp() asserts that the node has one.   *)
Revert ==
    /\ pc = "revert"
    /\ body' = [b \in Body |-> Remaining(b)]
    /\ at' = Undone(at, removed)
    /\ op' = Undone(op, opchanged)
    /\ made' = made + 1
    /\ pc' = IF \A k \in DOMAIN opchanged :
                   at'[opchanged[k].path] = Parsed(opchanged[k].path)
             THEN "next" ELSE "died"
    /\ UNCHANGED <<cur, log, todo, try, varCnt>>

Next ==
    \/ BeginMutate \/ EndMutate
    \/ \E n \in Node : MutateNothing(n) \/ ReplaceNode(n) \/ ChangeOp(n)
    \/ BeginInsert \/ EndTry \/ EndInsert
    \/ \E b \in Body : BeginTry(b)
    \/ \E b \in Body, loc \in 0 .. Cardinality(Node) : InsertStatement(b, loc)
    \/ Revert

Spec == Init /\ [][Next]_vars

-----------------------------------------------------------------------------
(* The type invariant.                                                     *)
TypeOK ==
    /\ pc \in {"next", "mutate", "insert", "revert", "died"}
    /\ made \in 0 .. Cnt
    /\ \A n \in Node :
          at[n] = Parsed(n) \/ \E k \in NoVar .. varCnt : at[n] = Built(k)
    /\ op \in [Operation -> Op]
    /\ \A b \in Body : \A k \in DOMAIN body[b] :
          \/ \E j \in DOMAIN Stmts[b] : body[b][k] = Parsed(Stmts[b][j])
          \/ \E v \in NoVar .. varCnt : body[b][k] = Built(v)
    /\ cur \subseteq Weighted
    /\ \A k \in DOMAIN removed : removed[k].path \in Node
    /\ \A k \in DOMAIN opchanged :
          opchanged[k].path \in Operation /\ opchanged[k].old \in Op
    /\ todo \in 0 .. Greater(MUTATE_MAX, MAX_TRY)
    /\ target \subseteq Body /\ Cardinality(target) <= 1
    /\ num \in 0 .. INSERT_LOC_MAX
    /\ varCnt \in Int /\ varCnt >= maxVarCnt

Replaced == {n \in Node : at[n] # Parsed(n)}

NodesAreParsed == Replaced = {} /\ op = OpOf
BodiesAreParsed ==
    \A b \in Body : /\ Len(body[b]) = Len(Stmts[b])
                    /\ \A j \in DOMAIN Stmts[b] :
                          body[b][j] = Parsed(Stmts[b][j])

(* The assertion of revertOp() never ends esfuzz: an operator is put back  *)
(* into a node that has one, even when the node was replaced later.        *)
RevertIsDefined == pc # "died"

(* revert() gives back the parsed program: its nodes, its operators and    *)
(* the statements of its bodies, whatever the test cases before this one   *)
(* left in the two undo logs, which are never emptied; and it gets there.  *)
RevertRestores ==
    RevertIsDefined /\ (pc = "next" => NodesAreParsed /\ BodiesAreParsed)

(* Mutations of one test case do not overlap: none changes a node of a     *)
(* subtree that was replaced, and none replaces a subtree in which a node  *)
(* was, so that every replacement is in the file that is written.          *)
MutationsDontOverlap ==
    [][\A n \in Node :
          /\ pc = "mutate" /\ at'[n] # at[n]
             => Replaced \cap ({n} \cup Above[n] \cup Below(n)) = {}
          /\ pc = "mutate" /\ n \in Operation /\ op'[n] # op[n]
             => Replaced \cap ({n} \cup Above[n]) = {}]_vars

(* What preMutate() calls a declaration and marks -1, "skip childen nodes, *)
(* too": a function's name and arguments, the left side of a declaration,  *)
(* a static key, a label.                                                  *)
Declared ==
    {n \in Node \ {Root} :
        \/ Kind[Parent[n]] \in Function /\ Role[n] = "param"
        \/ Kind[Parent[n]] \in {"function declaration", "declarator"}
           /\ Role[n] = "id"
        \/ Kind[Parent[n]] = "property" /\ Role[n] = "key"
        \/ Kind[Parent[n]] = "labeled" /\ Role[n] = "label"}

(* A declaration stays as it is in every test case, and what is below it.  *)
DeclarationsAreKept ==
    \A d \in Declared : \A n \in {d} \cup Below(d) :
        at[n] = Parsed(n) /\ (n \in Operation => op[n] = OpOf[n])

(* No statement is inserted after the return that ends a body, in however  *)
(* many tries.                                                             *)
NeverAfterReturn ==
    \A b \in Body :
        Stmts[b] # <<>> /\ Kind[Stmts[b][Len(Stmts[b])]] = "return"
        => Last(body[b]) = Parsed(Stmts[b][Len(Stmts[b])])

(* The counter starts again for every test case; the variables of a test   *)
(* case are nevertheless different, from each other and from the parsed    *)
(* ones, as those of the test case before were taken out.                  *)
VarsAreFresh ==
    \A k \in 0 .. varCnt :
        Cardinality(
            {<<n, 0>> : n \in {m \in Node : at[m] = Built(k)}}
            \cup UNION {{<<b, i>> : i \in {j \in DOMAIN body[b] :
                                              body[b][j] = Built(k)}} : b \in Body})
        + (IF k \in Vars THEN 1 ELSE 0) <= 1
=============================================================================
