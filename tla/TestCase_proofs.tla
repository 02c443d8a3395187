--------------------------- MODULE TestCase_proofs ---------------------------
(***************************************************************************)
(* What holds of every program and any number of test cases.  The nodes:   *)
(* the logs hold parsed ones only, everything that was changed is in them, *)
(* and what can still be picked is untouched.  The bodies: the parsed      *)
(* statements in their order, woven with built ones.  The variables: those *)
(* in the tree are new, each in one place.  The declarations: what is      *)
(* below a node marked -1 is not visited, and what changes was visited.    *)
(***************************************************************************)
EXTENDS TestCase, TLAPS, WellFoundedInduction, FiniteSetTheorems

Item == {Parsed(n) : n \in Node} \cup {Built(k) : k \in Int}

Types ==
    /\ at \in [Node -> Item]
    /\ op \in [Operation -> Op]
    /\ removed \in Seq([path : Node, old : Item])
    /\ opchanged \in Seq([path : Operation, old : Op])
    /\ cur \subseteq Weighted
    /\ varCnt \in Int

(* The logs, which outlive the test case, hold the parsed program only.    *)
LogsAreParsed ==
    /\ \A k \in DOMAIN removed : removed[k].old = Parsed(removed[k].path)
    /\ \A k \in DOMAIN opchanged : opchanged[k].old = OpOf[opchanged[k].path]

ChangesAreLogged ==
    /\ \A n \in Replaced : \E k \in DOMAIN removed : removed[k].path = n
    /\ \A n \in Operation : op[n] # OpOf[n] =>
          \E k \in DOMAIN opchanged : opchanged[k].path = n

(* What can be picked is not changed, nor near anything replaced.          *)
PickableIsUntouched ==
    /\ \A n \in cur \cap Operation : op[n] = OpOf[n]
    /\ \A r \in Replaced : cur \cap Invalidated(r) = {}

NextIsParsed == pc = "next" => NodesAreParsed

IInv == /\ Types /\ LogsAreParsed /\ ChangesAreLogged
        /\ PickableIsUntouched /\ NextIsParsed /\ RevertIsDefined

LEMMA WeightedIsTyped ==
    \A n \in Weighted : n \in Node \ {Root} /\ Visited[n] /\ Mark(n) = None
  BY TestCaseAssumption DEF Weighted, nodes, Mark

LEMMA OperationIsNode ==
    Operation \subseteq Node /\ OpOf \in [Operation -> Op]
  BY TestCaseAssumption DEF Operation

(* Facts about undo logs.                                                  *)
LEMMA ElementTyped ==
    ASSUME NEW R, NEW u \in Seq(R), NEW k \in DOMAIN u PROVE u[k] \in R
  OBVIOUS

LEMMA EntryTyped ==
    ASSUME NEW S, NEW V, NEW undo \in Seq([path : S, old : V]),
           NEW k \in DOMAIN undo
    PROVE  undo[k].path \in S /\ undo[k].old \in V
  <1>1. undo[k] \in [path : S, old : V]
    BY ElementTyped
  <1> QED
    BY <1>1

LEMMA AppendEntry ==
    ASSUME NEW R, NEW u \in Seq(R), NEW e \in R
    PROVE  /\ Append(u, e) \in Seq(R)
           /\ \A k \in DOMAIN u : k \in DOMAIN Append(u, e) /\ Append(u, e)[k] = u[k]
           /\ Len(u) + 1 \in DOMAIN Append(u, e)
           /\ Append(u, e)[Len(u) + 1] = e
           /\ \A k \in DOMAIN Append(u, e) : k \in DOMAIN u \/ k = Len(u) + 1
  OBVIOUS

LEMMA LastExists ==
    ASSUME NEW len \in Nat, NEW S, S \subseteq 1 .. len, S # {}
    PROVE  \E k \in S : \A j \in S : j <= k
  <1> DEFINE T == {len - k : k \in S}
  <1>1. T \subseteq Nat /\ T # {}
    <2>1. \A k \in S : len - k \in Nat
      OBVIOUS
    <2> QED
      BY <2>1
  <1>2. PICK x \in T : \A y \in T : ~(<<y, x>> \in OpToRel(<, Nat))
    BY <1>1, WFMin, NatLessThanWellFounded
  <1>3. \A y \in T : ~(y < x)
    BY <1>1, <1>2 DEF OpToRel
  <1>4. PICK k \in S : x = len - k
    OBVIOUS
  <1>5. ASSUME NEW j \in S PROVE j <= k
    <2>1. len - j \in T
      OBVIOUS
    <2> QED
      BY <1>3, <1>4, <2>1
  <1> QED
    BY <1>5

(* Undoing a log of parsed values that has all changes.                    *)
LEMMA UndoneIsParsed ==
    ASSUME NEW S, NEW f, NEW g, NEW undo,
           DOMAIN f = S, g = [n \in S |-> g[n]],
           Len(undo) \in Nat, DOMAIN undo = 1 .. Len(undo),
           \A k \in DOMAIN undo : undo[k].old = g[undo[k].path],
           \A n \in S : f[n] # g[n] => \E k \in DOMAIN undo : undo[k].path = n
    PROVE  Undone(f, undo) = g
  <1>1. ASSUME NEW n \in S PROVE Undone(f, undo)[n] = g[n]
    <2> DEFINE mine == {k \in DOMAIN undo : undo[k].path = n}
    <2> DEFINE last == CHOOSE k \in mine : \A j \in mine : j <= k
    <2>1. CASE mine = {}
      BY <2>1 DEF Undone
    <2>2. CASE mine # {}
      <3>1. mine \subseteq 1 .. Len(undo) /\ Len(undo) \in Nat
        OBVIOUS
      <3>2. last \in mine
        BY <2>2, <3>1, LastExists
      <3> QED
        BY <2>2, <3>2 DEF Undone
    <2> QED
      BY <2>1, <2>2
  <1> QED
    BY <1>1 DEF Undone

-----------------------------------------------------------------------------
LEMMA MaxVarCntIsMax ==
    maxVarCnt \in Int /\ maxVarCnt >= -1 /\ \A k \in Vars : k <= maxVarCnt
  <1> DEFINE last == CHOOSE k \in Vars : \A j \in Vars : j <= k
  <1>1. CASE Vars = {}
    BY <1>1 DEF maxVarCnt
  <1>2. CASE Vars # {}
    <2>1. Vars \subseteq Nat /\ \E k \in Vars : \A j \in Vars : j <= k
      BY <1>2, TestCaseAssumption
    <2>2. last \in Vars /\ \A j \in Vars : j <= last
      BY <2>1
    <2>3. maxVarCnt = last
      BY <1>2 DEF maxVarCnt
    <2> HIDE DEF last
    <2> QED
      BY <2>1, <2>2, <2>3
  <1> QED
    BY <1>1, <1>2

LEMMA InitIInv == Init => IInv
  <1> SUFFICES ASSUME Init PROVE IInv
    OBVIOUS
  <1> USE DEF Init
  <1>1. maxVarCnt \in Int
    BY MaxVarCntIsMax
  <1>2. Types
    BY <1>1, OperationIsNode DEF Types, Item
  <1>3. Replaced = {} /\ op = OpOf
    BY DEF Replaced
  <1>4. LogsAreParsed /\ ChangesAreLogged
    BY <1>3, OperationIsNode DEF LogsAreParsed, ChangesAreLogged
  <1>5. PickableIsUntouched /\ NextIsParsed /\ RevertIsDefined
    BY <1>3 DEF PickableIsUntouched, NextIsParsed, NodesAreParsed, RevertIsDefined
  <1> QED
    BY <1>2, <1>4, <1>5 DEF IInv

(* A step that changes neither nodes, operators nor logs.                  *)
LEMMA TreeUnchanged ==
    ASSUME IInv, UNCHANGED <<at, op, log>>, cur' \subseteq Weighted,
           cur' \subseteq cur \/ NodesAreParsed, varCnt' \in Int,
           pc' = "next" => pc = "next", pc' # "died"
    PROVE  IInv'
  <1> USE DEF IInv, log
  <1>1. Types'
    BY DEF Types
  <1>2. Replaced' = Replaced
    BY DEF Replaced
  <1>3. LogsAreParsed' /\ ChangesAreLogged'
    BY <1>2 DEF LogsAreParsed, ChangesAreLogged
  <1>4. PickableIsUntouched'
    BY <1>2, OperationIsNode DEF PickableIsUntouched, NodesAreParsed
  <1>5. NextIsParsed' /\ RevertIsDefined'
    BY <1>2 DEF NextIsParsed, NodesAreParsed, RevertIsDefined
  <1> QED
    BY <1>1, <1>3, <1>4, <1>5

LEMMA VarCntIsInt ==
    ASSUME varCnt \in Int, NEW stmt PROVE VarCntAfter(stmt) \in Int
  BY DEF VarCntAfter

-----------------------------------------------------------------------------
LEMMA ReplaceNodeIInv ==
    ASSUME IInv, NEW n \in Node, ReplaceNode(n)
    PROVE  IInv' /\ Replaced \cap ({n} \cup Above[n] \cup Below(n)) = {}
  <1> USE DEF IInv, ReplaceNode
  <1>1. PICK new \in {Built(k) : k \in Int} :
            at' \in {at, [at EXCEPT ![n] = new]} /\ varCnt' \in Int
    <2>1. PICK stmt \in Statement \cup {Built(NoVar)} :
              /\ varCnt' = VarCntAfter(stmt)
              /\ at' \in {at, [at EXCEPT ![n] = stmt]}
      OBVIOUS
    <2>2. varCnt \in Int
      BY DEF Types
    <2>3. stmt \in {Built(k) : k \in Int}
      <3>1. stmt = Built(NoVar) \/ stmt = Built(varCnt + 1)
        BY DEF Statement, genVarId
      <3> HIDE DEF IInv, ReplaceNode
      <3>2. varCnt + 1 \in Int
        BY <2>2
      <3>3. NoVar \in Int
        BY DEF NoVar
      <3> QED
        BY <3>1, <3>2, <3>3
    <2> HIDE DEF ReplaceNode, IInv
    <2> QED
      BY <2>1, <2>2, <2>3, VarCntIsInt
  <1>2. n \in Node \ {Root} /\ cur' \cap Invalidated(n) = {}
    BY WeightedIsTyped DEF Types
  <1>3. n \notin Replaced
    BY DEF PickableIsUntouched, Invalidated
  <1>4. removed' = Append(removed, [path |-> n, old |-> Parsed(n)])
    BY <1>3 DEF Replaced
  <1> DEFINE entry == [path |-> n, old |-> Parsed(n)]
  <1>A. entry \in [path : Node, old : Item]
    BY DEF Item
  <1>B. /\ removed' \in Seq([path : Node, old : Item])
        /\ \A k \in DOMAIN removed :
              k \in DOMAIN removed' /\ removed'[k] = removed[k]
        /\ Len(removed) + 1 \in DOMAIN removed'
        /\ removed'[Len(removed) + 1] = entry
        /\ \A k \in DOMAIN removed' : k \in DOMAIN removed \/ k = Len(removed) + 1
    <2>1. removed \in Seq([path : Node, old : Item])
      BY DEF Types
    <2> HIDE DEF entry, IInv, ReplaceNode
    <2> QED
      BY <1>4, <1>A, <2>1, AppendEntry DEF entry
  <1>5. Types'
    <2>1. at' \in [Node -> Item]
      BY <1>1 DEF Types, Item
    <2> QED
      BY <1>1, <1>B, <2>1 DEF Types
  <1>6. LogsAreParsed'
    <2>1. entry.path = n /\ entry.old = Parsed(n)
      OBVIOUS
    <2>2. LogsAreParsed /\ opchanged' = opchanged
      OBVIOUS
    <2> HIDE DEF entry, ReplaceNode, IInv
    <2> QED
      BY <1>B, <2>1, <2>2 DEF LogsAreParsed
  <1>7. Replaced \subseteq Replaced' /\ Replaced' \subseteq Replaced \cup {n}
    <2>1. at' = at \/ \A m \in Node \ {n} : at'[m] = at[m]
      BY <1>1 DEF Types
    <2> QED
      BY <1>3, <2>1 DEF Replaced
  <1>8. ChangesAreLogged'
    <2>3. \A m \in Replaced' : \E k \in DOMAIN removed' : removed'[k].path = m
      <3> SUFFICES ASSUME NEW m \in Replaced'
                   PROVE  \E k \in DOMAIN removed' : removed'[k].path = m
        OBVIOUS
      <3>1. CASE m = n
        <4>1. entry.path = n
          OBVIOUS
        <4> HIDE DEF entry, ReplaceNode, IInv
        <4> QED
          BY <1>B, <3>1, <4>1
      <3>2. CASE m \in Replaced
        BY <1>B, <3>2, ZenonT(40) DEF ChangesAreLogged
      <3> QED
        BY <1>7, <3>1, <3>2
    <2> QED
      BY <2>3 DEF ChangesAreLogged
  <1>9. PickableIsUntouched'
    BY <1>2, <1>7 DEF PickableIsUntouched, Invalidated
  <1>10. NextIsParsed' /\ RevertIsDefined'
    BY DEF NextIsParsed, RevertIsDefined
  <1>11. Replaced \cap ({n} \cup Above[n] \cup Below(n)) = {}
    <2> SUFFICES ASSUME NEW r \in Replaced, r \in Above[n] \cup Below(n) PROVE FALSE
      BY <1>3
    <2>1. n \notin Below(r) /\ n \notin Above[r]
      BY <1>2 DEF PickableIsUntouched, Invalidated
    <2>2. r \in Node
      BY DEF Replaced
    <2> QED
      BY <2>1, <2>2 DEF Below
  <1> QED
    BY <1>5, <1>6, <1>8, <1>9, <1>10, <1>11

LEMMA MutateOpTyped == ASSUME NEW n \in Node PROVE mutateOp(n) \subseteq Op
  <1>1. /\ EqualOps \subseteq Op /\ CompOps \subseteq Op /\ NumArithOps \subseteq Op
        /\ LogicalOps \subseteq Op /\ UpdateOps \subseteq Op
    BY TestCaseAssumption DEF CompOps
  <1>2. /\ {"+", "-"} \subseteq NumArithOps
        /\ LogicalOps = {"&&", "||"} /\ UpdateOps = {"++", "--"}
    BY DEF NumArithOps, LogicalOps, UpdateOps
  <1> HIDE DEF EqualOps, CompOps, NumArithOps, LogicalOps, UpdateOps
  <1> QED
    BY <1>1, <1>2 DEF mutateOp

LEMMA ChangeOpIInv ==
    ASSUME IInv, NEW n \in Node, ChangeOp(n)
    PROVE  IInv' /\ Replaced \cap ({n} \cup Above[n]) = {}
  <1> USE DEF IInv, ChangeOp
  <1>1. n \in cur /\ n \in Operation /\ op[n] = OpOf[n]
    BY DEF PickableIsUntouched
  <1>2. opchanged' = Append(opchanged, [path |-> n, old |-> OpOf[n]])
    BY <1>1
  <1> DEFINE entry == [path |-> n, old |-> OpOf[n]]
  <1>A. entry \in [path : Operation, old : Op]
    BY <1>1, OperationIsNode
  <1>B. /\ opchanged' \in Seq([path : Operation, old : Op])
        /\ \A k \in DOMAIN opchanged :
              k \in DOMAIN opchanged' /\ opchanged'[k] = opchanged[k]
        /\ Len(opchanged) + 1 \in DOMAIN opchanged'
        /\ opchanged'[Len(opchanged) + 1] = entry
        /\ \A k \in DOMAIN opchanged' :
              k \in DOMAIN opchanged \/ k = Len(opchanged) + 1
    <2>1. opchanged \in Seq([path : Operation, old : Op])
      BY DEF Types
    <2> HIDE DEF entry, IInv, ChangeOp
    <2> QED
      BY <1>2, <1>A, <2>1, AppendEntry DEF entry
  <1>3. Types'
    <2>1. op' \in [Operation -> Op]
      <3>1. PICK new \in mutateOp(n) : op' = [op EXCEPT ![n] = new]
        OBVIOUS
      <3> QED
        BY <3>1, MutateOpTyped DEF Types
    <2> QED
      BY <1>1, <1>B, <2>1, OperationIsNode DEF Types
  <1>4. LogsAreParsed'
    BY <1>B DEF LogsAreParsed
  <1>5. Replaced' = Replaced
    BY DEF Replaced
  <1>6. ChangesAreLogged'
    <2>3. \A m \in Operation : op'[m] # OpOf[m] =>
             \E k \in DOMAIN opchanged' : opchanged'[k].path = m
      <3> SUFFICES ASSUME NEW m \in Operation, op'[m] # OpOf[m]
                   PROVE  \E k \in DOMAIN opchanged' : opchanged'[k].path = m
        OBVIOUS
      <3>1. CASE m = n
        BY <1>B, <3>1
      <3>2. CASE m # n
        BY <1>B, <3>2 DEF ChangesAreLogged, Types
      <3> QED
        BY <3>1, <3>2
    <2> QED
      BY <1>5, <2>3 DEF ChangesAreLogged
  <1>7. PickableIsUntouched'
    BY <1>5 DEF PickableIsUntouched, Types
  <1>8. NextIsParsed' /\ RevertIsDefined'
    BY DEF NextIsParsed, RevertIsDefined
  <1>9. Replaced \cap ({n} \cup Above[n]) = {}
    BY <1>1 DEF PickableIsUntouched, Invalidated, Below, Replaced
  <1> QED
    BY <1>3, <1>4, <1>6, <1>7, <1>8, <1>9

LEMMA RevertIInv == IInv /\ Revert => IInv'
  <1> SUFFICES ASSUME IInv, Revert PROVE IInv'
    OBVIOUS
  <1>0. /\ Types /\ LogsAreParsed /\ ChangesAreLogged
        /\ at' = Undone(at, removed) /\ op' = Undone(op, opchanged)
        /\ UNCHANGED <<cur, removed, opchanged, varCnt>>
    BY DEF IInv, Revert, log
  <1> DEFINE g == [n \in Node |-> Parsed(n)]
  <1>1. at' = g
    <2>1. /\ g = [n \in Node |-> g[n]] /\ DOMAIN at = Node
          /\ removed \in Seq([path : Node, old : Item])
          /\ Len(removed) \in Nat /\ DOMAIN removed = 1 .. Len(removed)
      BY <1>0 DEF Types
    <2>2. \A k \in DOMAIN removed : removed[k].old = g[removed[k].path]
      <3>1. \A k \in DOMAIN removed : removed[k].path \in Node
        BY <2>1, EntryTyped
      <3> QED
        BY <1>0, <3>1 DEF LogsAreParsed
    <2>3. \A n \in Node : at[n] # g[n] =>
             \E k \in DOMAIN removed : removed[k].path = n
      BY <1>0 DEF ChangesAreLogged, Replaced
    <2> HIDE DEF g
    <2>4. Undone(at, removed) = g
      BY <2>1, <2>2, <2>3, UndoneIsParsed
    <2> QED
      BY <1>0, <2>4
  <1>2. op' = OpOf
    <2>1. /\ OpOf = [n \in Operation |-> OpOf[n]] /\ DOMAIN op = Operation
          /\ Len(opchanged) \in Nat /\ DOMAIN opchanged = 1 .. Len(opchanged)
      BY <1>0, OperationIsNode DEF Types
    <2>2. /\ \A k \in DOMAIN opchanged : opchanged[k].old = OpOf[opchanged[k].path]
          /\ \A n \in Operation : op[n] # OpOf[n] =>
                \E k \in DOMAIN opchanged : opchanged[k].path = n
      BY <1>0 DEF LogsAreParsed, ChangesAreLogged
    <2>3. Undone(op, opchanged) = OpOf
      BY <2>1, <2>2, UndoneIsParsed
    <2> QED
      BY <1>0, <2>3
  <1>3. Types'
    BY <1>0, <1>1, <1>2, OperationIsNode DEF Types, Item
  <1>4. Replaced' = {}
    BY <1>1 DEF Replaced
  <1>5. LogsAreParsed' /\ ChangesAreLogged'
    BY <1>0, <1>2, <1>4 DEF LogsAreParsed, ChangesAreLogged
  <1>6. PickableIsUntouched'
    BY <1>2, <1>4 DEF PickableIsUntouched
  <1>7. pc' = "next"
    <2>1. opchanged \in Seq([path : Operation, old : Op])
      BY <1>0 DEF Types
    <2>2. \A k \in DOMAIN opchanged : opchanged[k].path \in Node
      BY <2>1, EntryTyped, OperationIsNode
    <2>3. \A k \in DOMAIN opchanged :
             at'[opchanged[k].path] = Parsed(opchanged[k].path)
      BY <1>1, <2>2
    <2> QED
      BY <2>3 DEF Revert
  <1>8. NextIsParsed' /\ RevertIsDefined'
    BY <1>2, <1>4, <1>7 DEF NextIsParsed, NodesAreParsed, RevertIsDefined
  <1> QED
    BY <1>3, <1>5, <1>6, <1>8 DEF IInv

LEMMA StepIInv == IInv /\ [Next]_vars => IInv'
  <1> SUFFICES ASSUME IInv, [Next]_vars PROVE IInv'
    OBVIOUS
  <1> USE DEF tree, log
  <1>0. varCnt \in Int /\ cur \subseteq Weighted
        /\ (pc = "next" => NodesAreParsed) /\ pc # "died"
    BY DEF IInv, Types, NextIsParsed, RevertIsDefined
  <1>1. CASE BeginMutate
    BY <1>0, <1>1, TreeUnchanged, MaxVarCntIsMax DEF BeginMutate
  <1>2. CASE BeginInsert
    BY <1>0, <1>2, TreeUnchanged, MaxVarCntIsMax DEF BeginInsert
  <1>3. CASE EndMutate
    BY <1>0, <1>3, TreeUnchanged DEF EndMutate
  <1>4. ASSUME NEW n \in Node, MutateNothing(n) PROVE IInv'
    BY <1>0, <1>4, TreeUnchanged DEF MutateNothing
  <1>5. ASSUME NEW n \in Node, ReplaceNode(n) PROVE IInv'
    BY <1>5, ReplaceNodeIInv
  <1>6. ASSUME NEW n \in Node, ChangeOp(n) PROVE IInv'
    BY <1>6, ChangeOpIInv
  <1>7. CASE EndTry \/ EndInsert
    BY <1>0, <1>7, TreeUnchanged DEF EndTry, EndInsert
  <1>8. ASSUME NEW b \in Body, BeginTry(b) PROVE IInv'
    BY <1>0, <1>8, TreeUnchanged DEF BeginTry
  <1>9. ASSUME NEW b \in Body, NEW loc, InsertStatement(b, loc) PROVE IInv'
    <2>1. varCnt' \in Int
      BY <1>0, <1>9, VarCntIsInt DEF InsertStatement
    <2> QED
      BY <1>0, <1>9, <2>1, TreeUnchanged DEF InsertStatement
  <1>10. CASE Revert
    BY <1>10, RevertIInv
  <1>11. CASE UNCHANGED vars
    BY <1>0, <1>11, TreeUnchanged DEF vars
  <1> QED
    BY <1>1, <1>2, <1>3, <1>4, <1>5, <1>6, <1>7, <1>8, <1>9, <1>10, <1>11
    DEF Next

THEOREM Inductive == Spec => []IInv
  BY InitIInv, StepIInv, PTL DEF Spec

(* esfuzz never dies in revertOp(): the node it finds at the path of a     *)
(* changed operator is the parsed one, however often that path was         *)
(* replaced, as the nodes are put back first.                              *)
THEOREM RevertDefined == Spec => []RevertIsDefined
  BY Inductive, PTL DEF IInv

(* The half of RevertRestores that concerns nodes and operators: between   *)
(* two test cases the tree holds the parsed ones.                          *)
THEOREM NodesRestored == Spec => [](pc = "next" => NodesAreParsed)
  BY Inductive, PTL DEF IInv, NextIsParsed

(* No mutation happens inside a replaced subtree, and none replaces a      *)
(* subtree that holds an earlier replacement.                              *)
THEOREM NoOverlap == Spec => MutationsDontOverlap
  <1> DEFINE A(n) == /\ pc = "mutate" /\ at'[n] # at[n]
                        => Replaced \cap ({n} \cup Above[n] \cup Below(n)) = {}
                     /\ pc = "mutate" /\ n \in Operation /\ op'[n] # op[n]
                        => Replaced \cap ({n} \cup Above[n]) = {}
  <1>1. ASSUME IInv, [Next]_vars, NEW n \in Node PROVE A(n)
    <2>1. CASE UNCHANGED <<at, op>>
      BY <2>1
    <2>2. ASSUME NEW m \in Node, ReplaceNode(m) PROVE A(n)
      <3>1. op' = op /\ Replaced \cap ({m} \cup Above[m] \cup Below(m)) = {}
        BY <1>1, <2>2, ReplaceNodeIInv DEF ReplaceNode
      <3>2. n # m => at'[n] = at[n]
        BY <1>1, <2>2 DEF ReplaceNode, IInv, Types
      <3> QED
        BY <3>1, <3>2
    <2>3. ASSUME NEW m \in Node, ChangeOp(m) PROVE A(n)
      <3>1. at' = at /\ Replaced \cap ({m} \cup Above[m]) = {}
        BY <1>1, <2>3, ChangeOpIInv DEF ChangeOp
      <3>2. n \in Operation /\ n # m => op'[n] = op[n]
        BY <1>1, <2>3 DEF ChangeOp, IInv, Types
      <3> QED
        BY <3>1, <3>2
    <2>4. CASE Revert
      BY <2>4 DEF Revert
    <2> QED
      BY <1>1, <2>1, <2>2, <2>3, <2>4 DEF Next, vars, tree, BeginMutate,
         EndMutate, MutateNothing, BeginInsert, EndTry, EndInsert, BeginTry,
         InsertStatement
  <1>2. IInv /\ [Next]_vars => [\A n \in Node : A(n)]_vars
    BY <1>1
  <1> HIDE DEF A
  <1>3. Spec => [][\A n \in Node : A(n)]_vars
    BY <1>2, Inductive, PTL DEF Spec
  <1> QED
    BY <1>3 DEF A, MutationsDontOverlap
-----------------------------------------------------------------------------
(* The bodies.  A body is its parsed statements in their order, woven with *)
(* built ones: p[j] is where the j-th parsed statement is.                 *)
Rising(p, n) == \A i, j \in 1 .. n : i < j => p[i] < p[j]

Weave(p, s, t) ==
    /\ p \in [1 .. Len(s) -> 1 .. Len(t)] /\ Rising(p, Len(s))
    /\ \A j \in 1 .. Len(s) : t[p[j]] = Parsed(s[j])
    /\ \A k \in 1 .. Len(t) : \/ \E j \in 1 .. Len(s) : k = p[j]
                              \/ \E v \in Int : t[k] = Built(v)

(* What is in the places K of a sequence.                                  *)
Spread(K, t) ==
    [k \in 1 .. Cardinality(K) |->
        t[CHOOSE j \in K : Cardinality({i \in K : i <= j}) = k]]

LEMMA LeastExists ==
    ASSUME NEW S, S \subseteq Nat, S # {}
    PROVE  \E k \in S : \A j \in S : k <= j
  <1>1. PICK x \in S : \A y \in S : ~(<<y, x>> \in OpToRel(<, Nat))
    BY WFMin, NatLessThanWellFounded
  <1>2. \A y \in S : ~(y < x)
    BY <1>1 DEF OpToRel
  <1> QED
    BY <1>2

LEMMA RisingIsAhead ==
    ASSUME NEW n \in Nat, NEW p \in [1 .. n -> Nat \ {0}], Rising(p, n)
    PROVE  \A j \in 1 .. n : j <= p[j]
  <1> DEFINE T == {j \in 1 .. n : p[j] < j}
  <1> SUFFICES ASSUME T # {} PROVE FALSE
    OBVIOUS
  <1>1. PICK j \in T : \A i \in T : j <= i
    <2>1. T \subseteq Nat
      OBVIOUS
    <2> HIDE DEF T
    <2> QED
      BY <2>1, LeastExists
  <1>2. j - 1 \notin T
    BY <1>1
  <1>3. CASE j = 1
    BY <1>3
  <1>4. CASE j # 1
    <2>1. j - 1 \in 1 .. n /\ j - 1 <= p[j - 1]
      BY <1>2, <1>4
    <2>2. p[j - 1] < p[j]
      BY <2>1 DEF Rising
    <2> QED
      BY <2>1, <2>2
  <1> QED
    BY <1>3, <1>4

(* Nothing is between the statements of a body that is as long as it was.  *)
LEMMA RisingIsIdentity ==
    ASSUME NEW n \in Nat, NEW p \in [1 .. n -> 1 .. n], Rising(p, n)
    PROVE  \A j \in 1 .. n : p[j] = j
  <1> DEFINE T == {j \in 1 .. n : p[j] # j}
  <1> SUFFICES ASSUME T # {} PROVE FALSE
    OBVIOUS
  <1>1. \A j \in 1 .. n : j <= p[j]
    <2>1. p \in [1 .. n -> Nat \ {0}]
      OBVIOUS
    <2> HIDE DEF T
    <2> QED
      BY <2>1, RisingIsAhead
  <1>2. PICK j \in T : \A i \in T : i <= j
    <2>1. T \subseteq 1 .. n
      OBVIOUS
    <2> HIDE DEF T
    <2> QED
      BY <2>1, LastExists
  <1>3. CASE j = n
    BY <1>1, <1>3
  <1>4. CASE j # n
    <2>1. j + 1 \in 1 .. n /\ p[j + 1] = j + 1
      BY <1>2, <1>4
    <2>2. p[j] < p[j + 1] /\ j < p[j]
      BY <1>1, <2>1 DEF Rising
    <2> QED
      BY <2>1, <2>2
  <1> QED
    BY <1>3, <1>4

LEMMA RisingIsCounted ==
    ASSUME NEW n \in Nat, NEW p \in [1 .. n -> Nat], Rising(p, n), NEW k \in 0 .. n
    PROVE  Cardinality({p[i] : i \in 1 .. k}) = k
  <1> DEFINE S == {p[i] : i \in 1 .. k}
             f == [i \in 1 .. k |-> p[i]]
  <1>1. f \in Bijection(1 .. k, S)
    <2>1. \A i, j \in 1 .. k : p[i] = p[j] => i = j
      BY DEF Rising
    <2> QED
      BY <2>1 DEF Bijection, Injection, Surjection, IsInjective
  <1> QED
    BY <1>1, FS_CountingElements DEF ExistsBijection

-----------------------------------------------------------------------------
LEMMA StmtsAreTyped ==
    ASSUME NEW b \in Body
    PROVE  /\ Stmts[b] \in Seq(Node) /\ Len(Stmts[b]) \in Nat
           /\ DOMAIN Stmts[b] = 1 .. Len(Stmts[b])
           /\ \A i, j \in 1 .. Len(Stmts[b]) : Stmts[b][i] = Stmts[b][j] => i = j
  <1>1. Stmts \in [Body -> Seq(Node)] /\ \A c \in Body : IsInjective(Stmts[c])
    BY TestCaseAssumption
  <1> QED
    BY <1>1 DEF IsInjective

LEMMA PlacesIsNat ==
    ASSUME NEW b \in Body, Stmts[b] # <<>>
    PROVE  /\ Places(b) \in Nat /\ Places(b) <= Len(Stmts[b]) /\ Len(Stmts[b]) # 0
           /\ EndsWithReturn(b) => Places(b) < Len(Stmts[b])
  <1>1. Len(Stmts[b]) \in Nat /\ Len(Stmts[b]) # 0
    BY StmtsAreTyped
  <1>2. Places(b) = Len(Stmts[b]) - 1 \/ (Places(b) = Len(Stmts[b]) - 0 /\ ~EndsWithReturn(b))
    BY DEF Places
  <1> QED
    BY <1>1, <1>2

(* revert() finds the parsed statements where they are, removes the places *)
(* between them and after the last, and what remains is the parsed body.   *)
LEMMA RemainingIsParsed ==
    ASSUME NEW b \in Body, body[b] \in Seq(Item),
           Stmts[b] = <<>> => body[b] = <<>>,
           NEW p, Weave(p, Stmts[b], body[b])
    PROVE  Remaining(b) = [j \in DOMAIN Stmts[b] |-> Parsed(Stmts[b][j])]
  <1> DEFINE s == Stmts[b]
             t == body[b]
             n == Len(s)
             m == Len(t)
             Kept == {p[j] : j \in 1 .. n}
  <1>1. /\ n \in Nat /\ DOMAIN s = 1 .. n /\ m \in Nat /\ DOMAIN t = 1 .. m
        /\ \A i, j \in 1 .. n : s[i] = s[j] => i = j
    BY StmtsAreTyped
  <1>2. /\ p \in [1 .. n -> 1 .. m] /\ Rising(p, n)
        /\ \A j \in 1 .. n : t[p[j]] = Parsed(s[j])
        /\ \A k \in 1 .. m : k \in Kept \/ \E v \in Int : t[k] = Built(v)
    BY DEF Weave
  <1>3. \A j \in 1 .. n : j <= p[j]
    <2>1. p \in [1 .. n -> Nat \ {0}]
      BY <1>1, <1>2
    <2> QED
      BY <1>1, <1>2, <2>1, RisingIsAhead
  <1>4. \A j \in 1 .. n : Key(b, j) = p[j]
    <2> SUFFICES ASSUME NEW j \in 1 .. n PROVE Key(b, j) = p[j]
      OBVIOUS
    <2>1. p[j] \in 1 .. m /\ t[p[j]] = Parsed(s[j])
      BY <1>2
    <2>2. ASSUME NEW k \in 1 .. m, t[k] = Parsed(s[j]) PROVE k = p[j]
      <3>1. \A v \in Int : t[k] # Built(v)
        BY <2>2 DEF Parsed, Built
      <3>2. PICK i \in 1 .. n : k = p[i]
        BY <1>2, <3>1
      <3>3. s[i] = s[j]
        BY <1>2, <2>2, <3>2 DEF Parsed
      <3> QED
        BY <1>1, <3>2, <3>3
    <2>3. Key(b, j) = CHOOSE k \in 1 .. m : t[k] = Parsed(s[j])
      BY <1>1 DEF Key
    <2> HIDE DEF s, t, n, m, Kept
    <2> QED
      BY <2>1, <2>2, <2>3
  <1>5. Key(b, 0) = 0
    BY DEF Key
  <1> DEFINE Between(j) == Key(b, j - 1) + 1 .. Key(b, j) - 1
             Moved == {i \in 1 .. n : Key(b, i) # i}
  <1>6. LocsToRemove(b) = IF n = m THEN {}
                          ELSE (UNION {Between(j) : j \in Moved})
                               \cup Key(b, n) + 1 .. m
    BY <1>1 DEF LocsToRemove
  <1> HIDE DEF s, t, n, m
  <1>7. (1 .. m) \ LocsToRemove(b) = Kept
    <2>1. CASE n = m
      <3>1. \A j \in 1 .. n : p[j] = j
        BY <1>1, <1>2, <2>1, RisingIsIdentity
      <3>2. Kept = 1 .. m
        BY <2>1, <3>1
      <3> QED
        BY <1>6, <2>1, <3>2
    <2>2. CASE n # m
      <3>0. n # 0
        <4>1. n = 0 => s = <<>>
          BY StmtsAreTyped DEF n, s
        <4>2. s = <<>> => m = 0
          BY DEF s, m, t
        <4> QED
          BY <2>2, <4>1, <4>2
      <3>1. ASSUME NEW j \in 1 .. n, NEW k \in Between(j) PROVE k \notin Kept
        <4> SUFFICES ASSUME NEW i \in 1 .. n, k = p[i] PROVE FALSE
          OBVIOUS
        <4>1. Key(b, j) = p[j] /\ p[i] < p[j] /\ p[i] \in 1 .. m /\ p[j] \in 1 .. m
          BY <1>2, <1>4, <3>1
        <4>2. i < j
          BY <1>1, <1>2, <4>1 DEF Rising
        <4>3. j - 1 \in 1 .. n /\ Key(b, j - 1) = p[j - 1] /\ p[j - 1] < p[i]
          BY <1>1, <1>2, <1>4, <3>1, <4>2
        <4>4. p[i] <= p[j - 1]
          <5>1. i = j - 1 \/ i < j - 1
            BY <1>1, <4>2
          <5> QED
            BY <1>2, <4>3, <5>1 DEF Rising
        <4> QED
          BY <1>2, <4>3, <4>4
      <3>2. ASSUME NEW k \in Key(b, n) + 1 .. m PROVE k \notin Kept
        <4>1. Key(b, n) = p[n] /\ p[n] \in 1 .. m
          BY <1>1, <1>2, <1>4, <3>0
        <4>2. \A i \in 1 .. n : p[i] <= p[n]
          BY <1>1, <1>2 DEF Rising
        <4> QED
          BY <1>2, <3>2, <4>1, <4>2
      <3>3. ASSUME NEW k \in 1 .. m, k \notin Kept, k \notin Key(b, n) + 1 .. m
            PROVE  \E j \in Moved : k \in Between(j)
        <4>1. Key(b, n) = p[n] /\ k < p[n] /\ n \in 1 .. n
          BY <1>1, <1>2, <1>4, <3>0, <3>3
        <4> DEFINE T == {j \in 1 .. n : k < p[j]}
        <4>2. PICK j \in T : \A i \in T : j <= i
          <5>1. T \subseteq Nat /\ T # {}
            BY <4>1
          <5> HIDE DEF T
          <5> QED
            BY <5>1, LeastExists
        <4>3. j \in 1 .. n /\ k < p[j] /\ Key(b, j) = p[j] /\ p[j] \in 1 .. m
          BY <1>2, <1>4, <4>2
        <4>4. CASE j = 1
          <5>1. k \in Between(j)
            BY <1>5, <4>3, <4>4
          <5>2. j \in Moved
            BY <4>3, <4>4
          <5> QED
            BY <5>1, <5>2
        <4>5. CASE j # 1
          <5>1. j - 1 \in 1 .. n /\ j - 1 \notin T
            <6>1. j - 1 \in Nat /\ j - 1 < j /\ j - 1 # 0
              BY <4>3, <4>5
            <6>2. j - 1 \notin T
              BY <4>2, <4>3, <6>1
            <6> QED
              BY <1>1, <4>3, <6>1, <6>2
          <5>2. Key(b, j - 1) = p[j - 1] /\ p[j - 1] < k /\ j - 1 <= p[j - 1]
            BY <1>2, <1>3, <1>4, <3>3, <5>1
          <5>3. k \in Between(j)
            BY <1>2, <4>3, <5>1, <5>2
          <5>4. j \in Moved
            BY <1>2, <4>3, <5>1, <5>2
          <5> QED
            BY <5>3, <5>4
        <4> QED
          BY <4>4, <4>5
      <3>4. Kept \subseteq 1 .. m
        BY <1>2
      <3>5. LocsToRemove(b) = (UNION {Between(j) : j \in Moved})
                              \cup Key(b, n) + 1 .. m
        BY <1>6, <2>2
      <3>6. \A j \in Moved : j \in 1 .. n
        OBVIOUS
      <3>A. \A k : k \in LocsToRemove(b) <=>
               (\E j \in Moved : k \in Between(j)) \/ k \in Key(b, n) + 1 .. m
        <4> HIDE DEF Between, Moved
        <4>1. \A k : k \in UNION {Between(j) : j \in Moved} <=>
                 \E j \in Moved : k \in Between(j)
          OBVIOUS
        <4> QED
          BY <3>5, <4>1
      <3> HIDE DEF Kept, Between, Moved
      <3>7. \A k \in Kept : k \notin LocsToRemove(b)
        BY <3>1, <3>2, <3>A, <3>6
      <3>8. \A k \in 1 .. m : k \in Kept \/ k \in LocsToRemove(b)
        BY <3>3, <3>A
      <3> QED
        BY <3>4, <3>7, <3>8
    <2> QED
      BY <2>1, <2>2
  <1>8. \A k \in 1 .. n : {i \in Kept : i <= p[k]} = {p[i] : i \in 1 .. k}
    <2> SUFFICES ASSUME NEW k \in 1 .. n
                 PROVE  {i \in Kept : i <= p[k]} = {p[i] : i \in 1 .. k}
      OBVIOUS
    <2>1. \A i \in 1 .. n : p[i] <= p[k] <=> i <= k
      BY <1>1, <1>2 DEF Rising
    <2> QED
      BY <1>1, <2>1
  <1>9. /\ Cardinality(Kept) = n
        /\ \A k \in 1 .. n : Cardinality({i \in Kept : i <= p[k]}) = k
    <2>1. p \in [1 .. n -> Nat]
      BY <1>1, <1>2
    <2>2. \A k \in 0 .. n : Cardinality({p[i] : i \in 1 .. k}) = k
      BY <1>1, <1>2, <2>1, RisingIsCounted
    <2>3. n \in 0 .. n /\ \A k \in 1 .. n : k \in 0 .. n
      BY <1>1
    <2> QED
      BY <1>8, <2>2, <2>3
  <1> DEFINE nth(k) == CHOOSE j \in Kept : Cardinality({i \in Kept : i <= j}) = k
  <1>10. \A k \in 1 .. n : nth(k) = p[k]
    <2> SUFFICES ASSUME NEW k \in 1 .. n PROVE nth(k) = p[k]
      OBVIOUS
    <2>1. p[k] \in Kept /\ Cardinality({i \in Kept : i <= p[k]}) = k
      BY <1>9
    <2>2. \A j \in Kept : Cardinality({i \in Kept : i <= j}) = k => j = p[k]
      BY <1>9
    <2> HIDE DEF Kept
    <2> QED
      BY <2>1, <2>2
  <1>11. Remaining(b) = [k \in 1 .. Cardinality(Kept) |-> t[nth(k)]]
    <2>1. DOMAIN body[b] \ LocsToRemove(b) = Kept
      BY <1>1, <1>7 DEF t
    <2>2. Remaining(b) = Spread(DOMAIN body[b] \ LocsToRemove(b), body[b])
      BY DEF Remaining, Spread
    <2>3. Remaining(b) = Spread(Kept, t)
      BY <2>1, <2>2 DEF t
    <2> HIDE DEF Kept
    <2> QED
      BY <2>3 DEF Spread
  <1> HIDE DEF nth, Kept
  <1>12. Remaining(b) = [k \in 1 .. n |-> Parsed(s[k])]
    BY <1>2, <1>9, <1>10, <1>11
  <1> QED
    BY <1>1, <1>12 DEF s
-----------------------------------------------------------------------------
parsedBody(b) == [j \in DOMAIN Stmts[b] |-> Parsed(Stmts[b][j])]

(* The return of a body that has one is its last statement.                *)
Woven(b, p) ==
    /\ Weave(p, Stmts[b], body[b])
    /\ Stmts[b] # <<>> /\ EndsWithReturn(b)
       => p[Len(Stmts[b])] = Len(body[b])

BodyInv ==
    /\ varCnt \in Int
    /\ target \subseteq {b \in Body : Stmts[b] # <<>>}
    /\ body \in [Body -> Seq(Item)]
    /\ \A b \in Body : /\ Stmts[b] = <<>> => body[b] = <<>>
                       /\ \E p : Woven(b, p)
    /\ pc \in {"next", "mutate"} => \A b \in Body : body[b] = parsedBody(b)

LEMMA ParsedIsWoven ==
    ASSUME NEW b \in Body, body[b] = parsedBody(b)
    PROVE  /\ body[b] \in Seq(Item) /\ (Stmts[b] = <<>> => body[b] = <<>>)
           /\ \E p : Woven(b, p)
  <1> DEFINE n == Len(Stmts[b])
             p == [j \in 1 .. n |-> j]
  <1>1. /\ n \in Nat /\ DOMAIN Stmts[b] = 1 .. n
        /\ \A j \in 1 .. n : Stmts[b][j] \in Node
    BY StmtsAreTyped, ElementTyped
  <1>2. body[b] = [j \in 1 .. n |-> Parsed(Stmts[b][j])]
    BY <1>1 DEF parsedBody
  <1>3. body[b] \in Seq(Item) /\ Len(body[b]) = n
    <2>1. \A j \in 1 .. n : Parsed(Stmts[b][j]) \in Item
      BY <1>1 DEF Item
    <2> HIDE DEF n
    <2> QED
      BY <1>1, <1>2, <2>1
  <1>4. Woven(b, p)
    BY <1>1, <1>2, <1>3 DEF Woven, Weave, Rising
  <1>5. Stmts[b] = <<>> => body[b] = <<>>
    BY <1>1, <1>2, <1>3
  <1> QED
    BY <1>3, <1>4, <1>5

LEMMA ConcatDef ==
    ASSUME NEW S, NEW x \in Seq(S), NEW y \in Seq(S)
    PROVE  /\ x \o y \in Seq(S) /\ Len(x \o y) = Len(x) + Len(y)
           /\ \A i \in 1 .. Len(x) + Len(y) :
                 (x \o y)[i] = IF i <= Len(x) THEN x[i] ELSE y[i - Len(x)]
  OBVIOUS

(* u is t with e put in after its first key elements.                      *)
Inserted(S, t, key, e, u) ==
    /\ u \in Seq(S) /\ Len(u) = Len(t) + 1
    /\ \A i \in 1 .. key : u[i] = t[i]
    /\ u[key + 1] = e
    /\ \A i \in key + 1 .. Len(t) : u[i + 1] = t[i]

LEMMA InsertAtDef ==
    ASSUME NEW S, NEW t \in Seq(S), NEW e \in S, NEW key \in 0 .. Len(t)
    PROVE  Inserted(S, t, key, e, InsertAt(t, key + 1, e))
  <1> DEFINE a == SubSeq(t, 1, key)
             c == SubSeq(t, key + 1, Len(t))
  <1>1. InsertAt(t, key + 1, e) = a \o <<e>> \o c
    <2>1. (key + 1) - 1 = key
      OBVIOUS
    <2> QED
      BY <2>1 DEF InsertAt
  <1>2. a \in Seq(S) /\ Len(a) = key /\ \A i \in 1 .. key : a[i] = t[i]
    OBVIOUS
  <1>3. /\ c \in Seq(S) /\ Len(c) = Len(t) - key
        /\ \A i \in 1 .. Len(t) - key : c[i] = t[key + i]
    OBVIOUS
  <1> HIDE DEF a, c
  <1>4. /\ a \o <<e>> \in Seq(S) /\ Len(a \o <<e>>) = key + 1
        /\ \A i \in 1 .. key + 1 :
              (a \o <<e>>)[i] = IF i <= key THEN t[i] ELSE e
    BY <1>2
  <1> DEFINE ae == a \o <<e>>
  <1> HIDE DEF ae
  <1>5. /\ ae \o c \in Seq(S) /\ Len(ae \o c) = Len(t) + 1
        /\ \A i \in 1 .. Len(t) + 1 :
              (ae \o c)[i] = IF i <= key + 1 THEN ae[i] ELSE c[i - (key + 1)]
    <2>1. ae \in Seq(S) /\ Len(ae) = key + 1 /\ c \in Seq(S) /\ Len(c) = Len(t) - key
      BY <1>3, <1>4 DEF ae
    <2>2. /\ ae \o c \in Seq(S) /\ Len(ae \o c) = Len(ae) + Len(c)
          /\ \A i \in 1 .. Len(ae) + Len(c) :
                (ae \o c)[i] = IF i <= Len(ae) THEN ae[i] ELSE c[i - Len(ae)]
      BY <2>1, ConcatDef
    <2>3. Len(ae) + Len(c) = Len(t) + 1
      BY <2>1
    <2> QED
      BY <2>1, <2>2, <2>3
  <1>6. InsertAt(t, key + 1, e) = ae \o c
    BY <1>1 DEF ae
  <1>7. \A i \in 1 .. key + 1 :
           i \in 1 .. Len(t) + 1 /\ (ae \o c)[i] = IF i <= key THEN t[i] ELSE e
    BY <1>4, <1>5 DEF ae
  <1>8. \A i \in key + 1 .. Len(t) : (ae \o c)[i + 1] = t[i]
    <2> TAKE i \in key + 1 .. Len(t)
    <2>1. /\ i + 1 \in 1 .. Len(t) + 1 /\ ~(i + 1 <= key + 1)
          /\ (i + 1) - (key + 1) = i - key
          /\ i - key \in 1 .. Len(t) - key /\ key + (i - key) = i
      OBVIOUS
    <2> QED
      BY <1>3, <1>5, <2>1
  <1>9. /\ key + 1 \in 1 .. key + 1 /\ ~(key + 1 <= key)
        /\ \A i \in 1 .. key : i <= key /\ i \in 1 .. key + 1
    OBVIOUS
  <1>10. ae \o c \in Seq(S) /\ Len(ae \o c) = Len(t) + 1
    BY <1>5
  <1> QED
    BY <1>6, <1>7, <1>8, <1>9, <1>10 DEF Inserted

(* What is inserted at the beginning or after a parsed statement moves the *)
(* statements behind it, the last one too when there is one behind.        *)
LEMMA InsertIsWoven ==
    ASSUME NEW b \in Body, Stmts[b] # <<>>, body[b] \in Seq(Item),
           NEW p, Woven(b, p),
           NEW loc \in Nat, loc <= Places(b), NEW key \in 0 .. Len(body[b]),
           IF loc = 0 THEN key = 0
           ELSE key > 0 /\ body[b][key] = Parsed(Stmts[b][loc]),
           NEW v \in Int, body' = [body EXCEPT ![b] = InsertAt(@, key + 1, Built(v))],
           b \in DOMAIN body
    PROVE  body'[b] \in Seq(Item) /\ \E q : Woven(b, q)'
  <1> DEFINE s == Stmts[b]
             t == body[b]
             u == InsertAt(t, key + 1, Built(v))
             n == Len(s)
             m == Len(t)
             q == [j \in 1 .. n |-> IF p[j] <= key THEN p[j] ELSE p[j] + 1]
  <1>1. /\ u \in Seq(Item) /\ Len(u) = m + 1
        /\ \A i \in 1 .. key : u[i] = t[i]
        /\ u[key + 1] = Built(v)
        /\ \A i \in key + 1 .. m : u[i + 1] = t[i]
    <2>1. Built(v) \in Item /\ t \in Seq(Item) /\ key \in 0 .. Len(t)
      BY DEF Item
    <2> HIDE DEF t, u, q
    <2>2. Inserted(Item, t, key, Built(v), InsertAt(t, key + 1, Built(v)))
      BY <2>1, InsertAtDef
    <2> QED
      BY <2>2 DEF Inserted, u, m
  <1>2. /\ n \in Nat /\ n # 0 /\ m \in Nat
        /\ \A i, j \in 1 .. n : s[i] = s[j] => i = j
        /\ Places(b) \in Nat /\ Places(b) <= n
        /\ EndsWithReturn(b) => Places(b) < n
    BY StmtsAreTyped, PlacesIsNat
  <1>3. /\ p \in [1 .. n -> 1 .. m]
        /\ \A i, j \in 1 .. n : i < j => p[i] < p[j]
        /\ \A j \in 1 .. n : t[p[j]] = Parsed(s[j])
        /\ \A k \in 1 .. m : \/ \E j \in 1 .. n : k = p[j]
                             \/ \E w \in Int : t[k] = Built(w)
        /\ EndsWithReturn(b) => p[n] = m
    BY DEF Woven, Weave, Rising
  <1>4. EndsWithReturn(b) => key < p[n]
    <2> SUFFICES ASSUME EndsWithReturn(b) PROVE key < p[n]
      OBVIOUS
    <2>1. p[n] \in 1 .. m
      BY <1>2, <1>3
    <2>2. CASE loc = 0
      BY <2>1, <2>2
    <2>3. CASE loc # 0
      <3>1. key \in 1 .. m /\ t[key] = Parsed(s[loc]) /\ loc \in 1 .. n /\ loc < n
        BY <1>2, <2>3
      <3>2. \A w \in Int : t[key] # Built(w)
        BY <3>1 DEF Parsed, Built
      <3>3. PICK j \in 1 .. n : key = p[j]
        BY <1>3, <3>1, <3>2
      <3>4. s[j] = s[loc]
        BY <1>3, <3>1, <3>3 DEF Parsed
      <3>5. j = loc
        BY <1>2, <3>1, <3>4
      <3> QED
        <4>1. n \in 1 .. n /\ j < n
          BY <1>2, <3>1, <3>5
        <4> QED
          BY <1>3, <3>3, <4>1
    <2> QED
      BY <2>2, <2>3
  <1> HIDE DEF u, s, t, n, m
  <1>5. q \in [1 .. n -> 1 .. m + 1]
    <2>1. \A j \in 1 .. n : p[j] \in 1 .. m
      BY <1>3
    <2>2. \A j \in 1 .. n : (IF p[j] <= key THEN p[j] ELSE p[j] + 1) \in 1 .. m + 1
      BY <1>2, <2>1
    <2> QED
      BY <2>2
  <1>6. \A i, j \in 1 .. n : i < j => q[i] < q[j]
    BY <1>2, <1>3 DEF m
  <1>7. \A j \in 1 .. n : u[q[j]] = Parsed(s[j])
    <2> TAKE j \in 1 .. n
    <2>1. p[j] \in 1 .. m /\ t[p[j]] = Parsed(s[j])
      BY <1>3
    <2>2. CASE p[j] <= key
      <3>1. q[j] = p[j] /\ p[j] \in 1 .. key
        BY <1>2, <2>1, <2>2
      <3> QED
        BY <1>1, <2>1, <3>1
    <2>3. CASE ~(p[j] <= key)
      <3>1. q[j] = p[j] + 1 /\ p[j] \in key + 1 .. m
        BY <1>2, <2>1, <2>3
      <3> QED
        BY <1>1, <2>1, <3>1
    <2> QED
      BY <2>2, <2>3
  <1>8. \A k \in 1 .. m + 1 : \/ \E j \in 1 .. n : k = q[j]
                              \/ \E w \in Int : u[k] = Built(w)
    <2> TAKE k \in 1 .. m + 1
    <2>1. CASE k = key + 1
      BY <1>1, <2>1
    <2> DEFINE i == IF k <= key THEN k ELSE k - 1
    <2>2. CASE k # key + 1
      <3>1. i \in 1 .. m /\ u[k] = t[i] /\ (i <= key <=> k <= key)
        <4>1. CASE k <= key
          <5>1. k \in 1 .. key /\ i = k /\ key <= m
            BY <1>2, <4>1 DEF m, t
          <5> QED
            BY <1>1, <1>2, <4>1, <5>1
        <4>2. CASE ~(k <= key)
          <5>1. i = k - 1 /\ i \in key + 1 .. m /\ i + 1 = k
            BY <1>2, <2>2, <4>2
          <5>2. i \in 1 .. m /\ ~(i <= key)
            BY <1>2, <5>1
          <5> HIDE DEF i
          <5> QED
            BY <1>1, <4>2, <5>1, <5>2
        <4> QED
          BY <4>1, <4>2
      <3>2. CASE \E w \in Int : t[i] = Built(w)
        BY <3>1, <3>2
      <3>3. ASSUME NEW j \in 1 .. n, i = p[j] PROVE k = q[j]
        BY <1>2, <2>2, <3>1, <3>3
      <3> HIDE DEF q, i
      <3> QED
        BY <1>3, <3>1, <3>2, <3>3
    <2> QED
      BY <2>1, <2>2
  <1>9. EndsWithReturn(b) => q[n] = m + 1
    BY <1>2, <1>3, <1>4
  <1>10. body'[b] = u
    BY DEF u, t
  <1> HIDE DEF q
  <1>11. Woven(b, q)'
    BY <1>1, <1>5, <1>6, <1>7, <1>8, <1>9, <1>10
    DEF Woven, Weave, Rising, s, n, EndsWithReturn
  <1> QED
    BY <1>1, <1>10, <1>11

LEMMA BodyUnchanged ==
    ASSUME BodyInv, body' = body, varCnt' \in Int,
           target' \subseteq {b \in Body : Stmts[b] # <<>>},
           pc' \in {"next", "mutate"} => pc \in {"next", "mutate"}
    PROVE  BodyInv'
  <1>1. \A b \in Body : \A p : Woven(b, p)' <=> Woven(b, p)
    BY DEF Woven, Weave, Rising, EndsWithReturn
  <1>2. \A b \in Body : parsedBody(b)' = parsedBody(b)
    BY DEF parsedBody
  <1> QED
    BY <1>1, <1>2 DEF BodyInv

LEMMA BodiesParsed ==
    ASSUME body = [b \in Body |-> parsedBody(b)],
           varCnt \in Int, target \subseteq {b \in Body : Stmts[b] # <<>>}
    PROVE  BodyInv
  <1>1. \A b \in Body : body[b] = parsedBody(b)
    OBVIOUS
  <1>2. \A b \in Body : /\ body[b] \in Seq(Item) /\ (Stmts[b] = <<>> => body[b] = <<>>)
                        /\ \E p : Woven(b, p)
    BY <1>1, ParsedIsWoven
  <1>3. body \in [Body -> Seq(Item)]
    BY <1>1, <1>2
  <1> QED
    BY <1>1, <1>2, <1>3 DEF BodyInv

LEMMA InitBodyInv == Init => BodyInv
  <1> SUFFICES ASSUME Init PROVE BodyInv
    OBVIOUS
  <1>1. varCnt \in Int /\ target = {} /\ body = [b \in Body |-> parsedBody(b)]
    BY MaxVarCntIsMax DEF Init, parsedBody
  <1> QED
    BY <1>1, BodiesParsed

LEMMA InsertStatementBodyInv ==
    ASSUME BodyInv, NEW b \in Body, NEW loc \in 0 .. Cardinality(Node),
           InsertStatement(b, loc)
    PROVE  BodyInv'
  <1>1. /\ pc = "insert" /\ pc' = pc /\ target' = target /\ b \in target
        /\ loc <= Places(b) /\ loc \in Nat
    <2>1. Cardinality(Node) \in Nat
      BY TestCaseAssumption, FS_CardinalityType
    <2> QED
      BY <2>1 DEF InsertStatement
  <1>2. /\ varCnt \in Int /\ Stmts[b] # <<>> /\ body \in [Body -> Seq(Item)]
        /\ target \subseteq {c \in Body : Stmts[c] # <<>>}
        /\ \A c \in Body : /\ Stmts[c] = <<>> => body[c] = <<>>
                           /\ \E p : Woven(c, p)
    BY <1>1 DEF BodyInv
  <1>3. CASE UNCHANGED <<body, varCnt>>
    BY <1>1, <1>2, <1>3, BodyUnchanged
  <1>4. ASSUME NEW stmt \in Statement, NEW key \in 0 .. Len(body[b]),
               IF loc = 0 THEN key = 0
               ELSE key > 0 /\ body[b][key] = Parsed(Stmts[b][loc]),
               body' = [body EXCEPT ![b] = InsertAt(@, key + 1, stmt)],
               varCnt' = VarCntAfter(stmt)
        PROVE  BodyInv'
    <2>1. varCnt' \in Int
      BY <1>2, <1>4, VarCntIsInt
    <2>2. PICK v \in Int : stmt = Built(v)
      <3>1. stmt = Built(NoVar) \/ stmt = Built(varCnt + 1)
        BY <1>4 DEF Statement, genVarId
      <3>2. NoVar \in Int /\ varCnt + 1 \in Int
        BY <1>2 DEF NoVar
      <3> QED
        BY <3>1, <3>2
    <2>3. PICK p : Woven(b, p)
      BY <1>2
    <2>4. body'[b] \in Seq(Item) /\ \E q : Woven(b, q)'
      <3>1. /\ body[b] \in Seq(Item) /\ b \in DOMAIN body
            /\ body' = [body EXCEPT ![b] = InsertAt(@, key + 1, Built(v))]
        BY <1>2, <1>4, <2>2
      <3> QED
        BY <1>1, <1>2, <1>4, <2>3, <3>1, InsertIsWoven
    <2>5. \A c \in Body \ {b} : body'[c] = body[c] /\ \A q : Woven(c, q) => Woven(c, q)'
      <3>1. \A c \in Body \ {b} : body'[c] = body[c]
        BY <1>2, <1>4
      <3> QED
        BY <3>1 DEF Woven, Weave, Rising, EndsWithReturn
    <2>6. body' \in [Body -> Seq(Item)]
      BY <1>2, <1>4, <2>4
    <2>7. \A c \in Body : /\ Stmts[c] = <<>> => body'[c] = <<>>
                          /\ \E q : Woven(c, q)'
      <3> TAKE c \in Body
      <3>1. CASE c = b
        BY <1>2, <2>4, <3>1
      <3>2. CASE c # b
        <4>1. c \in Body \ {b}
          BY <3>2
        <4>2. PICK q : Woven(c, q)
          BY <1>2
        <4>3. Woven(c, q)'
          BY <2>5, <4>1, <4>2
        <4> QED
          BY <1>2, <2>5, <4>1, <4>3
      <3> QED
        BY <3>1, <3>2
    <2> QED
      BY <1>1, <1>2, <2>1, <2>6, <2>7 DEF BodyInv
  <1> QED
    BY <1>3, <1>4 DEF InsertStatement

LEMMA RevertBodyInv ==
    ASSUME BodyInv, Revert
    PROVE  BodyInv' /\ \A b \in Body : body'[b] = parsedBody(b)
  <1>1. /\ varCnt' \in Int /\ target' \subseteq {b \in Body : Stmts[b] # <<>>}
        /\ body' = [b \in Body |-> Remaining(b)]
    BY DEF BodyInv, Revert, try
  <1>2. \A b \in Body : Remaining(b) = parsedBody(b)
    <2> TAKE b \in Body
    <2>1. PICK p : Woven(b, p)
      BY DEF BodyInv
    <2>2. body[b] \in Seq(Item) /\ (Stmts[b] = <<>> => body[b] = <<>>)
      BY DEF BodyInv
    <2> QED
      BY <2>1, <2>2, RemainingIsParsed DEF Woven, parsedBody
  <1>3. body' = [b \in Body |-> parsedBody(b)]
    BY <1>1, <1>2
  <1>4. (body = [b \in Body |-> parsedBody(b)] /\ varCnt \in Int
         /\ target \subseteq {b \in Body : Stmts[b] # <<>>} => BodyInv)'
    BY BodiesParsed, PTL
  <1> QED
    BY <1>1, <1>3, <1>4

LEMMA StepBodyInv == IInv /\ BodyInv /\ [Next]_vars => BodyInv'
  <1> SUFFICES ASSUME IInv, BodyInv, [Next]_vars PROVE BodyInv'
    OBVIOUS
  <1> USE DEF tree, log, try
  <1>0. /\ target \subseteq {b \in Body : Stmts[b] # <<>>} /\ varCnt \in Int
        /\ varCnt' \in Int
    <2>1. varCnt' \in Int
      BY StepIInv DEF IInv, Types
    <2> QED
      BY <2>1 DEF BodyInv
  <1>1. CASE BeginMutate \/ BeginInsert \/ EndMutate \/ EndInsert
    BY <1>0, <1>1, BodyUnchanged DEF BeginMutate, BeginInsert, EndMutate, EndInsert
  <1>2. ASSUME NEW n \in Node, MutateNothing(n) \/ ReplaceNode(n) \/ ChangeOp(n)
        PROVE  BodyInv'
    BY <1>0, <1>2, BodyUnchanged DEF MutateNothing, ReplaceNode, ChangeOp
  <1>3. CASE EndTry
    BY <1>0, <1>3, BodyUnchanged DEF EndTry
  <1>4. ASSUME NEW b \in Body, BeginTry(b) PROVE BodyInv'
    <2>1. target' \subseteq {c \in Body : Stmts[c] # <<>>}
      BY <1>4 DEF BeginTry
    <2> QED
      BY <1>0, <1>4, <2>1, BodyUnchanged DEF BeginTry
  <1>5. ASSUME NEW b \in Body, NEW loc \in 0 .. Cardinality(Node),
               InsertStatement(b, loc)
        PROVE  BodyInv'
    BY <1>5, InsertStatementBodyInv
  <1>6. CASE Revert
    BY <1>6, RevertBodyInv
  <1>7. CASE UNCHANGED vars
    BY <1>0, <1>7, BodyUnchanged DEF vars
  <1> QED
    BY <1>1, <1>2, <1>3, <1>4, <1>5, <1>6, <1>7 DEF Next

LEMMA BodyInductive == Spec => [](IInv /\ BodyInv)
  BY Inductive, InitBodyInv, StepBodyInv, PTL DEF Spec

(* After a test case the tree is the parsed program again, whatever the    *)
(* mutations, the insertions and the test cases before it were.            *)
THEOREM RevertRestored == Spec => []RevertRestores
  <1>1. IInv /\ BodyInv => RevertRestores
    <2> SUFFICES ASSUME IInv, BodyInv, pc = "next" PROVE BodiesAreParsed
      BY DEF IInv, NextIsParsed, RevertRestores
    <2> SUFFICES ASSUME NEW b \in Body
                 PROVE  /\ Len(body[b]) = Len(Stmts[b])
                        /\ \A j \in DOMAIN Stmts[b] :
                              body[b][j] = Parsed(Stmts[b][j])
      BY DEF BodiesAreParsed
    <2>1. body[b] = [j \in 1 .. Len(Stmts[b]) |-> Parsed(Stmts[b][j])]
      BY StmtsAreTyped DEF BodyInv, parsedBody
    <2>2. DOMAIN Stmts[b] = 1 .. Len(Stmts[b]) /\ Len(Stmts[b]) \in Nat
      BY StmtsAreTyped
    <2> QED
      BY <2>1, <2>2
  <1> QED
    BY <1>1, BodyInductive, PTL

(* The return that ends a body is its last statement, in however many      *)
(* tries statements are put into it.                                       *)
THEOREM ReturnStaysLast == Spec => []NeverAfterReturn
  <1>1. BodyInv => NeverAfterReturn
    <2> SUFFICES ASSUME BodyInv, NEW b \in Body, Stmts[b] # <<>>, EndsWithReturn(b)
                 PROVE  Last(body[b]) = Parsed(Stmts[b][Len(Stmts[b])])
      BY DEF NeverAfterReturn, EndsWithReturn
    <2>1. PICK p : Woven(b, p)
      BY DEF BodyInv
    <2>2. Len(Stmts[b]) \in 1 .. Len(Stmts[b])
      BY PlacesIsNat, StmtsAreTyped
    <2>3. /\ p[Len(Stmts[b])] = Len(body[b])
          /\ body[b][p[Len(Stmts[b])]] = Parsed(Stmts[b][Len(Stmts[b])])
      BY <2>1, <2>2 DEF Woven, Weave
    <2> QED
      BY <2>3 DEF Last
  <1> QED
    BY <1>1, BodyInductive, PTL

-----------------------------------------------------------------------------
(* The variables.  Those that are in the tree are new since the parsed     *)
(* ones, and each is in one place; before a test case there are none.      *)
InNodes(k) == {n \in Node : at[n] = Built(k)}
InBody(b, k) == {i \in DOMAIN body[b] : body[b][i] = Built(k)}

New(k) == maxVarCnt < k /\ k <= varCnt

Fresh ==
    /\ varCnt >= maxVarCnt
    /\ \A k \in Nat : /\ InNodes(k) # {} => New(k)
                      /\ \A b \in Body : InBody(b, k) # {} => New(k)

Single ==
    \A k \in Nat :
       /\ \A m, n \in InNodes(k) : m = n
       /\ \A b \in Body : InBody(b, k) # {} => InNodes(k) = {}
       /\ \A b, c \in Body : \A i \in InBody(b, k), j \in InBody(c, k) :
             b = c /\ i = j

(* The parsed program has none of them.                                    *)
LEMMA ParsedIsFresh ==
    ASSUME Replaced = {}, \A b \in Body : body[b] = parsedBody(b),
           varCnt \in Int, varCnt >= maxVarCnt
    PROVE  Fresh /\ Single
  <1>1. \A k : InNodes(k) = {}
    BY DEF Replaced, InNodes, Parsed, Built
  <1>2. \A k : \A b \in Body : InBody(b, k) = {}
    <2>1. ASSUME NEW b \in Body, NEW i \in DOMAIN body[b], NEW k
          PROVE  body[b][i] # Built(k)
      <3>1. body[b] = [j \in DOMAIN Stmts[b] |-> Parsed(Stmts[b][j])]
        BY DEF parsedBody
      <3>2. body[b][i] = Parsed(Stmts[b][i])
        BY <3>1
      <3> QED
        BY <3>2 DEF Parsed, Built
    <2> QED
      BY <2>1 DEF InBody
  <1> QED
    BY <1>1, <1>2 DEF Fresh, Single

LEMMA PlacesUnchanged ==
    ASSUME Fresh, Single, UNCHANGED <<at, body>>, varCnt \in Int, varCnt' \in Int,
           varCnt' >= varCnt
    PROVE  Fresh' /\ Single'
  <1>1. \A k : InNodes(k)' = InNodes(k) /\ \A b \in Body : InBody(b, k)' = InBody(b, k)
    BY DEF InNodes, InBody
  <1>2. maxVarCnt' = maxVarCnt /\ maxVarCnt \in Int
    BY MaxVarCntIsMax DEF maxVarCnt
  <1>3. \A k \in Nat : New(k) => New(k)'
    BY <1>2 DEF New
  <1> QED
    BY <1>1, <1>2, <1>3 DEF Fresh, Single

(* The builder's statement: of no variable, or of the next.                *)
LEMMA StatementIsNext ==
    ASSUME varCnt \in Int, NEW stmt \in Statement \cup {Built(NoVar)}
    PROVE  \E v \in Int :
              /\ stmt = Built(v)
              /\ v = -1 \/ (v = varCnt + 1 /\ v <= VarCntAfter(stmt))
              /\ VarCntAfter(stmt) \in Int /\ VarCntAfter(stmt) >= varCnt
  <1>1. stmt = Built(-1) \/ stmt = Built(varCnt + 1)
    BY DEF Statement, genVarId, NoVar
  <1>2. CASE stmt = Built(-1)
    BY <1>2 DEF VarCntAfter, NoVar
  <1>3. CASE stmt # Built(-1)
    <2>1. VarCntAfter(stmt) = varCnt + 1
      BY <1>3 DEF VarCntAfter, NoVar
    <2> QED
      BY <1>1, <1>3, <2>1
  <1> QED
    BY <1>2, <1>3

LEMMA ReplaceNodeFresh ==
    ASSUME Fresh, Single, varCnt \in Int, at \in [Node -> Item],
           NEW n \in Node, ReplaceNode(n)
    PROVE  Fresh' /\ Single'
  <1>1. PICK stmt \in Statement \cup {Built(NoVar)} :
            /\ varCnt' = VarCntAfter(stmt)
            /\ at' \in {at, [at EXCEPT ![n] = stmt]}
    BY DEF ReplaceNode
  <1>2. PICK v \in Int : /\ stmt = Built(v) /\ (v = -1 \/ (v = varCnt + 1 /\ v <= varCnt'))
                         /\ varCnt' \in Int /\ varCnt' >= varCnt
    BY <1>1, StatementIsNext
  <1>3. body' = body
    BY DEF ReplaceNode
  <1>4. CASE at' = at
    BY <1>2, <1>3, <1>4, PlacesUnchanged
  <1>5. CASE at' = [at EXCEPT ![n] = Built(v)]
    <2>1. \A k \in Nat : k # v => InNodes(k)' \subseteq InNodes(k)
      BY <1>5 DEF InNodes, Built
    <2>2. InNodes(v)' \subseteq InNodes(v) \cup {n}
      BY <1>5 DEF InNodes
    <2>3. \A k \in Nat : \A b \in Body : InBody(b, k)' = InBody(b, k)
      BY <1>3 DEF InBody
    <2>4. maxVarCnt' = maxVarCnt /\ maxVarCnt \in Int
      BY MaxVarCntIsMax DEF maxVarCnt
    <2>5. v \in Nat => /\ InNodes(v) = {} /\ \A b \in Body : InBody(b, v) = {}
                       /\ New(v)'
      BY <1>2, <2>4 DEF Fresh, New
    <2>6. \A k \in Nat : New(k) => New(k)'
      BY <1>2, <2>4 DEF New
    <2>7. Fresh'
      <3>1. varCnt' >= maxVarCnt'
        BY <1>2, <2>4 DEF Fresh
      <3>2. \A k \in Nat : InNodes(k)' # {} => New(k)'
        BY <2>1, <2>5, <2>6 DEF Fresh
      <3>3. \A k \in Nat : \A b \in Body : InBody(b, k)' # {} => New(k)'
        BY <2>3, <2>6 DEF Fresh
      <3> QED
        BY <3>1, <3>2, <3>3 DEF Fresh
    <2>8. Single'
      <3> SUFFICES ASSUME NEW k \in Nat
                   PROVE  /\ \A x, y \in InNodes(k)' : x = y
                          /\ \A b \in Body : InBody(b, k)' # {} => InNodes(k)' = {}
                          /\ \A b, c \in Body :
                                \A i \in InBody(b, k)', j \in InBody(c, k)' :
                                   b = c /\ i = j
        BY DEF Single
      <3>1. CASE k = v
        BY <2>2, <2>3, <2>5, <3>1
      <3>2. CASE k # v
        BY <2>1, <2>3, <3>2 DEF Single
      <3> QED
        BY <3>1, <3>2
    <2> QED
      BY <2>7, <2>8
  <1> QED
    BY <1>1, <1>2, <1>4, <1>5

(* An inserted statement moves the others, and none to the same place.     *)
LEMMA InsertFresh ==
    ASSUME Fresh, Single, varCnt \in Int, body \in [Body -> Seq(Item)],
           NEW b \in Body, NEW key \in 0 .. Len(body[b]), NEW stmt \in Statement,
           body' = [body EXCEPT ![b] = InsertAt(@, key + 1, stmt)],
           at' = at, varCnt' = VarCntAfter(stmt)
    PROVE  Fresh' /\ Single'
  <1>1. PICK v \in Int : /\ stmt = Built(v) /\ (v = -1 \/ (v = varCnt + 1 /\ v <= varCnt'))
                         /\ varCnt' \in Int /\ varCnt' >= varCnt
    BY StatementIsNext
  <1> DEFINE t == body[b]
             u == InsertAt(t, key + 1, Built(v))
             old(i) == IF i <= key THEN i ELSE i - 1
  <1>2. Inserted(Item, t, key, Built(v), u)
    <2>1. Built(v) \in Item /\ t \in Seq(Item) /\ key \in 0 .. Len(t)
      BY DEF Item
    <2> HIDE DEF t
    <2> QED
      BY <2>1, InsertAtDef
  <1>3. /\ body'[b] = u /\ \A c \in Body \ {b} : body'[c] = body[c]
    BY <1>1
  <1>4. /\ Len(t) \in Nat /\ DOMAIN t = 1 .. Len(t) /\ DOMAIN u = 1 .. Len(t) + 1
        /\ key \in Nat /\ key <= Len(t)
    <2>1. t \in Seq(Item) /\ u \in Seq(Item) /\ Len(u) = Len(t) + 1
      BY <1>2 DEF Inserted
    <2> HIDE DEF u
    <2> QED
      BY <2>1
  <1>5. \A i \in DOMAIN u : i # key + 1 => old(i) \in DOMAIN t /\ u[i] = t[old(i)]
    <2> HIDE DEF t, u
    <2> SUFFICES ASSUME NEW i \in DOMAIN u, i # key + 1
                 PROVE  old(i) \in DOMAIN t /\ u[i] = t[old(i)]
      OBVIOUS
    <2>1. CASE i <= key
      <3>1. i \in 1 .. key /\ i \in 1 .. Len(t) /\ old(i) = i
        BY <1>4, <2>1
      <3> QED
        BY <1>2, <1>4, <3>1 DEF Inserted
    <2>2. CASE ~(i <= key)
      <3>1. i - 1 \in key + 1 .. Len(t) /\ i - 1 \in 1 .. Len(t) /\ old(i) = i - 1
            /\ (i - 1) + 1 = i
        BY <1>4, <2>2
      <3>2. u[(i - 1) + 1] = t[i - 1]
        BY <1>2, <3>1 DEF Inserted
      <3> QED
        BY <1>4, <3>1, <3>2
    <2> QED
      BY <2>1, <2>2
  <1>6. u[key + 1] = Built(v)
    BY <1>2 DEF Inserted
  <1>7. \A i, j \in DOMAIN u :
           i # key + 1 /\ j # key + 1 /\ old(i) = old(j) => i = j
    BY <1>4
  <1> HIDE DEF t, u, old
  <1>8. \A k \in Nat : k # v => \A i \in InBody(b, k)' : i # key + 1 /\ old(i) \in InBody(b, k)
    BY <1>3, <1>5, <1>6 DEF InBody, Built, t
  <1>9. /\ \A i \in InBody(b, v)' : i = key + 1 \/ old(i) \in InBody(b, v)
        /\ \A k : InBody(b, k)' \subseteq DOMAIN u
    BY <1>3, <1>5 DEF InBody, t
  <1>10. /\ \A k : \A c \in Body \ {b} : InBody(c, k)' = InBody(c, k)
         /\ \A k : InNodes(k)' = InNodes(k)
    BY <1>3 DEF InBody, InNodes
  <1>11. maxVarCnt' = maxVarCnt /\ maxVarCnt \in Int
    BY MaxVarCntIsMax DEF maxVarCnt
  <1>12. v \in Nat => /\ InNodes(v) = {} /\ \A c \in Body : InBody(c, v) = {}
                      /\ New(v)'
    BY <1>1, <1>11 DEF Fresh, New
  <1>13. \A k \in Nat : New(k) => New(k)'
    BY <1>1, <1>11 DEF New
  <1>14. Fresh'
    <2>1. varCnt' >= maxVarCnt'
      BY <1>1, <1>11 DEF Fresh
    <2>2. \A k \in Nat : InNodes(k)' # {} => New(k)'
      BY <1>10, <1>13 DEF Fresh
    <2>3. \A k \in Nat : \A c \in Body : InBody(c, k)' # {} => New(k)'
      BY <1>8, <1>10, <1>12, <1>13 DEF Fresh
    <2> QED
      BY <2>1, <2>2, <2>3 DEF Fresh
  <1>15. Single'
    <2> SUFFICES ASSUME NEW k \in Nat
                 PROVE  /\ \A x, y \in InNodes(k)' : x = y
                        /\ \A c \in Body : InBody(c, k)' # {} => InNodes(k)' = {}
                        /\ \A c, d \in Body :
                              \A i \in InBody(c, k)', j \in InBody(d, k)' :
                                 c = d /\ i = j
      BY DEF Single
    <2>1. CASE k = v
      BY <1>9, <1>10, <1>12, <2>1
    <2>2. CASE k # v
      <3>1. /\ \A x, y \in InNodes(k)' : x = y
            /\ \A c \in Body : InBody(c, k)' # {} => InNodes(k)' = {}
        BY <1>8, <1>10, <2>2 DEF Single
      <3>2. ASSUME NEW c \in Body, NEW d \in Body,
                   NEW i \in InBody(c, k)', NEW j \in InBody(d, k)'
            PROVE  c = d /\ i = j
        <4> DEFINE was(e, x) == IF e = b THEN old(x) ELSE x
        <4>1. was(c, i) \in InBody(c, k) /\ was(d, j) \in InBody(d, k)
          BY <1>8, <1>10, <2>2, <3>2
        <4>2. c = d /\ was(c, i) = was(d, j)
          BY <4>1 DEF Single
        <4>3. c = b => /\ i \in DOMAIN u /\ j \in DOMAIN u
                       /\ i # key + 1 /\ j # key + 1
          BY <1>8, <1>9, <2>2, <3>2, <4>2
        <4> QED
          BY <1>7, <4>2, <4>3
      <3> QED
        BY <3>1, <3>2
    <2> QED
      BY <2>1, <2>2
  <1> QED
    BY <1>14, <1>15

LEMMA StepFresh ==
    IInv /\ BodyInv /\ Fresh /\ Single /\ [Next]_vars => Fresh' /\ Single'
  <1> SUFFICES ASSUME IInv, BodyInv, Fresh, Single, [Next]_vars
               PROVE  Fresh' /\ Single'
    OBVIOUS
  <1> USE DEF tree, log, try
  <1>0. /\ varCnt \in Int /\ varCnt' \in Int
        /\ maxVarCnt \in Int /\ maxVarCnt' = maxVarCnt
        /\ at \in [Node -> Item] /\ body \in [Body -> Seq(Item)]
    <2>1. varCnt' \in Int
      BY StepIInv DEF IInv, Types
    <2> QED
      BY <2>1, MaxVarCntIsMax DEF IInv, Types, BodyInv, maxVarCnt
  <1>1. CASE BeginMutate \/ BeginInsert
    <2>1. /\ varCnt' = maxVarCnt /\ at' = at /\ body' = body
          /\ Replaced = {} /\ \A b \in Body : body[b] = parsedBody(b)
      BY <1>1 DEF BeginMutate, BeginInsert, IInv, NextIsParsed, NodesAreParsed, BodyInv
    <2>2. Replaced' = {} /\ \A b \in Body : body'[b] = parsedBody(b)'
      BY <2>1 DEF Replaced, parsedBody
    <2>3. (Replaced = {} /\ (\A b \in Body : body[b] = parsedBody(b))
           /\ varCnt \in Int /\ varCnt >= maxVarCnt => Fresh /\ Single)'
      BY ParsedIsFresh, PTL
    <2> QED
      BY <1>0, <2>1, <2>2, <2>3
  <1>2. CASE UNCHANGED <<at, body, varCnt>>
    BY <1>0, <1>2, PlacesUnchanged
  <1>3. ASSUME NEW n \in Node, ReplaceNode(n) PROVE Fresh' /\ Single'
    BY <1>0, <1>3, ReplaceNodeFresh
  <1>4. ASSUME NEW b \in Body, NEW loc \in 0 .. Cardinality(Node),
               InsertStatement(b, loc)
        PROVE  Fresh' /\ Single'
    <2>1. CASE UNCHANGED <<body, varCnt>>
      BY <1>2, <1>4, <2>1 DEF InsertStatement
    <2>2. CASE \E stmt \in Statement, key \in 0 .. Len(body[b]) :
                  /\ body' = [body EXCEPT ![b] = InsertAt(@, key + 1, stmt)]
                  /\ varCnt' = VarCntAfter(stmt)
      <3>1. at' = at
        BY <1>4 DEF InsertStatement
      <3> QED
        BY <1>0, <2>2, <3>1, InsertFresh
    <2> QED
      BY <1>4, <2>1, <2>2 DEF InsertStatement
  <1>5. CASE Revert
    <2>1. \A b \in Body : body'[b] = parsedBody(b)
      BY <1>5, RevertBodyInv
    <2>2. \A b \in Body : body'[b] = parsedBody(b)'
      BY <2>1 DEF parsedBody
    <2>3. Replaced' = {}
      <3>1. IInv'
        BY StepIInv
      <3>2. pc' = "next"
        BY <1>5, <3>1 DEF Revert, IInv, RevertIsDefined
      <3> QED
        BY <3>1, <3>2 DEF IInv, NextIsParsed, NodesAreParsed
    <2>4. varCnt' >= maxVarCnt'
      BY <1>0, <1>5 DEF Revert, Fresh
    <2>5. (Replaced = {} /\ (\A b \in Body : body[b] = parsedBody(b))
           /\ varCnt \in Int /\ varCnt >= maxVarCnt => Fresh /\ Single)'
      BY ParsedIsFresh, PTL
    <2> QED
      BY <1>0, <2>2, <2>3, <2>4, <2>5
  <1> QED
    BY <1>1, <1>2, <1>3, <1>4, <1>5
    DEF Next, vars, EndMutate, MutateNothing, ChangeOp, EndTry, EndInsert, BeginTry

(* The variables that the builder made since the last revert() are not     *)
(* those of the parsed program, and none is declared in two places.        *)
THEOREM VarsStayFresh == Spec => []VarsAreFresh
  <1>1. Init => Fresh /\ Single
    <2> SUFFICES ASSUME Init PROVE Fresh /\ Single
      OBVIOUS
    <2>1. Replaced = {} /\ \A b \in Body : body[b] = parsedBody(b)
      BY DEF Init, Replaced, parsedBody
    <2>2. varCnt \in Int /\ varCnt >= maxVarCnt
      BY MaxVarCntIsMax DEF Init
    <2> QED
      BY <2>1, <2>2, ParsedIsFresh
  <1>2. Fresh /\ Single => VarsAreFresh
    <2> SUFFICES ASSUME Fresh, Single, NEW k \in 0 .. varCnt
                 PROVE  Cardinality(
                            {<<n, 0>> : n \in InNodes(k)}
                            \cup UNION {{<<b, i>> : i \in InBody(b, k)} : b \in Body})
                        + (IF k \in Vars THEN 1 ELSE 0) <= 1
      BY DEF VarsAreFresh, InNodes, InBody
    <2> DEFINE inBodies == UNION {{<<b, i>> : i \in InBody(b, k)} : b \in Body}
               inNodes == {<<n, 0>> : n \in InNodes(k)}
               all == inNodes \cup inBodies
    <2>0. k \in Nat
      OBVIOUS
    <2>1. k \in Vars => all = {}
      <3> SUFFICES ASSUME k \in Vars PROVE all = {}
        OBVIOUS
      <3>1. ~New(k)
        BY MaxVarCntIsMax, <2>0 DEF New
      <3>2. InNodes(k) = {} /\ \A b \in Body : InBody(b, k) = {}
        BY <2>0, <3>1 DEF Fresh
      <3> QED
        BY <3>2
    <2>2. ASSUME NEW x \in all, NEW y \in all PROVE x = y
      <3>1. CASE x \in inNodes /\ y \in inNodes
        BY <2>0, <3>1 DEF Single
      <3>2. CASE x \in inBodies
        <4>1. PICK b \in Body : \E i \in InBody(b, k) : x = <<b, i>>
          BY <3>2
        <4>2. InNodes(k) = {}
          BY <2>0, <4>1 DEF Single
        <4>3. PICK c \in Body : \E j \in InBody(c, k) : y = <<c, j>>
          BY <4>2
        <4> QED
          BY <2>0, <4>1, <4>3 DEF Single
      <3>3. CASE y \in inBodies
        <4>1. PICK b \in Body : \E i \in InBody(b, k) : y = <<b, i>>
          BY <3>3
        <4>2. InNodes(k) = {}
          BY <2>0, <4>1 DEF Single
        <4>3. PICK c \in Body : \E j \in InBody(c, k) : x = <<c, j>>
          BY <4>2
        <4> QED
          BY <2>0, <4>1, <4>3 DEF Single
      <3> QED
        BY <3>1, <3>2, <3>3
    <2> HIDE DEF all
    <2>3. all = {} \/ \E x : all = {x}
      <3>1. ASSUME NEW x \in all PROVE all = {x}
        BY <2>2
      <3> QED
        BY <3>1
    <2>4. Cardinality(all) = 0 \/ (Cardinality(all) = 1 /\ all # {})
      BY <2>3, FS_EmptySet, FS_Singleton
    <2>5. Cardinality(all) + (IF k \in Vars THEN 1 ELSE 0) <= 1
      BY <2>1, <2>4, FS_EmptySet
    <2> QED
      BY <2>5 DEF all
  <1>3. Spec => [](Fresh /\ Single)
    BY <1>1, BodyInductive, StepFresh, PTL DEF Spec
  <1> QED
    BY <1>2, <1>3, PTL

-----------------------------------------------------------------------------
(* The declarations.  preVisit() reaches a node from its parent, and not   *)
(* below a node that is marked -1.  The two recursive functions have the   *)
(* values that their definitions say: a largest set that is closed under   *)
(* the step from a node to its parent gives them.                          *)
LEMMA ParentIsNode ==
    /\ Root \in Node /\ \A n \in Node \ {Root} : Parent[n] \in Node
    /\ \A S \in SUBSET (Node \ {Root}) : S # {} => \E n \in S : Parent[n] \notin S
  BY TestCaseAssumption

LEMMA VisitedDef ==
    Visited = [n \in Node |->
                  n = Root \/ (Visited[Parent[n]] /\ Mark(Parent[n]) # -1)]
  <1> DEFINE Reached(n, S) == n = Root \/ (Parent[n] \in S /\ Mark(Parent[n]) # -1)
             V == UNION {S \in SUBSET Node : \A n \in S : Reached(n, S)}
             f == [n \in Node |-> n \in V]
             Step(g) == [n \in Node |->
                           n = Root \/ (g[Parent[n]] /\ Mark(Parent[n]) # -1)]
  <1>1. V \subseteq Node /\ \A n \in V : Reached(n, V)
    OBVIOUS
  <1>2. \A n \in Node : Reached(n, V) => n \in V
    <2> SUFFICES ASSUME NEW n \in Node, Reached(n, V) PROVE n \in V
      OBVIOUS
    <2> DEFINE W == V \cup {n}
    <2>1. W \in SUBSET Node /\ \A k \in W : Reached(k, W)
      BY <1>1
    <2> QED
      BY <2>1
  <1> HIDE DEF V
  <1>3. f = Step(f)
    <2>1. \A n \in Node : (n \in V) = (n = Root \/ (f[Parent[n]] /\ Mark(Parent[n]) # -1))
      <3> TAKE n \in Node
      <3>1. CASE n = Root
        BY <1>2, <3>1
      <3>2. CASE n # Root
        <4>1. Parent[n] \in Node
          BY <3>2, ParentIsNode
        <4>2. f[Parent[n]] = (Parent[n] \in V)
          BY <4>1
        <4>3. (n \in V) <=> (Parent[n] \in V /\ Mark(Parent[n]) # -1)
          BY <1>1, <1>2, <3>2
        <4> HIDE DEF f, Reached, Step
        <4>4. CASE n \in V
          BY <4>2, <4>3, <4>4, Zenon
        <4>5. CASE n \notin V
          <5>1. ~(Parent[n] \in V /\ Mark(Parent[n]) # -1)
            BY <4>3, <4>5
          <5>2. ~(f[Parent[n]] /\ Mark(Parent[n]) # -1)
            BY <4>2, <5>1, Zenon
          <5>3. (n \in V) = FALSE
            BY <4>5
          <5>4. (n = Root \/ (f[Parent[n]] /\ Mark(Parent[n]) # -1)) = FALSE
            BY <3>2, <5>2
          <5> QED
            BY <5>3, <5>4
        <4> QED
          BY <4>4, <4>5
      <3> QED
        BY <3>1, <3>2
    <2> QED
      BY <2>1
  <1>4. \E g : g = Step(g)
    BY <1>3
  <1>5. Visited = CHOOSE g : g = Step(g)
    BY DEF Visited
  <1> HIDE DEF Step, f
  <1>6. Visited = Step(Visited)
    BY <1>4, <1>5
  <1> QED
    BY <1>6 DEF Step

LEMMA AboveDef ==
    Above = [n \in Node |-> IF n = Root THEN {} ELSE {Parent[n]} \cup Above[Parent[n]]]
  <1> DEFINE Up(m, n, S) == n # Root /\ (m = Parent[n] \/ <<m, Parent[n]>> \in S)
             A == UNION {S \in SUBSET (Node \X Node) :
                            \A m, n \in Node : <<m, n>> \in S => Up(m, n, S)}
             f == [n \in Node |-> {m \in Node : <<m, n>> \in A}]
             Step(g) == [n \in Node |->
                           IF n = Root THEN {} ELSE {Parent[n]} \cup g[Parent[n]]]
  <1>1. A \subseteq Node \X Node /\ \A m, n \in Node : <<m, n>> \in A => Up(m, n, A)
    OBVIOUS
  <1>2. \A m, n \in Node : Up(m, n, A) => <<m, n>> \in A
    <2> SUFFICES ASSUME NEW m \in Node, NEW n \in Node, Up(m, n, A) PROVE <<m, n>> \in A
      OBVIOUS
    <2> DEFINE B == A \cup {<<m, n>>}
    <2>1. B \in SUBSET (Node \X Node)
      BY <1>1
    <2>2. \A x, y \in Node : <<x, y>> \in B => Up(x, y, B)
      BY <1>1
    <2> QED
      BY <2>1, <2>2
  <1> HIDE DEF A
  <1>3. f = Step(f)
    <2>1. \A n \in Node : {m \in Node : <<m, n>> \in A} =
             IF n = Root THEN {} ELSE {Parent[n]} \cup f[Parent[n]]
      <3> TAKE n \in Node
      <3>1. CASE n = Root
        BY <1>1, <3>1
      <3>2. CASE n # Root
        <4>1. Parent[n] \in Node
          BY <3>2, ParentIsNode
        <4>2. f[Parent[n]] = {m \in Node : <<m, Parent[n]>> \in A}
          BY <4>1
        <4> HIDE DEF f
        <4> QED
          BY <1>1, <1>2, <3>2, <4>1, <4>2
      <3> QED
        BY <3>1, <3>2
    <2> QED
      BY <2>1
  <1>4. \E g : g = Step(g)
    BY <1>3
  <1>5. Above = CHOOSE g : g = Step(g)
    BY DEF Above
  <1> HIDE DEF Step, f
  <1>6. Above = Step(Above)
    BY <1>4, <1>5
  <1> QED
    BY <1>6 DEF Step

(* Nothing below a node that is marked -1 is visited.                      *)
LEMMA SkippedBelow ==
    ASSUME NEW d \in Node, Mark(d) = -1, NEW n \in Below(d)
    PROVE  ~Visited[n]
  <1> DEFINE S == {m \in Node \ {Root} : Visited[m] /\ d \in Above[m]}
  <1>1. Above[Root] = {}
    BY AboveDef, ParentIsNode
  <1>2. ASSUME NEW m \in S PROVE Parent[m] \in S
    <2>1. m \in Node /\ m # Root /\ Parent[m] \in Node
      BY ParentIsNode
    <2>2. Visited[Parent[m]] /\ Mark(Parent[m]) # -1
      BY <2>1, VisitedDef
    <2>3. d \in {Parent[m]} \cup Above[Parent[m]]
      BY <2>1, AboveDef
    <2>4. d \in Above[Parent[m]]
      BY <2>2, <2>3
    <2> QED
      BY <1>1, <2>1, <2>2, <2>4
  <1>3. S = {}
    <2>1. S \in SUBSET (Node \ {Root})
      OBVIOUS
    <2> HIDE DEF S
    <2> QED
      BY <1>2, <2>1, ParentIsNode
  <1>4. n \in Node /\ d \in Above[n] /\ n # Root
    BY <1>1 DEF Below
  <1> QED
    BY <1>3, <1>4

LEMMA DeclaredIsMarked ==
    ASSUME NEW d \in Declared PROVE d \in Node /\ Mark(d) # None /\ (Own(d) # 0 => Mark(d) = -1)
  <1>1. d \in Node /\ d # Root /\ Given(d) = -1
    BY DEF Declared, Given
  <1>2. Own(d) \in {-1, 0, None}
    BY DEF Own
  <1> QED
    BY <1>1, <1>2 DEF Mark, None

OnlyWeighted ==
    Replaced \subseteq Weighted /\ \A n \in Operation : op[n] # OpOf[n] => n \in Weighted

LEMMA StepOnlyWeighted == IInv /\ OnlyWeighted /\ [Next]_vars => OnlyWeighted'
  <1> SUFFICES ASSUME IInv, OnlyWeighted, [Next]_vars PROVE OnlyWeighted'
    OBVIOUS
  <1>0. at \in [Node -> Item] /\ op \in [Operation -> Op] /\ cur \subseteq Weighted
    BY DEF IInv, Types
  <1>1. CASE UNCHANGED <<at, op>>
    BY <1>1 DEF OnlyWeighted, Replaced
  <1>2. ASSUME NEW n \in Node, ReplaceNode(n) PROVE OnlyWeighted'
    BY <1>0, <1>2 DEF ReplaceNode, OnlyWeighted, Replaced
  <1>3. ASSUME NEW n \in Node, ChangeOp(n) PROVE OnlyWeighted'
    BY <1>0, <1>3 DEF ChangeOp, OnlyWeighted, Replaced
  <1>4. CASE Revert
    <2>1. IInv' /\ pc' = "next"
      BY <1>4, StepIInv DEF Revert, IInv, RevertIsDefined
    <2>2. NodesAreParsed'
      BY <2>1 DEF IInv, NextIsParsed
    <2> QED
      BY <2>2 DEF NodesAreParsed, OnlyWeighted
  <1> QED
    BY <1>1, <1>2, <1>3, <1>4 DEF Next, vars, tree, BeginMutate, EndMutate,
       MutateNothing, BeginInsert, EndTry, EndInsert, BeginTry, InsertStatement

(* A declaration and what is below it stay as they were parsed, when no    *)
(* parameter has a default value or is a rest parameter: visiting such a   *)
(* one marks it 0 after its function has marked it -1.                     *)
THEOREM DeclarationsStay ==
    ASSUME \A d \in Declared : Own(d) # 0
    PROVE  Spec => []DeclarationsAreKept
  <1>1. Init => OnlyWeighted
    BY OperationIsNode DEF Init, OnlyWeighted, Replaced
  <1>2. OnlyWeighted => DeclarationsAreKept
    <2> SUFFICES ASSUME OnlyWeighted, NEW d \in Declared, NEW n \in {d} \cup Below(d)
                 PROVE  n \notin Weighted /\ n \in Node
      BY DEF OnlyWeighted, DeclarationsAreKept, Replaced
    <2>1. d \in Node /\ Mark(d) # None /\ Mark(d) = -1
      BY DeclaredIsMarked
    <2>2. CASE n = d
      BY <2>1, <2>2, WeightedIsTyped
    <2>3. CASE n \in Below(d)
      BY <2>1, <2>3, SkippedBelow, WeightedIsTyped DEF Below
    <2> QED
      BY <2>2, <2>3
  <1>3. Spec => []OnlyWeighted
    BY <1>1, Inductive, StepOnlyWeighted, PTL DEF Spec
  <1> QED
    BY <1>2, <1>3, PTL

=============================================================================
