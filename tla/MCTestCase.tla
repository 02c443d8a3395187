----------------------------- MODULE MCTestCase -----------------------------
(* The program                                                             *)
(*     function f([a]) { +b; return; }  c < d;                             *)
(* or, if Rest, the same with f(...a).                                     *)
EXTENDS TestCase, TLC

CONSTANT Rest

MCParent ==
    ("f" :> "program") @@ ("name" :> "f") @@ ("arg" :> "f") @@ ("a" :> "arg")
    @@ ("block" :> "f") @@ ("s1" :> "block") @@ ("ret" :> "block")
    @@ ("pos" :> "s1") @@ ("b" :> "pos")
    @@ ("s2" :> "program") @@ ("less" :> "s2")
MCRoot == "program"
MCNode == DOMAIN MCParent \cup {"program"}
MCKind ==
    ("program" :> "program") @@ ("f" :> "function declaration")
    @@ ("name" :> "expression")
    @@ ("arg" :> IF Rest THEN "rest" ELSE "expression")
    @@ ("a" :> "expression") @@ ("block" :> "block")
    @@ ("s1" :> "expression statement") @@ ("ret" :> "return")
    @@ ("pos" :> "unary") @@ ("b" :> "expression")
    @@ ("s2" :> "expression statement") @@ ("less" :> "binary")
MCRole ==
    [n \in MCNode |-> IF n = "name" THEN "id" ELSE IF n = "arg" THEN "param"
                      ELSE "child"]
MCTyped == MCNode \ {"program", "f", "name"}
MCBody == {"program", "block"}
MCStmts == ("program" :> <<"f", "s2">>) @@ ("block" :> <<"s1", "ret">>)
MCOpOf == ("pos" :> "+") @@ ("less" :> "<")
MCOp == CompOps \cup NumArithOps \cup LogicalOps \cup UpdateOps
MCVars == {0}
=============================================================================
