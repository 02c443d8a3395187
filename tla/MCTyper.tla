------------------------------- MODULE MCTyper -------------------------------
(* Four programs: one too long, two of a size.  d8 prints one, two or      *)
(* three types of one place, types of two places, nothing, or lines that   *)
(* are cut off or disturbed.                                               *)
EXTENDS Typer, TLC

CONSTANTS f1, f2, f3, long, l, m, a, b, c

MCSize == (f1 :> 1) @@ (f2 :> 1) @@ (f3 :> 2) @@ (long :> 3)
L(type) == [loc |-> l, type |-> type]
M(type) == [loc |-> m, type |-> type]
MCOutput ==
    {<< >>, <<L(a), Noise, L(b), L(a), L(c), L(b)>>,
     <<L(b), M(a), L(b)>>, <<L(a), Broken>>, <<Undecodable>>}
=============================================================================
