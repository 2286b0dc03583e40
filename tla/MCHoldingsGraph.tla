----------------------------- MODULE MCHoldingsGraph -----------------------------
(* Instances of HoldingsGraph for TLC: a fund and a filer. *)
EXTENDS HoldingsGraph, TLC

CONSTANTS f1, f2, a, b
FundAndFiler == {f1, f2}
OneFiler == {f2}
\* Two names, then one of them reweighted, or back.
Portfolios == {a :> 1, (a :> 2) @@ (b :> 1)}
=============================================================================
