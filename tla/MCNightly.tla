------------------------------ MODULE MCNightly -----------------------------
EXTENDS Nightly, TLC
CONSTANT c1
BookTwice == <<c1, c1>>
Symmetry == Permutations(Proc) \cup Permutations(Action) \cup Permutations(View)
=============================================================================
