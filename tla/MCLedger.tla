------------------------------ MODULE MCLedger ------------------------------
EXTENDS Ledger, TLC
Symmetry == Permutations(Job) \cup Permutations(Month)
=============================================================================
