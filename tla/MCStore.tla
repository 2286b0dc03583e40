------------------------------- MODULE MCStore ------------------------------
(* The instance of Store the model checker runs. *)
EXTENDS Store, TLC

Symmetry == Permutations(Payload)
=============================================================================
