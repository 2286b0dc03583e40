-------------------------------- MODULE MCPublish --------------------------------
(* The instance of Publish the model checker runs. *)
EXTENDS Publish, TLC

Symmetry == Permutations(Build)
=============================================================================
