----------------------------- MODULE MCReplica -----------------------------
(* The instance of Replica the model checker runs. *)
EXTENDS Replica
=============================================================================
