---------------------------- MODULE MCAssignments ---------------------------
(* Assignments for TLC: every constant is given in the configuration. *)
EXTENDS Assignments

=============================================================================
