-------------------------- MODULE MCInstanceStarts --------------------------
(* InstanceStarts for TLC: every constant is given in the configurations. *)
EXTENDS InstanceStarts

=============================================================================
