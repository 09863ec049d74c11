---------------------------- MODULE MCCondition ----------------------------
(* Small instances of Condition for TLC. *)
EXTENDS Condition
=============================================================================
