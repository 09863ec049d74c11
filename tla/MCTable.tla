------------------------------ MODULE MCTable ------------------------------
(* Small instances of Table for TLC. *)
EXTENDS Table
=============================================================================
