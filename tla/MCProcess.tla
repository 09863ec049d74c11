----------------------------- MODULE MCProcess -----------------------------
(* Small instances of Process for TLC. *)
EXTENDS Process, TLC

(* The processes other than the initial one are interchangeable: no action *)
(* chooses between them (CHOOSE picks frames only).                        *)
Children == Permutations(Proc \ {Main})
=============================================================================
