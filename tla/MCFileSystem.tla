---------------------------- MODULE MCFileSystem ----------------------------
(* Small instances of FileSystem for TLC. *)
EXTENDS FileSystem

(* Threads and names are only compared. *)
Symmetry == Permutations(Thread) \cup Permutations(Name)
=============================================================================
