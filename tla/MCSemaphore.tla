---------------------------- MODULE MCSemaphore ----------------------------
(* Small instances of Semaphore for TLC. *)
EXTENDS Semaphore, TLC

CONSTANTS m, a, b, c, s1, s2

MCThreads    == {m, a, b, c}
TwoPriorities == (m :> 0) @@ (a :> 0) @@ (b :> 1) @@ (c :> 1)
One == [s \in Sem |-> 1]
=============================================================================
