---------------------------- MODULE MCScheduler ----------------------------
(* Small instances of Scheduler for TLC. *)
EXTENDS Scheduler, TLC

CONSTANTS m, a, b, c

MCThreads == {m, a, b, c}
InRange   == -1 .. 1
Ascending == (m :> 0) @@ (a :> 0) @@ (b :> 1) @@ (c :> 1)
=============================================================================
