------------------------------- MODULE MCLock -------------------------------
(* Small instances of Lock for TLC. *)
EXTENDS Lock, TLC

CONSTANTS m, a, b

MCThreads       == {m, a, b}
ThreePriorities == (m :> 0) @@ (a :> 1) @@ (b :> 2)
TwoPriorities   == (m :> 0) @@ (a :> 1) @@ (b :> 1)
Unlocked        == [l \in Sem |-> 1]

(* The donation code, preempted half way, can queue a thread again and     *)
(* again.                                                                  *)
ShortLists == \A p \in DOMAIN readyLists : Len(readyLists[p]) <= 2
=============================================================================
