------------------------------- MODULE Mutex -------------------------------
(***************************************************************************)
(* What a lock promises its users (threads/lock.hh): at any time it is     *)
(* free or held by one thread, Acquire takes a free lock, and only the     *)
(* holder frees it.  Lock.tla implements it; the modules of the primitives *)
(* built on locks use it in place of the code of lock.cc.                  *)
(***************************************************************************)
CONSTANTS User, TheLocks, Nobody



VARIABLE holder

MutexInit == holder = [l \in TheLocks |-> Nobody]

Take(l, t) == holder[l] = Nobody /\ holder' = [holder EXCEPT ![l] = t]
Free(l, t) == holder[l] = t /\ holder' = [holder EXCEPT ![l] = Nobody]

MutexNext == \E l \in TheLocks, t \in User : Take(l, t) \/ Free(l, t)

MutexSpec == MutexInit /\ [][MutexNext]_holder
=============================================================================
