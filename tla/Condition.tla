----------------------------- MODULE Condition -----------------------------
(***************************************************************************)
(* threads/condition.cc: a condition variable made of a semaphore and a    *)
(* counter of waiters, used under a lock.  One step per statement.  The    *)
(* lock is a Mutex (Lock.tla implements it) and the semaphore is its       *)
(* value, P waiting until it is positive (Semaphore.tla).                  *)
(*                                                                         *)
(* CondSpec is any program that calls the operations holding the lock.     *)
(***************************************************************************)
EXTENDS Naturals, FiniteSets

CONSTANTS
    Thread,  \* the callers
    Nobody   \* no holder

ASSUME ConditionAssumption == Nobody \notin Thread

VARIABLES
    holder,        \* of the condition's lock cl
    sem,           \* value of the semaphore
    countWaiters,  \* Condition::countWaiters
    pc,            \* next statement of each thread
    notified       \* not in the code: waiters a Broadcast was for, or that
                   \* a Signal may have been for

condVars == <<holder, sem, countWaiters, pc, notified>>

(* outside: not holding the lock.  inside: holding it, between calls.      *)
CondLabel == {"outside", "inside", "release", "sleep", "reacquire",
              "signalV", "signalDec", "broadcast", "broadcastV", "broadcastDec"}

Locks == INSTANCE Mutex WITH User <- Thread, TheLocks <- {"cl"}

Goto(t, from, to) == pc[t] = from /\ pc' = [pc EXCEPT ![t] = to]

CondInit ==
    /\ Locks!MutexInit
    /\ sem = 0
    /\ countWaiters = 0
    /\ pc = [t \in Thread |-> "outside"]
    /\ notified = {}

(* cl->Acquire() and cl->Release() by the program. *)
Enter(t) ==
    /\ Goto(t, "outside", "inside")
    /\ Locks!Take("cl", t)
    /\ UNCHANGED <<sem, countWaiters, notified>>

Leave(t) ==
    /\ Goto(t, "inside", "outside")
    /\ Locks!Free("cl", t)
    /\ UNCHANGED <<sem, countWaiters, notified>>

-----------------------------------------------------------------------------
(* Condition::Wait *)
Wait(t) ==
    /\ Goto(t, "inside", "release")
    /\ countWaiters' = countWaiters + 1
    /\ UNCHANGED <<holder, sem, notified>>

WaitRelease(t) ==
    /\ Goto(t, "release", "sleep")
    /\ Locks!Free("cl", t)
    /\ UNCHANGED <<sem, countWaiters, notified>>

WaitP(t) ==
    /\ Goto(t, "sleep", "reacquire")
    /\ sem > 0
    /\ sem' = sem - 1
    /\ UNCHANGED <<holder, countWaiters, notified>>

WaitAcquire(t) ==
    /\ Goto(t, "reacquire", "inside")
    /\ Locks!Take("cl", t)
    /\ notified' = notified \ {t}
    /\ UNCHANGED <<sem, countWaiters>>

(* The threads inside Wait that have counted themselves and not passed P. *)
Waiting == {t \in Thread : pc[t] \in {"release", "sleep"}}

-----------------------------------------------------------------------------
(* Condition::Signal.  (X_... before X: a faulty variant of X, kept to     *)
(* show that the properties notice the fault.)                             *)
Signal(t) ==
    /\ Goto(t, "inside", IF countWaiters > 0 THEN "signalV" ELSE "inside")
    /\ notified' = notified \cup Waiting
    /\ UNCHANGED <<holder, sem, countWaiters>>

SignalV(t) ==
    /\ Goto(t, "signalV", "signalDec")
    /\ sem' = sem + 1
    /\ UNCHANGED <<holder, countWaiters, notified>>

SignalDec_Forgotten(t) ==
    /\ Goto(t, "signalDec", "inside")
    /\ UNCHANGED <<holder, sem, countWaiters, notified>>

SignalDec(t) ==
    /\ Goto(t, "signalDec", "inside")
    /\ countWaiters' = countWaiters - 1
    /\ UNCHANGED <<holder, sem, notified>>

-----------------------------------------------------------------------------
(* Condition::Broadcast *)
Broadcast(t) ==
    /\ Goto(t, "inside", "broadcast")
    /\ notified' = notified \cup Waiting
    /\ UNCHANGED <<holder, sem, countWaiters>>

BroadcastTest(t) ==
    /\ Goto(t, "broadcast", IF countWaiters > 0 THEN "broadcastV" ELSE "inside")
    /\ UNCHANGED <<holder, sem, countWaiters, notified>>

BroadcastV(t) ==
    /\ Goto(t, "broadcastV", "broadcastDec")
    /\ sem' = sem + 1
    /\ UNCHANGED <<holder, countWaiters, notified>>

BroadcastDec(t) ==
    /\ Goto(t, "broadcastDec", "broadcast")
    /\ countWaiters' = countWaiters - 1
    /\ UNCHANGED <<holder, sem, notified>>

-----------------------------------------------------------------------------
(* What a thread inside a call does next. *)
WaitStep(t)      == WaitRelease(t) \/ WaitP(t) \/ WaitAcquire(t)
SignalStep(t)    == SignalV(t) \/ SignalDec(t)
BroadcastStep(t) == BroadcastTest(t) \/ BroadcastV(t) \/ BroadcastDec(t)

CondNext ==
    \E t \in Thread :
        \/ Enter(t) \/ Leave(t)
        \/ Wait(t) \/ Signal(t) \/ Broadcast(t)
        \/ WaitStep(t) \/ SignalStep(t) \/ BroadcastStep(t)

CondSpec == CondInit /\ [][CondNext]_condVars

-----------------------------------------------------------------------------
(* Between V and the decrement a waiter is counted twice. *)
CountedTwice == {t \in Thread : pc[t] \in {"signalDec", "broadcastDec"}}

(* Every waiter is either still counted or has a unit of the semaphore     *)
(* coming: no Signal is lost between the increment and P, and none is left *)
(* over for a thread that waits when nobody signals any more.  So with     *)
(* nobody waiting the semaphore is at 0: "If there is none waiting,        *)
(* nothing occurs" (condition.hh:35).                                      *)
WaitersAreAccountedFor ==
    countWaiters + sem = Cardinality(Waiting) + Cardinality(CountedTwice)

(* "The thread will wait until someone sends it a `Signal`"                *)
(* (condition.hh:33).  A thread that comes late can take the unit meant    *)
(* for a waiter that has not reached P yet, and return with nobody having  *)
(* signalled since it called Wait.                                         *)
WaitEndsWithSignal == \A t \in Thread : pc[t] = "reacquire" => t \in notified
=============================================================================
