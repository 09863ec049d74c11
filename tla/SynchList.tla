----------------------------- MODULE SynchList -----------------------------
(***************************************************************************)
(* threads/synch_list.hh: a list behind a lock and a condition variable,   *)
(* on which Pop waits while it is empty.  The mailboxes of the network are *)
(* such lists.  The list's items are abstracted to their number.           *)
(***************************************************************************)
EXTENDS Condition

CONSTANT MaxAppends   \* bound on the calls of Append

ASSUME SynchListAssumption == MaxAppends \in Nat

VARIABLES
    size,       \* the number of items on the list
    op,         \* the call each thread is in, and how far it is
    appends,    \* calls of Append so far
    emptyPops   \* list->Pop()s that found the list empty

listVars == <<condVars, size, op, appends, emptyPops>>

Op == {"none", "append", "signal", "pop", "leave"}

ListInit ==
    /\ CondInit
    /\ size = 0
    /\ op = [t \in Thread |-> "none"]
    /\ appends = 0
    /\ emptyPops = 0

(* The running call of t goes from one phase to the next. *)
Phase(t, from, to) == op[t] = from /\ op' = [op EXCEPT ![t] = to]

-----------------------------------------------------------------------------
ListAppend(t) ==
    /\ Phase(t, "none", "append")
    /\ appends < MaxAppends
    /\ appends' = appends + 1
    /\ UNCHANGED <<condVars, size, emptyPops>>

ListPop(t) ==
    /\ Phase(t, "none", "pop")
    /\ UNCHANGED <<condVars, size, appends, emptyPops>>

ListAcquire(t) ==
    /\ op[t] # "none"
    /\ Enter(t)
    /\ UNCHANGED <<size, op, appends, emptyPops>>

AppendItem_SignalsWhenEmpty(t) ==
    /\ pc[t] = "inside"
    /\ Phase(t, "append", IF size = 0 THEN "signal" ELSE "leave")
    /\ size' = size + 1
    /\ UNCHANGED <<condVars, appends, emptyPops>>

AppendItem(t) ==
    /\ pc[t] = "inside"
    /\ Phase(t, "append", "signal")
    /\ size' = size + 1
    /\ UNCHANGED <<condVars, appends, emptyPops>>

AppendSignal(t) ==
    /\ Phase(t, "signal", "leave")
    /\ Signal(t)
    /\ UNCHANGED <<size, appends, emptyPops>>

(* The test of Pop's loop. *)
MustWait == size = 0

PopWait(t) ==
    /\ op[t] = "pop"
    /\ MustWait
    /\ Wait(t)
    /\ UNCHANGED <<size, op, appends, emptyPops>>

(* list->Pop() takes an item, or returns Item() if there is none. *)
TakeItem(t) ==
    /\ pc[t] = "inside"
    /\ Phase(t, "pop", "leave")
    /\ size' = IF size = 0 THEN 0 ELSE size - 1
    /\ emptyPops' = IF size = 0 THEN emptyPops + 1 ELSE emptyPops
    /\ UNCHANGED <<condVars, appends>>

PopItem_Untested(t) == TakeItem(t)

PopItem(t) == ~MustWait /\ TakeItem(t)

ListRelease(t) ==
    /\ Phase(t, "leave", "none")
    /\ Leave(t)
    /\ UNCHANGED <<size, appends, emptyPops>>

ListCondStep(t) ==
    /\ WaitStep(t) \/ SignalStep(t)
    /\ UNCHANGED <<size, op, appends, emptyPops>>

-----------------------------------------------------------------------------
(* Pop never returns Item(): whoever returns from Wait, signalled or having *)
(* taken somebody else's signal, tests the list again (synch_list.hh:107).  *)
PopNeverComesEmpty == emptyPops = 0

Popping == {t \in Thread : op[t] = "pop"}

(* No consumer sleeps next to an item: with items on the list and threads  *)
(* in Pop, the items or the threads run out, although signals can be taken *)
(* by threads they were not for, and the list by threads that never waited. *)
ItemsArePopped == (size > 0 /\ Popping # {}) ~> (size = 0 \/ Popping = {})
=============================================================================
