-------------------------------- MODULE Lock --------------------------------
(***************************************************************************)
(* threads/lock.cc: a lock is a semaphore of value 1, the pointer          *)
(* lockerThread, and priority donation to the holder.  Only P and V run    *)
(* with interrupts off; the rest of Acquire and Release does not.          *)
(*                                                                         *)
(* Each statement that touches shared state is a step of the running       *)
(* thread.  Preemptive tells the two ways the simulator is run apart:      *)
(*   FALSE  the timer can only preempt where interrupts are switched back  *)
(*          on (Interrupt::OneTick), that is on return from P and from V;  *)
(*   TRUE   with -p the thread may lose the CPU at any instruction         *)
(*          (threads/preemptive.cc).                                       *)
(*                                                                         *)
(* LockSpec is any program whose threads acquire and release locks, a      *)
(* thread releasing only what it holds and not acquiring it twice (the two *)
(* ASSERTs), possibly several locks at once.                               *)
(***************************************************************************)
EXTENDS Semaphore

CONSTANTS
    Preemptive,   \* run with -p
    MaxHeld       \* bound on the locks a thread holds at once

ASSUME LockAssumption ==
    /\ Preemptive \in BOOLEAN
    /\ MaxHeld \in Nat
    /\ InitValue = [l \in Sem |-> 1]
    /\ HandlerSem = {}
    /\ Sem # {}

VARIABLES
    lockerThread,  \* Lock::lockerThread
    priorityTemp,  \* Thread::priorityTemp, -1 or the priority before donation
    pc,            \* where in Acquire or Release each thread is
    lock,          \* the lock it is acquiring or releasing
    priorityLockerThread,   \* local of Acquire
    priorityCurrentThread,  \* local of Acquire
    inside         \* per lock, the threads between its P and its V

donation == <<priorityTemp, priorityLockerThread, priorityCurrentThread>>
lockVars == <<semVars, lockerThread, pc, lock, donation, inside>>

Label == {"program",                                         \* outside the lock code
          "compare", "raise", "isReady", "remove", "add",    \* donation
          "P", "own",                                        \* taking the lock
          "restore", "reset", "clear", "V"}                  \* Release

(* A null lockerThread was dereferenced, where the simulator dies, or      *)
(* queued, where FindNextToRun will take it for "nobody is ready".  The    *)
(* model follows the program no further.                                   *)
Faulted == \E t \in Thread : pc[t] = "fault"

(* The running thread goes from label `from' to label `to'. *)
At(from) == Running /\ ~Faulted /\ pc[currentThread] = from
Goto(to) == pc' = [pc EXCEPT ![currentThread] = to]

TheLock == lock[currentThread]
Holder  == lockerThread[TheLock]

LockInit ==
    /\ SemInit
    /\ lockerThread = [l \in Sem |-> NoThread]
    /\ priorityTemp = [t \in Thread |-> -1]
    /\ pc = [t \in Thread |-> "program"]
    /\ lock = [t \in Thread |-> CHOOSE l \in Sem : TRUE]
    /\ priorityLockerThread = [t \in Thread |-> 0]
    /\ priorityCurrentThread = [t \in Thread |-> 0]
    /\ inside = [l \in Sem |-> {}]

-----------------------------------------------------------------------------
(* Thread::setPriorityTemp: saves the priority only the first time, and    *)
(* always overwrites it.                                                   *)
setPriorityTemp(t, p) ==
    /\ priorityTemp' = IF priorityTemp[t] = -1
                       THEN [priorityTemp EXCEPT ![t] = priority[t]] ELSE priorityTemp
    /\ priority' = [priority EXCEPT ![t] = p]

(* Lock::Acquire, lines 37-38. *)
Acquire(l) ==
    /\ At("program")
    /\ lockerThread[l] # currentThread
    /\ Cardinality({k \in Sem : currentThread \in inside[k]}) < MaxHeld
    /\ lock' = [lock EXCEPT ![currentThread] = l]
    /\ Goto(IF lockerThread[l] = NoThread THEN "P" ELSE "compare")
    /\ UNCHANGED <<semVars, lockerThread, donation, inside>>

Compare ==
    /\ At("compare")
    /\ IF Holder = NoThread
       THEN Goto("fault") /\ UNCHANGED <<priorityLockerThread, priorityCurrentThread>>
       ELSE /\ priorityLockerThread' =
                 [priorityLockerThread EXCEPT ![currentThread] = priority[Holder]]
            /\ priorityCurrentThread' =
                 [priorityCurrentThread EXCEPT ![currentThread] = priority[currentThread]]
            /\ Goto(IF priority[currentThread] > priority[Holder] THEN "raise" ELSE "P")
    /\ UNCHANGED <<semVars, lockerThread, priorityTemp, lock, inside>>

Raise ==
    /\ At("raise")
    /\ IF Holder = NoThread
       THEN Goto("fault") /\ UNCHANGED <<priority, priorityTemp>>
       ELSE /\ setPriorityTemp(Holder, priorityCurrentThread[currentThread])
            /\ Goto("isReady")
    /\ UNCHANGED <<currentThread, status, readyLists, threadToBeDestroyed, life,
                   value, queue, inP, lockerThread, lock, priorityLockerThread,
                   priorityCurrentThread, inside>>

TestReady ==
    /\ At("isReady")
    /\ Goto(IF isReady(readyLists, Holder, priorityLockerThread[currentThread])
            THEN "remove" ELSE "P")
    /\ UNCHANGED <<semVars, lockerThread, donation, lock, inside>>

(* The list operations of lines 44 and 45; rl are the new ready lists. *)
Requeue(rl, to) ==
    /\ readyLists' = rl
    /\ Goto(to)
    /\ UNCHANGED <<currentThread, status, priority, threadToBeDestroyed, life,
                   value, queue, inP, lockerThread, donation, lock, inside>>

Remove ==
    /\ At("remove")
    /\ Requeue(removeFromPriorityList(readyLists, Holder,
                                      priorityLockerThread[currentThread]), "add")

Add ==
    /\ At("add")
    /\ IF Holder = NoThread
       THEN Requeue(readyLists, "fault")
       ELSE Requeue(addToPriorityList(readyLists, Holder,
                                      priorityCurrentThread[currentThread]), "P")

(* s->P(): sleep, or take the unit and go on to line 51, where the locals   *)
(* of the donation are dead.                                               *)
AcquireP ==
    /\ At("P")
    /\ P(TheLock)
    /\ IF value[TheLock] = 0
       THEN UNCHANGED <<pc, inside, donation>>
       ELSE /\ Goto("own")
            /\ inside' = [inside EXCEPT ![TheLock] = @ \cup {currentThread}]
            /\ priorityLockerThread' = [priorityLockerThread EXCEPT ![currentThread] = 0]
            /\ priorityCurrentThread' = [priorityCurrentThread EXCEPT ![currentThread] = 0]
            /\ UNCHANGED priorityTemp
    /\ UNCHANGED <<lockerThread, lock>>

SetLockerThread(from, t, to) ==
    /\ At(from)
    /\ lockerThread' = [lockerThread EXCEPT ![TheLock] = t]
    /\ Goto(to)
    /\ UNCHANGED <<semVars, donation, lock, inside>>

Own == SetLockerThread("own", currentThread, "program")

-----------------------------------------------------------------------------
Release_ByAnyone(l) ==
    /\ At("program")
    /\ lock' = [lock EXCEPT ![currentThread] = l]
    /\ Goto(IF priorityTemp[currentThread] # -1 THEN "restore" ELSE "clear")
    /\ UNCHANGED <<semVars, lockerThread, donation, inside>>

(* Lock::Release, lines 57-59. *)
Release(l) ==
    /\ At("program")
    /\ lockerThread[l] = currentThread
    /\ lock' = [lock EXCEPT ![currentThread] = l]
    /\ Goto(IF priorityTemp[currentThread] # -1 THEN "restore" ELSE "clear")
    /\ UNCHANGED <<semVars, lockerThread, donation, inside>>

Restore ==
    /\ At("restore")
    /\ priority' = [priority EXCEPT ![currentThread] = Clamped(priorityTemp[currentThread])]
    /\ Goto("reset")
    /\ UNCHANGED <<currentThread, status, readyLists, threadToBeDestroyed, life,
                   value, queue, inP, lockerThread, donation, lock, inside>>

Reset ==
    /\ At("reset")
    /\ setPriorityTemp(currentThread, -1)
    /\ Goto("clear")
    /\ UNCHANGED <<currentThread, status, readyLists, threadToBeDestroyed, life,
                   value, queue, inP, lockerThread, lock, priorityLockerThread,
                   priorityCurrentThread, inside>>

Clear_Forgotten ==
    /\ At("clear")
    /\ Goto("V")
    /\ UNCHANGED <<semVars, lockerThread, donation, lock, inside>>

Clear == SetLockerThread("clear", NoThread, "V")

ReleaseV ==
    /\ At("V")
    /\ VBody(TheLock)
    /\ inside' = [inside EXCEPT ![TheLock] = @ \ {currentThread}]
    /\ Goto("program")
    /\ UNCHANGED <<lockerThread, donation, lock>>

-----------------------------------------------------------------------------
(* Where the running thread can lose the CPU. *)
PreemptionPoint ==
    \/ Preemptive /\ InterruptsOn
    \/ pc[currentThread] \in {"program", "own"}

TimeSlice ==
    /\ ~Faulted
    /\ PreemptionPoint
    /\ Preempt
    /\ UNCHANGED <<lockerThread, donation, pc, lock, inside>>

Spawn(t) ==
    /\ At("program")
    /\ Start(t)
    /\ UNCHANGED <<lockerThread, donation, pc, lock, inside>>

Step == \/ Compare \/ Raise \/ TestReady \/ Remove \/ Add \/ AcquireP \/ Own
        \/ Restore \/ Reset \/ Clear \/ ReleaseV

LockNext ==
    \/ Step
    \/ TimeSlice
    \/ \E l \in Sem : Acquire(l) \/ Release(l)
    \/ \E t \in Thread : Spawn(t)

LockSpec == LockInit /\ [][LockNext]_lockVars

-----------------------------------------------------------------------------
LockTypeOK ==
    /\ SemTypeOK
    /\ lockerThread \in [Sem -> Thread \cup {NoThread}]
    /\ priorityTemp \in [Thread -> Int]
    /\ pc \in [Thread -> Label \cup {"fault"}]
    /\ lock \in [Thread -> Sem]
    /\ priorityLockerThread \in [Thread -> Int]
    /\ priorityCurrentThread \in [Thread -> Int]
    /\ inside \in [Sem -> SUBSET Thread]

(* The promise of lock.hh: between the end of Acquire's P and the V of     *)
(* Release a lock has one thread at most, whatever the priorities, and     *)
(* even when the donation code is preempted half way.                      *)
MutualExclusion == \A l \in Sem : \A t, u \in inside[l] : t = u

(* IsHeldByCurrentThread tells the truth to a thread that is not in the    *)
(* middle of Acquire or Release: it answers TRUE to the holder, so the     *)
(* holder can always release, and to nobody else, so nobody but the holder *)
(* can (lock.hh:31, the ASSERTs of lock.cc:37 and 57).                     *)
HolderIsKnown ==
    \A l \in Sem, t \in Thread :
        /\ lockerThread[l] = t => t \in inside[l]
        /\ t \in inside[l] /\ pc[t] = "program" => lockerThread[l] = t

(* What a user of the lock sees of it: who is past Acquire's P and not at  *)
(* the end of Release's V.                                                 *)
holder == [l \in Sem |-> IF inside[l] = {} THEN NoThread ELSE CHOOSE t \in inside[l] : TRUE]

AbstractLock == INSTANCE Mutex WITH User <- Thread, TheLocks <- Sem, Nobody <- NoThread

(* The whole of Acquire and Release, wake-ups, donation and preemption     *)
(* included, shows its users an atomic Take and an atomic Free.            *)
ImplementsMutex == AbstractLock!MutexSpec

(* Between Acquire and Release of its last lock a thread gets back the     *)
(* priority it was created with: "restauran la prioridad original del      *)
(* thread" (lock.cc:66).                                                   *)
PriorityIsRestored ==
    \A t \in Thread :
        (pc[t] = "program" /\ \A l \in Sem : t \notin inside[l])
            => priority[t] = InitPriority[t]
=============================================================================
