----------------------------- MODULE Semaphore -----------------------------
(***************************************************************************)
(* threads/semaphore.cc on top of the scheduler.  P and V run with         *)
(* interrupts off.  A thread that P puts to sleep resumes inside the while *)
(* loop, still with interrupts off, and tests the value again: a V does    *)
(* not hand the unit to the thread it wakes, and another thread may take   *)
(* it first.                                                               *)
(*                                                                         *)
(* SemSpec is any program over the semaphores: threads call P and V in any *)
(* order, and device handlers call V on HandlerSem.                        *)
(***************************************************************************)
EXTENDS Scheduler

CONSTANTS
    Sem,         \* the semaphores
    NoSem,       \* "in no P"
    HandlerSem,  \* semaphores an interrupt handler signals
    InitValue,   \* constructor argument, per semaphore
    MaxValue     \* bound on a value: V is not called beyond it

ASSUME SemaphoreAssumption ==
    /\ NoSem \notin Sem
    /\ HandlerSem \subseteq Sem
    /\ InitValue \in [Sem -> Nat]
    /\ MaxValue \in Nat

VARIABLES
    value,  \* Semaphore::value
    queue,  \* Semaphore::queue, the threads asleep in P
    inP     \* per thread, the semaphore whose P put it to sleep, or NoSem

semVars == <<vars, value, queue, inP>>

(* Outside P's loop interrupts are on: the running thread may be preempted *)
(* and a handler may run.                                                  *)
InterruptsOn == Running => inP[currentThread] = NoSem

SemInit ==
    /\ Init
    /\ value = InitValue
    /\ queue = [s \in Sem |-> <<>>]
    /\ inP = [t \in Thread |-> NoSem]

-----------------------------------------------------------------------------
(* One turn of P's loop by the running thread: its first, or the one after *)
(* it was woken.                                                           *)
PBlocks(s) ==
    /\ value[s] = 0
    /\ queue' = [queue EXCEPT ![s] = Append(@, currentThread)]
    /\ inP' = [inP EXCEPT ![currentThread] = s]
    /\ SleepWith(life, threadToBeDestroyed)
    /\ UNCHANGED <<priority, value>>

PTakes_Unchecked(s) ==
    /\ value' = [value EXCEPT ![s] = @ - 1]
    /\ inP' = [inP EXCEPT ![currentThread] = NoSem]
    /\ UNCHANGED <<vars, queue>>

PTakes(s) ==
    /\ value[s] # 0
    /\ value' = [value EXCEPT ![s] = @ - 1]
    /\ inP' = [inP EXCEPT ![currentThread] = NoSem]
    /\ UNCHANGED <<vars, queue>>

P(s) ==
    /\ Running
    /\ inP[currentThread] \in {NoSem, s}
    /\ PBlocks(s) \/ PTakes(s)

(* The oldest sleeper on s becomes ready. *)
WakeOne(s) ==
    LET t == Head(queue[s])
    IN  /\ queue' = [queue EXCEPT ![s] = Tail(@)]
        /\ status' = [status EXCEPT ![t] = "READY"]
        /\ readyLists' = ReadyToRun(readyLists, t)

VBody_OnlyAtZero(s) ==
    /\ value' = [value EXCEPT ![s] = @ + 1]
    /\ IF queue[s] = <<>> \/ value[s] > 0
       THEN UNCHANGED <<status, readyLists, queue>>
       ELSE WakeOne(s)
    /\ UNCHANGED <<currentThread, priority, threadToBeDestroyed, life, inP>>

VBody_NoPop(s) ==
    /\ value' = [value EXCEPT ![s] = @ + 1]
    /\ IF queue[s] = <<>>
       THEN UNCHANGED <<status, readyLists>>
       ELSE /\ status' = [status EXCEPT ![Head(queue[s])] = "READY"]
            /\ readyLists' = ReadyToRun(readyLists, Head(queue[s]))
    /\ UNCHANGED <<currentThread, priority, threadToBeDestroyed, life, inP, queue>>

VBody_NoStatus(s) ==
    /\ value' = [value EXCEPT ![s] = @ + 1]
    /\ IF queue[s] = <<>>
       THEN UNCHANGED <<readyLists, queue>>
       ELSE /\ queue' = [queue EXCEPT ![s] = Tail(@)]
            /\ readyLists' = ReadyToRun(readyLists, Head(queue[s]))
    /\ UNCHANGED <<currentThread, status, priority, threadToBeDestroyed, life, inP>>

(* V: wake a sleeper, if any, and raise the value. *)
VBody(s) ==
    /\ value' = [value EXCEPT ![s] = @ + 1]
    /\ IF queue[s] = <<>>
       THEN UNCHANGED <<status, readyLists, queue>>
       ELSE WakeOne(s)
    /\ UNCHANGED <<currentThread, priority, threadToBeDestroyed, life, inP>>

V(s) == Running /\ InterruptsOn /\ value[s] < MaxValue /\ VBody(s)

(* V from an interrupt handler, which also runs while the CPU idles. *)
HandlerV(s) == InterruptsOn /\ value[s] < MaxValue /\ VBody(s)

-----------------------------------------------------------------------------
Preempt == InterruptsOn /\ Yield /\ UNCHANGED <<value, queue, inP>>

Exit == InterruptsOn /\ Finish /\ UNCHANGED <<value, queue, inP>>

Start(t) == InterruptsOn /\ Fork(t) /\ UNCHANGED <<value, queue, inP>>

Resume == IdleDispatch /\ UNCHANGED <<value, queue, inP>>

(* The rest of a P that was put to sleep. *)
FinishP == \E s \in Sem : inP[currentThread] = s /\ P(s)

SemNext ==
    \/ \E s \in Sem : P(s) \/ V(s)
    \/ \E s \in HandlerSem : HandlerV(s)
    \/ Preempt
    \/ Exit
    \/ Resume
    \/ \E t \in Thread : Start(t)

SemSpec == SemInit /\ [][SemNext]_semVars

(* The timer preempts, the idle loop polls, and a thread inside P's loop   *)
(* goes on: interrupts are off, nothing else can run.                      *)
SemFairness == WF_semVars(Preempt) /\ WF_semVars(Resume) /\ WF_semVars(FinishP)

SemFairSpec == SemSpec /\ SemFairness

-----------------------------------------------------------------------------
SemTypeOK ==
    /\ TypeOK
    /\ value \in [Sem -> Nat]
    /\ queue \in [Sem -> Seq(Thread)]
    /\ inP \in [Thread -> Sem \cup {NoSem}]

Queued(t, s) == \E i \in 1 .. Len(queue[s]) : queue[s][i] = t

(* The queues hold exactly the threads that sleep in P, each once and on   *)
(* the semaphore it waits for: V never makes ready a thread that is not    *)
(* asleep, and no sleeper is forgotten (semaphore.cc:67, 85).              *)
SleepersAreQueued ==
    /\ \A s \in Sem : \A i, j \in 1 .. Len(queue[s]) :
          queue[s][i] = queue[s][j] => i = j
    /\ \A t \in Thread, s \in Sem :
          Queued(t, s) <=> inP[t] = s /\ status[t] = "BLOCKED"
    /\ \A t \in Thread :
          status[t] = "BLOCKED" => inP[t] # NoSem \/ life[t] \in {"finished", "deleted"}

(* Threads that were woken and have not tested the value again yet. *)
Woken(s) == {t \in Thread : inP[t] = s /\ ~Queued(t, s)}

(* No wake-up is lost: while threads sleep on s, every unit of its value   *)
(* has a woken thread on its way to take it, so no thread sleeps on a      *)
(* semaphore that stays available (the Pop and the increment of V against  *)
(* the loop of P, with third threads taking units in between).             *)
NoLostWakeup ==
    \A s \in Sem : queue[s] # <<>> => value[s] <= Cardinality(Woken(s))

(* The semaphores use the scheduler only in the ways Scheduler.tla allows. *)
ImplementsScheduler == Spec

(* A unit and a thread in P never stay side by side for ever, although the *)
(* woken thread can lose the unit to a third one, unless threads of higher *)
(* priority keep it off the CPU (the loop of semaphore.cc:66).             *)
Outranked(t, s) ==
    inP[t] = s /\ \E u \in Thread : Runnable(u) /\ priority[u] > priority[t]

PIsServed ==
    \A s \in Sem : (value[s] > 0 /\ \E t \in Thread : inP[t] = s)
                     ~> \/ value[s] = 0
                        \/ ~\E t \in Thread : inP[t] = s
                        \/ \E t \in Thread : Outranked(t, s)
=============================================================================
