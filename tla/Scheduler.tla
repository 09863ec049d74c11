----------------------------- MODULE Scheduler -----------------------------
(***************************************************************************)
(* The Nachos thread scheduler: threads/scheduler.cc and the part of       *)
(* threads/thread.cc that calls it (Fork, Yield, Sleep, Finish, and the    *)
(* priority setters).                                                      *)
(*                                                                         *)
(* There is one CPU.  Every operation below runs with interrupts off, so   *)
(* it is one step; the steps of different threads interleave through       *)
(* Yield (called by the timer handler, threads/system.cc) and Sleep.       *)
(*                                                                         *)
(* When Sleep finds no ready thread it loops in Interrupt::Idle on behalf  *)
(* of the blocked thread: currentThread keeps its value but is not RUNNING *)
(* (the operator Idle), and only an interrupt handler can wake somebody.   *)
(***************************************************************************)
EXTENDS Integers, Sequences, FiniteSets

CONSTANTS
    Thread,             \* the thread control blocks the run may use
    Main,               \* the thread the simulator boots in (system.cc)
    NoThread,           \* nullptr
    PRIORITY_SIZE,      \* number of ready lists
    InitPriority,       \* Thread::Thread's priority argument, per thread
    RequestedPriority   \* arguments the program passes to setPriority

ASSUME SchedulerAssumption ==
    /\ Main \in Thread
    /\ NoThread \notin Thread
    /\ PRIORITY_SIZE \in Nat \ {0}
    /\ InitPriority \in [Thread -> 0 .. PRIORITY_SIZE - 1]
    /\ RequestedPriority \subseteq Int

VARIABLES
    currentThread,        \* the thread whose stack the CPU is on
    status,               \* Thread::status
    readyLists,           \* Scheduler::readyLists, one FIFO per priority
    priority,             \* Thread::priority
    threadToBeDestroyed,  \* the finished thread Run deletes, or NoThread
    life                  \* what became of each thread, see Life

vars == <<currentThread, status, readyLists, priority, threadToBeDestroyed, life>>

Priority == 0 .. PRIORITY_SIZE - 1
Status   == {"JUST_CREATED", "RUNNING", "READY", "BLOCKED"}

(* created: constructed, no stack yet.  forked: its first dispatch starts  *)
(* at ThreadRoot.  begun: it resumes inside Scheduler::Run.  finished: it  *)
(* is past the last statement of Finish.  deleted: destroyed by Run.       *)
Life == {"created", "forked", "begun", "finished", "deleted"}

-----------------------------------------------------------------------------
(* Scheduler::readyLists.  An index outside the array is memory that       *)
(* FindNextToRun never scans (malloc's own words surround the array): the  *)
(* write either faults, which ends the behaviour, or loses the thread.     *)

(* Definitions named X_... before a definition X are faulty variants of X, *)
(* kept to show that the properties notice the fault.                      *)
addToPriorityList_Prepends(rl, t, p) ==
    IF p \in Priority THEN [rl EXCEPT ![p] = <<t>> \o @] ELSE rl

addToPriorityList(rl, t, p) ==
    IF p \in Priority THEN [rl EXCEPT ![p] = Append(@, t)] ELSE rl

isReady(rl, t, p) ==
    p \in Priority /\ \E i \in 1 .. Len(rl[p]) : rl[p][i] = t

(* List::Remove drops the first occurrence only. *)
removeFromPriorityList(rl, t, p) ==
    IF ~isReady(rl, t, p) THEN rl
    ELSE LET first == CHOOSE i \in 1 .. Len(rl[p]) :
                        rl[p][i] = t /\ \A j \in 1 .. i - 1 : rl[p][j] # t
         IN  [rl EXCEPT ![p] =
                [i \in 1 .. Len(@) - 1 |-> IF i < first THEN @[i] ELSE @[i + 1]]]

(* The list half of ReadyToRun; the caller also sets the status. *)
ReadyToRun(rl, t) == addToPriorityList(rl, t, priority[t])

AnyReady == \E p \in Priority : readyLists[p] # <<>>

TopPriority_LowestFirst ==
    CHOOSE p \in Priority : /\ readyLists[p] # <<>>
                            /\ \A q \in Priority : q < p => readyLists[q] = <<>>

(* The list FindNextToRun stops at: the highest index that is not empty. *)
TopPriority ==
    CHOOSE p \in Priority : /\ readyLists[p] # <<>>
                            /\ \A q \in Priority : q > p => readyLists[q] = <<>>

FindNextToRun == Head(readyLists[TopPriority])
Dequeued      == [readyLists EXCEPT ![TopPriority] = Tail(@)]

-----------------------------------------------------------------------------
Running == status[currentThread] = "RUNNING"
Idle    == ~Running

(* Scheduler::Run: switch to next, with the ready lists rl, the statuses   *)
(* st, the lives lf and the carcass the caller leaves.  The code after     *)
(* SWITCH, which deletes the carcass, is executed by the thread switched   *)
(* TO, and only when that thread was itself switched out inside Run: a     *)
(* thread that starts at ThreadRoot skips it.                              *)
Run(next, rl, st, lf, carcass) ==
    LET begins == lf[next] = "forked"
    IN  /\ currentThread' = next
        /\ readyLists' = rl
        /\ status' = [st EXCEPT ![next] = "RUNNING"]
        /\ life' = [t \in Thread |->
                      IF t = carcass /\ ~begins THEN "deleted"
                      ELSE IF t = next THEN "begun" ELSE lf[t]]
        /\ threadToBeDestroyed' = IF begins THEN carcass ELSE NoThread

SleepWith_LeavesCpu(lf, carcass) ==
    IF AnyReady
    THEN Run(FindNextToRun, Dequeued,
             [status EXCEPT ![currentThread] = "BLOCKED"], lf, carcass)
    ELSE /\ currentThread' = NoThread
         /\ status' = [status EXCEPT ![currentThread] = "BLOCKED"]
         /\ life' = lf
         /\ threadToBeDestroyed' = carcass
         /\ UNCHANGED readyLists

(* Thread::Sleep up to the switch, for a caller that leaves lf and carcass. *)
SleepWith(lf, carcass) ==
    LET st == [status EXCEPT ![currentThread] = "BLOCKED"]
    IN  IF AnyReady
        THEN Run(FindNextToRun, Dequeued, st, lf, carcass)
        ELSE /\ status' = st
             /\ life' = lf
             /\ threadToBeDestroyed' = carcass
             /\ UNCHANGED <<currentThread, readyLists>>

-----------------------------------------------------------------------------
Init ==
    /\ currentThread = Main
    /\ status = [t \in Thread |-> IF t = Main THEN "RUNNING" ELSE "JUST_CREATED"]
    /\ readyLists = [p \in Priority |-> <<>>]
    /\ priority = InitPriority
    /\ threadToBeDestroyed = NoThread
    /\ life = [t \in Thread |-> IF t = Main THEN "begun" ELSE "created"]

(* Thread::Fork of a thread that is not joinable. *)
Fork(t) ==
    /\ Running
    /\ life[t] = "created"
    /\ status' = [status EXCEPT ![t] = "READY"]
    /\ readyLists' = ReadyToRun(readyLists, t)
    /\ life' = [life EXCEPT ![t] = "forked"]
    /\ UNCHANGED <<currentThread, priority, threadToBeDestroyed>>

Yield_ForgetsCaller ==
    /\ Running
    /\ AnyReady
    /\ Run(FindNextToRun, Dequeued,
           [status EXCEPT ![currentThread] = "READY"], life, threadToBeDestroyed)
    /\ UNCHANGED priority

(* Thread::Yield: the next thread leaves the lists before the caller joins *)
(* them.  With no ready thread Yield returns having done nothing.          *)
Yield ==
    /\ Running
    /\ AnyReady
    /\ Run(FindNextToRun, ReadyToRun(Dequeued, currentThread),
           [status EXCEPT ![currentThread] = "READY"], life, threadToBeDestroyed)
    /\ UNCHANGED priority

(* Thread::Sleep called by a synchronisation primitive. *)
Sleep ==
    /\ Running
    /\ SleepWith(life, threadToBeDestroyed)
    /\ UNCHANGED priority

(* ReadyToRun called for a sleeping thread: by the running thread (a V) or *)
(* by an interrupt handler, which may find the CPU idle.                   *)
Wake(t) ==
    /\ status[t] = "BLOCKED"
    /\ life[t] = "begun"
    /\ status' = [status EXCEPT ![t] = "READY"]
    /\ readyLists' = ReadyToRun(readyLists, t)
    /\ UNCHANGED <<currentThread, priority, threadToBeDestroyed, life>>

(* Sleep's loop: Idle returned after a handler woke somebody. *)
IdleDispatch ==
    /\ Idle
    /\ AnyReady
    /\ Run(FindNextToRun, Dequeued, status, life, threadToBeDestroyed)
    /\ UNCHANGED priority

Finish_DeletesItself ==
    /\ Running
    /\ SleepWith([life EXCEPT ![currentThread] = "deleted"], NoThread)
    /\ UNCHANGED priority

(* Thread::Finish of a thread that is not joinable. *)
Finish ==
    /\ Running
    /\ SleepWith([life EXCEPT ![currentThread] = "finished"], currentThread)
    /\ UNCHANGED priority

(* Thread::setPriority's clamp. *)
Clamped(p) == IF p > PRIORITY_SIZE THEN PRIORITY_SIZE ELSE IF p < 0 THEN 0 ELSE p

(* Thread::setPriority, on the running thread or before a Fork: the only   *)
(* calls there are outside Lock.                                           *)
SetPriority(t, p) ==
    /\ Running
    /\ t = currentThread \/ life[t] = "created"
    /\ priority' = [priority EXCEPT ![t] = Clamped(p)]
    /\ UNCHANGED <<currentThread, status, readyLists, threadToBeDestroyed, life>>

(* Lock::Acquire raises the holder t to its own priority and moves it to   *)
(* the list of that priority if it is ready.                               *)
Donate(t) ==
    LET old == priority[t]
        new == priority[currentThread]
    IN  /\ Running
        /\ life[t] \in {"forked", "begun"}
        /\ new > old
        /\ priority' = [priority EXCEPT ![t] = new]
        /\ readyLists' = IF isReady(readyLists, t, old)
                         THEN addToPriorityList(
                                removeFromPriorityList(readyLists, t, old), t, new)
                         ELSE readyLists
        /\ UNCHANGED <<currentThread, status, threadToBeDestroyed, life>>

Next ==
    \/ Yield
    \/ Sleep
    \/ Finish
    \/ IdleDispatch
    \/ \E t \in Thread : Fork(t) \/ Wake(t) \/ Donate(t)
    \/ \E t \in Thread, p \in RequestedPriority : SetPriority(t, p)

Spec == Init /\ [][Next]_vars

(* The timer device is always armed (system.cc), so a running thread is    *)
(* eventually made to yield, and Sleep's idle loop polls the ready lists.  *)
FairSpec == Spec /\ WF_vars(Yield) /\ WF_vars(IdleDispatch)

-----------------------------------------------------------------------------
(* Types.  A priority may be any integer: nothing in the setters keeps it  *)
(* inside the array of lists.                                              *)
TypeOK ==
    /\ currentThread \in Thread
    /\ status \in [Thread -> Status]
    /\ readyLists \in [Priority -> Seq(Thread)]
    /\ priority \in [Thread -> Int]
    /\ threadToBeDestroyed \in Thread \cup {NoThread}
    /\ life \in [Thread -> Life]

Slots(p) == 1 .. Len(readyLists[p])

(* Whatever is on a ready list is READY, and is on the list of its own     *)
(* priority: a thread that changed priority while queued, or that was      *)
(* dispatched without leaving its list, would break it (scheduler.cc).     *)
ListedThreadsAreReady ==
    \A p \in Priority : \A i \in Slots(p) :
        LET t == readyLists[p][i] IN status[t] = "READY" /\ priority[t] = p

(* No thread is queued twice: a second entry would dispatch a thread that  *)
(* is blocked or already running (the duplicate lock.cc:65-71 warns of).   *)
NoThreadQueuedTwice ==
    \A p, q \in Priority : \A i \in Slots(p), j \in Slots(q) :
        readyLists[p][i] = readyLists[q][j] => p = q /\ i = j

(* No thread is lost: a READY thread is on some list FindNextToRun scans,  *)
(* so it can be dispatched again.                                          *)
ReadyThreadsAreListed ==
    \A t \in Thread : status[t] = "READY" =>
        \E p \in Priority : \E i \in Slots(p) : readyLists[p][i] = t

(* The ready lists are exactly the READY threads, each once and under its  *)
(* own priority, whatever is forked, woken, preempted, donated to or       *)
(* finished in between (scheduler.cc:42-82, thread.cc:223-239).            *)
ReadyListsAreRight ==
    ListedThreadsAreReady /\ NoThreadQueuedTwice /\ ReadyThreadsAreListed

(* Only the thread the CPU is on is RUNNING, and a finished or deleted     *)
(* thread control block is never RUNNING nor READY: nobody executes on a   *)
(* stack that Run has freed (ASSERT of Thread::~Thread, thread.cc:72).     *)
NoCarcassRuns ==
    /\ \A t \in Thread : status[t] = "RUNNING" => t = currentThread
    /\ \A t \in Thread : life[t] \in {"finished", "deleted"} => status[t] = "BLOCKED"
    /\ life[currentThread] # "deleted"

(* A context switch always goes to a ready thread of the highest priority  *)
(* that was queued when the switch began (FindNextToRun).                  *)
SwitchesToHighest ==
    [][currentThread' # currentThread =>
         /\ status[currentThread'] = "READY"
         /\ \A t \in Thread :
               status[t] = "READY" => priority[t] <= priority[currentThread']]_vars

Runnable(t) == status[t] \in {"READY", "RUNNING"}

(* The FIFO lists and the timer let every ready thread run, unless a       *)
(* thread of higher priority can run: only priorities starve               *)
(* (FindNextToRun, Yield).                                                 *)
ReadyThreadsRun ==
    \A t \in Thread :
        status[t] = "READY" ~> \/ status[t] = "RUNNING"
                              \/ \E u \in Thread : Runnable(u) /\ priority[u] > priority[t]
=============================================================================
