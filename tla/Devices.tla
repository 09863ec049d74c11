------------------------------ MODULE Devices ------------------------------
(***************************************************************************)
(* Simulated time and the devices that live in it: the pending interrupts  *)
(* and Idle (machine/interrupt.cc), the timer, the disk with its seek and  *)
(* rotation times, the console, and the synchronous drivers on top of them *)
(* (filesys/synch_disk.cc, userprog/SynchConsole.cc).                      *)
(*                                                                         *)
(* Times are relative to now: an interrupt is pending in so many ticks.    *)
(* Of the clock only `phase', the position of the disk's rotation, is      *)
(* kept.  Locks and semaphores are those of Mutex and Semaphore; any       *)
(* thread that can go on may be the one on the CPU.                        *)
(***************************************************************************)
EXTENDS Integers, Sequences, FiniteSets

CONSTANTS
    Thread, NoThread,
    SYSTEM_TICK, ROTATION_TIME, SEEK_TIME, CONSOLE_TIME, TIMER_TICKS,
    SECTORS_PER_TRACK, NUM_SECTORS,
    Char, EOF,           \* characters, and the one that EOF cannot be told from
    MaxUnread            \* bound on the units readAvail may collect

ASSUME DevicesAssumption ==
    /\ {SYSTEM_TICK, ROTATION_TIME, SEEK_TIME, CONSOLE_TIME, TIMER_TICKS} \subseteq Nat \ {0}
    /\ SECTORS_PER_TRACK \in Nat \ {0} /\ NUM_SECTORS \in Nat /\ MaxUnread \in Nat
    /\ EOF \notin Char /\ NoThread \notin Thread

VARIABLES
    pending,    \* Interrupt::pending: records [type, in], sorted by in
    mode,       \* run: kernel code; due: OneTick's loop; idle: Idle's first CheckIfDue;
                \* idleDue: its loop; halted
    phase,      \* totalTicks modulo Period
    lastSector, \* Disk::lastSector
    bufferInit, \* Disk::bufferInit modulo Period
    age,        \* ticks since bufferInit, at most Period
    active,     \* Disk::active
    putBusy,    \* Console::putBusy
    incoming,   \* Console::incoming
    eofTyped,   \* a byte that looks like EOF was typed
    pc, op,     \* where each thread is, in which call
    lock, sem   \* of each driver: lock's holder, semaphore's value

clockVars == <<pending, mode, phase>>
diskVars  == <<lastSector, bufferInit, age, active>>
consVars  == <<putBusy, incoming, eofTyped>>
drvVars   == <<pc, op, lock, sem>>
vars      == <<clockVars, diskVars, consVars, drvVars>>

Driver == {"disk", "put", "get"}
Type   == {"TIMER", "DISK", "CONSOLE_WRITE", "CONSOLE_READ"}
Period == ROTATION_TIME * SECTORS_PER_TRACK
Sector == 0 .. NUM_SECTORS - 1

Min2(a, b) == IF a < b THEN a ELSE b

(* List::SortedInsert: before the first entry that comes later. *)
SortedInsert(s, e) ==
    LET pos == CHOOSE p \in 1 .. Len(s) + 1 :
                 /\ p <= Len(s) => e.in < s[p].in
                 /\ \A k \in 1 .. p - 1 : s[k].in <= e.in
    IN  [k \in 1 .. Len(s) + 1 |-> IF k < pos THEN s[k] ELSE IF k = pos THEN e ELSE s[k - 1]]

(* Interrupt::Schedule, which asserts that fromNow is positive. *)
Scheduled(s, type, fromNow) == SortedInsert(s, [type |-> type, in |-> fromNow])

(* Timer::Timer and TimerExpired: the next timer interrupt, at the fixed   *)
(* interval (without -rs).                                                 *)
TimerExpired(s) == Scheduled(s, "TIMER", TIMER_TICKS)

Init ==
    /\ \E timer, console \in BOOLEAN :
         pending = LET t == IF timer THEN TimerExpired(<<>>) ELSE <<>>
                   IN  IF console THEN Scheduled(t, "CONSOLE_READ", CONSOLE_TIME) ELSE t
    /\ mode = "run" /\ phase = 0
    /\ lastSector = 0 /\ bufferInit = 0 /\ age = 0 /\ active = FALSE
    /\ putBusy = FALSE /\ incoming = EOF /\ eofTyped = FALSE
    /\ pc = [t \in Thread |-> "ready"] /\ op = [t \in Thread |-> "none"]
    /\ lock = [d \in Driver |-> NoThread] /\ sem = [d \in Driver |-> 0]

-----------------------------------------------------------------------------
(* The disk's timing (Disk::TimeToSeek, ModuloDiff, ComputeLatency). *)

Diff(a, b) == IF a > b THEN a - b ELSE b - a

SeekTime(s) == Diff(s \div SECTORS_PER_TRACK, lastSector \div SECTORS_PER_TRACK) * SEEK_TIME

Rotation(s) ==
    LET over == (phase + SeekTime(s)) % ROTATION_TIME
    IN  IF over > 0 THEN ROTATION_TIME - over ELSE 0

ModuloDiff_NoWrap(to, from) == Diff(to, from)

ModuloDiff(to, from) == (to - from) % SECTORS_PER_TRACK

InTrackBuffer(s, writing) ==
    /\ ~writing /\ SeekTime(s) = 0
    /\ (age + Rotation(s)) \div ROTATION_TIME > ModuloDiff(s, bufferInit \div ROTATION_TIME)

ComputeLatency(s, writing) ==
    LET timeAfter == phase + SeekTime(s) + Rotation(s)
    IN  IF InTrackBuffer(s, writing) THEN ROTATION_TIME
        ELSE SeekTime(s) + Rotation(s) + ROTATION_TIME
             + ModuloDiff(s, timeAfter \div ROTATION_TIME) * ROTATION_TIME

UpdateLast(s) ==
    /\ lastSector' = s
    /\ IF SeekTime(s) # 0
       THEN /\ bufferInit' = (phase + SeekTime(s) + Rotation(s)) % Period
            /\ age' = -(SeekTime(s) + Rotation(s))
       ELSE UNCHANGED <<bufferInit, age>>

-----------------------------------------------------------------------------
(* The drivers.  A thread acquires the lock, makes its request and waits   *)
(* for the interrupt; getChar waits first.                                 *)

Step(t, from, to) == mode = "run" /\ pc[t] = from /\ pc' = [pc EXCEPT ![t] = to]

(* The console exists if it polls. *)
Console == \E i \in DOMAIN pending : pending[i].type = "CONSOLE_READ"

Call(t, d) ==
    /\ Step(t, "ready", "acquire")
    /\ d = "disk" \/ Console
    /\ op' = [op EXCEPT ![t] = d]
    /\ UNCHANGED <<clockVars, diskVars, consVars, lock, sem>>

Acquire_Unlocked(t) ==
    /\ Step(t, "acquire", IF op[t] = "get" THEN "wait" ELSE "request")
    /\ UNCHANGED <<clockVars, diskVars, consVars, op, sem, lock>>

Acquire(t) ==
    /\ Step(t, "acquire", IF op[t] = "get" THEN "wait" ELSE "request")
    /\ lock[op[t]] = NoThread
    /\ lock' = [lock EXCEPT ![op[t]] = t]
    /\ UNCHANGED <<clockVars, diskVars, consVars, op, sem>>

(* Disk::ReadRequest and WriteRequest; an active disk fails an ASSERT. *)
DiskRequest(t, s, writing) ==
    /\ op[t] = "disk" /\ Step(t, "request", "wait")
    /\ ~active
    /\ active' = TRUE
    /\ UpdateLast(s)
    /\ pending' = Scheduled(pending, "DISK", ComputeLatency(s, writing))
    /\ UNCHANGED <<mode, phase, consVars, op, lock, sem>>

(* Console::PutChar *)
PutChar(t) ==
    /\ op[t] = "put" /\ Step(t, "request", "wait")
    /\ ~putBusy
    /\ putBusy' = TRUE
    /\ pending' = Scheduled(pending, "CONSOLE_WRITE", CONSOLE_TIME)
    /\ UNCHANGED <<mode, phase, diskVars, incoming, eofTyped, op, lock, sem>>

GetChar_Keeps(t) ==
    /\ op[t] = "get" /\ Step(t, "request", "release")
    /\ UNCHANGED <<clockVars, diskVars, consVars, op, lock, sem>>

(* Console::GetChar *)
GetChar(t) ==
    /\ op[t] = "get" /\ Step(t, "request", "release")
    /\ incoming' = EOF
    /\ UNCHANGED <<clockVars, diskVars, putBusy, eofTyped, op, lock, sem>>

(* semaphore->P() *)
Wait(t) ==
    /\ Step(t, "wait", IF op[t] = "get" THEN "request" ELSE "release")
    /\ sem[op[t]] > 0
    /\ sem' = [sem EXCEPT ![op[t]] = @ - 1]
    /\ UNCHANGED <<clockVars, diskVars, consVars, op, lock>>

Release(t) ==
    /\ Step(t, "release", "ready")
    /\ lock' = [lock EXCEPT ![op[t]] = NoThread]
    /\ op' = [op EXCEPT ![t] = "none"]
    /\ UNCHANGED <<clockVars, diskVars, consVars, sem>>

Finish(t) ==
    /\ Step(t, "ready", "done")
    /\ UNCHANGED <<clockVars, diskVars, consVars, op, lock, sem>>

-----------------------------------------------------------------------------
Advanced(s, d) == [i \in DOMAIN s |-> [s[i] EXCEPT !.in = @ - d]]

Pass(d) ==
    /\ phase' = (phase + d) % Period
    /\ age' = Min2(age + d, Period)

Blocked(t) ==
    \/ pc[t] = "done"
    \/ pc[t] = "acquire" /\ lock[op[t]] # NoThread
    \/ pc[t] = "wait" /\ sem[op[t]] = 0

(* OneTick, when kernel code enables interrupts. *)
OneTick ==
    /\ mode = "run" /\ \E t \in Thread : ~Blocked(t)
    /\ pending' = Advanced(pending, SYSTEM_TICK)
    /\ Pass(SYSTEM_TICK)
    /\ mode' = "due"
    /\ UNCHANGED <<lastSector, bufferInit, active, consVars, drvVars>>

(* Sleep finds no ready thread and calls Idle. *)
Idle ==
    /\ mode = "run" /\ \A t \in Thread : Blocked(t)
    /\ mode' = "idle"
    /\ UNCHANGED <<pending, phase, diskVars, consVars, drvVars>>

V_NotOfPut(d) == sem' = IF d = "put" THEN sem ELSE [sem EXCEPT ![d] = @ + 1]

(* The interrupt handlers of the drivers: semaphore->V(). *)
V(d) == sem' = [sem EXCEPT ![d] = @ + 1]

(* What the handlers of each device do to the pending list `rest'. *)
Handle(type, rest) ==
    \/ /\ type = "TIMER"
       /\ pending' = TimerExpired(rest)
       /\ UNCHANGED <<active, consVars, drvVars>>
    \/ /\ type = "DISK"
       /\ active' = FALSE /\ V("disk") /\ pending' = rest
       /\ UNCHANGED <<consVars, pc, op, lock>>
    \/ /\ type = "CONSOLE_WRITE"
       /\ putBusy' = FALSE /\ V("put") /\ pending' = rest
       /\ UNCHANGED <<active, incoming, eofTyped, pc, op, lock>>
    \/ /\ type = "CONSOLE_READ"                           \* CheckCharAvail, nothing to read
       /\ pending' = Scheduled(rest, "CONSOLE_READ", CONSOLE_TIME)
       /\ UNCHANGED <<active, consVars, drvVars>>
    \/ /\ type = "CONSOLE_READ" /\ incoming = EOF         \* CheckCharAvail, a character c
       /\ sem["get"] < MaxUnread
       /\ pending' = Scheduled(rest, "CONSOLE_READ", CONSOLE_TIME)
       /\ \E c \in Char \cup {EOF} : incoming' = c /\ eofTyped' = (eofTyped \/ c = EOF)
       /\ V("get")
       /\ UNCHANGED <<active, putBusy, pc, op, lock>>

(* CheckIfDue does not put the first entry back. *)
Fires == pending # <<>> /\ (Head(pending).in <= 0 \/ mode = "idle")

OnlyTimer_First == pending # <<>> /\ Head(pending).type = "TIMER"

(* Idle does not fire a timer when nothing else is pending. *)
OnlyTimer == Len(pending) = 1 /\ Head(pending).type = "TIMER"

IdleMode == mode \in {"idle", "idleDue"}

(* CheckIfDue fires the first interrupt, in Idle after moving the clock to *)
(* its time.                                                               *)
CheckIfDue ==
    LET first   == Head(pending)
        advance == IF mode = "idle" /\ first.in > 0 THEN first.in ELSE 0
    IN  /\ mode \in {"due", "idle", "idleDue"}
        /\ Fires
        /\ ~(IdleMode /\ OnlyTimer)
        /\ Handle(first.type, Advanced(Tail(pending), advance))
        /\ Pass(advance)
        /\ mode' = IF mode = "due" THEN "due" ELSE "idleDue"
        /\ UNCHANGED <<lastSector, bufferInit>>

(* CheckIfDue returns false: OneTick and Idle's loop end, Idle itself      *)
(* halts the machine.                                                      *)
NothingDue ==
    /\ mode \in {"due", "idle", "idleDue"}
    /\ ~Fires \/ (IdleMode /\ OnlyTimer)
    /\ mode' = IF mode = "idle" THEN "halted" ELSE "run"
    /\ UNCHANGED <<pending, phase, diskVars, consVars, drvVars>>

ThreadStep(t) ==
    \/ Acquire(t) \/ PutChar(t) \/ GetChar(t) \/ Wait(t) \/ Release(t)
    \/ \E s \in Sector, writing \in BOOLEAN : DiskRequest(t, s, writing)

Next ==
    \/ OneTick \/ Idle \/ CheckIfDue \/ NothingDue
    \/ \E t \in Thread : ThreadStep(t) \/ Finish(t) \/ \E d \in Driver : Call(t, d)

(* Time passes only while some thread runs, a finite number of ticks per   *)
(* step: a thread that can go on again and again, between ticks, does.     *)
Fairness ==
    /\ WF_vars(OneTick) /\ WF_vars(Idle) /\ WF_vars(CheckIfDue \/ NothingDue)
    /\ \A t \in Thread : SF_vars(ThreadStep(t))

Spec == Init /\ [][Next]_vars /\ Fairness

-----------------------------------------------------------------------------
(* The devices take one request at a time: whoever is about to make one    *)
(* finds the device free, and whoever is about to return knows that its    *)
(* own interrupt has come (ASSERTs at disk.cc:124, 147, console.cc:147).   *)
DriversWaitForInterrupt ==
    \A t \in Thread : pc[t] \in {"request", "release"} =>
        (op[t] = "disk" => ~active) /\ (op[t] = "put" => ~putBusy)

(* A typed character is in the buffer exactly as long as there is a unit,  *)
(* or a reader that took it, to fetch it: none is read twice, overwritten  *)
(* or left behind.  The exception is a byte equal to EOF, after which the  *)
(* buffer looks empty while it is not (console.cc:110, 116).               *)
EveryCharIsReadOnce ==
    ~eofTyped =>
        sem["get"] + Cardinality({t \in Thread : op[t] = "get" /\ pc[t] = "request"})
            = IF incoming = EOF THEN 0 ELSE 1

(* The machine halts by itself only when every thread has finished: one    *)
(* that waits for a device has an interrupt pending, also with the timer   *)
(* running (Idle, interrupt.cc:196-219).                                   *)
HaltsWhenAllAreDone == mode = "halted" => \A t \in Thread : pc[t] = "done"

(* A write ends when its sector has just passed under the head for the     *)
(* first time after the seek, wherever the head was and whatever the       *)
(* rotation (Disk::ComputeLatency, disk.cc:215-255).                       *)
LatencyIsExact ==
    ~active => \A s \in Sector :
        LET end == phase + ComputeLatency(s, TRUE)
        IN  /\ end % ROTATION_TIME = 0
            /\ (end \div ROTATION_TIME - 1) % SECTORS_PER_TRACK = s % SECTORS_PER_TRACK
            /\ end - phase < SeekTime(s) + Period + ROTATION_TIME

(* A disk request and an output request return (ReadSector, WriteSector,   *)
(* putChar).                                                               *)
RequestsReturn ==
    \A t \in Thread : pc[t] = "wait" /\ op[t] # "get" ~> pc[t] = "ready"
=============================================================================
