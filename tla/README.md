# A verification project for the UNR Nachos kernel

This directory holds TLA+ models of the kernel in `src/nachos-unr22a/code`
(Nachos *unr22a* with a course group's solutions: priorities, locks with priority
donation, condition variables, channels, `Join`, system calls) and of the machine it
runs on, TLC configurations that check them on small instances, and TLAPS proofs that
extend every safety result to every number of threads, priorities, processes, frames,
packets, sectors and files, and to every width of words.

Paths below are relative to `src/nachos-unr22a/code`.

## 1. The system

Nachos is a kernel linked with a simulated machine. There is one CPU; kernel
threads are switched by `Scheduler::Run`; devices act only through interrupt
handlers, which the simulator calls when simulated time advances
(`Interrupt::OneTick`) and from the idle loop (`Interrupt::Idle`). Atomicity in
the kernel means "with interrupts off". Time advances only when interrupts are
switched on again, or in user mode, so in a normal run a kernel thread is
preempted only there; with `-p` (`threads/preemptive.cc`) it can be preempted at
any instruction while interrupts are on.

| Component | State | Operations | What makes it correct |
|---|---|---|---|
| Scheduler (`threads/scheduler.cc`) and thread life cycle (`threads/thread.cc`) | `readyLists`, `currentThread`, `threadToBeDestroyed`, each thread's `status`, `priority` | `Fork`, `Yield`, `Sleep`, `Finish`, `ReadyToRun`, `FindNextToRun`, `Run`, `setPriority` | no thread lost or queued twice; the highest priority runs; a freed stack is never used; FIFO inside a priority |
| Semaphore (`threads/semaphore.cc`) | `value`, `queue` | `P`, `V` (also from handlers) | sleepers are exactly the queue; no lost wake-up |
| Lock (`threads/lock.cc`) | a semaphore, `lockerThread`, `priorityTemp` | `Acquire` with priority donation, `Release` | mutual exclusion; the holder is known; priorities are restored |
| Condition (`threads/condition.cc`) | `countWaiters`, a semaphore, the lock | `Wait`, `Signal`, `Broadcast` | waiters, units and counter add up; a `Signal` reaches a waiter |
| SynchList (`threads/synch_list.hh`) | list, lock, condition | `Append`, `Pop` | `Pop` never comes back empty; items are consumed |
| Channel (`threads/channel.cc`) | `myMessage`, lock, two semaphores | `Send`, `Receive` | a rendezvous: each value is received once, and its sender waits for that |
| Table (`lib/table.hh`, over `lib/list.hh`) | `data`, `current`, `freed` | `Add`, `Get`, `HasKey`, `Remove`, `Update` | it is a partial map from indices to items |
| Processes and system calls (`userprog/exception.cc`, `thread.cc`) | table of threads, table of open files per thread, channel per joinable thread | `Exec`, `Join`, `Exit`, `Open`, `Close`, `Read`, `Write` | `Join` returns the status of the process asked for; descriptors are valid |
| Interrupts, timer (`machine/interrupt.cc`, `timer.cc`) | pending list, level, clock | `SetLevel`, `OneTick`, `Idle`, `Schedule`, `CheckIfDue` | handlers run once, in order, never nested; halt only when nothing can happen |
| SynchDisk, SynchConsole and their devices | lock, semaphores, device busy flags | `ReadSector`, `WriteSector`, `putChar`, `getChar`, handlers | one request at a time; each completion wakes its requester |
| File system (`filesys/`) | directory, free map, headers on disk sectors | `Create`, `Open`, `Remove`, `ReadAt`, `WriteAt` | no sector belongs to two files; concurrent operations and a halt lose nothing |
| Address space, MMU (`userprog/address_space.cc`, `machine/mmu.cc`) | page table, frames, TLB | construction, `Translate` | no frame shared; every error case detected |
| MIPS processor (`machine/mips_sim.cc`, `machine.cc`) | registers, delayed load, program counters | one instruction, exceptions, system calls | arithmetic is right; the kernel sees what the program did |
| Network, post office (`machine/network.cc`, `network/post.cc`) | one-packet buffer, mailboxes | `Send`, `PostalDelivery`, `Receive` | a delivered packet is delivered once, to its box |

How they interact: the semaphore calls `Thread::Sleep` and
`Scheduler::ReadyToRun`; the lock is a semaphore plus calls into the scheduler's
lists; conditions, synchronised lists, channels, drivers and the post office are
built from locks and semaphores; `Join` is a channel's `Receive`, `Finish` a
`Send`; device handlers call `V`.

What is hard to test in it: the interleavings at the points where a primitive
gives up the CPU or the lock half way (`P`'s loop, `Condition::Wait`,
`Channel::Send`, the donation code), `V` from a handler that runs on the stack of
a sleeping thread, code after `SWITCH` that runs in another thread than the one
that called it, long sequences of legal calls (`Table::Remove`), a halt between two
writes of the file system, lost packets, and arithmetic by hand at its boundaries
(`Mult`, `ComputeLatency`, `WriteAt`, `WriteArgs`). `PROJECT.json`
lists these hazards line by line, each with the properties that watch it.

## 2. The modules

`Scheduler` is extended by `Semaphore`, which is extended by `Lock`: the state of
one is part of the state of the next, and each step of the upper layer is made of
the operators of the lower. `Lock` is shown to implement the small abstract
specification `Mutex`; the layers above use `Mutex` or its holder for their locks and
a number for the value of their semaphores, so they stay small enough to be checked
with several threads, one step per statement.

    Scheduler <- Semaphore <- Lock --implements--> Mutex <-uses- Condition <- SynchList <- Mail
                                                         <-uses- Channel --implements--> Rendezvous
    Table <-instance- Process
    UserMemory <- Machine
    Devices        FileSystem

Definitions named `X_Something` just before a definition `X` are faulty variants
of `X`: the fault a slip in that code would make, kept to show that a property
notices it. No specification uses them.

### Scheduler

One action per operation; all run with interrupts off, so each is one step.
`currentThread`, `readyLists`, `priority`, `status` and `threadToBeDestroyed` are
the code's; `life` is what became of a control block (created, forked, begun,
finished, deleted), which the code keeps in the saved stack and in the heap. `Run`
carries the subtle part: the code after `SWITCH` is executed by the thread
switched *to*, and only if it was itself switched out in `Run`; a thread that
starts at `ThreadRoot` skips it and the carcass stays for a later switch (or, if
that thread finishes first, is overwritten and leaks: `life` stays `finished`).
When `Sleep` finds nobody ready it loops in `Interrupt::Idle`: `currentThread`
keeps pointing to a thread that is not running (`Idle`), until a handler wakes
somebody (`Wake`, then `IdleDispatch`).

`setPriority`'s clamp is kept as it is: it lets `PRIORITY_SIZE` through, one past
the last list. An entry written outside the array is lost to `FindNextToRun`.
`MCScheduler.cfg` asks for priorities that stay inside; the theorem about the ready
lists has the assumption `RequestsInRange`, without which it is false.

`Donate` is the scheduler's share of `Lock::Acquire`, here in one step; `Lock`
has it statement by statement.

### Semaphore

`P` is a loop with interrupts off. Its `Sleep` is the only place where another
thread can get in, so a turn of the loop is one step, `inP` says which semaphore a
thread is in `P` of, and `InterruptsOn` (nobody is running inside `P`) is the guard
of everything that needs interrupts. A woken thread tests the value again and may
find that a third thread took the unit. `HandlerV` is `V` called by a device's
handler, with the CPU idle or not.

### Lock and Mutex

Every statement of `Acquire` and `Release` that touches shared state is a step of
its own; `pc` says where a thread is. The constant `Preemptive` selects where the
thread can lose the CPU between them: on return from `P` and `V`, or anywhere (`-p`).
`inside` (threads between `P` and `V`) is what the code has no name for. With `-p`
the holder can release between `Acquire`'s test of `lockerThread` (`lock.cc:38`) and
its uses (39 to 45); the use of a null pointer ends the behaviour in the label `fault`.

`Mutex` has two steps, `Take` and `Free`. `holder` is the refinement mapping.

### Channel and Rendezvous

`Channel` has one step per statement of `Send` and `Receive`. `Rendezvous` is what
a channel promises: a sender and a receiver meet in one step that hands over the
value; nobody returns without having met.

### Condition, SynchList and Mail

`Wait`, `Signal` and `Broadcast`, one step per statement, called by any thread
that has the lock. `notified` is not in the code: it records the waiters that a
`Signal` or `Broadcast` was for. `SynchList` adds the list (its length) and the
calls of `Append` and `Pop`. `Mail` is the post office of one machine sending to a
mailbox of another: `PostOffice::Send` under `sendLock`, the network device, which
may lose the packet and reports it as sent all the same, the socket, the poll that
buffers one packet, the thread of `PostalDelivery`, and the mailbox, which is the
`SynchList` with its contents (`box`). `wire` and `delivered` are not in the code:
what was not lost, and what `Receive` returned. The socket is taken to be reliable
and ordered; the only loss is the one the code emulates. The device's guard
`sendBusy` is asserted to be false and never set, so it is no variable.

### Table

`Add`, `Remove` and `Update`, with the loop of `Remove` one turn per step.
`SortedPop(&j)` pops the smallest freed index and assigns it to the loop counter,
as in the code. `live` is the map the callers believe in, and `mispopped` records that
the loop popped another index than the one it looked at.

### Process

`Exec`, `Join` and `Exit` with the parts of `Thread`, `AddressSpace` and
`Scheduler::Run` they reach. The table of threads is an instance of `Table`, entered
twice per process: by `Thread`'s constructor (`spaceId`) and by `Exec` (`pid`, what
the program gets). The channel of a joinable thread is a rendezvous (`Meet`), as the
run `channel` justifies. Kernel code is not preempted (no `-p`): the CPU changes
hands in user mode, before the first instruction of a thread, and where a thread
sleeps. An address space takes the lowest clear frames, overwrites frame 0 once per
page (`address_space.cc:60` passes the address of main memory and not of the frame)
and then loads code; frames are never given back, as nothing deletes an address
space. Failed ASSERTs and a `Join` on a thread that was deleted end in `abort`.

### UserMemory and Machine

`UserMemory` has the MMU, the copies of `transfer.cc` and the arguments of `args.cc`
as operators on a memory. What a copy writes is a function from addresses to bytes, its
image; `Copied` puts an image into memory, each byte through `Translate`, or fails as the
code's ASSERTs do. `Machine` runs one process on it: the arguments the kernel
puts on its stack (`Start`, or `StartFails` when `WriteStringToUser` takes an empty string
for a long one and runs past the stack), every instruction of the interpreter, and what happens
at a trap until the kernel returns. A byte has `ByteBits` bits and a word four bytes,
so that all carries, signs and alignments happen among 256 values. What the code does is
kept where the MIPS manual differs: `SRL` and `SRLV` shift an `int` and so copy the
sign, and `LWL`, `LWR`, `SWL`, `SWR` assert an aligned address, which leaves one of
their four cases. The kernel starts the stack 16 bytes below the top of the space.
Programs lie in virtual page 0; a store into that page or a jump out of it depends
on encodings, and ends the model's behaviour, as do arguments that reach down to that
page. The bitwise operations are stated on the places of a word's ones. `MachineAssumption`
says what the kernel gives a process: a page table whose frames exist and differ and that
addresses can span, and arguments that `SaveArgs` can have found in the father. The use bit, which nothing reads, is
left out.

### Devices

The list of pending interrupts, with times relative to now, `OneTick`, `CheckIfDue`,
`Idle` and the halt; the timer at its fixed interval (the random one of `-rs` is left
out); the disk, with seek, rotation and track buffer; the console; and the drivers
`SynchDisk` and `SynchConsole`. `mode` says in which loop the machine is. Of the clock
the position of the disk's rotation is kept (`phase`), and of `bufferInit` its phase and
its `age`. That the tick counter overflows and is restarted (`RestartTicks`) has no
counterpart, as no absolute time is kept.

### FileSystem

The disk with its headers and bytes, the directory file and the free map file, the
table of open files of each thread. `Create` and `Remove` compute their copies in one
step and write them back one file at a time in the order of the code, so the disk
in each state is what a restart would find; `Check` is the code's own consistency
check, as an operator: the headers and data sectors it visits are the places of the
disk, and its shadow map is the set of sectors found there. `Open` finds the sector in one step and fetches the header
in another. `ReadAt` and `WriteAt` are the algorithms of `open_file.cc` with the
partial first and last sectors; uninitialised kernel memory is a byte of its own.

What is assumed or left as it is:
* `Create` and `Remove` do not overlap. The comment at `file_system.cc:161` assumes
  it and no lock ensures it.
* After `Remove` of an open file the file is `stale`, and a write through it makes
  the disk `tainted`: no promise of the code survives that, and the properties say so.
* `Check` refuses files of the maximal number of sectors (`numSectors < NUM_DIRECT`,
  `file_system.cc:333`), which `Allocate` accepts. The sizes of the run stay below, and
  the theorem about `Check` has that as its hypothesis (`SmallFiles`); the other
  theorems hold for every size that `Allocate` accepts.
* `Open` with a full table gives the program descriptor 1, the console, and loses the
  `OpenFile` (`openFile` adds 2 to -1, so `exception.cc:238` never finds it negative).
* The system call `Remove` has an empty body; `FileSystem::Remove` is called from
  the command line. Both it and `Create` are taken to come at any time.

## 3. The runs

| Run | Instance | Shows |
|---|---|---|
| `scheduler` | 4 threads, 2 priorities, setPriority inside the range | ready lists are exact, no carcass runs, switches go to the highest priority, and only higher priorities starve a ready thread |
| `semaphore` | 4 threads of 2 priorities, 2 semaphores of value at most 2, handlers for both | sleep queues exact, no lost wake-up, every step is a scheduler step, a unit and a thread in `P` do not stay side by side |
| `lock` | 3 threads of 2 priorities, 1 lock, `-p` | mutual exclusion, holder known, `Mutex` implemented, although the CPU can be lost at every statement and donation can damage the ready lists |
| `channel` | 4 threads, 2 messages, any roles | `Rendezvous` implemented; who can meet does |
| `mail` | 2 senders, 2 messages, a worker and 2 readers | packets behind the wire keep their order and are each in one place, one send at a time, sends return, packets reach the box; the condition's counter adds up, `Pop` never comes empty, items are popped |
| `process` | 5 processes of 2 pages (1 of code), table of 4, 9 frames | the table of threads is sound, frames have one owner, user code has its own page table and registers, only code in frame 0 is lost, a pid names its process, `Exec` of a joinable process waits |
| `filesystem` | 2 threads, 2 names, 8 sectors of 2 bytes, files of 1 and 3 bytes, requests of 3 | what a halt leaves, and that `Check` recognises it; open files are current; transfers are exact |
| `devices` | 2 threads, 3 sectors on 2 tracks, a timer and a console or not | one request at a time, each character read once, halt only at the end, exact latency, requests return |
| `machine` | every instruction over 8 by 8 register values, also after a load, and all lists of at most 2 of 4 strings, followed by nothing, 1 or 17 bytes | products, arguments, delayed loads at a trap, dirty bits |
| `lock_donation` | 3 threads of 3 priorities, 1 lock, no `-p` | **violation**: `Release` leaves a thread that was donated to at priority -1 |
| `condition_stolen` | 2 threads | **violation**: a `Wait` that begins after a `Signal` can take it from the thread that was waiting |
| `table_keys` | 3 entries | **violation**: add three items, remove 0, 1, 2, and `HasKey(0)` is true |

The violations are disagreements between the code and a comment of the repository,
quoted in `PROJECT.json` under `findings`.

### Why the bounds are enough

* Four threads are needed for the scheduler's and semaphore's hard cases: one running,
  one asleep, one woken and on its way, one that barges in. `MaxValue` caps the
  semaphores. The theorems below remove these bounds.
* `lock`: a holder, a donor of higher priority and a second waiter. With `-p` the
  donation code can queue a thread again and again; `ShortLists` cuts lists longer
  than two entries. The theorems about locks do not have that cut.
* `mail`: two messages of two senders let one wait for `sendLock`, one be lost, one be
  in the socket while the other is buffered, and two readers compete. Three or more only
  lengthen the queues.
* `process`: of a table of 4 the initial program has one entry and each `Exec` takes
  two, so the second meets a full table, and entries are freed and used again; 9 frames
  hold four processes and not a fifth, so a process without an entry can still be
  loaded, run and exit. The processes but the first are interchangeable, hence symmetric.
* `filesystem`: files of 1 and 3 bytes in sectors of 2 have partial, whole and several
  sectors; 4 free sectors hold two small files, or a large one and no other, so
  sectors run out and are used again. Threads and names are only compared, hence symmetric.
* `devices`: 3 sectors and 2 per track give a seek, a full and a partial track; a timer
  of 2 ticks and a poll of every tick fall before, on and after the disk's
  interrupts. `MaxUnread` of 1 cuts nothing unless a
  byte equal to EOF is typed, as the device polls only into an empty buffer.
* `machine`: the 8 values have both signs, zero, both extremes, an even power of two,
  aligned and unaligned addresses inside and outside the space. After an empty string 17
  bytes of garbage reach past the end of the stack, one byte does not.
* `table_keys`: three entries are the least for which the loop pops a wrong index.

Runs with `CHECK_DEADLOCK FALSE` are of systems that may stop: all threads asleep
or finished (the machine halts), a channel with only receivers, processes that wait for
each other, a program at its end. The comment in each cfg says which.

### Fairness

* `Yield` (scheduler, semaphore): the timer is armed by `Initialize` and
  re-arms itself, so a running thread is eventually made to yield. Weak fairness.
* `IdleDispatch` and `Resume`: `Sleep`'s loop polls `FindNextToRun` after every
  call of `Idle`. Weak fairness.
* A thread inside `P` with interrupts off goes on, as nothing else can run. Weak.
* `Channel`: weak fairness of each thread's steps once inside a call (never of
  starting one). A step that waits is not enabled. This abstracts the fairness of
  the scheduler with equal priorities, which `scheduler` and `semaphore` check.
* `Mail`: weak fairness of the scheduled interrupts (`SendDone`, the poll), of the
  worker and of a sender inside `Send`; strong fairness of the threads at the mailbox,
  whose semaphores serve their waiters in order of arrival.
* `Devices`: weak fairness of the machine's own loops and of the tick; strong fairness
  of a thread inside a driver, since ticks come between any two of its statements
  and a thread that could go on again and again is eventually dispatched.

Priorities do starve: the liveness properties of the lower layers except threads
that are outranked.

## 4. The proofs

All are for arbitrary constants under the named ASSUMEs of the modules, which the runs
evaluate too; what a theorem assumes beyond them is said with it. Every inductive invariant
was checked with TLC on the instance of its run before it was proved.

`SemaphoreProofs`, about `Scheduler`
* `SchedulerTypes`: `Spec => []TypeOK`.
* `ReadyListsAreExact` (`ReadyListsAreRight`), `CarcassesDoNotRun` (`NoCarcassRuns`) and
  `SwitchesAreToHighest` (the action property `SwitchesToHighest`), if requested
  priorities stay below `PRIORITY_SIZE` (`RequestsInRange`). No part of
  them is inductive alone: that a thread is not queued twice by `Wake` needs that a
  BLOCKED thread is on no list; that donation finds the holder under its old
  priority needs that listed threads are on their own list; that priorities stay
  indices needs the range of all of them. The inductive invariant `SchedInv` is
  their conjunction, with types and the relation between `life` and `status`,
  phrased through one predicate on lists and a set of ready threads, with a lemma for
  each list operation (append, drop the head, remove).

`SemaphoreProofs`, about `Semaphore`
* `SleepQueuesAreExact`: `SemSpec => []SleepersAreQueued`, with the inductive
  invariant `SemInv`: `SchedInv`, the types, the property itself, and that a
  running or sleeping thread has begun.
* `SemaphoresUseScheduler`: `SemSpec => ImplementsScheduler`, step by step from `SemInv`.
* `WakeupsAreNotLost`: `NoLostWakeup` for a finite set of threads; each action's
  effect on the number of woken threads is compared with its effect on the value.

`LockProofs`
* `LockTypes`, `LocksExclude` (`MutualExclusion`), `LockersAreKnown` (`HolderIsKnown`) and
  `LockIsMutex` (the refinement), with and without `-p`, any priorities, also
  after the ready lists have been corrupted by donation: the argument does not
  use them. The inductive invariant `LockInv` says that the value of the semaphore is
  1 exactly when nobody is inside and that at most one thread is (`UnitOrHolder`),
  which labels imply being inside, and that `lockerThread` is inside and known.

`ChannelProofs`
* `ChannelIsRendezvous`: `Spec => ImplementsRendezvous`. The step that maps to `Meet` is the
  receiver's reading of the message; that the value it reads is its sender's needs
  `ChannelInv`: the sender holds the lock, there is at most one permission to read (a
  unit, or a receiver that took it), a permission has a sender waiting for its
  confirmation, and until then nobody overwrites the message.

`MailProofs`
* `SignalsAreAccountedFor`: `CondSpec => []WaitersAreAccountedFor` for a finite set of
  threads, and `MailboxSignalsAreAccountedFor`, the same of the condition inside a
  mailbox. Added to the property: who signals holds the lock and has seen a positive counter.
* `SendsExclude` (`OneSendAtATime`), inductive with the types.
* `PacketsStayInOrder` (`PacketsKeepOrder`) and `PopsFindItems` (`PopNeverComesEmpty`), with
  `PacketInv`: the worker is the only one that appends; the buffer is full exactly as long as
  a unit or the worker claims it, so no poll overwrites it; the list has the box's length.

`ProcessProofs`
* `UsersRunInTheirSpace` and `JoinableExecsWait`, from `ControlInv`: `Exec` and `Remove` keep the
  CPU until they end, only a thread that never ran has the user state of another, and who
  made a joinable child is still in `Exec` or its `Join` until the child has exited.
* `FramesStayOwned` and `LoadsSpareTheOthers`, from `FrameInv`.
* `ThreadTableStaysSound` and `PidsNameTheirProcess`, from `TableInv`. The loop of
  `Table::Remove` is wrong in general (run `table_keys`); it is harmless here because
  every process but the first takes two entries in a row and gives back only the first of
  them: behind an index that is freed lies one that never is, unless it is the first or
  the last of the table (`EntryThenPid`), so the loop ends before it can pop a wrong one.

The proof of `JoinableExecWaits` failed at first for a good reason: with a full table the child
has no entry, and when it ends, the ASSERT of `threads->Remove` stops it in `Finish` after
its father was let go. The property had left that out, and a memory of 7 frames had hidden it
from TLC; the property names the case now, and the run has room for it.

`DevicesProofs`
* `RequestsFindTheDeviceFree` (`DriversWaitForInterrupt`), `HaltLeavesNobody`
  (`HaltsWhenAllAreDone`) and `CharsAreReadOnce` (`EveryCharIsReadOnce`) from one inductive
  invariant, `DevInv`: who is in a driver holds its lock; each device has at most one
  interrupt pending, and one exactly when it is busy; the console's poll is always
  pending; a busy device has one requester waiting, and after its interrupt a unit for
  it; a character in the buffer is owed to one reader. `HaltsWhenAllAreDone` follows since a
  thread that waits implies a pending interrupt other than the timer's.
* `LatenciesAreExact` (`LatencyIsExact`), by arithmetic on `\div` and `%` over any
  number of tracks, sectors per track and rotation time.

`FileSystemProofs`
* `HaltsHurtOneFile` (`HaltHurtsOneFile`), `OpenFilesStayCurrent` (`OpenFilesAreCurrent`),
  `TransfersStayExact` (`TransfersAreExact`), and, if `SmallFiles`, `ChecksTellHalts`
  (`CheckTellsHalts`). `Spec` keeps `tainted \/ FSInv`. `FSInv` says that the layout of the disk
  is sound (`Sound`: headers agree with sizes, no sector has two owners, names differ, the
  map marks exactly the owned sectors) for the map completed by the file of the call in
  progress (`FullMap`): between its two last writes the free map alone is not exact, so without
  it nothing is inductive. `JobOk` says that what the call has still to write completes the
  layout, with sectors that are nobody's until the directory is written. That an open
  file stays current needs that removing marks it stale before the sector can be reused.
* The transfer theorem rests on lemmas about the operators: the k-th clear sector exists
  and differs from the others (`FindIs`), a buffer of whole sectors holds the bytes of the
  file (`BufferIs`), and the buffer that `WriteAt` writes back has the old bytes at every place
  inside the file and outside the request (`MixedIs`), which is where `LastIsRead` matters.

`MachineProofs`
* `MachineSafety`: `Spec => []MachineInv`. `MachineInv` has the types of registers, memory and
  page table, that memory is blank in mode `start`, and `StoresAreRecorded`; nothing smaller
  is inductive, as what a store writes depends on all of them. From it `StoresRecorded`
  (`StoresAreRecorded`). That a translation stays in the frames of the page table, and that two
  addresses never have the same place, are lemmas (`PAType`, `PAInjective`, `AccessPlaces`).
* `ProductIsRight` (the action property `MultIsProduct`). The loop's invariant: the sum so far
  plus what is left of `a` times the shifted `b` is the product, modulo a double word.
* `LoadsLand` (`KernelSeesLoads`): of all actions only `RaiseException` enters the kernel.
* `ArgumentsArrive` (`ArgsArrive`): the strings lie apart, below one another, with a blank byte
  between (`Layout`); each is read back up to that byte (`StringRead`); a pointer written byte
  by byte is read back whole (`WordBytes`), and is not null.

Loops and argument lists need induction on naturals, which the library states with an operator
as parameter. It is replaced by `LeastNatural` (a set of naturals has a least element, from
`WFMin`) applied to the set of counterexamples. The provers know nothing of
powers; that those of two are positive and double from one exponent to the next is derived from
their counting the subsets of a finite set (`FS_SUBSET`).

Model-checked only: every liveness property, as fairness and ENABLED are out of the prover's
reach. Every invariant and action property of a passing run, and every refinement, is a theorem;
the three violations are of course not.

## 5. What is not modelled, and the plan

Not modelled (see `components` in `PROJECT.json` for each part):

* the debugger, statistics and debug output: no state that the kernel reads back;
* the host interface (`machine/system_dep.cc`) and the assembly of `SWITCH`: their
  effect is part of `Run`, of the devices' nondeterminism and of `Mail`'s socket;
* command-line handling, the binary tools, the user programs and the thread tests;
* overlapping calls of `Create` and `Remove` (see FileSystem above);
* bit-level decoding of instructions, and the layout of segments inside pages;
* several mailboxes or machines, which are independent copies;
* `Thread::CheckOverflow`, the printing operations, the `size` field of `List`
  (read only by a function without callers) and `SynchList::Apply`, which nobody calls.

Still open for proofs: that `Process` may use a rendezvous for the channel of a joinable
thread, as a refinement and not by reference to `Channel`; `HasKey` of `Table` for the callers that remove in a safe order.
