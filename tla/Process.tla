------------------------------ MODULE Process ------------------------------
(***************************************************************************)
(* User processes: the system calls Exec, Join and Exit                    *)
(* (userprog/exception.cc), Thread's constructor, Fork, Join and Finish as *)
(* a build with USER_PROGRAM has them, the construction of an address      *)
(* space, and the part of Scheduler::Run that swaps user state.            *)
(*                                                                         *)
(* The table `threads' is a Table, a thread's channel a Rendezvous: a Meet *)
(* step stands for the whole exchange.  Kernel code is not preempted (the  *)
(* normal mode of the simulator), so the CPU changes hands only in user    *)
(* mode, at the start of a thread, and where a thread sleeps.              *)
(***************************************************************************)
EXTENDS Integers, Sequences, FiniteSets

CONSTANTS
    Proc,      \* threads that run user programs
    Main,      \* the one that runs the initial program
    NoProc,    \* no thread
    SIZE,      \* capacity of the table `threads'
    NUM_PHYS_PAGES,
    CodePages, \* pages of a program with code or initialised data
    NumPages   \* all its pages, stack included

ASSUME ProcessAssumption ==
    /\ Main \in Proc /\ NoProc \notin Proc
    /\ SIZE \in Nat \ {0} /\ NUM_PHYS_PAGES \in Nat /\ CodePages \in Nat
    /\ NumPages \in CodePages .. NUM_PHYS_PAGES

VARIABLES
    current, freed, data, trimming, j, live, mispopped,  \* the table `threads'
    cpu,        \* currentThread
    pc,         \* where each thread is, see Label
    joinable,   \* Thread::joinable
    spaceId,    \* Thread::spaceId, the entry the constructor took
    pid,        \* the entry Exec took, which it returns to its caller
    father,     \* Thread::_father
    pageTable,  \* AddressSpace::pageTable: frames, in the order of the pages
    bitmap,     \* frames in use
    memory,     \* what each frame holds: a thread's code, or something else
    mmu,        \* whose page table the MMU has
    registers,  \* whose registers the CPU has
    peer,       \* the thread a Join receives from
    threadToBeDestroyed

tableVars == <<current, freed, data, trimming, j, live, mispopped>>
spaceVars == <<pageTable, bitmap, memory>>
cpuVars   == <<cpu, mmu, registers, threadToBeDestroyed>>
idVars    == <<joinable, spaceId, pid, father>>
vars == <<tableVars, spaceVars, cpuVars, idVars, pc, peer>>

Frame == 0 .. NUM_PHYS_PAGES - 1

(* unborn: no such thread.  exec: in Exec after the constructor of its     *)
(* child.  forked: never dispatched.  boot: dispatched, before             *)
(* StartProcess2 set the registers.  join, send: on a channel.  remove,    *)
(* trim: in Finish's threads->Remove.  dead: asleep in Finish for ever.    *)
(* abort: an ASSERT failed or a deleted thread was used; the kernel ends.  *)
Label == {"unborn", "exec", "forked", "boot", "user", "join", "send",
          "remove", "trim", "dead", "deleted", "abort"}

Threads == INSTANCE Table WITH Item <- Proc, NoItem <- NoProc

At(l)   == (\A p \in Proc : pc[p] # "abort") /\ pc[cpu] = l
Goto(l) == pc' = [pc EXCEPT ![cpu] = l]

(* threads->Add(t): the index it returns, -1 without room, and its effect. *)
Slot == IF freed # <<>> THEN Head(freed) ELSE IF Threads!AddRoom THEN current ELSE -1
AddThread(t) == IF Slot = -1 THEN UNCHANGED tableVars ELSE Threads!Add(t)

(* The initial program in main, after StartProcess (prog_test.cc). *)
Init ==
    /\ current = 1 /\ freed = <<>> /\ trimming = FALSE /\ j = -1 /\ mispopped = FALSE
    /\ data = [i \in 0 .. SIZE - 1 |-> IF i = 0 THEN Main ELSE NoProc]
    /\ live = data
    /\ cpu = Main /\ mmu = Main /\ registers = Main
    /\ pc = [p \in Proc |-> IF p = Main THEN "user" ELSE "unborn"]
    /\ joinable = [p \in Proc |-> FALSE]
    /\ spaceId = [p \in Proc |-> IF p = Main THEN 0 ELSE -1]
    /\ pid = [p \in Proc |-> -1]
    /\ father = [p \in Proc |-> NoProc]
    /\ pageTable = [p \in Proc |-> IF p = Main THEN [i \in 1 .. NumPages |-> i - 1] ELSE <<>>]
    /\ bitmap = 0 .. NumPages - 1
    /\ memory = [f \in Frame |-> IF f < CodePages THEN Main ELSE NoProc]
    /\ peer = [p \in Proc |-> NoProc]
    /\ threadToBeDestroyed = NoProc

-----------------------------------------------------------------------------
(* Exec up to Thread's constructor.  A name that cannot be read or opened  *)
(* makes Exec return -1 having changed nothing.                            *)
Exec(t, isJoinable) ==
    /\ At("user")
    /\ pc[t] = "unborn" /\ \A p \in Proc : pc[p] # "exec"
    /\ AddThread(t)
    /\ spaceId' = [spaceId EXCEPT ![t] = Slot]
    /\ joinable' = [joinable EXCEPT ![t] = isJoinable]
    /\ father' = [father EXCEPT ![t] = cpu]
    /\ peer' = [peer EXCEPT ![cpu] = t]
    /\ Goto("exec")
    /\ UNCHANGED <<spaceVars, cpuVars, pid>>

LowestClear(k) ==
    CHOOSE f \in Frame \ bitmap : Cardinality({g \in Frame \ bitmap : g <= f}) = k

LoadWith(pages) ==
    /\ pageTable' = [pageTable EXCEPT ![peer[cpu]] = pages]
    /\ bitmap' = bitmap \cup {pages[i] : i \in 1 .. NumPages}
    /\ memory' = [f \in Frame |->
                    IF \E i \in 1 .. CodePages : pages[i] = f THEN peer[cpu]
                    ELSE IF f = 0 THEN NoProc ELSE memory[f]]

Load_SharesLast ==
    LoadWith([i \in 1 .. NumPages |->
                IF i = NumPages /\ bitmap # {} THEN CHOOSE f \in bitmap : \A g \in bitmap : g <= f
                ELSE LowestClear(i)])

Load_FromZero ==
    LET pages == [i \in 1 .. NumPages |-> LowestClear(i)]
    IN  /\ pageTable' = [pageTable EXCEPT ![peer[cpu]] = pages]
        /\ bitmap' = bitmap \cup {pages[i] : i \in 1 .. NumPages}
        /\ memory' = [f \in Frame |-> IF f < CodePages THEN peer[cpu] ELSE memory[f]]

(* AddressSpace::AddressSpace.  Each turn of the loop over the pages       *)
(* fills the first PAGE_SIZE bytes of mainMemory, which are frame 0, with  *)
(* the number of the new frame; then code and data are copied in.          *)
Load == LoadWith([i \in 1 .. NumPages |-> LowestClear(i)])

(* The rest of Exec: address space, threads->Add, Fork, whose Join makes   *)
(* the caller of a joinable thread wait.  Too few frames fail an ASSERT.   *)
ExecFork ==
    LET t == peer[cpu]
    IN  /\ At("exec")
        /\ IF Cardinality(Frame \ bitmap) < NumPages
           THEN Goto("abort") /\ UNCHANGED <<spaceVars, tableVars, pid>>
           ELSE /\ Load
                /\ AddThread(t)
                /\ pid' = [pid EXCEPT ![t] = Slot]
                /\ pc' = [pc EXCEPT ![t] = "forked",
                                    ![cpu] = IF joinable[t] THEN "join" ELSE "user"]
        /\ UNCHANGED <<cpuVars, joinable, spaceId, father, peer>>

(* Join: an unknown identifier changes nothing. *)
Join(i) ==
    LET t == data[i]
    IN  /\ At("user")
        /\ Threads!HasKey(i)
        /\ peer' = [peer EXCEPT ![cpu] = t]
        /\ Goto(IF pc[t] # "deleted" /\ joinable[t] THEN "join" ELSE "abort")
        /\ UNCHANGED <<tableVars, spaceVars, cpuVars, idVars>>

(* Exit, and Finish up to the channel. *)
Exit ==
    /\ At("user")
    /\ Goto(IF joinable[cpu] THEN "send" ELSE "remove")
    /\ UNCHANGED <<tableVars, spaceVars, cpuVars, idVars, peer>>

CanMeet(t, r) == pc[t] = "send" /\ pc[r] = "join" /\ peer[r] = t

Meet_Unnoticed(t, r) ==
    /\ cpu = r /\ At("join")
    /\ peer[r] = t
    /\ pc' = [pc EXCEPT ![r] = "user"]
    /\ UNCHANGED <<tableVars, spaceVars, cpuVars, idVars, peer>>

(* The value goes from Finish's Send to a Receive; the one that came last  *)
(* is on the CPU.                                                          *)
Meet(t, r) ==
    /\ cpu \in {t, r}
    /\ CanMeet(t, r)
    /\ pc' = [pc EXCEPT ![t] = "remove", ![r] = "user"]
    /\ UNCHANGED <<tableVars, spaceVars, cpuVars, idVars, peer>>

Remove_ByPid ==
    /\ At("remove")
    /\ IF spaceId[cpu] = -1 \/ pid[cpu] = -1
       THEN Goto("abort") /\ UNCHANGED tableVars
       ELSE Threads!Remove(pid[cpu]) /\ Goto("trim")
    /\ UNCHANGED <<spaceVars, cpuVars, idVars, peer>>

(* threads->Remove(spaceId), which asserts that spaceId is not -1. *)
Remove ==
    /\ At("remove")
    /\ IF spaceId[cpu] = -1
       THEN Goto("abort") /\ UNCHANGED tableVars
       ELSE Threads!Remove(spaceId[cpu]) /\ Goto("trim")
    /\ UNCHANGED <<spaceVars, cpuVars, idVars, peer>>

Trim ==
    /\ At("trim")
    /\ Threads!Trim
    /\ UNCHANGED <<spaceVars, cpuVars, idVars, pc, peer>>

(* The end of Finish.  Nothing deletes the address space. *)
FinishSleep ==
    /\ At("trim") /\ ~trimming
    /\ threadToBeDestroyed' = cpu
    /\ Goto("dead")
    /\ UNCHANGED <<tableVars, spaceVars, idVars, cpu, mmu, registers, peer>>

-----------------------------------------------------------------------------
(* The CPU changes hands at a time slice in user mode or when its thread   *)
(* sleeps: on a channel, if nobody is at the other end.                    *)
CanLeave ==
    /\ \A p \in Proc : pc[p] # "abort"
    /\ pc[cpu] \in {"user", "boot", "join", "send", "dead"}
    /\ ~\E t, r \in Proc : cpu \in {t, r} /\ CanMeet(t, r)

Runnable(t) == pc[t] \in {"forked", "boot", "user", "remove"}

Switch_NoRestore(t) ==
    /\ CanLeave /\ Runnable(t) /\ t # cpu
    /\ cpu' = t
    /\ registers' = IF pc[t] = "forked" THEN registers ELSE t
    /\ threadToBeDestroyed' = IF pc[t] = "forked" THEN threadToBeDestroyed ELSE NoProc
    /\ pc' = [p \in Proc |-> IF p = t /\ pc[t] = "forked" THEN "boot"
                             ELSE IF p = threadToBeDestroyed /\ pc[t] # "forked" THEN "deleted"
                             ELSE pc[p]]
    /\ UNCHANGED <<tableVars, spaceVars, idVars, mmu, peer>>

(* Scheduler::Run.  After SWITCH a thread that was switched out in Run     *)
(* deletes the carcass and restores its registers and page table; a new    *)
(* thread, at ThreadRoot, does neither.                                    *)
Switch(t) ==
    LET begins == pc[t] = "forked"
    IN  /\ CanLeave /\ Runnable(t) /\ t # cpu
        /\ cpu' = t
        /\ registers' = IF begins THEN registers ELSE t
        /\ mmu' = IF begins THEN mmu ELSE t
        /\ threadToBeDestroyed' = IF begins THEN threadToBeDestroyed ELSE NoProc
        /\ pc' = [p \in Proc |-> IF p = t /\ begins THEN "boot"
                                 ELSE IF p = threadToBeDestroyed /\ ~begins THEN "deleted"
                                 ELSE pc[p]]
        /\ UNCHANGED <<tableVars, spaceVars, idVars, peer>>

(* StartProcess2: InitRegisters, RestoreState, the arguments, machine->Run. *)
Boot ==
    /\ At("boot")
    /\ registers' = cpu
    /\ mmu' = cpu
    /\ Goto("user")
    /\ UNCHANGED <<tableVars, spaceVars, idVars, cpu, threadToBeDestroyed, peer>>

Next ==
    \/ ExecFork \/ Exit \/ Remove \/ Trim \/ FinishSleep \/ Boot
    \/ \E t \in Proc, isJoinable \in BOOLEAN : Exec(t, isJoinable)
    \/ \E i \in 0 .. SIZE - 1 : Join(i)
    \/ \E t, r \in Proc : Meet(t, r)
    \/ \E t \in Proc : Switch(t)

Spec == Init /\ [][Next]_vars

-----------------------------------------------------------------------------
(* The table of threads stays sound over every sequence of Exec and Exit:  *)
(* its list of freed entries is sorted, the ASSERT in the loop of Remove   *)
(* holds, and as long as that loop frees the entry it looks at the table   *)
(* holds what Exec and Finish believe it holds (table.hh:119-140).         *)
TableStaysSound ==
    Threads!FreedIsSorted /\ Threads!LoopAssertHolds /\ Threads!ExactUntilMispop

FramesOf(p) == {pageTable[p][i] : i \in DOMAIN pageTable[p]}

(* No frame is in two page tables, or twice in one, and the bitmap marks   *)
(* exactly the frames of page tables: those of dead processes for ever     *)
(* (address_space.cc:43-61; the destructor has no caller).                 *)
FramesAreOwned ==
    /\ \A p \in Proc : Cardinality(FramesOf(p)) = Len(pageTable[p])
    /\ \A p, q \in Proc : p # q => FramesOf(p) \cap FramesOf(q) = {}
    /\ bitmap = UNION {FramesOf(p) : p \in Proc}

(* A user instruction runs with its own process's page table and           *)
(* registers, whatever switches came between, a first dispatch that skips  *)
(* the code after SWITCH included (scheduler.cc:137-143, StartProcess2).   *)
UserRunsInItsSpace == pc[cpu] = "user" => mmu = cpu /\ registers = cpu

(* Loading a program disturbs no code page of another process, except the  *)
(* one in frame 0, which every Exec overwrites (address_space.cc:60).      *)
OnlyFrameZeroIsLost ==
    \A p \in Proc : \A i \in DOMAIN pageTable[p] :
        i <= CodePages /\ pageTable[p][i] # 0 => memory[pageTable[p][i]] = p

(* The identifier Exec returned names its process for ever, also when that *)
(* is gone: Finish frees the other entry.  So a late Join never waits for  *)
(* a process it did not mean (exception.cc:138, thread.cc:55 and 200).     *)
PidNamesItsProcess ==
    \A p \in Proc : pid[p] # -1 => Threads!HasKey(pid[p]) /\ data[pid[p]] = p

(* Exec of a joinable process is synchronous: its caller is back in user   *)
(* mode only when the child has exited (Fork's Join, thread.cc:112).  In   *)
(* Finish a child without an entry fails the ASSERT of threads->Remove.    *)
JoinableExecWaits ==
    \A p, t \in Proc :
        father[t] = p /\ joinable[t] /\ pc[p] = "user"
            => pc[t] \in {"remove", "trim", "dead", "deleted", "abort"}
=============================================================================
