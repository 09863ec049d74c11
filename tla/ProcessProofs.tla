--------------------------- MODULE ProcessProofs ---------------------------
(***************************************************************************)
(* Proofs about Process.tla for any number of processes, any size of the   *)
(* table of threads and of the physical memory, and programs of any size.  *)
(***************************************************************************)
EXTENDS Process, TLAPS, FiniteSetTheorems, SequenceTheorems, WellFoundedInduction

-----------------------------------------------------------------------------
(* Who runs, and where everybody else is. *)

SomeProc == Proc \cup {NoProc}

ControlTypeOK ==
    /\ cpu \in Proc /\ pc \in [Proc -> Label]
    /\ joinable \in [Proc -> BOOLEAN] /\ father \in [Proc -> SomeProc]
    /\ peer \in [Proc -> SomeProc]
    /\ data \in [0 .. SIZE - 1 -> SomeProc]

(* Exec and Remove are not left before they end, and an abort ends all.    *)
KernelKeepsCpu == \A p \in Proc : pc[p] \in {"exec", "trim", "abort"} => p = cpu

(* The child that Exec is making. *)
ExecHasChild == pc[cpu] = "exec" => peer[cpu] \in Proc /\ pc[peer[cpu]] = "unborn"

CarcassIsDead == threadToBeDestroyed # NoProc => threadToBeDestroyed \in Proc /\ pc[threadToBeDestroyed] = "dead"

(* Only a thread that never ran has the user state of another. *)
StateIsRestored == pc[cpu] # "boot" => mmu = cpu /\ registers = cpu

Exited == {"remove", "trim", "dead", "deleted", "abort"}

(* Whoever made a joinable process is still in Exec, or in its Join.       *)
FatherWaits ==
    \A p, t \in Proc :
        father[t] = p /\ joinable[t] =>
            \/ pc[t] \in Exited
            \/ pc[p] \in {"exec", "join"} /\ peer[p] = t
            \/ pc[p] = "abort"

ControlInv ==
    /\ ControlTypeOK /\ KernelKeepsCpu /\ ExecHasChild /\ CarcassIsDead
    /\ StateIsRestored /\ FatherWaits

LEMMA ControlInitInv == Init => ControlInv
<1> SUFFICES ASSUME Init PROVE ControlInv
    OBVIOUS
<1>1. ControlTypeOK
      BY ProcessAssumption DEF Init, ControlTypeOK, ProcessAssumption, SomeProc, Label
<1>2. KernelKeepsCpu /\ ExecHasChild /\ CarcassIsDead /\ StateIsRestored
      BY ProcessAssumption
      DEF Init, ProcessAssumption, KernelKeepsCpu, ExecHasChild, CarcassIsDead, StateIsRestored
<1>3. FatherWaits
      BY ProcessAssumption DEF Init, ProcessAssumption, FatherWaits
<1> QED BY <1>1, <1>2, <1>3 DEF ControlInv

(* threads->Add stores the thread and nothing else. *)
LEMMA AddKeepsType ==
    ASSUME ControlTypeOK, NEW t \in Proc, AddThread(t)
    PROVE  data' \in [0 .. SIZE - 1 -> SomeProc]
<1>1. \/ data' = data
      \/ \E i : data' = [data EXCEPT ![i] = t]
      BY DEF AddThread, tableVars, Threads!Add, Threads!Store
<1> QED BY <1>1 DEF ControlTypeOK, SomeProc

LEMMA ExecControl ==
    ASSUME ControlInv, NEW t \in Proc, NEW isJoinable \in BOOLEAN, Exec(t, isJoinable)
    PROVE  ControlInv'
<1>1. /\ pc[cpu] = "user" /\ pc[t] = "unborn" /\ \A p \in Proc : pc[p] # "exec" /\ pc[p] # "abort"
      /\ pc' = [pc EXCEPT ![cpu] = "exec"]
      /\ joinable' = [joinable EXCEPT ![t] = isJoinable]
      /\ father' = [father EXCEPT ![t] = cpu]
      /\ peer' = [peer EXCEPT ![cpu] = t]
      /\ UNCHANGED <<cpu, mmu, registers, threadToBeDestroyed>>
      BY DEF Exec, At, Goto, cpuVars
<1>2. ControlTypeOK'
  <2>1. data' \in [0 .. SIZE - 1 -> SomeProc]
        BY AddKeepsType DEF ControlInv, Exec
  <2> QED BY <1>1, <2>1 DEF ControlInv, ControlTypeOK, SomeProc, Label
<1>3. KernelKeepsCpu' /\ ExecHasChild' /\ CarcassIsDead' /\ StateIsRestored'
      BY <1>1 DEF ControlInv, ControlTypeOK, KernelKeepsCpu, ExecHasChild, CarcassIsDead,
                  StateIsRestored
<1>4. FatherWaits'
  <2> SUFFICES ASSUME NEW p \in Proc, NEW u \in Proc, father'[u] = p, joinable'[u]
               PROVE  \/ pc'[u] \in Exited
                      \/ pc'[p] \in {"exec", "join"} /\ peer'[p] = u
                      \/ pc'[p] = "abort"
      BY DEF FatherWaits
  <2>1. CASE u = t
        BY <1>1, <2>1 DEF ControlInv, ControlTypeOK
  <2>2. CASE u # t
    <3>1. father[u] = p /\ joinable[u]
          BY <1>1, <2>2 DEF ControlInv, ControlTypeOK
    <3>2. pc[u] \in Exited \/ (pc[p] \in {"exec", "join"} /\ peer[p] = u) \/ pc[p] = "abort"
          BY <3>1 DEF ControlInv, FatherWaits
    <3> QED BY <1>1, <3>2 DEF ControlInv, ControlTypeOK, Exited
  <2> QED BY <2>1, <2>2
<1> QED BY <1>2, <1>3, <1>4 DEF ControlInv

LEMMA ExecForkControl ==
    ASSUME ControlInv, ExecFork
    PROVE  ControlInv'
<1> DEFINE t == peer[cpu]
<1>1. /\ pc[cpu] = "exec" /\ t \in Proc /\ pc[t] = "unborn" /\ t # cpu
      /\ UNCHANGED <<cpu, mmu, registers, threadToBeDestroyed, joinable, father, peer>>
      BY DEF ExecFork, At, cpuVars, ControlInv, ExecHasChild
<1>2. \/ pc' = [pc EXCEPT ![cpu] = "abort"]
      \/ pc' = [pc EXCEPT ![t] = "forked", ![cpu] = IF joinable[t] THEN "join" ELSE "user"]
      BY DEF ExecFork, Goto
<1>3. data' \in [0 .. SIZE - 1 -> SomeProc]
  <2>1. AddThread(t) \/ UNCHANGED tableVars
        BY DEF ExecFork
  <2> QED BY <1>1, <2>1, AddKeepsType DEF ControlInv, ControlTypeOK, tableVars
<1> HIDE DEF t
<1>4. ControlTypeOK'
      BY <1>1, <1>2, <1>3 DEF ControlInv, ControlTypeOK, Label
<1>5. KernelKeepsCpu' /\ ExecHasChild' /\ CarcassIsDead' /\ StateIsRestored'
      BY <1>1, <1>2 DEF ControlInv, ControlTypeOK, KernelKeepsCpu, ExecHasChild, CarcassIsDead,
                  StateIsRestored
<1>6. FatherWaits'
  <2> SUFFICES ASSUME NEW p \in Proc, NEW u \in Proc, father[u] = p, joinable[u]
               PROVE  \/ pc'[u] \in Exited
                      \/ pc'[p] \in {"exec", "join"} /\ peer[p] = u
                      \/ pc'[p] = "abort"
      BY <1>1 DEF FatherWaits
  <2>1. pc[u] \in Exited \/ (pc[p] \in {"exec", "join"} /\ peer[p] = u) \/ pc[p] = "abort"
        BY DEF ControlInv, FatherWaits
  <2>3. CASE pc[u] \in Exited
        BY <1>1, <1>2, <2>3 DEF ControlInv, ControlTypeOK, Exited
  <2>4. CASE pc[p] \in {"exec", "join"} /\ peer[p] = u
    <3>1. CASE p = cpu
          BY <1>1, <1>2, <2>4, <3>1 DEF ControlInv, ControlTypeOK, t
    <3>2. CASE p # cpu
          BY <1>1, <1>2, <2>4, <3>2 DEF ControlInv, ControlTypeOK
    <3> QED BY <3>1, <3>2
  <2>5. CASE pc[p] = "abort"
        BY <1>1, <2>5 DEF ControlInv, KernelKeepsCpu
  <2> QED BY <2>1, <2>3, <2>4, <2>5
<1> QED BY <1>4, <1>5, <1>6 DEF ControlInv
(* A step of the thread on the CPU that neither ends a Join or an Exec nor *)
(* starts an Exec.                                                         *)
LEMMA GotoControl ==
    ASSUME ControlInv, NEW l \in Label, l \notin {"exec", "boot"},
           pc[cpu] \notin {"exec", "join", "dead", "abort"},
           pc[cpu] \in Exited => l \in Exited,
           pc' = [pc EXCEPT ![cpu] = l],
           pc[cpu] # "boot" \/ (mmu' = cpu /\ registers' = cpu),
           mmu' = cpu \/ mmu' = mmu, registers' = cpu \/ registers' = registers,
           peer' = peer \/ \E u \in SomeProc : peer' = [peer EXCEPT ![cpu] = u],
           \/ threadToBeDestroyed' = threadToBeDestroyed
           \/ l = "dead" /\ threadToBeDestroyed' = cpu,
           UNCHANGED <<cpu, joinable, father, data>>
    PROVE  ControlInv'
<1>1. ControlTypeOK'
      BY DEF ControlInv, ControlTypeOK
<1>2. KernelKeepsCpu' /\ ExecHasChild' /\ CarcassIsDead' /\ StateIsRestored'
      BY DEF ControlInv, ControlTypeOK, KernelKeepsCpu, ExecHasChild, CarcassIsDead,
             StateIsRestored
<1>3. FatherWaits'
  <2> SUFFICES ASSUME NEW p \in Proc, NEW u \in Proc, father[u] = p, joinable[u]
               PROVE  \/ pc'[u] \in Exited
                      \/ pc'[p] \in {"exec", "join"} /\ peer'[p] = u
                      \/ pc'[p] = "abort"
      BY DEF FatherWaits
  <2>1. pc[u] \in Exited \/ (pc[p] \in {"exec", "join"} /\ peer[p] = u) \/ pc[p] = "abort"
        BY DEF ControlInv, FatherWaits
  <2>2. CASE pc[u] \in Exited
        BY <2>2 DEF ControlInv, ControlTypeOK
  <2>3. CASE (pc[p] \in {"exec", "join"} /\ peer[p] = u) \/ pc[p] = "abort"
    <3>1. p # cpu
          BY <2>3
    <3>2. pc'[p] = pc[p] /\ peer'[p] = peer[p]
          BY <3>1 DEF ControlInv, ControlTypeOK
    <3> QED BY <2>3, <3>2
  <2> QED BY <2>1, <2>2, <2>3
<1> QED BY <1>1, <1>2, <1>3 DEF ControlInv

LEMMA MeetControl ==
    ASSUME ControlInv, NEW t \in Proc, NEW r \in Proc, Meet(t, r)
    PROVE  ControlInv'
<1>1. /\ pc[t] = "send" /\ pc[r] = "join" /\ peer[r] = t /\ t # r
      /\ pc' = [pc EXCEPT ![t] = "remove", ![r] = "user"]
      /\ UNCHANGED <<cpu, mmu, registers, threadToBeDestroyed, joinable, father, peer, data>>
      BY DEF Meet, CanMeet, tableVars, cpuVars, idVars
<1>2. ControlTypeOK'
      BY <1>1 DEF ControlInv, ControlTypeOK, Label
<1>3. KernelKeepsCpu' /\ CarcassIsDead'
      BY <1>1 DEF ControlInv, ControlTypeOK, KernelKeepsCpu, CarcassIsDead
<1>4. ExecHasChild' /\ StateIsRestored'
  <2>1. cpu \in {t, r}
        BY DEF Meet
  <2> QED BY <1>1, <2>1 DEF ControlInv, ControlTypeOK, ExecHasChild, StateIsRestored
<1>5. FatherWaits'
  <2> SUFFICES ASSUME NEW p \in Proc, NEW u \in Proc, father[u] = p, joinable[u]
               PROVE  \/ pc'[u] \in Exited
                      \/ pc'[p] \in {"exec", "join"} /\ peer'[p] = u
                      \/ pc'[p] = "abort"
      BY <1>1 DEF FatherWaits
  <2>1. pc[u] \in Exited \/ (pc[p] \in {"exec", "join"} /\ peer[p] = u) \/ pc[p] = "abort"
        BY DEF ControlInv, FatherWaits
  <2>2. CASE pc[u] \in Exited
        BY <1>1, <2>2 DEF ControlInv, ControlTypeOK, Exited
  <2>3. CASE (pc[p] \in {"exec", "join"} /\ peer[p] = u) \/ pc[p] = "abort"
        BY <1>1, <2>3 DEF ControlInv, ControlTypeOK, Exited
  <2> QED BY <2>1, <2>2, <2>3
<1> QED BY <1>2, <1>3, <1>4, <1>5 DEF ControlInv

LEMMA SwitchControl ==
    ASSUME ControlInv, NEW t \in Proc, Switch(t)
    PROVE  ControlInv'
<1> DEFINE begins == pc[t] = "forked"
<1>1. /\ pc[cpu] \in {"user", "boot", "join", "send", "dead"}
      /\ pc[t] \in {"forked", "boot", "user", "remove"} /\ t # cpu
      /\ \A p \in Proc : pc[p] # "abort"
      /\ cpu' = t
      /\ UNCHANGED <<joinable, father, peer, data>>
      BY DEF Switch, CanLeave, Runnable, tableVars, idVars
<1>2. /\ threadToBeDestroyed' = IF begins THEN threadToBeDestroyed ELSE NoProc
      /\ begins \/ (mmu' = t /\ registers' = t)
      /\ pc' = [p \in Proc |-> IF p = t /\ begins THEN "boot"
                               ELSE IF p = threadToBeDestroyed /\ ~begins THEN "deleted"
                               ELSE pc[p]]
      BY DEF Switch
<1>3. \A p \in Proc : \/ pc'[p] = pc[p]
                      \/ p = t /\ pc[p] = "forked" /\ pc'[p] = "boot"
                      \/ p = threadToBeDestroyed /\ pc[p] = "dead" /\ pc'[p] = "deleted"
      BY <1>2, ProcessAssumption DEF ControlInv, CarcassIsDead, ProcessAssumption
<1>4. ControlTypeOK'
      BY <1>1, <1>2 DEF ControlInv, ControlTypeOK, Label
<1>5. KernelKeepsCpu' /\ ExecHasChild'
      BY <1>1, <1>3 DEF ControlInv, ControlTypeOK, KernelKeepsCpu, ExecHasChild
<1>6. CarcassIsDead'
      BY <1>1, <1>2 DEF ControlInv, ControlTypeOK, CarcassIsDead
<1>7. StateIsRestored'
      BY <1>1, <1>2 DEF ControlInv, ControlTypeOK, StateIsRestored
<1>8. FatherWaits'
      BY <1>1, <1>3 DEF ControlInv, ControlTypeOK, FatherWaits, Exited
<1> QED BY <1>4, <1>5, <1>6, <1>7, <1>8 DEF ControlInv

LEMMA ControlNextInv == ControlInv /\ [Next]_vars => ControlInv'
<1> SUFFICES ASSUME ControlInv, [Next]_vars PROVE ControlInv'
    OBVIOUS
<1>1. CASE UNCHANGED vars
      BY <1>1 DEF vars, tableVars, cpuVars, idVars, ControlInv, ControlTypeOK, KernelKeepsCpu,
                  ExecHasChild, CarcassIsDead, StateIsRestored, FatherWaits
<1>2. CASE Exit
      BY <1>2, GotoControl DEF Exit, At, Goto, tableVars, cpuVars, idVars, Label, Exited
<1>3. CASE Remove
  <2>1. UNCHANGED data
        BY <1>3 DEF Remove, tableVars, Threads!Remove
  <2>2. PICK l \in {"abort", "trim"} : pc' = [pc EXCEPT ![cpu] = l]
        BY <1>3 DEF Remove, Goto
  <2> QED BY <1>3, <2>1, <2>2, GotoControl DEF Remove, At, cpuVars, idVars, Label, Exited
<1>4. CASE Trim
      BY <1>4 DEF Trim, Threads!Trim, cpuVars, idVars, ControlInv, ControlTypeOK, KernelKeepsCpu,
                  ExecHasChild, CarcassIsDead, StateIsRestored, FatherWaits
<1>5. CASE FinishSleep
      BY <1>5, GotoControl DEF FinishSleep, At, Goto, tableVars, idVars, Label, Exited
<1>6. CASE Boot
      BY <1>6, GotoControl DEF Boot, At, Goto, tableVars, idVars, Label, Exited
<1>7. ASSUME NEW i \in 0 .. SIZE - 1, Join(i)
      PROVE  ControlInv'
  <2>1. data[i] \in SomeProc
        BY DEF ControlInv, ControlTypeOK
  <2>2. PICK l \in {"join", "abort"} : pc' = [pc EXCEPT ![cpu] = l]
        BY <1>7 DEF Join, Goto
  <2> QED BY <1>7, <2>1, <2>2, GotoControl DEF Join, At, tableVars, cpuVars, idVars, Label, Exited
<1> QED BY <1>1, <1>2, <1>3, <1>4, <1>5, <1>6, <1>7, ExecControl, ExecForkControl, MeetControl,
           SwitchControl DEF Next

LEMMA ControlHolds == Spec => []ControlInv
BY ControlInitInv, ControlNextInv, PTL DEF Spec

(* A user instruction runs with its own page table and registers, for any  *)
(* number of processes and any order of switches (scheduler.cc:137-143).   *)
THEOREM UsersRunInTheirSpace == Spec => []UserRunsInItsSpace
<1>1. ControlInv => UserRunsInItsSpace
      BY DEF ControlInv, StateIsRestored, UserRunsInItsSpace
<1> QED BY <1>1, ControlHolds, PTL

(* The caller of Exec of a joinable process is in user mode again only     *)
(* when that process has exited, for any number of processes, whoever else *)
(* joins it (thread.cc:112).                                               *)
THEOREM JoinableExecsWait == Spec => []JoinableExecWaits
<1>1. ControlInv => JoinableExecWaits
      BY DEF ControlInv, FatherWaits, JoinableExecWaits, Exited
<1> QED BY <1>1, ControlHolds, PTL

-----------------------------------------------------------------------------
(* The frames. *)

(* A non-empty set of naturals has a least element. *)
LEMMA LeastIn ==
    ASSUME NEW T \in SUBSET Nat, T # {}
    PROVE  \E n \in T : \A k \in T : n <= k
<1>1. PICK n \in T : \A k \in T : ~(<<k, n>> \in OpToRel(<, Nat))
      BY NatLessThanWellFounded, WFMin
<1>2. ASSUME NEW k \in T PROVE n <= k
  <2>1. k \in Nat /\ n \in Nat /\ ~(k < n)
        BY <1>1 DEF OpToRel
  <2> QED BY <2>1
<1> QED BY <1>2

(* The elements of S up to f: how many there are is the place of f in S.   *)
UpTo(S, f) == {g \in S : g <= f}

LEMMA BelowIsFinite ==
    ASSUME NEW n \in Nat, NEW S \in SUBSET (0 .. n - 1)
    PROVE  /\ IsFiniteSet(S) /\ Cardinality(S) \in Nat
           /\ \A x \in S : x \in Nat /\ x < n
<1>1. IsFiniteSet(0 .. n - 1)
      BY FS_Interval
<1>2. IsFiniteSet(S)
      BY <1>1, FS_Subset
<1>3. Cardinality(S) \in Nat
      BY <1>2, FS_CardinalityType
<1>4. \A x \in S : x \in 0 .. n - 1
      OBVIOUS
<1> QED BY <1>2, <1>3, <1>4

LEMMA UpToIsFinite ==
    ASSUME NEW n \in Nat, NEW S \in SUBSET (0 .. n - 1), NEW f
    PROVE  IsFiniteSet(UpTo(S, f)) /\ Cardinality(UpTo(S, f)) \in Nat
<1>1. IsFiniteSet(S)
      BY BelowIsFinite
<1>2. IsFiniteSet(UpTo(S, f))
      BY <1>1, FS_Subset DEF UpTo
<1> QED BY <1>2, FS_CardinalityType

(* BitMap::Find finds the k-th clear frame when there are k of them.       *)
LEMMA KthExists ==
    ASSUME NEW n \in Nat, NEW S \in SUBSET (0 .. n - 1), NEW k \in 1 .. Cardinality(S)
    PROVE  \E f \in S : Cardinality(UpTo(S, f)) = k
<1>a. Cardinality(S) \in Nat /\ \A x \in S : x \in Nat /\ x < n
      BY BelowIsFinite
<1>0. k \in Nat /\ k >= 1 /\ k <= Cardinality(S)
      BY <1>a
<1> DEFINE T == {f \in Nat : Cardinality(UpTo(S, f)) >= k}
<1>1. n \in T
  <2>1. UpTo(S, n) = S
    <3>1. \A g \in S : g <= n
          BY <1>a
    <3> QED BY <3>1, Zenon DEF UpTo
  <2> QED BY <1>0, <2>1
<1>2. PICK f \in T : \A g \in T : f <= g
      BY <1>1, LeastIn
<1>3. f \in Nat /\ Cardinality(UpTo(S, f)) >= k
      BY <1>2
<1> DEFINE B == {g \in S : g < f}
<1>4. IsFiniteSet(B) /\ Cardinality(B) \in Nat /\ Cardinality(B) < k
  <2>1. CASE f = 0
    <3>1. B = {}
      <4>1. \A g \in S : ~(g < f)
            BY <1>a, <2>1
      <4> QED BY <4>1, Zenon
    <3> QED BY <1>0, <3>1, FS_EmptySet
  <2>2. CASE f # 0
    <3>1. f - 1 \in Nat /\ f - 1 \notin T
          BY <1>2, <1>3, <2>2
    <3>2. B = UpTo(S, f - 1)
      <4>1. \A g \in S : g < f <=> g <= f - 1
            BY <1>a, <1>3
      <4> QED BY <4>1, Zenon DEF UpTo
    <3>3. IsFiniteSet(B) /\ Cardinality(B) \in Nat
          BY <3>2, UpToIsFinite
    <3> QED BY <1>0, <3>1, <3>2, <3>3
  <2> QED BY <2>1, <2>2
<1>5. f \in S
  <2>1. SUFFICES ASSUME f \notin S PROVE FALSE
        OBVIOUS
  <2>2. UpTo(S, f) = B
    <3>1. \A g \in S : g <= f <=> g < f
          BY <1>a, <1>3, <2>1
    <3> QED BY <3>1 DEF UpTo
  <2> QED BY <1>0, <1>3, <1>4, <2>2
<1>6. Cardinality(UpTo(S, f)) = Cardinality(B) + 1
  <2>1. UpTo(S, f) = B \cup {f} /\ f \notin B
    <3>1. \A g \in S : g <= f <=> g < f \/ g = f
          BY <1>a, <1>3
    <3>2. ~(f < f)
          BY <1>3
    <3> QED BY <1>5, <3>1, <3>2, Zenon DEF UpTo
  <2> QED BY <1>4, <2>1, FS_AddElement
<1>7. Cardinality(UpTo(S, f)) = k
      BY <1>0, <1>3, <1>4, <1>6
<1> QED BY <1>5, <1>7

(* With enough clear frames, the frames of a new address space are clear   *)
(* ones, all different.                                                    *)
LEMMA LowestClearIs ==
    ASSUME bitmap \in SUBSET Frame, Cardinality(Frame \ bitmap) >= NumPages
    PROVE  /\ \A k \in 1 .. NumPages : LowestClear(k) \in Frame \ bitmap
           /\ \A k, l \in 1 .. NumPages : LowestClear(k) = LowestClear(l) => k = l
<1> DEFINE S == Frame \ bitmap
<1>1. NUM_PHYS_PAGES \in Nat /\ S \in SUBSET (0 .. NUM_PHYS_PAGES - 1) /\ NumPages \in Nat
      BY ProcessAssumption DEF ProcessAssumption, Frame
<1>2. ASSUME NEW k \in 1 .. NumPages
      PROVE  LowestClear(k) \in S /\ Cardinality(UpTo(S, LowestClear(k))) = k
  <2>1. Cardinality(S) \in Nat
        BY <1>1, BelowIsFinite
  <2>2. k \in 1 .. Cardinality(S)
        BY <1>1, <2>1
  <2>3. \E f \in S : Cardinality(UpTo(S, f)) = k
        BY <1>1, <2>2, KthExists
  <2>4. LowestClear(k) = CHOOSE f \in S : Cardinality(UpTo(S, f)) = k
        BY DEF LowestClear, UpTo
  <2> QED BY <2>3, <2>4
<1>3. ASSUME NEW k \in 1 .. NumPages, NEW l \in 1 .. NumPages, LowestClear(k) = LowestClear(l)
      PROVE  k = l
  <2>1. /\ Cardinality(UpTo(S, LowestClear(k))) = k
        /\ Cardinality(UpTo(S, LowestClear(l))) = l
        BY <1>2
  <2> QED BY <1>3, <2>1
<1> QED BY <1>2, <1>3

(* The frames of a page table, and FramesAreOwned as a statement about any *)
(* page tables pt and any bitmap bm.                                       *)
FrameSet(pages) == {pages[i] : i \in DOMAIN pages}

Owned(pt, bm) ==
    /\ \A p \in Proc : Cardinality(FrameSet(pt[p])) = Len(pt[p])
    /\ \A p, q \in Proc : p # q => FrameSet(pt[p]) \cap FrameSet(pt[q]) = {}
    /\ \A f : f \in bm <=> \E p \in Proc : f \in FrameSet(pt[p])

LEMMA OwnedIs == FramesAreOwned <=> Owned(pageTable, bitmap)
<1>1. bitmap = UNION {FramesOf(p) : p \in Proc}
        <=> \A f : f \in bitmap <=> \E p \in Proc : f \in FramesOf(p)
      BY Zenon
<1> QED BY <1>1, Zenon DEF FramesAreOwned, Owned, FramesOf, FrameSet

LEMMA OwnedIsNext == FramesAreOwned' <=> Owned(pageTable', bitmap')
<1>1. (bitmap = UNION {FramesOf(p) : p \in Proc})'
        <=> \A f : f \in bitmap' <=> \E p \in Proc : f \in FramesOf(p)'
      BY Zenon
<1> QED BY <1>1, Zenon DEF FramesAreOwned, Owned, FramesOf, FrameSet

(* A list of different frames has as many frames as pages. *)
LEMMA DifferentFrames ==
    ASSUME NEW n \in Nat, NEW F, NEW pages \in [1 .. n -> F],
           \A k, l \in 1 .. n : pages[k] = pages[l] => k = l
    PROVE  Cardinality(FrameSet(pages)) = n
<1> DEFINE R == {pages[i] : i \in 1 .. n}
<1>1. IsFiniteSet(1 .. n) /\ Cardinality(1 .. n) = n
      BY FS_Interval
<1>2. pages \in Bijection(1 .. n, R)
  <2>1. pages \in [1 .. n -> R] /\ IsInjective(pages)
        BY DEF IsInjective
  <2> QED BY <2>1, Zenon DEF Bijection, Injection, Surjection
<1>3. ExistsBijection(1 .. n, R)
      BY <1>2 DEF ExistsBijection
<1>4. Cardinality(R) = n
      BY <1>1, <1>3, FS_Bijection
<1>5. DOMAIN pages = 1 .. n
      OBVIOUS
<1> QED BY <1>4, <1>5, Zenon DEF FrameSet

LEMMA NoFrames == FrameSet(<<>>) = {} /\ Cardinality({}) = 0 /\ Len(<<>>) = 0 /\ DOMAIN <<>> = {}
BY FS_EmptySet DEF FrameSet

LEMMA InFrameSet == \A pages, f : f \in FrameSet(pages) <=> \E i \in DOMAIN pages : pages[i] = f
BY DEF FrameSet

(* A new page table of clear frames. *)
LEMMA NewSpaceIsOwned ==
    ASSUME NEW pt \in [Proc -> Seq(Frame)], NEW bm, Owned(pt, bm), NEW t \in Proc, pt[t] = <<>>,
           NEW n \in Nat, NEW pages \in [1 .. n -> Frame], Len(pages) = n,
           \A k \in 1 .. n : pages[k] \notin bm,
           \A k, l \in 1 .. n : pages[k] = pages[l] => k = l
    PROVE  Owned([pt EXCEPT ![t] = pages], bm \cup FrameSet(pages))
<1> DEFINE pt2 == [pt EXCEPT ![t] = pages]
<1>1. pt2[t] = pages /\ \A p \in Proc : p # t => pt2[p] = pt[p]
      OBVIOUS
<1> HIDE DEF pt2
<1>2. /\ Cardinality(FrameSet(pages)) = n
      /\ \A f \in FrameSet(pages) : f \notin bm
  <2>1. Cardinality(FrameSet(pages)) = n
        BY DifferentFrames
  <2>2. DOMAIN pages = 1 .. n
        OBVIOUS
  <2> QED BY <2>1, <2>2, InFrameSet
<1>3. \A p \in Proc : Cardinality(FrameSet(pt2[p])) = Len(pt2[p])
      BY <1>1, <1>2 DEF Owned
<1>4. \A p, q \in Proc : p # q => FrameSet(pt2[p]) \cap FrameSet(pt2[q]) = {}
      BY <1>1, <1>2 DEF Owned
<1>5. \A f : f \in bm \cup FrameSet(pages) <=> \E p \in Proc : f \in FrameSet(pt2[p])
      BY <1>1, NoFrames DEF Owned
<1> QED BY <1>3, <1>4, <1>5 DEF Owned, pt2

FrameTypeOK ==
    /\ bitmap \in SUBSET Frame
    /\ pageTable \in [Proc -> Seq(Frame)]
    /\ memory \in [Frame -> SomeProc]

(* A thread that does not exist yet has no frames. *)
UnbornHasNoSpace == \A p \in Proc : pc[p] = "unborn" => pageTable[p] = <<>>

FrameInv == FrameTypeOK /\ UnbornHasNoSpace /\ FramesAreOwned /\ OnlyFrameZeroIsLost

LEMMA FrameInitInv == Init => FrameInv
<1> SUFFICES ASSUME Init PROVE FrameInv
    OBVIOUS
<1> DEFINE first == [i \in 1 .. NumPages |-> i - 1]
<1>1. NumPages \in Nat /\ CodePages \in Nat /\ NumPages <= NUM_PHYS_PAGES /\ NUM_PHYS_PAGES \in Nat
      BY ProcessAssumption DEF ProcessAssumption
<1>2. /\ pageTable = [p \in Proc |-> IF p = Main THEN first ELSE <<>>]
      /\ bitmap = 0 .. NumPages - 1
      /\ memory = [f \in Frame |-> IF f < CodePages THEN Main ELSE NoProc]
      /\ pc = [p \in Proc |-> IF p = Main THEN "user" ELSE "unborn"]
      BY DEF Init
<1>3. /\ first \in [1 .. NumPages -> Frame] /\ first \in Seq(Frame)
      /\ Len(first) = NumPages /\ DOMAIN first = 1 .. NumPages
      BY <1>1 DEF Frame
<1>4. FrameTypeOK
  <2>1. bitmap \in SUBSET Frame
        BY <1>1, <1>2 DEF Frame
  <2>2. pageTable \in [Proc -> Seq(Frame)]
    <3> HIDE DEF first
    <3>1. <<>> \in Seq(Frame)
          OBVIOUS
    <3> QED BY <1>2, <1>3, <3>1
  <2>3. memory \in [Frame -> SomeProc]
        BY <1>2, ProcessAssumption DEF ProcessAssumption, SomeProc
  <2> QED BY <2>1, <2>2, <2>3 DEF FrameTypeOK
<1>5. UnbornHasNoSpace
      BY <1>2 DEF UnbornHasNoSpace
<1>6. Main \in Proc /\ pageTable[Main] = first /\ \A p \in Proc : p # Main => pageTable[p] = <<>>
      BY <1>2, ProcessAssumption DEF ProcessAssumption
<1>7. \A p \in Proc : p # Main => FrameSet(pageTable[p]) = {}
      BY <1>6, NoFrames
<1>8. FramesAreOwned
  <2>1. Cardinality(FrameSet(first)) = NumPages
    <3>1. \A k, l \in 1 .. NumPages : first[k] = first[l] => k = l
          BY <1>1
    <3> HIDE DEF first
    <3> QED BY <1>1, <1>3, <3>1, DifferentFrames
  <2>2. \A f : f \in bitmap <=> f \in FrameSet(first)
    <3>1. \A i \in 1 .. NumPages : first[i] \in 0 .. NumPages - 1
          BY <1>1
    <3>2. \A f \in 0 .. NumPages - 1 : f + 1 \in 1 .. NumPages /\ first[f + 1] = f
          BY <1>1
    <3> HIDE DEF first
    <3> QED BY <1>2, <1>3, <3>1, <3>2, InFrameSet
  <2> HIDE DEF first
  <2>3. \A p \in Proc : Cardinality(FrameSet(pageTable[p])) = Len(pageTable[p])
        BY <1>3, <1>6, <1>7, <2>1, NoFrames
  <2>4. \A p, q \in Proc : p # q => FrameSet(pageTable[p]) \cap FrameSet(pageTable[q]) = {}
        BY <1>7
  <2>5. \A f : f \in bitmap <=> \E p \in Proc : f \in FrameSet(pageTable[p])
        BY <1>6, <1>7, <2>2
  <2> QED BY <2>3, <2>4, <2>5, OwnedIs DEF Owned
<1>9. OnlyFrameZeroIsLost
  <2>1. ASSUME NEW i \in 1 .. NumPages, i <= CodePages PROVE memory[first[i]] = Main
        BY <1>1, <1>2, <2>1 DEF Frame
  <2> QED BY <1>3, <1>6, <2>1, NoFrames DEF OnlyFrameZeroIsLost
<1> QED BY <1>4, <1>5, <1>8, <1>9 DEF FrameInv

(* Every other step leaves the frames alone and makes no thread unborn.    *)
LEMMA FramesStay ==
    ASSUME FrameInv, UNCHANGED spaceVars, \A p \in Proc : pc'[p] = "unborn" => pc[p] = "unborn"
    PROVE  FrameInv'
<1>1. FrameTypeOK' /\ UnbornHasNoSpace' /\ OnlyFrameZeroIsLost'
      BY DEF FrameInv, spaceVars, FrameTypeOK, UnbornHasNoSpace, OnlyFrameZeroIsLost
<1>2. FramesAreOwned'
      BY OwnedIs, OwnedIsNext DEF FrameInv, spaceVars
<1> QED BY <1>1, <1>2 DEF FrameInv

LEMMA LoadKeepsFrames ==
    ASSUME FrameInv, ControlInv, NEW t \in Proc, t = peer[cpu], pc[t] = "unborn", Load,
           Cardinality(Frame \ bitmap) >= NumPages,
           \A p \in Proc : pc'[p] = "unborn" => pc[p] = "unborn" /\ p # t
    PROVE  FrameInv'
<1> DEFINE pages == [i \in 1 .. NumPages |-> LowestClear(i)]
           new == {pages[i] : i \in 1 .. NumPages}
<1>1. /\ pageTable[t] = <<>>
      /\ pageTable' = [pageTable EXCEPT ![t] = pages]
      /\ bitmap' = bitmap \cup new
      /\ memory' = [f \in Frame |-> IF \E i \in 1 .. CodePages : pages[i] = f THEN t
                                    ELSE IF f = 0 THEN NoProc ELSE memory[f]]
      BY DEF FrameInv, UnbornHasNoSpace, Load, LoadWith
<1>2. /\ NumPages \in Nat /\ CodePages \in Nat /\ CodePages <= NumPages
      BY ProcessAssumption DEF ProcessAssumption
<1>3. /\ \A k \in 1 .. NumPages : pages[k] \in Frame /\ pages[k] \notin bitmap
      /\ \A k, l \in 1 .. NumPages : pages[k] = pages[l] => k = l
      BY LowestClearIs DEF FrameInv, FrameTypeOK
<1>4. /\ pages \in [1 .. NumPages -> Frame] /\ pages \in Seq(Frame)
      /\ Len(pages) = NumPages /\ DOMAIN pages = 1 .. NumPages
      BY <1>2, <1>3
<1> HIDE DEF pages
<1>5. bitmap' = bitmap \cup FrameSet(pages)
      BY <1>1, <1>4, Zenon DEF FrameSet
<1> HIDE DEF new
<1>6. pageTable'[t] = pages /\ \A p \in Proc : p # t => pageTable'[p] = pageTable[p]
      BY <1>1 DEF FrameInv, FrameTypeOK
<1>7. FrameTypeOK'
  <2>1. FrameSet(pages) \in SUBSET Frame
        BY <1>3, <1>4, InFrameSet
  <2>2. bitmap' \in SUBSET Frame
        BY <1>5, <2>1 DEF FrameInv, FrameTypeOK
  <2>3. pageTable' \in [Proc -> Seq(Frame)]
        BY <1>1, <1>4 DEF FrameInv, FrameTypeOK
  <2>4. memory' \in [Frame -> SomeProc]
        BY <1>1 DEF FrameInv, FrameTypeOK, SomeProc
  <2> QED BY <2>2, <2>3, <2>4 DEF FrameTypeOK
<1>8. UnbornHasNoSpace'
      BY <1>6 DEF FrameInv, UnbornHasNoSpace
<1>9. Owned(pageTable, bitmap) /\ pageTable \in [Proc -> Seq(Frame)]
      BY OwnedIs DEF FrameInv, FrameTypeOK
<1>10. FramesAreOwned'
  <2>1. Owned([pageTable EXCEPT ![t] = pages], bitmap \cup FrameSet(pages))
        BY <1>1, <1>2, <1>3, <1>4, <1>9, NewSpaceIsOwned
  <2> QED BY <1>1, <1>5, <2>1, OwnedIsNext
<1>11. OnlyFrameZeroIsLost'
  <2> SUFFICES ASSUME NEW p \in Proc, NEW i \in DOMAIN pageTable'[p],
                      i <= CodePages, pageTable'[p][i] # 0
               PROVE  memory'[pageTable'[p][i]] = p
      BY DEF OnlyFrameZeroIsLost
  <2>1. CASE p = t
    <3>1. i \in 1 .. CodePages /\ pageTable'[p][i] = pages[i] /\ pages[i] \in Frame
          BY <1>2, <1>3, <1>4, <1>6, <2>1
    <3> QED BY <1>1, <2>1, <3>1
  <2>2. CASE p # t
    <3> DEFINE f == pageTable[p][i]
    <3>1. pageTable'[p] = pageTable[p] /\ memory[f] = p /\ f # 0
          BY <1>6, <2>2 DEF FrameInv, OnlyFrameZeroIsLost
    <3>2. f \in FrameSet(pageTable[p])
          BY <3>1, InFrameSet
    <3>3. f \in bitmap /\ f \in Frame
          BY <1>9, <3>2 DEF FrameInv, FrameTypeOK, Owned
    <3>4. ~\E k \in 1 .. CodePages : pages[k] = f
          BY <1>2, <1>3, <3>3
    <3> HIDE DEF f
    <3> QED BY <1>1, <3>1, <3>3, <3>4 DEF f
  <2> QED BY <2>1, <2>2
<1> QED BY <1>7, <1>8, <1>10, <1>11 DEF FrameInv

LEMMA FrameNextInv == FrameInv /\ ControlInv /\ [Next]_vars => FrameInv'
<1> SUFFICES ASSUME FrameInv, ControlInv, [Next]_vars PROVE FrameInv'
    OBVIOUS
<1>1. CASE ExecFork
  <2>1. pc[cpu] = "exec" /\ peer[cpu] \in Proc /\ pc[peer[cpu]] = "unborn" /\ pc \in [Proc -> Label] /\ cpu \in Proc
        BY <1>1 DEF ExecFork, At, ControlInv, ExecHasChild, ControlTypeOK
  <2>2. CASE Cardinality(Frame \ bitmap) < NumPages
    <3>1. UNCHANGED spaceVars /\ pc' = [pc EXCEPT ![cpu] = "abort"]
          BY <1>1, <2>2 DEF ExecFork, Goto
    <3> QED BY <2>1, <3>1, FramesStay
  <2>3. CASE ~(Cardinality(Frame \ bitmap) < NumPages)
    <3>1. /\ Load
          /\ pc' = [pc EXCEPT ![peer[cpu]] = "forked",
                              ![cpu] = IF joinable[peer[cpu]] THEN "join" ELSE "user"]
          BY <1>1, <2>3 DEF ExecFork
    <3>2. \A p \in Proc : pc'[p] = "unborn" => pc[p] = "unborn" /\ p # peer[cpu]
          BY <2>1, <3>1
    <3>3. Cardinality(Frame \ bitmap) >= NumPages
      <4>1. NUM_PHYS_PAGES \in Nat /\ Frame \ bitmap \in SUBSET (0 .. NUM_PHYS_PAGES - 1) /\ NumPages \in Nat
            BY ProcessAssumption DEF ProcessAssumption, Frame
      <4> QED BY <2>3, <4>1, BelowIsFinite
    <3> QED BY <2>1, <3>1, <3>2, <3>3, LoadKeepsFrames
  <2> QED BY <2>2, <2>3
<1>2. CASE ~ExecFork
  <2>1. UNCHANGED spaceVars
        BY <1>2 DEF Next, vars, Exec, Exit, Remove, Trim, FinishSleep, Boot, Join, Meet, Switch
  <2>2. pc \in [Proc -> Label] /\ cpu \in Proc
        BY DEF ControlInv, ControlTypeOK
  <2>3. \A p \in Proc : pc'[p] = "unborn" => pc[p] = "unborn"
        BY <1>2, <2>2 DEF Next, vars, Exec, Exit, Remove, Trim, FinishSleep, Boot, Join, Meet,
                          Switch, Goto
  <2> QED BY <2>1, <2>3, FramesStay
<1> QED BY <1>1, <1>2

LEMMA FramesHold == Spec => []FrameInv
BY FrameInitInv, FrameNextInv, ControlHolds, PTL DEF Spec

(* No frame is in two address spaces or twice in one, and the bitmap marks *)
(* exactly the frames in use, for any memory size and any sequence of      *)
(* Execs, the one that runs out of frames included                         *)
(* (address_space.cc:43-61).                                               *)
THEOREM FramesStayOwned == Spec => []FramesAreOwned
<1>1. FrameInv => FramesAreOwned
      BY DEF FrameInv
<1> QED BY <1>1, FramesHold, PTL

(* Loading a program never touches a code page of another process outside  *)
(* frame 0, for programs of any size (address_space.cc:60-97).             *)
THEOREM LoadsSpareTheOthers == Spec => []OnlyFrameZeroIsLost
<1>1. FrameInv => OnlyFrameZeroIsLost
      BY DEF FrameInv
<1> QED BY <1>1, FramesHold, PTL

-----------------------------------------------------------------------------
(* The table of threads. *)

Sorted(s) == \A k, l \in 1 .. Len(s) : k < l => s[k] < s[l]

LEMMA PopIs ==
    ASSUME NEW s \in Seq(Nat), Sorted(s), s # <<>>
    PROVE  /\ Head(s) \in Nat /\ Tail(s) \in Seq(Nat) /\ Sorted(Tail(s))
           /\ Threads!Has(s, Head(s)) /\ \A x : Threads!Has(s, x) => x \in Nat /\ Head(s) <= x
           /\ \A x : Threads!Has(Tail(s), x) <=> Threads!Has(s, x) /\ x # Head(s)
<1>1. /\ Len(s) \in Nat /\ Len(s) >= 1 /\ Head(s) = s[1] /\ Head(s) \in Nat
      /\ \A k \in 1 .. Len(s) : s[k] \in Nat
      /\ Tail(s) \in Seq(Nat) /\ Len(Tail(s)) = Len(s) - 1
      /\ \A k \in 1 .. Len(s) - 1 : Tail(s)[k] = s[k + 1]
      OBVIOUS
<1> DEFINE r == Tail(s)
           h == Head(s)
           n == Len(s)
<1>2. /\ n \in Nat /\ n >= 1 /\ h = s[1] /\ h \in Nat /\ r \in Seq(Nat) /\ Len(r) = n - 1
      /\ \A k \in 1 .. n : s[k] \in Nat
      /\ \A k \in 1 .. n - 1 : r[k] = s[k + 1]
      /\ \A k, l \in 1 .. n : k < l => s[k] < s[l]
      BY <1>1 DEF Sorted
<1>3. \A x : Threads!Has(s, x) <=> \E k \in 1 .. n : s[k] = x
      BY DEF Threads!Has
<1>4. \A x : Threads!Has(r, x) <=> \E k \in 1 .. n - 1 : r[k] = x
      BY <1>2 DEF Threads!Has
<1>5. Sorted(r)
      BY <1>2 DEF Sorted
<1> HIDE DEF r, h, n
<1>6. 1 \in 1 .. n /\ \A k \in 1 .. n : k = 1 \/ h < s[k]
      BY <1>2
<1>7. Threads!Has(s, h) /\ \A x : Threads!Has(s, x) => x \in Nat /\ h <= x
      BY <1>2, <1>3, <1>6
<1>8. \A x : Threads!Has(r, x) <=> Threads!Has(s, x) /\ x # h
  <2> SUFFICES ASSUME NEW x PROVE Threads!Has(r, x) <=> Threads!Has(s, x) /\ x # h
      OBVIOUS
  <2>1. ASSUME NEW k \in 1 .. n - 1, r[k] = x PROVE Threads!Has(s, x) /\ x # h
    <3>1. k + 1 \in 1 .. n /\ s[k + 1] = x /\ k + 1 # 1
          BY <1>2, <2>1
    <3> QED BY <1>2, <1>3, <1>6, <3>1
  <2>2. ASSUME NEW k \in 1 .. n, s[k] = x, x # h PROVE Threads!Has(r, x)
    <3>1. k - 1 \in 1 .. n - 1 /\ r[k - 1] = s[(k - 1) + 1] /\ (k - 1) + 1 = k
          BY <1>2, <2>2
    <3> QED BY <1>4, <2>2, <3>1
  <2> QED BY <1>3, <1>4, <2>1, <2>2
<1> QED BY <1>2, <1>5, <1>7, <1>8 DEF r, h

(* List::SortedInsert keeps the order and adds the element it is given.    *)
LEMMA SortedInsertIs ==
    ASSUME NEW s \in Seq(Nat), Sorted(s), NEW i \in Nat, ~Threads!Has(s, i)
    PROVE  /\ Threads!SortedInsert(s, i) \in Seq(Nat)
           /\ Sorted(Threads!SortedInsert(s, i))
           /\ \A x : Threads!Has(Threads!SortedInsert(s, i), x) <=> Threads!Has(s, x) \/ x = i
<1> DEFINE n == Len(s)
           Ok(p) == (p <= n => i < s[p]) /\ \A k \in 1 .. p - 1 : s[k] <= i
           pos == CHOOSE p \in 1 .. n + 1 : Ok(p)
           r == [k \in 1 .. n + 1 |-> IF k < pos THEN s[k] ELSE IF k = pos THEN i ELSE s[k - 1]]
<1>1. /\ n \in Nat /\ \A k \in 1 .. n : s[k] \in Nat /\ s[k] # i
      /\ \A k, l \in 1 .. n : k < l => s[k] < s[l]
      BY DEF Sorted, Threads!Has
<1>2. \E p \in 1 .. n + 1 : Ok(p)
  <2> DEFINE T == {p \in Nat : p >= 1 /\ (p <= n => i < s[p])}
  <2>1. n + 1 \in T
        BY <1>1
  <2>2. PICK p \in T : \A k \in T : p <= k
        BY <2>1, LeastIn
  <2>3. p \in 1 .. n + 1 /\ (p <= n => i < s[p])
        BY <1>1, <2>1, <2>2
  <2>4. ASSUME NEW k \in 1 .. p - 1 PROVE s[k] <= i
    <3>1. k \in Nat /\ k >= 1 /\ k < p /\ k <= n /\ s[k] \in Nat
          BY <1>1, <2>3
    <3>2. k \notin T
          BY <2>2, <3>1
    <3> QED BY <3>1, <3>2
  <2> QED BY <2>3, <2>4
<1>3. pos \in 1 .. n + 1 /\ Ok(pos)
  <2> HIDE DEF Ok, n
  <2> QED BY <1>2
<1>4. Threads!SortedInsert(s, i) = r
      BY DEF Threads!SortedInsert
<1> HIDE DEF pos
<1>5. /\ \A k \in 1 .. n + 1 : k < pos => r[k] = s[k] /\ r[k] < i
      /\ r[pos] = i
      /\ \A k \in 1 .. n + 1 : k > pos => r[k] = s[k - 1] /\ i < r[k]
  <2>1. ASSUME NEW k \in 1 .. n + 1, k < pos PROVE r[k] = s[k] /\ r[k] < i
    <3>1. k \in 1 .. pos - 1 /\ k \in 1 .. n
          BY <1>1, <1>3, <2>1
    <3> QED BY <1>1, <1>3, <2>1, <3>1
  <2>2. ASSUME NEW k \in 1 .. n + 1, k > pos PROVE r[k] = s[k - 1] /\ i < r[k]
    <3>1. k - 1 \in 1 .. n /\ pos \in 1 .. n /\ (pos = k - 1 \/ pos < k - 1)
          BY <1>1, <1>3, <2>2
    <3>2. i < s[pos] /\ (s[pos] < s[k - 1] \/ pos = k - 1)
          BY <1>1, <1>3, <3>1
    <3>3. i < s[k - 1]
          BY <1>1, <3>1, <3>2
    <3> QED BY <1>1, <1>3, <2>2, <3>3
  <2> QED BY <1>3, <2>1, <2>2
<1>6. r \in Seq(Nat) /\ Len(r) = n + 1
      BY <1>1, <1>3
<1> HIDE DEF r, n, Ok
<1>7. Sorted(r)
  <2> SUFFICES ASSUME NEW k \in 1 .. n + 1, NEW l \in 1 .. n + 1, k < l PROVE r[k] < r[l]
      BY <1>6 DEF Sorted
  <2>1. CASE l < pos
        BY <1>1, <1>3, <1>5, <2>1
  <2>2. CASE l = pos
        BY <1>1, <1>3, <1>5, <2>2
  <2>3. CASE l > pos /\ k > pos
    <3>1. k - 1 \in 1 .. n /\ l - 1 \in 1 .. n /\ k - 1 < l - 1
          BY <1>1, <1>3, <2>3
    <3> QED BY <1>1, <1>5, <2>3, <3>1
  <2>4. CASE l > pos /\ k = pos
        BY <1>5, <2>4
  <2>5. CASE l > pos /\ k < pos
    <3>1. r[k] < i /\ i < r[l] /\ r[k] \in Nat /\ r[l] \in Nat
          BY <1>5, <1>6, <2>5
    <3> QED BY <3>1
  <2> QED BY <1>1, <1>3, <2>1, <2>2, <2>3, <2>4, <2>5
<1>8. ASSUME NEW x PROVE Threads!Has(r, x) <=> Threads!Has(s, x) \/ x = i
  <2>1. Threads!Has(r, x) <=> \E k \in 1 .. n + 1 : r[k] = x
        BY <1>6 DEF Threads!Has
  <2>2. Threads!Has(s, x) <=> \E k \in 1 .. n : s[k] = x
        BY DEF Threads!Has, n
  <2>3. ASSUME NEW k \in 1 .. n + 1, r[k] = x PROVE Threads!Has(s, x) \/ x = i
    <3>1. k < pos => k \in 1 .. n
          BY <1>1, <1>3
    <3>2. k > pos => k - 1 \in 1 .. n
          BY <1>1, <1>3
    <3> QED BY <1>1, <1>3, <1>5, <2>2, <2>3, <3>1, <3>2
  <2>4. ASSUME NEW k \in 1 .. n, s[k] = x PROVE Threads!Has(r, x)
    <3>1. CASE k < pos
          BY <1>1, <1>5, <2>1, <2>4, <3>1
    <3>2. CASE k >= pos
      <4>1. k + 1 \in 1 .. n + 1 /\ k + 1 > pos /\ (k + 1) - 1 = k
            BY <1>1, <1>3, <3>2
      <4> QED BY <1>5, <2>1, <2>4, <4>1
    <3> QED BY <1>1, <1>3, <3>1, <3>2
  <2>5. Threads!Has(r, i)
        BY <1>1, <1>3, <1>5, <1>6 DEF Threads!Has
  <2> QED BY <2>1, <2>2, <2>3, <2>4, <2>5
<1> QED BY <1>4, <1>6, <1>7, <1>8

TableTypeOK ==
    /\ current \in 0 .. SIZE /\ freed \in Seq(Nat)
    /\ data \in [0 .. SIZE - 1 -> SomeProc] /\ live \in [0 .. SIZE - 1 -> SomeProc]
    /\ trimming \in BOOLEAN /\ j \in Int
    /\ spaceId \in [Proc -> Int] /\ pid \in [Proc -> Int]

(* Table::HasKey *)
InTable(i) == i < current /\ ~Threads!Has(freed, i)

FreedIsOrdered == Sorted(freed) /\ \A x : Threads!Has(freed, x) => x \in Nat /\ x < current

(* The table is the map that Exec and Finish think it is; in particular    *)
(* the loop of Remove never takes a wrong entry off freed.                 *)
TableIsExact ==
    /\ mispopped = FALSE
    /\ \A i \in 0 .. SIZE - 1 :
         IF InTable(i) THEN live[i] = data[i] ELSE live[i] = NoProc

(* A thread that has not left the table yet, and its entry. *)
Registered(p) == pc[p] \notin {"trim", "dead", "deleted", "abort"} /\ spaceId[p] # -1

EntriesAreKept ==
    \A p \in Proc : Registered(p) =>
        spaceId[p] \in Nat /\ InTable(spaceId[p]) /\ data[spaceId[p]] = p

PidsAreKept ==
    \A p \in Proc : pid[p] # -1 =>
        pid[p] \in Nat /\ InTable(pid[p]) /\ data[pid[p]] = p /\ pid[p] # spaceId[p]

UnbornHasNoPid == \A p \in Proc : pc[p] = "unborn" => pid[p] = -1

(* Exec calls Add twice in a row.  So behind an entry that is free, or     *)
(* that Finish will free, comes one that Exec returned and that nobody     *)
(* frees, unless the entry is the first or the last of the table.          *)
EntryThenPid ==
    pc[cpu] # "abort" =>
        \A i \in Nat :
            /\ i >= 1 /\ i + 1 < SIZE
            /\ Threads!Has(freed, i) \/ \E p \in Proc : Registered(p) /\ spaceId[p] = i
            => \/ \E q \in Proc : pid[q] = i + 1
               \/ pc[cpu] = "exec" /\ spaceId[peer[cpu]] = i /\ current = i + 1 /\ freed = <<>>

(* So the loop of Remove finds something to do only with one entry left.   *)
TrimIsExact ==
    trimming => /\ pc[cpu] = "trim" /\ j = current - 1
                /\ Threads!Has(freed, current - 1) => current = 1

TableInv ==
    /\ TableTypeOK /\ FreedIsOrdered /\ TableIsExact /\ EntriesAreKept /\ PidsAreKept
    /\ UnbornHasNoPid /\ EntryThenPid /\ TrimIsExact

LEMMA TableInitInv == Init => TableInv
<1> SUFFICES ASSUME Init PROVE TableInv
    OBVIOUS
<1>1. /\ current = 1 /\ freed = <<>> /\ trimming = FALSE /\ j = -1 /\ mispopped = FALSE
      /\ data = [i \in 0 .. SIZE - 1 |-> IF i = 0 THEN Main ELSE NoProc]
      /\ live = data /\ cpu = Main
      /\ pc = [p \in Proc |-> IF p = Main THEN "user" ELSE "unborn"]
      /\ spaceId = [p \in Proc |-> IF p = Main THEN 0 ELSE -1]
      /\ pid = [p \in Proc |-> -1]
      BY DEF Init
<1>2. Main \in Proc /\ SIZE \in Nat /\ SIZE >= 1
      BY ProcessAssumption DEF ProcessAssumption
<1>3. \A x : ~Threads!Has(freed, x)
      BY <1>1 DEF Threads!Has
<1>4. TableTypeOK
  <2>1. current \in 0 .. SIZE /\ freed \in Seq(Nat) /\ j \in Int
        BY <1>1, <1>2
  <2>4. trimming \in BOOLEAN
        BY <1>1, Zenon
  <2>2. data \in [0 .. SIZE - 1 -> SomeProc] /\ live \in [0 .. SIZE - 1 -> SomeProc]
        BY <1>1, <1>2 DEF SomeProc
  <2>3. spaceId \in [Proc -> Int] /\ pid \in [Proc -> Int]
        BY <1>1
  <2> QED BY <2>1, <2>2, <2>3, <2>4 DEF TableTypeOK
<1>5. FreedIsOrdered /\ TrimIsExact
      BY <1>1, <1>3 DEF FreedIsOrdered, TrimIsExact, Sorted
<1>6. TableIsExact
      BY <1>1, <1>2, <1>3 DEF TableIsExact, InTable
<1>7. EntriesAreKept /\ PidsAreKept /\ UnbornHasNoPid
      BY <1>1, <1>2, <1>3 DEF EntriesAreKept, PidsAreKept, UnbornHasNoPid, InTable, Registered
<1>8. EntryThenPid
      BY <1>1, <1>2, <1>3 DEF EntryThenPid, Registered
<1> QED BY <1>4, <1>5, <1>6, <1>7, <1>8 DEF TableInv

(* What threads->Add does, the entry it returns being i. *)
LEMMA AddIs ==
    ASSUME TableTypeOK, FreedIsOrdered, NEW t \in Proc, AddThread(t), NEW i, i = Slot
    PROVE  \/ i = -1 /\ freed = <<>> /\ current = SIZE /\ UNCHANGED tableVars
           \/ /\ i \in 0 .. SIZE - 1 /\ ~InTable(i)
              /\ data' = [data EXCEPT ![i] = t] /\ live' = [live EXCEPT ![i] = t]
              /\ UNCHANGED <<trimming, j, mispopped>> /\ ~trimming
              /\ freed' \in Seq(Nat) /\ Sorted(freed') /\ current' \in 0 .. SIZE
              /\ \A x : Threads!Has(freed', x) <=> Threads!Has(freed, x) /\ x # i
              /\ \A x : Threads!Has(freed', x) => x \in Nat /\ x < current'
              /\ \A x \in Nat : InTable(x)' <=> InTable(x) \/ x = i
              /\ \/ freed = <<>> /\ i = current /\ current' = current + 1 /\ freed' = <<>>
                 \/ Threads!Has(freed, i) /\ current' = current
<1>0. current \in Nat /\ SIZE \in Nat /\ current <= SIZE
      BY ProcessAssumption DEF TableTypeOK, ProcessAssumption
<1>1. CASE freed # <<>>
  <2>1. /\ i = Head(freed) /\ i # -1
        /\ Threads!Has(freed, i) /\ i \in Nat /\ i < current
        /\ Tail(freed) \in Seq(Nat) /\ Sorted(Tail(freed))
        /\ \A x : Threads!Has(Tail(freed), x) <=> Threads!Has(freed, x) /\ x # i
        BY <1>0, <1>1, PopIs DEF Slot, TableTypeOK, FreedIsOrdered
  <2>2. Threads!Add(t)
        BY <2>1 DEF AddThread
  <2>3. /\ data' = [data EXCEPT ![i] = t] /\ live' = [live EXCEPT ![i] = t]
        /\ freed' = Tail(freed) /\ current' = current
        /\ UNCHANGED <<trimming, j, mispopped>> /\ ~trimming
        BY <1>1, <2>1, <2>2 DEF Threads!Add, Threads!Store
  <2>4. \A x : Threads!Has(freed', x) <=> Threads!Has(freed, x) /\ x # i
        BY <2>1, <2>3
  <2>5. \A x \in Nat : InTable(x)' <=> InTable(x) \/ x = i
        BY <1>0, <2>1, <2>3, <2>4 DEF InTable
  <2>6. i \in 0 .. SIZE - 1 /\ ~InTable(i)
        BY <1>0, <2>1 DEF InTable
  <2>7. freed' \in Seq(Nat) /\ Sorted(freed') /\ current' \in 0 .. SIZE
        BY <2>1, <2>3 DEF TableTypeOK
  <2>8. \A x : Threads!Has(freed', x) => x \in Nat /\ x < current'
        BY <2>3, <2>4 DEF FreedIsOrdered
  <2> QED BY <2>1, <2>3, <2>4, <2>5, <2>6, <2>7, <2>8
<1>2. CASE freed = <<>> /\ current < SIZE
  <2>1. i = current /\ i # -1
        BY <1>0, <1>2 DEF Slot, Threads!AddRoom
  <2>2. Threads!Add(t)
        BY <2>1 DEF AddThread
  <2>3. /\ data' = [data EXCEPT ![i] = t] /\ live' = [live EXCEPT ![i] = t]
        /\ freed' = freed /\ current' = current + 1
        /\ UNCHANGED <<trimming, j, mispopped>> /\ ~trimming
        BY <1>2, <2>1, <2>2 DEF Threads!Add, Threads!Store
  <2>4. \A x : ~Threads!Has(freed, x)
        BY <1>2 DEF Threads!Has
  <2>5. \A x : ~Threads!Has(freed', x)
        BY <2>3, <2>4
  <2>6. \A x \in Nat : InTable(x)' <=> InTable(x) \/ x = i
        BY <1>0, <2>1, <2>3, <2>4, <2>5 DEF InTable
  <2>7. i \in 0 .. SIZE - 1 /\ ~InTable(i)
        BY <1>0, <1>2, <2>1 DEF InTable
  <2>8. freed' \in Seq(Nat) /\ Sorted(freed') /\ current' \in 0 .. SIZE
        BY <1>0, <1>2, <2>3 DEF TableTypeOK, FreedIsOrdered
  <2> QED BY <1>2, <2>1, <2>3, <2>4, <2>5, <2>6, <2>7, <2>8
<1>3. CASE freed = <<>> /\ ~(current < SIZE)
      BY <1>0, <1>3 DEF Slot, Threads!AddRoom, AddThread
<1> QED BY <1>1, <1>2, <1>3

(* Steps that leave the table alone. *)
LEMMA TableStays ==
    ASSUME TableInv, UNCHANGED <<tableVars, spaceId, pid>>, ~trimming,
           pc[cpu] \notin {"exec", "abort"},
           \A p \in Proc : Registered(p)' => Registered(p),
           \A p \in Proc : pc'[p] = "unborn" => pc[p] = "unborn"
    PROVE  TableInv'
<1>1. TableTypeOK' /\ FreedIsOrdered' /\ TrimIsExact' /\ UnbornHasNoPid'
      BY DEF TableInv, tableVars, TableTypeOK, FreedIsOrdered, TrimIsExact, UnbornHasNoPid
<1>2. \A x : InTable(x)' <=> InTable(x)
      BY DEF tableVars, InTable
<1>3. TableIsExact' /\ EntriesAreKept' /\ PidsAreKept'
      BY <1>2 DEF TableInv, tableVars, TableIsExact, EntriesAreKept, PidsAreKept
<1>4. EntryThenPid'
      BY DEF TableInv, tableVars, EntryThenPid
<1> QED BY <1>1, <1>3, <1>4 DEF TableInv

LEMMA ExecTable ==
    ASSUME TableInv, ControlInv, NEW t \in Proc, NEW isJoinable \in BOOLEAN, Exec(t, isJoinable)
    PROVE  TableInv'
<1> PICK i : i = Slot
    OBVIOUS
<1>1. /\ pc[cpu] = "user" /\ pc[t] = "unborn" /\ cpu \in Proc /\ t # cpu
      /\ AddThread(t)
      /\ pc' = [pc EXCEPT ![cpu] = "exec"]
      /\ spaceId' = [spaceId EXCEPT ![t] = i]
      /\ peer' = [peer EXCEPT ![cpu] = t]
      /\ UNCHANGED <<cpu, pid>>
      BY DEF Exec, At, Goto, cpuVars, ControlInv, ControlTypeOK
<1>2. /\ pc \in [Proc -> Label] /\ peer \in [Proc -> SomeProc]
      /\ spaceId \in [Proc -> Int] /\ pid \in [Proc -> Int] /\ ~trimming
      /\ data \in [0 .. SIZE - 1 -> SomeProc] /\ live \in [0 .. SIZE - 1 -> SomeProc]
      /\ current \in Nat /\ SIZE \in Nat /\ current <= SIZE
      BY <1>1, ProcessAssumption
      DEF ControlInv, ControlTypeOK, TableInv, TableTypeOK, TrimIsExact, ProcessAssumption
<1>3. \/ i = -1 /\ freed = <<>> /\ current = SIZE /\ UNCHANGED tableVars
      \/ /\ i \in 0 .. SIZE - 1 /\ ~InTable(i)
         /\ data' = [data EXCEPT ![i] = t] /\ live' = [live EXCEPT ![i] = t]
         /\ UNCHANGED <<trimming, j, mispopped>> /\ ~trimming
         /\ freed' \in Seq(Nat) /\ Sorted(freed') /\ current' \in 0 .. SIZE
         /\ \A x : Threads!Has(freed', x) <=> Threads!Has(freed, x) /\ x # i
         /\ \A x : Threads!Has(freed', x) => x \in Nat /\ x < current'
         /\ \A x \in Nat : InTable(x)' <=> InTable(x) \/ x = i
         /\ \/ freed = <<>> /\ i = current /\ current' = current + 1 /\ freed' = <<>>
            \/ Threads!Has(freed, i) /\ current' = current
      BY <1>1, AddIs DEF TableInv
<1>4. /\ \A p \in Proc : p # t => spaceId'[p] = spaceId[p] /\ (Registered(p)' => Registered(p))
      /\ spaceId'[t] = i /\ pc'[cpu] = "exec" /\ peer'[cpu] = t
      /\ \A p \in Proc : pc'[p] = "unborn" => pc[p] = "unborn"
      BY <1>1, <1>2 DEF Registered
<1>5. CASE i = -1 /\ UNCHANGED tableVars
  <2>1. TableTypeOK' /\ FreedIsOrdered' /\ TrimIsExact'
        BY <1>1, <1>2, <1>5 DEF TableInv, tableVars, TableTypeOK, FreedIsOrdered, TrimIsExact
  <2>2. \A x : InTable(x)' <=> InTable(x)
        BY <1>5 DEF tableVars, InTable
  <2>3. TableIsExact' /\ UnbornHasNoPid'
        BY <1>1, <1>4, <1>5, <2>2 DEF TableInv, tableVars, TableIsExact, UnbornHasNoPid
  <2>4. EntriesAreKept'
        BY <1>4, <1>5, <2>2 DEF TableInv, tableVars, EntriesAreKept, Registered
  <2>5. PidsAreKept'
        BY <1>1, <1>4, <1>5, <2>2 DEF TableInv, tableVars, PidsAreKept, UnbornHasNoPid
  <2>6. EntryThenPid'
        BY <1>1, <1>4, <1>5 DEF TableInv, tableVars, EntryThenPid, Registered
  <2> QED BY <2>1, <2>3, <2>4, <2>5, <2>6 DEF TableInv
<1>6. CASE ~(i = -1 /\ UNCHANGED tableVars)
  <2>1. TableTypeOK' /\ FreedIsOrdered' /\ TrimIsExact'
    <3>1. data' \in [0 .. SIZE - 1 -> SomeProc] /\ live' \in [0 .. SIZE - 1 -> SomeProc]
          BY <1>2, <1>3, <1>6 DEF SomeProc
    <3>2. spaceId' \in [Proc -> Int] /\ pid' \in [Proc -> Int]
          BY <1>1, <1>2, <1>3, <1>6
    <3>3. trimming' \in BOOLEAN /\ j' \in Int /\ ~trimming'
          BY <1>3, <1>6 DEF TableInv, TableTypeOK
    <3>4. FreedIsOrdered'
          BY <1>3, <1>6 DEF FreedIsOrdered
    <3>5. TrimIsExact'
          BY <3>3 DEF TrimIsExact
    <3>6. current' \in 0 .. SIZE /\ freed' \in Seq(Nat)
          BY <1>3, <1>6
    <3> QED BY <3>1, <3>2, <3>3, <3>4, <3>5, <3>6 DEF TableTypeOK
  <2>2. \A x \in 0 .. SIZE - 1 : x \in Nat /\ (x # i => data'[x] = data[x] /\ live'[x] = live[x])
        BY <1>2, <1>3, <1>6
  <2>3. data'[i] = t /\ live'[i] = t /\ i \in Nat /\ i # -1
        BY <1>2, <1>3, <1>6
  <2>4. TableIsExact' /\ UnbornHasNoPid'
        BY <1>1, <1>3, <1>4, <1>6, <2>2, <2>3 DEF TableInv, TableIsExact, UnbornHasNoPid
  <2>5. \A x \in Nat : InTable(x) => x # i /\ x \in 0 .. SIZE - 1 /\ data'[x] = data[x] /\ InTable(x)'
        BY <1>2, <1>3, <1>6, <2>2 DEF InTable
  <2>6. EntriesAreKept'
        BY <1>3, <1>4, <1>6, <2>3, <2>5 DEF TableInv, EntriesAreKept
  <2>7. PidsAreKept'
        BY <1>1, <1>4, <2>5 DEF TableInv, PidsAreKept, UnbornHasNoPid
  <2>8. EntryThenPid'
    <3> SUFFICES ASSUME NEW k \in Nat, k >= 1, k + 1 < SIZE,
                        Threads!Has(freed', k) \/ \E p \in Proc : Registered(p)' /\ spaceId'[p] = k
                 PROVE  \/ \E q \in Proc : pid'[q] = k + 1
                        \/ /\ pc'[cpu'] = "exec" /\ spaceId'[peer'[cpu']] = k
                           /\ current' = k + 1 /\ freed' = <<>>
        BY DEF EntryThenPid
    <3>1. CASE Threads!Has(freed, k) \/ \E p \in Proc : Registered(p) /\ spaceId[p] = k
          BY <1>1, <3>1 DEF TableInv, EntryThenPid
    <3>2. CASE k = i /\ ~Threads!Has(freed, k)
          BY <1>1, <1>3, <1>4, <1>6, <3>2
    <3> QED BY <1>3, <1>4, <1>6, <3>1, <3>2
  <2> QED BY <2>1, <2>4, <2>6, <2>7, <2>8 DEF TableInv
<1> QED BY <1>5, <1>6

LEMMA ExecForkTable ==
    ASSUME TableInv, ControlInv, ExecFork
    PROVE  TableInv'
<1>1. PICK t \in Proc : t = peer[cpu]
      BY DEF ExecFork, At, ControlInv, ExecHasChild
<1> PICK i : i = Slot
    OBVIOUS
<1>2. /\ pc[cpu] = "exec" /\ pc[t] = "unborn" /\ cpu \in Proc /\ t # cpu
      /\ UNCHANGED <<cpu, peer, spaceId>>
      BY <1>1 DEF ExecFork, At, cpuVars, ControlInv, ExecHasChild, ControlTypeOK
<1>3. /\ pc \in [Proc -> Label]
      /\ spaceId \in [Proc -> Int] /\ pid \in [Proc -> Int] /\ ~trimming /\ pid[t] = -1
      /\ data \in [0 .. SIZE - 1 -> SomeProc] /\ live \in [0 .. SIZE - 1 -> SomeProc]
      /\ current \in Nat /\ SIZE \in Nat /\ current <= SIZE
      BY <1>2, ProcessAssumption
      DEF ControlInv, ControlTypeOK, TableInv, TableTypeOK, TrimIsExact, ProcessAssumption,
          UnbornHasNoPid
<1>4. CASE UNCHANGED <<tableVars, pid>> /\ pc' = [pc EXCEPT ![cpu] = "abort"]
  <2>1. /\ \A p \in Proc : Registered(p)' => Registered(p)
        /\ \A p \in Proc : pc'[p] = "unborn" => pc[p] = "unborn"
        /\ pc'[cpu'] = "abort"
        BY <1>2, <1>3, <1>4 DEF Registered
  <2>2. TableTypeOK' /\ FreedIsOrdered' /\ TrimIsExact' /\ UnbornHasNoPid'
        BY <1>2, <1>3, <1>4, <2>1
        DEF TableInv, tableVars, TableTypeOK, FreedIsOrdered, TrimIsExact, UnbornHasNoPid
  <2>3. \A x : InTable(x)' <=> InTable(x)
        BY <1>4 DEF tableVars, InTable
  <2>4. TableIsExact' /\ EntriesAreKept' /\ PidsAreKept'
        BY <1>2, <1>4, <2>1, <2>3 DEF TableInv, tableVars, TableIsExact, EntriesAreKept, PidsAreKept
  <2>5. EntryThenPid'
        BY <2>1 DEF EntryThenPid
  <2> QED BY <2>2, <2>4, <2>5 DEF TableInv
<1>5. CASE /\ AddThread(t) /\ pid' = [pid EXCEPT ![t] = i]
           /\ pc' = [pc EXCEPT ![t] = "forked", ![cpu] = IF joinable[t] THEN "join" ELSE "user"]
  <2>1. \/ i = -1 /\ freed = <<>> /\ current = SIZE /\ UNCHANGED tableVars
        \/ /\ i \in 0 .. SIZE - 1 /\ ~InTable(i)
           /\ data' = [data EXCEPT ![i] = t] /\ live' = [live EXCEPT ![i] = t]
           /\ UNCHANGED <<trimming, j, mispopped>> /\ ~trimming
           /\ freed' \in Seq(Nat) /\ Sorted(freed') /\ current' \in 0 .. SIZE
           /\ \A x : Threads!Has(freed', x) <=> Threads!Has(freed, x) /\ x # i
           /\ \A x : Threads!Has(freed', x) => x \in Nat /\ x < current'
           /\ \A x \in Nat : InTable(x)' <=> InTable(x) \/ x = i
           /\ \/ freed = <<>> /\ i = current /\ current' = current + 1 /\ freed' = <<>>
              \/ Threads!Has(freed, i) /\ current' = current
        BY <1>5, AddIs DEF TableInv
  <2>2. /\ \A p \in Proc : Registered(p)' => Registered(p)
        /\ \A p \in Proc : pc'[p] = "unborn" => pc[p] = "unborn" /\ p # t
        /\ pc'[cpu'] # "abort"
        BY <1>2, <1>3, <1>5 DEF Registered
  <2>3. pid'[t] = i /\ \A p \in Proc : p # t => pid'[p] = pid[p]
        BY <1>3, <1>5
  <2>4. CASE i = -1 /\ freed = <<>> /\ current = SIZE /\ UNCHANGED tableVars
    <3>1. pid' = pid
          BY <1>3, <1>5, <2>4
    <3>2. TableTypeOK' /\ FreedIsOrdered' /\ TrimIsExact' /\ UnbornHasNoPid'
          BY <1>2, <1>3, <2>2, <2>4, <3>1
          DEF TableInv, tableVars, TableTypeOK, FreedIsOrdered, TrimIsExact, UnbornHasNoPid
    <3>3. \A x : InTable(x)' <=> InTable(x)
          BY <2>4 DEF tableVars, InTable
    <3>4. TableIsExact' /\ EntriesAreKept' /\ PidsAreKept'
          BY <1>2, <2>2, <2>4, <3>1, <3>3
          DEF TableInv, tableVars, TableIsExact, EntriesAreKept, PidsAreKept
    <3>5. EntryThenPid'
          BY <1>2, <1>3, <2>2, <2>4, <3>1 DEF TableInv, tableVars, EntryThenPid
    <3> QED BY <3>2, <3>4, <3>5 DEF TableInv
  <2>5. CASE ~(i = -1 /\ freed = <<>> /\ current = SIZE /\ UNCHANGED tableVars)
    <3>1. TableTypeOK' /\ FreedIsOrdered' /\ TrimIsExact'
      <4>1. data' \in [0 .. SIZE - 1 -> SomeProc] /\ live' \in [0 .. SIZE - 1 -> SomeProc]
            BY <1>3, <2>1, <2>5 DEF SomeProc
      <4>2. spaceId' \in [Proc -> Int] /\ pid' \in [Proc -> Int]
            BY <1>2, <1>3, <1>5, <2>1, <2>5
      <4> QED BY <1>3, <2>1, <2>5, <4>1, <4>2
              DEF TableInv, TableTypeOK, FreedIsOrdered, TrimIsExact
    <3>2. \A x \in 0 .. SIZE - 1 : x \in Nat /\ (x # i => data'[x] = data[x] /\ live'[x] = live[x])
          BY <1>3, <2>1, <2>5
    <3>3. data'[i] = t /\ live'[i] = t /\ i \in Nat /\ i # -1
          BY <1>3, <2>1, <2>5
    <3>4. TableIsExact'
          BY <2>1, <2>5, <3>2, <3>3 DEF TableInv, TableIsExact
    <3>5. \A x \in Nat : InTable(x) => x # i /\ x \in 0 .. SIZE - 1 /\ data'[x] = data[x] /\ InTable(x)'
          BY <1>3, <2>1, <2>5, <3>2 DEF InTable
    <3>6. EntriesAreKept' /\ UnbornHasNoPid'
          BY <1>2, <2>2, <2>3, <3>5 DEF TableInv, EntriesAreKept, UnbornHasNoPid
    <3>7. spaceId[t] # i
          BY <1>2, <3>3, <3>5 DEF TableInv, EntriesAreKept, Registered
    <3>8. PidsAreKept'
          BY <1>2, <2>1, <2>3, <2>5, <3>3, <3>5, <3>7 DEF TableInv, PidsAreKept
    <3>9. EntryThenPid'
      <4> SUFFICES ASSUME NEW k \in Nat, k >= 1, k + 1 < SIZE,
                          Threads!Has(freed', k) \/ \E p \in Proc : Registered(p)' /\ spaceId'[p] = k
                   PROVE  \E q \in Proc : pid'[q] = k + 1
          BY DEF EntryThenPid
      <4>1. Threads!Has(freed, k) \/ \E p \in Proc : Registered(p) /\ spaceId[p] = k
            BY <1>2, <2>1, <2>2, <2>5
      <4>2. \/ \E q \in Proc : pid[q] = k + 1
            \/ current = k + 1 /\ freed = <<>>
            BY <1>2, <4>1 DEF TableInv, EntryThenPid
      <4>3. CASE \E q \in Proc : pid[q] = k + 1
            BY <1>3, <2>3, <4>3
      <4>4. CASE current = k + 1 /\ freed = <<>>
        <5>1. \A x : ~Threads!Has(freed, x)
              BY <4>4 DEF Threads!Has
        <5> QED BY <2>1, <2>3, <2>5, <4>4, <5>1
      <4> QED BY <4>2, <4>3, <4>4
    <3> QED BY <3>1, <3>4, <3>6, <3>8, <3>9 DEF TableInv
  <2> QED BY <2>4, <2>5
<1> QED BY <1>1, <1>4, <1>5 DEF ExecFork, Goto

LEMMA RemoveTable ==
    ASSUME TableInv, ControlInv, Remove
    PROVE  TableInv'
<1>1. /\ pc[cpu] = "remove" /\ cpu \in Proc /\ pc \in [Proc -> Label]
      /\ UNCHANGED <<cpu, peer, spaceId, pid>> /\ ~trimming
      BY DEF Remove, At, cpuVars, idVars, ControlInv, ControlTypeOK, TableInv, TrimIsExact
<1>2. CASE UNCHANGED tableVars /\ pc' = [pc EXCEPT ![cpu] = "abort"]
  <2>1. /\ \A p \in Proc : Registered(p)' => Registered(p)
        /\ \A p \in Proc : pc'[p] = "unborn" => pc[p] = "unborn"
        BY <1>1, <1>2 DEF Registered
  <2> QED BY <1>1, <1>2, <2>1, TableStays
<1>3. CASE spaceId[cpu] # -1 /\ Threads!Remove(spaceId[cpu]) /\ pc' = [pc EXCEPT ![cpu] = "trim"]
  <2>1. PICK k : k = spaceId[cpu]
        OBVIOUS
  <2>2. /\ k \in Nat /\ InTable(k) /\ data[k] = cpu /\ k < current /\ ~Threads!Has(freed, k)
        BY <1>1, <1>3, <2>1 DEF TableInv, EntriesAreKept, Registered, InTable
  <2>3. /\ current \in Nat /\ SIZE \in Nat /\ current <= SIZE /\ freed \in Seq(Nat) /\ j \in Int
        /\ spaceId \in [Proc -> Int] /\ pid \in [Proc -> Int]
        /\ data \in [0 .. SIZE - 1 -> SomeProc] /\ live \in [0 .. SIZE - 1 -> SomeProc]
        /\ Sorted(freed) /\ \A x : Threads!Has(freed, x) => x \in Nat /\ x < current
        BY ProcessAssumption DEF ProcessAssumption, TableInv, TableTypeOK, FreedIsOrdered
  <2>4. /\ live' = [live EXCEPT ![k] = NoProc] /\ UNCHANGED <<data, mispopped>>
        /\ IF k = current - 1
           THEN current' = current - 1 /\ trimming' = TRUE /\ j' = current - 2 /\ UNCHANGED freed
           ELSE freed' = Threads!SortedInsert(freed, k) /\ UNCHANGED <<current, trimming, j>>
        BY <1>3, <2>1, <2>2 DEF Threads!Remove, Threads!HasKey
  <2>5. /\ \A p \in Proc : Registered(p)' => Registered(p) /\ p # cpu
        /\ \A p \in Proc : pc'[p] = "unborn" => pc[p] = "unborn"
        /\ pc'[cpu'] = "trim"
        BY <1>1, <1>3 DEF Registered
  <2>6. \A q \in Proc : pid[q] # k
        BY <2>1, <2>2, <1>1 DEF TableInv, PidsAreKept
  <2>7. \A p \in Proc : Registered(p)' => spaceId[p] # k
        BY <1>1, <2>1, <2>2, <2>5 DEF TableInv, EntriesAreKept
  <2>8. /\ freed' \in Seq(Nat) /\ Sorted(freed') /\ current' \in 0 .. SIZE
        /\ \A x : Threads!Has(freed', x) => x \in Nat /\ x < current'
        /\ \A x : Threads!Has(freed', x) => Threads!Has(freed, x) \/ x = k
        /\ \A x \in Nat : InTable(x)' <=> InTable(x) /\ x # k
    <3>1. CASE k = current - 1
      <4>1. current' = current - 1 /\ freed' = freed
            BY <2>4, <3>1
      <4>2. \A x : Threads!Has(freed', x) <=> Threads!Has(freed, x) /\ x # k
            BY <2>2, <4>1
      <4> QED BY <2>2, <2>3, <3>1, <4>1, <4>2 DEF InTable
    <3>2. CASE k # current - 1
      <4>1. current' = current /\ freed' = Threads!SortedInsert(freed, k)
            BY <2>4, <3>2
      <4>2. /\ freed' \in Seq(Nat) /\ Sorted(freed')
            /\ \A x : Threads!Has(freed', x) <=> Threads!Has(freed, x) \/ x = k
            BY <2>2, <2>3, <4>1, SortedInsertIs
      <4> QED BY <2>2, <2>3, <4>1, <4>2 DEF InTable
    <3> QED BY <3>1, <3>2
  <2>9. TableTypeOK'
    <3>1. trimming' \in BOOLEAN
      <4>1. CASE k = current - 1
            BY <2>4, <4>1, Zenon
      <4>2. CASE k # current - 1
            BY <2>4, <4>2 DEF TableInv, TableTypeOK
      <4> QED BY <4>1, <4>2
    <3>2. j' \in Int
          BY <2>3, <2>4
    <3>3. live' \in [0 .. SIZE - 1 -> SomeProc] /\ data' \in [0 .. SIZE - 1 -> SomeProc]
          BY <2>3, <2>4 DEF SomeProc
    <3> QED BY <1>1, <2>3, <2>8, <3>1, <3>2, <3>3 DEF TableTypeOK
  <2>10. FreedIsOrdered'
        BY <2>8 DEF FreedIsOrdered
  <2>11. TableIsExact'
    <3>1. mispopped' = FALSE
          BY <2>4 DEF TableInv, TableIsExact
    <3>2. ASSUME NEW i \in 0 .. SIZE - 1
          PROVE  IF InTable(i)' THEN live'[i] = data'[i] ELSE live'[i] = NoProc
      <4>1. i \in Nat /\ (InTable(i)' <=> InTable(i) /\ i # k)
            BY <2>3, <2>8
      <4>2. live'[i] = IF i = k THEN NoProc ELSE live[i]
            BY <2>3, <2>4
      <4> QED BY <2>4, <4>1, <4>2 DEF TableInv, TableIsExact
    <3> QED BY <3>1, <3>2 DEF TableIsExact
  <2>12. EntriesAreKept'
        BY <1>1, <2>4, <2>5, <2>7, <2>8 DEF TableInv, EntriesAreKept
  <2>13. PidsAreKept' /\ UnbornHasNoPid'
        BY <1>1, <2>4, <2>5, <2>6, <2>8 DEF TableInv, PidsAreKept, UnbornHasNoPid
  <2>14. \A i \in Nat :
            /\ i >= 1 /\ i + 1 < SIZE
            /\ Threads!Has(freed, i) \/ \E p \in Proc : Registered(p) /\ spaceId[p] = i
            => \E q \in Proc : pid[q] = i + 1
        BY <1>1 DEF TableInv, EntryThenPid
  <2>15. EntryThenPid'
    <3> SUFFICES ASSUME NEW i \in Nat, i >= 1, i + 1 < SIZE,
                        Threads!Has(freed', i) \/ \E p \in Proc : Registered(p)' /\ spaceId'[p] = i
                 PROVE  \E q \in Proc : pid'[q] = i + 1
        BY DEF EntryThenPid
    <3>1. Registered(cpu)
          BY <1>1, <1>3 DEF Registered
    <3>2. Threads!Has(freed, i) \/ \E p \in Proc : Registered(p) /\ spaceId[p] = i
          BY <1>1, <2>1, <2>5, <2>8, <3>1
    <3> QED BY <1>1, <2>14, <3>2
  <2>16. TrimIsExact'
    <3>1. CASE k = current - 1
      <4>1. current' = current - 1 /\ j' = current - 2 /\ freed' = freed
            BY <2>4, <3>1
      <4>2. j' = current' - 1
            BY <2>3, <4>1
      <4>3. ASSUME Threads!Has(freed, current - 2), current - 1 # 1 PROVE FALSE
        <5>1. current - 2 \in Nat /\ current - 2 >= 1 /\ (current - 2) + 1 < SIZE /\ (current - 2) + 1 = k
              BY <2>3, <3>1, <4>3
        <5>2. \E q \in Proc : pid[q] = (current - 2) + 1
              BY <2>14, <4>3, <5>1
        <5> QED BY <2>6, <5>1, <5>2
      <4>4. current' - 1 = current - 2
            BY <2>3, <4>1
      <4>5. Threads!Has(freed', current' - 1) => current' = 1
            BY <4>1, <4>3, <4>4
      <4> QED BY <2>5, <4>2, <4>5 DEF TrimIsExact
    <3>2. CASE k # current - 1
      <4>1. ~trimming'
            BY <1>1, <2>4, <3>2
      <4> QED BY <4>1 DEF TrimIsExact
    <3> QED BY <3>1, <3>2
  <2> QED BY <2>9, <2>10, <2>11, <2>12, <2>13, <2>15, <2>16 DEF TableInv
<1> QED BY <1>2, <1>3 DEF Remove, Goto

LEMMA TrimTable ==
    ASSUME TableInv, ControlInv, Trim
    PROVE  TableInv'
<1>1. /\ pc[cpu] = "trim" /\ trimming /\ UNCHANGED <<cpu, peer, spaceId, pid, pc, data, live>>
      /\ j = current - 1 /\ (Threads!Has(freed, current - 1) => current = 1)
      BY DEF Trim, At, cpuVars, idVars, Threads!Trim, TableInv, TrimIsExact
<1>2. /\ current \in Nat /\ SIZE \in Nat /\ current <= SIZE /\ freed \in Seq(Nat) /\ j \in Int
      /\ Sorted(freed) /\ \A x : Threads!Has(freed, x) => x \in Nat /\ x < current
      BY ProcessAssumption DEF ProcessAssumption, TableInv, TableTypeOK, FreedIsOrdered
<1>3. \A p \in Proc : Registered(p)' <=> Registered(p)
      BY <1>1 DEF Registered
<1>4. CASE Threads!LoopGoesOn
  <2>1. Threads!Has(freed, j) /\ j = 0 /\ current = 1
        BY <1>1, <1>2, <1>4 DEF Threads!LoopGoesOn, Threads!HasKey
  <2>2. freed # <<>>
        BY <2>1 DEF Threads!Has
  <2>3. /\ Head(freed) \in Nat /\ Head(freed) <= 0 /\ Tail(freed) \in Seq(Nat) /\ Sorted(Tail(freed))
        /\ \A x : Threads!Has(Tail(freed), x) <=> Threads!Has(freed, x) /\ x # Head(freed)
        BY <1>2, <2>1, <2>2, PopIs
  <2>4. Head(freed) = 0
        BY <2>3
  <2>5. /\ freed' = Tail(freed) /\ current' = 0 /\ j' = -1 /\ UNCHANGED trimming
        /\ mispopped' = (mispopped \/ Head(freed) # j)
        BY <1>4, <2>1, <2>4 DEF Trim, Threads!Trim
  <2>6. \A x : ~Threads!Has(freed', x)
        BY <1>2, <2>1, <2>3, <2>4, <2>5
  <2>7. \A x \in Nat : ~InTable(x) /\ ~InTable(x)'
        BY <1>2, <2>1, <2>5 DEF InTable
  <2>8. TableTypeOK'
        BY <1>1, <1>2, <2>3, <2>5 DEF TableInv, TableTypeOK
  <2>9. FreedIsOrdered' /\ TrimIsExact'
        BY <1>1, <2>3, <2>5, <2>6 DEF FreedIsOrdered, TrimIsExact
  <2>10. TableIsExact'
    <3>1. mispopped' = FALSE
          BY <2>1, <2>4, <2>5 DEF TableInv, TableIsExact
    <3>2. \A i \in 0 .. SIZE - 1 : i \in Nat
          BY <1>2
    <3> QED BY <1>1, <2>7, <3>1, <3>2 DEF TableInv, TableIsExact
  <2>11. EntriesAreKept' /\ PidsAreKept' /\ UnbornHasNoPid'
        BY <1>1, <1>3, <2>7 DEF TableInv, EntriesAreKept, PidsAreKept, UnbornHasNoPid
  <2>12. EntryThenPid'
        BY <1>1, <1>3, <2>6 DEF TableInv, EntryThenPid
  <2> QED BY <2>8, <2>9, <2>10, <2>11, <2>12 DEF TableInv
<1>5. CASE ~Threads!LoopGoesOn
  <2>1. j' = -1 /\ trimming' = FALSE /\ UNCHANGED <<current, freed, mispopped>>
        BY <1>5 DEF Trim, Threads!Trim
  <2>2. \A x : InTable(x)' <=> InTable(x)
        BY <2>1 DEF InTable
  <2>3. trimming' \in BOOLEAN /\ ~trimming'
        BY <2>1, Zenon
  <2>4. TableTypeOK' /\ FreedIsOrdered' /\ TrimIsExact'
        BY <1>1, <2>1, <2>3 DEF TableInv, TableTypeOK, FreedIsOrdered, TrimIsExact
  <2>5. TableIsExact' /\ EntriesAreKept' /\ PidsAreKept' /\ UnbornHasNoPid'
        BY <1>1, <1>3, <2>1, <2>2
        DEF TableInv, TableIsExact, EntriesAreKept, PidsAreKept, UnbornHasNoPid
  <2>6. EntryThenPid'
        BY <1>1, <1>3, <2>1 DEF TableInv, EntryThenPid
  <2> QED BY <2>4, <2>5, <2>6 DEF TableInv
<1> QED BY <1>4, <1>5

LEMMA TableNextInv == TableInv /\ ControlInv /\ [Next]_vars => TableInv'
<1> SUFFICES ASSUME TableInv, ControlInv, [Next]_vars PROVE TableInv'
    OBVIOUS
<1>0. /\ pc \in [Proc -> Label] /\ cpu \in Proc /\ (trimming => pc[cpu] = "trim")
      BY DEF ControlInv, ControlTypeOK, TableInv, TrimIsExact
<1>1. CASE UNCHANGED vars
  <2>1. UNCHANGED <<current, freed, data, trimming, j, live, mispopped, cpu, pc, spaceId, pid, peer>>
        BY <1>1 DEF vars, tableVars, cpuVars, idVars
  <2>2. (\A x : InTable(x)' <=> InTable(x)) /\ (\A p : Registered(p)' <=> Registered(p))
        BY <2>1 DEF InTable, Registered
  <2>3. TableTypeOK' /\ FreedIsOrdered' /\ TrimIsExact' /\ UnbornHasNoPid'
        BY <2>1 DEF TableInv, TableTypeOK, FreedIsOrdered, TrimIsExact, UnbornHasNoPid
  <2>4. TableIsExact' /\ EntriesAreKept' /\ PidsAreKept' /\ EntryThenPid'
        BY <2>1, <2>2 DEF TableInv, TableIsExact, EntriesAreKept, PidsAreKept, EntryThenPid
  <2> QED BY <2>3, <2>4 DEF TableInv
<1>2. CASE Exit
  <2>1. UNCHANGED <<tableVars, spaceId, pid>> /\ pc[cpu] = "user" /\ ~trimming
        BY <1>0, <1>2 DEF Exit, At, idVars
  <2>2. /\ \A p \in Proc : Registered(p)' => Registered(p)
        /\ \A p \in Proc : pc'[p] = "unborn" => pc[p] = "unborn"
        BY <1>0, <1>2, <2>1 DEF Exit, Goto, Registered
  <2> QED BY <2>1, <2>2, TableStays
<1>3. CASE FinishSleep
  <2>1. UNCHANGED <<tableVars, spaceId, pid>> /\ pc[cpu] = "trim" /\ ~trimming
        BY <1>0, <1>3 DEF FinishSleep, At, idVars
  <2>2. /\ \A p \in Proc : Registered(p)' => Registered(p)
        /\ \A p \in Proc : pc'[p] = "unborn" => pc[p] = "unborn"
        BY <1>0, <1>3, <2>1 DEF FinishSleep, Goto, Registered
  <2> QED BY <2>1, <2>2, TableStays
<1>4. CASE Boot
  <2>1. UNCHANGED <<tableVars, spaceId, pid>> /\ pc[cpu] = "boot" /\ ~trimming
        BY <1>0, <1>4 DEF Boot, At, idVars
  <2>2. /\ \A p \in Proc : Registered(p)' => Registered(p)
        /\ \A p \in Proc : pc'[p] = "unborn" => pc[p] = "unborn"
        BY <1>0, <1>4, <2>1 DEF Boot, Goto, Registered
  <2> QED BY <2>1, <2>2, TableStays
<1>5. ASSUME NEW i \in 0 .. SIZE - 1, Join(i) PROVE TableInv'
  <2>1. UNCHANGED <<tableVars, spaceId, pid>> /\ pc[cpu] = "user" /\ ~trimming
        BY <1>0, <1>5 DEF Join, At, idVars
  <2>2. /\ \A p \in Proc : Registered(p)' => Registered(p)
        /\ \A p \in Proc : pc'[p] = "unborn" => pc[p] = "unborn"
        BY <1>0, <1>5, <2>1 DEF Join, Goto, Registered
  <2> QED BY <2>1, <2>2, TableStays
<1>6. ASSUME NEW t \in Proc, NEW r \in Proc, Meet(t, r) PROVE TableInv'
  <2>1. UNCHANGED <<tableVars, spaceId, pid>> /\ pc[cpu] \in {"send", "join"} /\ ~trimming
        BY <1>0, <1>6 DEF Meet, CanMeet, idVars
  <2>2. /\ \A p \in Proc : Registered(p)' => Registered(p)
        /\ \A p \in Proc : pc'[p] = "unborn" => pc[p] = "unborn"
        BY <1>0, <1>6, <2>1 DEF Meet, CanMeet, Registered
  <2> QED BY <2>1, <2>2, TableStays
<1>7. ASSUME NEW t \in Proc, Switch(t) PROVE TableInv'
  <2>1. /\ UNCHANGED <<tableVars, spaceId, pid>> /\ ~trimming
        /\ pc[cpu] \in {"user", "boot", "join", "send", "dead"}
        BY <1>0, <1>7 DEF Switch, CanLeave, idVars
  <2>2. /\ \A p \in Proc : Registered(p)' => Registered(p)
        /\ \A p \in Proc : pc'[p] = "unborn" => pc[p] = "unborn"
        BY <1>0, <1>7, <2>1 DEF Switch, Registered
  <2> QED BY <2>1, <2>2, TableStays
<1> QED BY <1>1, <1>2, <1>3, <1>4, <1>5, <1>6, <1>7, ExecTable, ExecForkTable, RemoveTable, TrimTable
        DEF Next

LEMMA TableHolds == Spec => []TableInv
BY TableInitInv, TableNextInv, ControlHolds, PTL DEF Spec

(* The table of threads stays sound for any capacity and any sequence of   *)
(* Execs and Exits, and more: the loop of Remove never takes a wrong entry *)
(* off freed, as it can for other users of Table, because Exec always      *)
(* takes two entries and nobody frees the second (table.hh:119-140,        *)
(* exception.cc:138).                                                      *)
THEOREM ThreadTableStaysSound == Spec => [](TableStaysSound /\ mispopped = FALSE)
<1>1. ASSUME TableInv PROVE TableStaysSound /\ mispopped = FALSE
  <2>1. freed \in Seq(Nat) /\ Sorted(freed) /\ current \in Nat
        BY <1>1, ProcessAssumption DEF TableInv, FreedIsOrdered, TableTypeOK, ProcessAssumption
  <2>2. Threads!FreedIsSorted
        BY <2>1 DEF Sorted, Threads!FreedIsSorted
  <2>3. Threads!LoopAssertHolds
        BY <1>1, <2>1
        DEF TableInv, TrimIsExact, Threads!LoopAssertHolds, Threads!LoopGoesOn, Threads!HasKey
  <2>4. mispopped = FALSE /\ Threads!ExactUntilMispop
        BY <1>1 DEF TableInv, TableIsExact, InTable, Threads!ExactUntilMispop, Threads!Get,
                    Threads!HasKey, Threads!Index
  <2> QED BY <2>2, <2>3, <2>4 DEF TableStaysSound
<1> QED BY <1>1, TableHolds, PTL

(* What Exec returned names its process for ever, for any capacity of the  *)
(* table and whatever was freed and reused since (exception.cc:138,        *)
(* thread.cc:55, 200).                                                     *)
THEOREM PidsNameTheirProcess == Spec => []PidNamesItsProcess
<1>1. TableInv => PidNamesItsProcess
      BY DEF TableInv, PidsAreKept, InTable, PidNamesItsProcess, Threads!HasKey
<1> QED BY <1>1, TableHolds, PTL

=============================================================================
