----------------------------- MODULE LockProofs -----------------------------
(***************************************************************************)
(* Mutual exclusion of Lock for every set of threads and locks, every      *)
(* priority assignment, and with or without -p: the donation code, however *)
(* it is preempted, cannot break it.                                       *)
(*                                                                         *)
(* The argument is about the semaphore's value and two pieces of the       *)
(* lock's own state, and leans on the scheduler for types only.            *)
(***************************************************************************)
EXTENDS Lock, SemaphoreProofs

(* The labels of a thread that has taken the lock it is working on. *)
HoldingLabel == {"own", "restore", "reset", "clear", "V"}

(* The semaphore's unit is either free or with the one thread inside. *)
UnitOrHolder ==
    \A l \in Sem : \/ value[l] = 1 /\ inside[l] = {}
                   \/ value[l] = 0 /\ \E t \in Thread : inside[l] = {t}

(* A thread past P and before V is inside the lock it works on. *)
HolderIsInside ==
    \A t \in Thread : pc[t] \in HoldingLabel => t \in inside[lock[t]]

(* lockerThread names the thread inside, except between P and line 51 and  *)
(* between line 79 and V.                                                  *)
LockerIsInside ==
    \A l \in Sem, t \in Thread :
        lockerThread[l] = t <=>
            t \in inside[l] /\ ~(pc[t] \in {"own", "V"} /\ lock[t] = l)

LockInv == LockTypeOK /\ UnitOrHolder /\ HolderIsInside /\ LockerIsInside

-----------------------------------------------------------------------------
(* Types. *)

LEMMA LockInitInv == LockInit => LockInv
<1> SUFFICES ASSUME LockInit PROVE LockInv
    OBVIOUS
<1>1. (CHOOSE l \in Sem : TRUE) \in Sem
      BY LockAssumption DEF LockAssumption
<1>2. LockTypeOK
  <2>1. SemTypeOK
        BY SemInitType DEF LockInit
  <2> QED BY <1>1, <2>1 DEF LockInit, LockTypeOK, Label
<1>3. UnitOrHolder
      BY LockAssumption DEF LockAssumption, LockInit, SemInit, UnitOrHolder
<1>4. HolderIsInside
      BY DEF LockInit, HolderIsInside, HoldingLabel
<1>5. LockerIsInside
      BY SchedulerAssumption DEF SchedulerAssumption, LockInit, LockerIsInside
<1> QED BY <1>2, <1>3, <1>4, <1>5 DEF LockInv

(* setPriorityTemp on a thread keeps the types. *)
LEMMA SetPriorityTempType ==
    ASSUME LockTypeOK, NEW t \in Thread, NEW p \in Int, setPriorityTemp(t, p)
    PROVE  priority' \in [Thread -> Int] /\ priorityTemp' \in [Thread -> Int]
BY DEF LockTypeOK, SemTypeOK, TypeOK, setPriorityTemp

(* Goto keeps pc's type. *)
LEMMA GotoType ==
    ASSUME LockTypeOK, NEW to \in Label \cup {"fault"}, Goto(to)
    PROVE  pc' \in [Thread -> Label \cup {"fault"}]
BY DEF LockTypeOK, SemTypeOK, TypeOK, Goto

LEMMA StepType ==
    ASSUME LockTypeOK, Step
    PROVE  LockTypeOK'
<1> DEFINE c == currentThread
<1>1. /\ SemTypeOK /\ TypeOK /\ c \in Thread /\ TheLock \in Sem
      /\ Holder \in Thread \cup {NoThread}
      /\ priority \in [Thread -> Int]
      /\ readyLists \in [Priority -> Seq(Thread)]
      BY DEF LockTypeOK, SemTypeOK, TypeOK, TheLock, Holder
<1>2. Label \cup {"fault"} = {"program", "compare", "raise", "isReady", "remove",
          "add", "P", "own", "restore", "reset", "clear", "V", "fault"}
      BY DEF Label
<1>3. CASE Compare
  <2>1. pc' \in [Thread -> Label \cup {"fault"}]
        BY <1>2, <1>3, GotoType DEF Compare
  <2>2. /\ priorityLockerThread' \in [Thread -> Int]
        /\ priorityCurrentThread' \in [Thread -> Int]
    <3>1. CASE Holder = NoThread
          BY <1>3, <3>1 DEF Compare, LockTypeOK
    <3>2. CASE Holder # NoThread
      <4>1. priority[Holder] \in Int /\ priority[c] \in Int
            BY <1>1, <3>2
      <4> QED BY <1>1, <1>3, <3>2, <4>1 DEF Compare, LockTypeOK
    <3> QED BY <3>1, <3>2
  <2> QED BY <1>3, <2>1, <2>2 DEF Compare, LockTypeOK, SemTypeOK, TypeOK, semVars, vars
<1>4. CASE Raise
  <2>1. pc' \in [Thread -> Label \cup {"fault"}]
        BY <1>2, <1>4, GotoType DEF Raise
  <2>2. priority' \in [Thread -> Int] /\ priorityTemp' \in [Thread -> Int]
    <3>1. CASE Holder = NoThread
          BY <1>4, <3>1 DEF Raise, LockTypeOK, SemTypeOK, TypeOK
    <3>2. CASE Holder # NoThread
      <4>1. Holder \in Thread /\ priorityCurrentThread[c] \in Int
            BY <1>1, <3>2 DEF LockTypeOK
      <4> QED BY <1>4, <3>2, <4>1, SetPriorityTempType DEF Raise
    <3> QED BY <3>1, <3>2
  <2> QED BY <1>4, <2>1, <2>2 DEF Raise, LockTypeOK, SemTypeOK, TypeOK
<1>5. CASE TestReady
  <2>1. pc' \in [Thread -> Label \cup {"fault"}]
        BY <1>2, <1>5, GotoType DEF TestReady
  <2> QED BY <1>5, <2>1 DEF TestReady, LockTypeOK, SemTypeOK, TypeOK, semVars, vars, donation
<1>6. ASSUME NEW rl \in [Priority -> Seq(Thread)], NEW to \in Label \cup {"fault"},
             Requeue(rl, to)
      PROVE  LockTypeOK'
  <2>1. pc' \in [Thread -> Label \cup {"fault"}]
        BY <1>6, GotoType DEF Requeue
  <2> QED BY <1>6, <2>1 DEF Requeue, LockTypeOK, SemTypeOK, TypeOK, donation
<1>7. CASE Remove
  <2> DEFINE q == priorityLockerThread[c]
  <2>1. removeFromPriorityList(readyLists, Holder, q) \in [Priority -> Seq(Thread)]
    <3>1. CASE Holder \in Thread
          BY <1>1, <3>1, RemoveType
    <3>2. CASE Holder = NoThread
      <4>1. ~isReady(readyLists, Holder, q)
        <5>1. SUFFICES ASSUME q \in Priority, NEW i \in 1 .. Len(readyLists[q])
                       PROVE  readyLists[q][i] # NoThread
              BY <3>2 DEF isReady
        <5>2. readyLists[q] \in Seq(Thread)
              BY <1>1, <5>1
        <5>3. readyLists[q][i] \in Thread
              BY <5>1, <5>2, ElementOfSeq
        <5> QED BY <5>3, SchedulerAssumption DEF SchedulerAssumption
      <4> QED BY <1>1, <4>1 DEF removeFromPriorityList
    <3> QED BY <1>1, <3>1, <3>2
  <2> QED BY <1>2, <1>6, <1>7, <2>1 DEF Remove
<1>8. CASE Add
  <2>1. CASE Holder = NoThread
        BY <1>1, <1>2, <1>6, <1>8, <2>1 DEF Add
  <2>2. CASE Holder # NoThread
    <3>1. addToPriorityList(readyLists, Holder, priorityCurrentThread[c])
            \in [Priority -> Seq(Thread)]
          BY <1>1, <2>2, AddType
    <3> QED BY <1>2, <1>6, <1>8, <2>2, <3>1 DEF Add
  <2> QED BY <2>1, <2>2
<1>9. CASE AcquireP
  <2>1. SemTypeOK'
        BY <1>1, <1>9, PType DEF AcquireP
  <2>2. pc' \in [Thread -> Label \cup {"fault"}]
        BY <1>2, <1>9, GotoType DEF AcquireP, LockTypeOK
  <2>3. inside' \in [Sem -> SUBSET Thread]
    <3>1. CASE value[TheLock] = 0
          BY <1>9, <3>1 DEF AcquireP, LockTypeOK
    <3>2. CASE value[TheLock] # 0
      <4>1. inside' = [inside EXCEPT ![TheLock] = @ \cup {c}]
            BY <1>9, <3>2 DEF AcquireP
      <4>2. inside[TheLock] \cup {c} \in SUBSET Thread
            BY <1>1 DEF LockTypeOK
      <4> QED BY <4>1, <4>2 DEF LockTypeOK
    <3> QED BY <3>1, <3>2
  <2>4. /\ priorityLockerThread' \in [Thread -> Int]
        /\ priorityCurrentThread' \in [Thread -> Int]
        /\ priorityTemp' \in [Thread -> Int]
    <3>1. CASE value[TheLock] = 0
          BY <1>9, <3>1 DEF AcquireP, LockTypeOK, donation
    <3>2. CASE value[TheLock] # 0
          BY <1>1, <1>9, <3>2 DEF AcquireP, LockTypeOK
    <3> QED BY <3>1, <3>2
  <2> QED BY <1>9, <2>1, <2>2, <2>3, <2>4 DEF AcquireP, LockTypeOK
<1>10. ASSUME NEW from, NEW t \in Thread \cup {NoThread}, NEW to \in Label,
              SetLockerThread(from, t, to)
       PROVE  LockTypeOK'
  <2>1. pc' \in [Thread -> Label \cup {"fault"}]
        BY <1>10, GotoType DEF SetLockerThread
  <2> QED BY <1>10, <2>1
          DEF SetLockerThread, LockTypeOK, SemTypeOK, TypeOK, semVars, vars, donation
<1>11. CASE Own
       BY <1>1, <1>10, <1>11 DEF Own, Label
<1>12. CASE Restore
  <2>1. pc' \in [Thread -> Label \cup {"fault"}]
        BY <1>2, <1>12, GotoType DEF Restore
  <2>2. Clamped(priorityTemp[c]) \in Int
        BY <1>1, SchedulerAssumption DEF SchedulerAssumption, Clamped, LockTypeOK
  <2> QED BY <1>12, <2>1, <2>2 DEF Restore, LockTypeOK, SemTypeOK, TypeOK, donation
<1>13. CASE Reset
  <2>1. pc' \in [Thread -> Label \cup {"fault"}]
        BY <1>2, <1>13, GotoType DEF Reset
  <2>2. priority' \in [Thread -> Int] /\ priorityTemp' \in [Thread -> Int]
        BY <1>1, <1>13, SetPriorityTempType DEF Reset
  <2> QED BY <1>13, <2>1, <2>2 DEF Reset, LockTypeOK, SemTypeOK, TypeOK
<1>14. CASE Clear
       BY <1>1, <1>10, <1>14 DEF Clear, Label
<1>15. CASE ReleaseV
  <2>1. SemTypeOK'
        BY <1>1, <1>15, WakeOneType DEF ReleaseV
  <2>2. pc' \in [Thread -> Label \cup {"fault"}]
        BY <1>2, <1>15, GotoType DEF ReleaseV
  <2> QED BY <1>15, <2>1, <2>2 DEF ReleaseV, LockTypeOK, donation
<1> QED BY <1>3, <1>4, <1>5, <1>7, <1>8, <1>9, <1>11, <1>12, <1>13, <1>14, <1>15 DEF Step

LEMMA LockNextType ==
    ASSUME LockTypeOK, [LockNext]_lockVars
    PROVE  LockTypeOK'
<1>1. CASE Step
      BY <1>1, StepType
<1>2. CASE TimeSlice
  <2>1. SemTypeOK'
        BY <1>2, SwitchType DEF TimeSlice, Preempt, Next, LockTypeOK
  <2> QED BY <1>2, <2>1 DEF TimeSlice, LockTypeOK, donation
<1>3. ASSUME NEW t \in Thread, Spawn(t) PROVE LockTypeOK'
  <2>1. SemTypeOK'
        BY <1>3, SwitchType DEF Spawn, Start, Next, LockTypeOK
  <2> QED BY <1>3, <2>1 DEF Spawn, LockTypeOK, donation
<1>4. ASSUME NEW l \in Sem, Acquire(l) \/ Release(l) PROVE LockTypeOK'
  <2>1. PICK to \in Label : Goto(to)
        BY <1>4 DEF Acquire, Release, Label
  <2>2. pc' \in [Thread -> Label \cup {"fault"}]
        BY <2>1, GotoType
  <2> QED BY <1>4, <2>2
          DEF Acquire, Release, LockTypeOK, SemTypeOK, TypeOK, semVars, vars, donation
<1>5. CASE UNCHANGED lockVars
      BY <1>5 DEF lockVars, LockTypeOK, SemTypeOK, TypeOK, semVars, vars, donation
<1> QED BY <1>1, <1>2, <1>3, <1>4, <1>5 DEF LockNext

-----------------------------------------------------------------------------
(* The holder. *)

(* A step that changes only where the running thread is, and not into or   *)
(* out of "own" and "V", keeps the invariant.                              *)
LEMMA GotoKeeps ==
    ASSUME LockInv, LockTypeOK', UNCHANGED <<value, inside, lockerThread, lock>>,
           NEW to, Goto(to), to \notin {"own", "V"},
           pc[currentThread] \notin {"own", "V"},
           to \in HoldingLabel => currentThread \in inside[TheLock]
    PROVE  LockInv'
<1>1. currentThread \in Thread /\ pc \in [Thread -> Label \cup {"fault"}]
      BY DEF LockInv, LockTypeOK, SemTypeOK, TypeOK
<1>2. \A t \in Thread : pc'[t] = IF t = currentThread THEN to ELSE pc[t]
      BY <1>1 DEF Goto
<1>3. UnitOrHolder'
      BY DEF LockInv, UnitOrHolder
<1>4. HolderIsInside'
      BY <1>2 DEF LockInv, HolderIsInside, TheLock
<1>5. LockerIsInside'
      BY <1>2 DEF LockInv, LockerIsInside
<1> QED BY <1>3, <1>4, <1>5 DEF LockInv

(* A step of the scheduler alone keeps it. *)
LEMMA SwitchKeeps ==
    ASSUME LockInv, LockTypeOK', UNCHANGED <<value, inside, lockerThread, lock, pc>>
    PROVE  LockInv'
BY DEF LockInv, UnitOrHolder, HolderIsInside, LockerIsInside

LEMMA AcquirePKeeps ==
    ASSUME LockInv, LockTypeOK', AcquireP
    PROVE  LockInv'
<1> DEFINE c == currentThread
           k == TheLock
<1>1. /\ c \in Thread /\ k \in Sem /\ pc \in [Thread -> Label \cup {"fault"}]
      /\ inside \in [Sem -> SUBSET Thread] /\ value \in [Sem -> Nat] /\ pc[c] = "P"
      BY DEF LockInv, LockTypeOK, SemTypeOK, TypeOK, TheLock, AcquireP, At
<1>2. UNCHANGED <<lockerThread, lock>>
      BY DEF AcquireP
<1>3. CASE value[k] = 0
  <2>1. UNCHANGED <<value, inside, pc>>
        BY <1>3 DEF AcquireP, P, PBlocks, PTakes
  <2> QED BY <1>2, <2>1, SwitchKeeps
<1>4. CASE value[k] # 0
  <2>1. /\ value' = [value EXCEPT ![k] = @ - 1]
        /\ pc' = [pc EXCEPT ![c] = "own"]
        /\ inside' = [inside EXCEPT ![k] = @ \cup {c}]
        BY <1>4 DEF AcquireP, P, PBlocks, PTakes, Goto
  <2>2. value[k] = 1 /\ inside[k] = {}
        BY <1>1, <1>4 DEF LockInv, UnitOrHolder
  <2>3. value'[k] = 0 /\ inside'[k] = {c}
        BY <1>1, <2>1, <2>2
  <2>4. \A l \in Sem \ {k} : value'[l] = value[l] /\ inside'[l] = inside[l]
        BY <1>1, <2>1
  <2>5. \A t \in Thread : pc'[t] = IF t = c THEN "own" ELSE pc[t]
        BY <1>1, <2>1
  <2>6. UnitOrHolder'
        BY <1>1, <2>3, <2>4 DEF LockInv, UnitOrHolder
  <2>7. HolderIsInside'
    <3> SUFFICES ASSUME NEW t \in Thread, pc'[t] \in HoldingLabel
                 PROVE  t \in inside'[lock[t]]
        BY <1>2 DEF HolderIsInside
    <3>1. CASE t = c
          BY <2>3, <3>1 DEF TheLock
    <3>2. CASE t # c
      <4>1. t \in inside[lock[t]] /\ lock[t] \in Sem
            BY <2>5, <3>2 DEF LockInv, HolderIsInside, LockTypeOK
      <4> QED BY <2>2, <2>4, <4>1
    <3> QED BY <3>1, <3>2
  <2>8. LockerIsInside'
    <3> SUFFICES ASSUME NEW l \in Sem, NEW t \in Thread
                 PROVE  lockerThread[l] = t <=>
                          t \in inside'[l] /\ ~(pc'[t] \in {"own", "V"} /\ lock[t] = l)
        BY <1>2 DEF LockerIsInside
    <3>1. lockerThread[l] = t <=>
             t \in inside[l] /\ ~(pc[t] \in {"own", "V"} /\ lock[t] = l)
          BY DEF LockInv, LockerIsInside
    <3>2. CASE l = k
          BY <2>2, <2>3, <2>5, <3>1, <3>2 DEF TheLock
    <3>3. CASE l # k
          BY <1>1, <2>4, <2>5, <3>1, <3>3 DEF TheLock
    <3> QED BY <3>2, <3>3
  <2> QED BY <2>6, <2>7, <2>8 DEF LockInv
<1> QED BY <1>3, <1>4

LEMMA OwnKeeps ==
    ASSUME LockInv, LockTypeOK', Own
    PROVE  LockInv'
<1> DEFINE c == currentThread
           k == TheLock
<1>1. /\ c \in Thread /\ k \in Sem /\ pc \in [Thread -> Label \cup {"fault"}]
      /\ lockerThread \in [Sem -> Thread \cup {NoThread}] /\ pc[c] = "own"
      BY DEF LockInv, LockTypeOK, SemTypeOK, TypeOK, TheLock, Own, SetLockerThread, At
<1>2. /\ UNCHANGED <<value, inside, lock>>
      /\ lockerThread' = [lockerThread EXCEPT ![k] = c]
      /\ pc' = [pc EXCEPT ![c] = "program"]
      BY DEF Own, SetLockerThread, semVars, Goto
<1>3. inside[k] = {c}
  <2>1. c \in inside[k]
        BY <1>1 DEF LockInv, HolderIsInside, HoldingLabel, TheLock
  <2> QED BY <1>1, <2>1 DEF LockInv, UnitOrHolder
<1>4. \A t \in Thread : pc'[t] = IF t = c THEN "program" ELSE pc[t]
      BY <1>1, <1>2
<1>5. UnitOrHolder'
      BY <1>2 DEF LockInv, UnitOrHolder
<1>6. HolderIsInside'
      BY <1>2, <1>4 DEF LockInv, HolderIsInside, HoldingLabel
<1>7. LockerIsInside'
  <2> SUFFICES ASSUME NEW l \in Sem, NEW t \in Thread
               PROVE  lockerThread'[l] = t <=>
                        t \in inside[l] /\ ~(pc'[t] \in {"own", "V"} /\ lock[t] = l)
      BY <1>2 DEF LockerIsInside
  <2>1. lockerThread[l] = t <=>
           t \in inside[l] /\ ~(pc[t] \in {"own", "V"} /\ lock[t] = l)
        BY DEF LockInv, LockerIsInside
  <2>2. CASE l = k
        BY <1>1, <1>2, <1>3, <1>4, <2>2
  <2>3. CASE l # k
        BY <1>1, <1>2, <1>4, <2>1, <2>3 DEF TheLock
  <2> QED BY <2>2, <2>3
<1> QED BY <1>5, <1>6, <1>7 DEF LockInv

LEMMA ClearKeeps ==
    ASSUME LockInv, LockTypeOK', Clear
    PROVE  LockInv'
<1> DEFINE c == currentThread
           k == TheLock
<1>1. /\ c \in Thread /\ k \in Sem /\ pc \in [Thread -> Label \cup {"fault"}]
      /\ lockerThread \in [Sem -> Thread \cup {NoThread}] /\ pc[c] = "clear"
      BY DEF LockInv, LockTypeOK, SemTypeOK, TypeOK, TheLock, Clear, SetLockerThread, At
<1>2. /\ UNCHANGED <<value, inside, lock>>
      /\ lockerThread' = [lockerThread EXCEPT ![k] = NoThread]
      /\ pc' = [pc EXCEPT ![c] = "V"]
      BY DEF Clear, SetLockerThread, semVars, Goto
<1>3. inside[k] = {c}
  <2>1. c \in inside[k]
        BY <1>1 DEF LockInv, HolderIsInside, HoldingLabel, TheLock
  <2> QED BY <1>1, <2>1 DEF LockInv, UnitOrHolder
<1>4. \A t \in Thread : pc'[t] = IF t = c THEN "V" ELSE pc[t]
      BY <1>1, <1>2
<1>5. UnitOrHolder'
      BY <1>2 DEF LockInv, UnitOrHolder
<1>6. HolderIsInside'
      BY <1>1, <1>2, <1>3, <1>4 DEF LockInv, HolderIsInside, HoldingLabel, TheLock
<1>7. LockerIsInside'
  <2> SUFFICES ASSUME NEW l \in Sem, NEW t \in Thread
               PROVE  lockerThread'[l] = t <=>
                        t \in inside[l] /\ ~(pc'[t] \in {"own", "V"} /\ lock[t] = l)
      BY <1>2 DEF LockerIsInside
  <2>1. lockerThread[l] = t <=>
           t \in inside[l] /\ ~(pc[t] \in {"own", "V"} /\ lock[t] = l)
        BY DEF LockInv, LockerIsInside
  <2>2. CASE l = k
        BY <1>1, <1>2, <1>3, <1>4, <2>2, SchedulerAssumption
        DEF SchedulerAssumption, TheLock
  <2>3. CASE l # k
        BY <1>1, <1>2, <1>4, <2>1, <2>3 DEF TheLock
  <2> QED BY <2>2, <2>3
<1> QED BY <1>5, <1>6, <1>7 DEF LockInv

LEMMA ReleaseVKeeps ==
    ASSUME LockInv, LockTypeOK', ReleaseV
    PROVE  LockInv'
<1> DEFINE c == currentThread
           k == TheLock
<1>1. /\ c \in Thread /\ k \in Sem /\ pc \in [Thread -> Label \cup {"fault"}]
      /\ inside \in [Sem -> SUBSET Thread] /\ value \in [Sem -> Nat] /\ pc[c] = "V"
      BY DEF LockInv, LockTypeOK, SemTypeOK, TypeOK, TheLock, ReleaseV, At
<1>2. /\ UNCHANGED <<lockerThread, lock>>
      /\ value' = [value EXCEPT ![k] = @ + 1]
      /\ inside' = [inside EXCEPT ![k] = @ \ {c}]
      /\ pc' = [pc EXCEPT ![c] = "program"]
      BY DEF ReleaseV, VBody, Goto
<1>3. inside[k] = {c} /\ value[k] = 0
  <2>1. c \in inside[k]
        BY <1>1 DEF LockInv, HolderIsInside, HoldingLabel, TheLock
  <2> QED BY <1>1, <2>1 DEF LockInv, UnitOrHolder
<1>4. \A t \in Thread : pc'[t] = IF t = c THEN "program" ELSE pc[t]
      BY <1>1, <1>2
<1>5. value'[k] = 1 /\ inside'[k] = {}
      BY <1>1, <1>2, <1>3
<1>6. \A l \in Sem \ {k} : value'[l] = value[l] /\ inside'[l] = inside[l]
      BY <1>1, <1>2
<1>7. UnitOrHolder'
      BY <1>5, <1>6 DEF LockInv, UnitOrHolder
<1>8. HolderIsInside'
  <2> SUFFICES ASSUME NEW t \in Thread, pc'[t] \in HoldingLabel
               PROVE  t \in inside'[lock[t]]
      BY <1>2 DEF HolderIsInside
  <2>1. t # c /\ lock[t] \in Sem
        BY <1>4 DEF HoldingLabel, LockInv, LockTypeOK
  <2>2. t \in inside[lock[t]]
        BY <1>4, <2>1 DEF LockInv, HolderIsInside
  <2> QED BY <1>3, <1>6, <2>1, <2>2
<1>9. LockerIsInside'
  <2> SUFFICES ASSUME NEW l \in Sem, NEW t \in Thread
               PROVE  lockerThread[l] = t <=>
                        t \in inside'[l] /\ ~(pc'[t] \in {"own", "V"} /\ lock[t] = l)
      BY <1>2 DEF LockerIsInside
  <2>1. lockerThread[l] = t <=>
           t \in inside[l] /\ ~(pc[t] \in {"own", "V"} /\ lock[t] = l)
        BY DEF LockInv, LockerIsInside
  <2>2. CASE l = k
        BY <1>1, <1>3, <1>5, <2>1, <2>2 DEF TheLock
  <2>3. CASE l # k
        BY <1>1, <1>4, <1>6, <2>1, <2>3 DEF TheLock
  <2> QED BY <2>2, <2>3
<1> QED BY <1>7, <1>8, <1>9 DEF LockInv

(* Acquire and Release choose the lock: the running thread is at           *)
(* "program", so only its own later steps read lock[currentThread].        *)
LEMMA CallKeeps ==
    ASSUME LockInv, LockTypeOK', NEW l \in Sem, Acquire(l) \/ Release(l)
    PROVE  LockInv'
<1> DEFINE c == currentThread
<1>1. PICK to \in Label :
         /\ pc' = [pc EXCEPT ![c] = to]
         /\ to \notin {"own", "V"}
         /\ to \in HoldingLabel => lockerThread[l] = c
      BY DEF Acquire, Release, Goto, Label, HoldingLabel
<1>2. /\ c \in Thread /\ pc[c] = "program" /\ pc \in [Thread -> Label \cup {"fault"}]
      /\ lock \in [Thread -> Sem]
      BY DEF LockInv, LockTypeOK, SemTypeOK, TypeOK, Acquire, Release, At
<1>3. /\ UNCHANGED <<value, inside, lockerThread>>
      /\ lock' = [lock EXCEPT ![c] = l]
      BY DEF Acquire, Release, semVars
<1>4. \A t \in Thread : /\ pc'[t] = IF t = c THEN to ELSE pc[t]
                        /\ lock'[t] = IF t = c THEN l ELSE lock[t]
      BY <1>1, <1>2, <1>3
<1>5. UnitOrHolder'
      BY <1>3 DEF LockInv, UnitOrHolder
<1>6. HolderIsInside'
      BY <1>1, <1>2, <1>3, <1>4 DEF LockInv, HolderIsInside, LockerIsInside
<1>7. LockerIsInside'
      BY <1>1, <1>2, <1>3, <1>4 DEF LockInv, LockerIsInside
<1> QED BY <1>5, <1>6, <1>7 DEF LockInv

LEMMA LockNextInv ==
    ASSUME LockInv, [LockNext]_lockVars
    PROVE  LockInv'
<1>1. LockTypeOK'
      BY LockNextType DEF LockInv
<1>2. CASE Compare \/ TestReady
  <2>1. PICK to \in {"fault", "raise", "P", "remove"} : Goto(to)
        BY <1>2 DEF Compare, TestReady
  <2>2. UNCHANGED <<value, inside, lockerThread, lock>>
        BY <1>2 DEF Compare, TestReady, semVars
  <2>3. pc[currentThread] \notin {"own", "V"}
        BY <1>2 DEF Compare, TestReady, At
  <2> QED BY <1>1, <2>1, <2>2, <2>3, GotoKeeps DEF HoldingLabel
<1>3. CASE Raise \/ Remove \/ Add
  <2>1. PICK to \in {"fault", "isReady", "P", "add"} : Goto(to)
        BY <1>3 DEF Raise, Remove, Add, Requeue
  <2>2. UNCHANGED <<value, inside, lockerThread, lock>>
        BY <1>3 DEF Raise, Remove, Add, Requeue
  <2>3. pc[currentThread] \notin {"own", "V"}
        BY <1>3 DEF Raise, Remove, Add, At
  <2> QED BY <1>1, <2>1, <2>2, <2>3, GotoKeeps DEF HoldingLabel
<1>4. CASE Restore \/ Reset
  <2>1. PICK to \in {"reset", "clear"} : Goto(to)
        BY <1>4 DEF Restore, Reset
  <2>2. UNCHANGED <<value, inside, lockerThread, lock>>
        BY <1>4 DEF Restore, Reset
  <2>3. pc[currentThread] \in {"restore", "reset"} /\ currentThread \in Thread
        BY <1>4 DEF Restore, Reset, At, LockInv, LockTypeOK, SemTypeOK, TypeOK
  <2>4. currentThread \in inside[TheLock]
        BY <2>3 DEF LockInv, HolderIsInside, HoldingLabel, TheLock
  <2> QED BY <1>1, <2>1, <2>2, <2>3, <2>4, GotoKeeps
<1>5. CASE TimeSlice \/ \E t \in Thread : Spawn(t)
  <2>1. UNCHANGED <<value, inside, lockerThread, lock, pc>>
        BY <1>5 DEF TimeSlice, Preempt, Spawn, Start
  <2> QED BY <1>1, <2>1, SwitchKeeps
<1>6. CASE UNCHANGED lockVars
  <2>1. UNCHANGED <<value, inside, lockerThread, lock, pc>>
        BY <1>6 DEF lockVars, semVars
  <2> QED BY <1>1, <2>1, SwitchKeeps
<1> QED BY <1>1, <1>2, <1>3, <1>4, <1>5, <1>6,
           AcquirePKeeps, OwnKeeps, ClearKeeps, ReleaseVKeeps, CallKeeps
        DEF LockNext, Step

(* The variables of the lock keep their types, with -p or without. *)
THEOREM LockTypes == LockSpec => []LockTypeOK
<1>1. LockInit => LockTypeOK
      BY LockInitInv DEF LockInv
<1> QED BY <1>1, LockNextType, PTL DEF LockSpec

LEMMA LockInvHolds == LockSpec => []LockInv
BY LockInitInv, LockNextInv, PTL DEF LockSpec

(* At most one thread is between P and V of a lock (lock.cc:36-82): for    *)
(* any number of threads, locks and priorities, even when the donation     *)
(* code is preempted between any two statements.                           *)
THEOREM LocksExclude == LockSpec => []MutualExclusion
<1>1. LockInv => MutualExclusion
      BY DEF LockInv, UnitOrHolder, MutualExclusion
<1> QED BY <1>1, LockInvHolds, PTL

(* lockerThread names the thread that holds the lock, and nobody else,     *)
(* whenever that thread is outside Acquire and Release: the ASSERTs of     *)
(* lock.cc:37 and 57 judge rightly.                                        *)
THEOREM LockersAreKnown == LockSpec => []HolderIsKnown
<1>1. LockInv => HolderIsKnown
      BY DEF LockInv, LockerIsInside, HolderIsKnown
<1> QED BY <1>1, LockInvHolds, PTL

-----------------------------------------------------------------------------
(* A step that leaves the threads inside alone is a stutter of Mutex. *)
LEMMA InsideKeptHolderKept ==
    ASSUME UNCHANGED inside
    PROVE  UNCHANGED holder
BY DEF holder

LEMMA InsideChangedTakesOrFrees ==
    ASSUME LockInv, LockInv', NEW k \in Sem, NEW c \in Thread,
           \/ inside[k] = {} /\ inside'[k] = {c}
           \/ inside[k] = {c} /\ inside'[k] = {},
           \A l \in Sem \ {k} : inside'[l] = inside[l]
    PROVE  AbstractLock!Take(k, c) \/ AbstractLock!Free(k, c)
<1>1. ASSUME NEW l \in Sem \ {k} PROVE holder'[l] = holder[l]
  <2>1. CASE inside[l] = {}
        BY <1>1, <2>1 DEF holder
  <2>2. CASE inside[l] # {}
    <3>1. PICK t \in Thread : inside[l] = {t}
          BY <2>2 DEF LockInv, UnitOrHolder
    <3>2. holder[l] = t
          BY <3>1 DEF holder
    <3>3. inside'[l] = {t}
          BY <3>1
    <3>4. holder'[l] = t
          BY <3>3 DEF holder
    <3> QED BY <3>2, <3>4
  <2> QED BY <2>1, <2>2
<1>2. holder = [l \in Sem |-> holder[l]] /\ holder' = [l \in Sem |-> holder'[l]]
      BY DEF holder
<1>3. CASE inside[k] = {} /\ inside'[k] = {c}
  <2>1. holder[k] = NoThread /\ holder'[k] = c
        BY <1>3 DEF holder
  <2>2. holder' = [holder EXCEPT ![k] = c]
        BY <1>1, <1>2, <2>1
  <2> QED BY <2>1, <2>2 DEF AbstractLock!Take
<1>4. CASE inside[k] = {c} /\ inside'[k] = {}
  <2>1. holder[k] = c /\ holder'[k] = NoThread
        BY <1>4 DEF holder
  <2>2. holder' = [holder EXCEPT ![k] = NoThread]
        BY <1>1, <1>2, <2>1
  <2> QED BY <2>1, <2>2 DEF AbstractLock!Free
<1> QED BY <1>3, <1>4

LEMMA LockStepIsMutexStep ==
    ASSUME LockInv, LockInv', [LockNext]_lockVars
    PROVE  [AbstractLock!MutexNext]_holder
<1> DEFINE c == currentThread
           k == TheLock
<1>1. c \in Thread /\ k \in Sem /\ inside \in [Sem -> SUBSET Thread]
      BY DEF LockInv, LockTypeOK, SemTypeOK, TypeOK, TheLock
<1>2. CASE AcquireP
  <2>1. CASE value[k] = 0
        BY <1>2, <2>1, InsideKeptHolderKept DEF AcquireP
  <2>2. CASE value[k] # 0
    <3>1. inside' = [inside EXCEPT ![k] = @ \cup {c}]
          BY <1>2, <2>2 DEF AcquireP
    <3>2. inside[k] = {}
          BY <1>1, <2>2 DEF LockInv, UnitOrHolder
    <3>3. inside'[k] = {c} /\ \A l \in Sem \ {k} : inside'[l] = inside[l]
          BY <1>1, <3>1, <3>2
    <3> HIDE DEF c, k
    <3> QED BY <1>1, <3>2, <3>3, InsideChangedTakesOrFrees DEF AbstractLock!MutexNext
  <2> QED BY <2>1, <2>2
<1>3. CASE ReleaseV
  <2>1. inside' = [inside EXCEPT ![k] = @ \ {c}]
        BY <1>3 DEF ReleaseV
  <2>2. c \in inside[k]
        BY <1>1, <1>3 DEF ReleaseV, At, LockInv, HolderIsInside, HoldingLabel, TheLock
  <2>3. inside[k] = {c}
        BY <1>1, <2>2 DEF LockInv, UnitOrHolder
  <2>4. inside'[k] = {} /\ \A l \in Sem \ {k} : inside'[l] = inside[l]
        BY <1>1, <2>1, <2>3
  <2> HIDE DEF c, k
  <2> QED BY <1>1, <2>3, <2>4, InsideChangedTakesOrFrees DEF AbstractLock!MutexNext
<1>4. ASSUME ~AcquireP, ~ReleaseV PROVE UNCHANGED inside
  <2>1. CASE Compare \/ Raise \/ TestReady \/ Remove \/ Add
        BY <2>1 DEF Compare, Raise, TestReady, Remove, Add, Requeue
  <2>2. CASE Own \/ Restore \/ Reset \/ Clear
        BY <2>2 DEF Own, Clear, SetLockerThread, Restore, Reset
  <2>3. CASE TimeSlice \/ \E t \in Thread : Spawn(t)
        BY <2>3 DEF TimeSlice, Spawn
  <2>4. CASE \E l \in Sem : Acquire(l) \/ Release(l)
        BY <2>4 DEF Acquire, Release
  <2>5. CASE UNCHANGED lockVars
        BY <2>5 DEF lockVars
  <2> QED BY <1>4, <2>1, <2>2, <2>3, <2>4, <2>5 DEF LockNext, Step
<1> QED BY <1>2, <1>3, <1>4, InsideKeptHolderKept

(* Lock.tla implements Mutex.tla: to its users a lock is taken when it is  *)
(* free, by one thread, and freed by that thread only.                     *)
THEOREM LockIsMutex == LockSpec => ImplementsMutex
<1>1. LockInit => AbstractLock!MutexInit
      BY DEF LockInit, AbstractLock!MutexInit, holder
<1> QED BY <1>1, LockInitInv, LockNextInv, LockStepIsMutexStep, PTL
        DEF LockSpec, ImplementsMutex, AbstractLock!MutexSpec
=============================================================================
