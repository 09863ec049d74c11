--------------------------- MODULE SemaphoreProofs ---------------------------
(***************************************************************************)
(* Proofs about Scheduler and about Semaphore, which extends it, for any   *)
(* sets of threads and semaphores, any number of ready lists and any       *)
(* priorities.                                                             *)
(*                                                                         *)
(* Scheduler: the ready lists are exact, no carcass runs, and switches go  *)
(* to the highest priority.                                                *)
(*                                                                         *)
(* Semaphore: the sleep queues are exact, no wake-up is lost, and a        *)
(* program on semaphores drives the scheduler only in the ways             *)
(* Scheduler.tla allows.                                                   *)
(***************************************************************************)
EXTENDS Semaphore, TLAPS, SequenceTheorems, FiniteSetTheorems, WellFoundedInduction

(* A non-empty set of naturals has a least element. *)
LEMMA LeastNatural ==
    ASSUME NEW T \in SUBSET Nat, T # {}
    PROVE  \E n \in T : \A k \in T : n <= k
<1>1. PICK n \in T : \A k \in T : ~(<<k, n>> \in OpToRel(<, Nat))
      BY NatLessThanWellFounded, WFMin
<1>2. ASSUME NEW k \in T PROVE n <= k
  <2>1. k \in Nat /\ n \in Nat
        OBVIOUS
  <2>2. ~(k < n)
        BY <1>1, <2>1 DEF OpToRel
  <2> QED BY <2>1, <2>2
<1> QED BY <1>2

(* A non-empty set of ready-list indexes has a greatest element: the loop  *)
(* of FindNextToRun stops at a definite list.                              *)
LEMMA GreatestPriority ==
    ASSUME NEW T \in SUBSET Priority, T # {}
    PROVE  \E p \in T : \A q \in T : q <= p
<1> DEFINE D(p) == PRIORITY_SIZE - 1 - p
           U == {D(p) : p \in T}
<1>1. \A p \in T : p \in Int /\ D(p) \in Nat
      BY SchedulerAssumption DEF SchedulerAssumption, Priority
<1>2. U \in SUBSET Nat /\ U # {}
      BY <1>1
<1>3. PICK n \in U : \A k \in U : n <= k
      BY <1>2, LeastNatural
<1>4. PICK p \in T : n = D(p)
      BY <1>3
<1>5. ASSUME NEW q \in T PROVE q <= p
  <2>1. D(p) <= D(q)
        BY <1>3, <1>4
  <2> QED BY <1>1, <2>1, SchedulerAssumption DEF SchedulerAssumption
<1> QED BY <1>5

(* FindNextToRun finds the first thread of the highest list in use. *)
LEMMA FindNextToRunFinds ==
    ASSUME TypeOK, AnyReady
    PROVE  /\ TopPriority \in Priority
           /\ readyLists[TopPriority] # <<>>
           /\ \A q \in Priority : q > TopPriority => readyLists[q] = <<>>
           /\ FindNextToRun \in Thread
           /\ Dequeued \in [Priority -> Seq(Thread)]
<1> DEFINE T == {p \in Priority : readyLists[p] # <<>>}
<1>1. PICK p \in T : \A q \in T : q <= p
      BY GreatestPriority DEF AnyReady
<1>2. readyLists[p] # <<>> /\ \A q \in Priority : q > p => readyLists[q] = <<>>
      BY <1>1, SchedulerAssumption DEF SchedulerAssumption, Priority
<1>3. /\ TopPriority \in Priority
      /\ readyLists[TopPriority] # <<>>
      /\ \A q \in Priority : q > TopPriority => readyLists[q] = <<>>
      BY <1>1, <1>2 DEF TopPriority
<1>4. readyLists[TopPriority] \in Seq(Thread)
      BY <1>3 DEF TypeOK
<1>5. Head(readyLists[TopPriority]) \in Thread /\ Tail(readyLists[TopPriority]) \in Seq(Thread)
      BY <1>3, <1>4, HeadTailProperties
<1> QED BY <1>3, <1>5 DEF FindNextToRun, Dequeued, TypeOK

(* The list operations map ready lists to ready lists. *)
LEMMA AddType ==
    ASSUME NEW rl \in [Priority -> Seq(Thread)], NEW t \in Thread, NEW p
    PROVE  addToPriorityList(rl, t, p) \in [Priority -> Seq(Thread)]
BY AppendProperties DEF addToPriorityList

(* List::Remove of a queued thread: the entries after the first occurrence *)
(* move up by one.                                                         *)
LEMMA RemoveShifts ==
    ASSUME NEW rl \in [Priority -> Seq(Thread)], NEW t \in Thread, NEW p \in Priority,
           isReady(rl, t, p)
    PROVE  \E first \in 1 .. Len(rl[p]) :
              LET s == [i \in 1 .. Len(rl[p]) - 1 |->
                          IF i < first THEN rl[p][i] ELSE rl[p][i + 1]]
              IN  /\ rl[p][first] = t
                  /\ s \in Seq(Thread)
                  /\ Len(s) = Len(rl[p]) - 1
                  /\ removeFromPriorityList(rl, t, p) = [rl EXCEPT ![p] = s]
<1> DEFINE n == Len(rl[p])
           Occ == {i \in 1 .. n : rl[p][i] = t}
           IsFirst(i) == rl[p][i] = t /\ \A j \in 1 .. i - 1 : rl[p][j] # t
           first == CHOOSE i \in 1 .. n : IsFirst(i)
           s == [i \in 1 .. n - 1 |-> IF i < first THEN rl[p][i] ELSE rl[p][i + 1]]
<1>1. n \in Nat /\ rl[p] \in Seq(Thread)
      BY LenProperties
<1>2. Occ \in SUBSET Nat /\ Occ # {}
      BY <1>1 DEF isReady
<1>3. PICK k \in Occ : \A j \in Occ : k <= j
      BY <1>2, LeastNatural
<1>4. k \in 1 .. n /\ IsFirst(k)
      BY <1>1, <1>3
<1>5. first \in 1 .. n /\ IsFirst(first)
      BY <1>4
<1>6. \A i \in 1 .. n : rl[p][i] \in Thread
      BY <1>1, ElementOfSeq
<1>7. s \in [1 .. n - 1 -> Thread] /\ n - 1 \in Nat
      BY <1>1, <1>5, <1>6
<1>8. s \in Seq(Thread) /\ Len(s) = n - 1
      BY <1>7, SeqDef, LenProperties
<1>9. removeFromPriorityList(rl, t, p) = [rl EXCEPT ![p] = s]
      BY DEF removeFromPriorityList
<1> QED BY <1>5, <1>8, <1>9

LEMMA RemoveType ==
    ASSUME NEW rl \in [Priority -> Seq(Thread)], NEW t \in Thread, NEW p
    PROVE  removeFromPriorityList(rl, t, p) \in [Priority -> Seq(Thread)]
<1>1. CASE isReady(rl, t, p)
  <2>1. p \in Priority
        BY <1>1 DEF isReady
  <2> QED BY <1>1, <2>1, RemoveShifts
<1>2. CASE ~isReady(rl, t, p)
      BY <1>2 DEF removeFromPriorityList
<1> QED BY <1>1, <1>2

(* Scheduler::Run and Thread::Sleep preserve the types. *)
LEMMA RunType ==
    ASSUME TypeOK, NEW next \in Thread, NEW rl \in [Priority -> Seq(Thread)],
           NEW st \in [Thread -> Status], NEW lf \in [Thread -> Life],
           NEW carcass \in Thread \cup {NoThread},
           Run(next, rl, st, lf, carcass), UNCHANGED priority
    PROVE  TypeOK'
BY DEF Run, TypeOK, Status, Life

LEMMA SleepType ==
    ASSUME TypeOK, NEW lf \in [Thread -> Life],
           NEW carcass \in Thread \cup {NoThread},
           SleepWith(lf, carcass), UNCHANGED priority
    PROVE  TypeOK'
<1> DEFINE st == [status EXCEPT ![currentThread] = "BLOCKED"]
<1>1. st \in [Thread -> Status]
      BY DEF TypeOK, Status
<1>2. CASE AnyReady
  <2>1. Run(FindNextToRun, Dequeued, st, lf, carcass)
        BY <1>2 DEF SleepWith
  <2> QED BY <1>1, <1>2, <2>1, FindNextToRunFinds, RunType
<1>3. CASE ~AnyReady
      BY <1>1, <1>3 DEF SleepWith, TypeOK
<1> QED BY <1>2, <1>3

LEMMA InitType == Init => TypeOK
<1>1. <<>> \in Seq(Thread)
      BY EmptySeq
<1> QED BY <1>1, SchedulerAssumption
        DEF Init, TypeOK, SchedulerAssumption, Status, Life, Priority

LEMMA NextType ==
    ASSUME TypeOK, [Next]_vars
    PROVE  TypeOK'
<1>1. CASE Yield
  <2>1. [status EXCEPT ![currentThread] = "READY"] \in [Thread -> Status]
        BY DEF TypeOK, Status
  <2>2. FindNextToRun \in Thread /\ Dequeued \in [Priority -> Seq(Thread)]
        BY <1>1, FindNextToRunFinds DEF Yield
  <2>3. ReadyToRun(Dequeued, currentThread) \in [Priority -> Seq(Thread)]
        BY <2>2, AddType DEF ReadyToRun, TypeOK
  <2>4. life \in [Thread -> Life] /\ threadToBeDestroyed \in Thread \cup {NoThread}
        BY DEF TypeOK
  <2> QED BY <1>1, <2>1, <2>2, <2>3, <2>4, RunType DEF Yield
<1>2. CASE Sleep
      BY <1>2, SleepType DEF Sleep, TypeOK
<1>3. CASE Finish
  <2>1. [life EXCEPT ![currentThread] = "finished"] \in [Thread -> Life]
        BY DEF TypeOK, Life
  <2> QED BY <1>3, <2>1, SleepType DEF Finish, TypeOK
<1>4. CASE IdleDispatch
  <2>1. FindNextToRun \in Thread /\ Dequeued \in [Priority -> Seq(Thread)]
        BY <1>4, FindNextToRunFinds DEF IdleDispatch
  <2> QED BY <1>4, <2>1, RunType DEF IdleDispatch, TypeOK
<1>5. ASSUME NEW t \in Thread, Fork(t) PROVE TypeOK'
      BY <1>5, AddType DEF Fork, ReadyToRun, TypeOK, Status, Life
<1>6. ASSUME NEW t \in Thread, Wake(t) PROVE TypeOK'
      BY <1>6, AddType DEF Wake, ReadyToRun, TypeOK, Status
<1>7. ASSUME NEW t \in Thread, Donate(t) PROVE TypeOK'
  <2>1. addToPriorityList(removeFromPriorityList(readyLists, t, priority[t]),
                          t, priority[currentThread]) \in [Priority -> Seq(Thread)]
        BY AddType, RemoveType DEF TypeOK
  <2> QED BY <1>7, <2>1 DEF Donate, TypeOK
<1>8. ASSUME NEW t \in Thread, NEW p \in RequestedPriority, SetPriority(t, p)
      PROVE  TypeOK'
      BY <1>8, SchedulerAssumption
      DEF SetPriority, Clamped, TypeOK, SchedulerAssumption
<1>9. CASE UNCHANGED vars
      BY <1>9 DEF TypeOK, vars
<1> QED BY <1>1, <1>2, <1>3, <1>4, <1>5, <1>6, <1>7, <1>8, <1>9 DEF Next

(* The types of the scheduler's variables are an invariant. *)
THEOREM SchedulerTypes == Spec => []TypeOK
BY InitType, NextType, PTL DEF Spec

-----------------------------------------------------------------------------
(* The ready lists rl hold exactly the threads of R, each once, on the     *)
(* list of its priority in pr.                                             *)
Sound(rl, R, pr) ==
    \A p \in Priority : \A i \in 1 .. Len(rl[p]) :
        rl[p][i] \in R /\ pr[rl[p][i]] = p

Injective(rl) ==
    \A p, q \in Priority : \A i \in 1 .. Len(rl[p]), j \in 1 .. Len(rl[q]) :
        rl[p][i] = rl[q][j] => p = q /\ i = j

Complete(rl, R) ==
    \A t \in R : \E p \in Priority : \E i \in 1 .. Len(rl[p]) : rl[p][i] = t

Exact(rl, R, pr) == Sound(rl, R, pr) /\ Injective(rl) /\ Complete(rl, R)

(* ReadyToRun of a thread that is not queued keeps the lists exact. *)
LEMMA AddExact ==
    ASSUME NEW rl \in [Priority -> Seq(Thread)], NEW R \in SUBSET Thread, NEW pr,
           NEW t \in Thread, t \notin R, pr[t] \in Priority, Exact(rl, R, pr)
    PROVE  Exact(addToPriorityList(rl, t, pr[t]), R \cup {t}, pr)
<1> DEFINE q == pr[t]
           new == addToPriorityList(rl, t, q)
           n == Len(rl[q])
<1>1. /\ rl[q] \in Seq(Thread)
      /\ n \in Nat
      /\ new \in [Priority -> Seq(Thread)]
      /\ new[q] = Append(rl[q], t)
      /\ \A p \in Priority : p # q => new[p] = rl[p]
      BY LenProperties, AddType DEF addToPriorityList
<1>2. /\ Len(new[q]) = n + 1
      /\ \A i \in 1 .. n : new[q][i] = rl[q][i]
      /\ new[q][n + 1] = t
      BY <1>1, AppendProperties
<1> HIDE DEF q, new
<1>3. \A p \in Priority : \A i \in 1 .. Len(new[p]) :
         \/ p = q /\ i = n + 1 /\ new[p][i] = t
         \/ i \in 1 .. Len(rl[p]) /\ new[p][i] = rl[p][i] /\ new[p][i] \in R
  <2> SUFFICES ASSUME NEW p \in Priority, NEW i \in 1 .. Len(new[p])
               PROVE  \/ p = q /\ i = n + 1 /\ new[p][i] = t
                      \/ i \in 1 .. Len(rl[p]) /\ new[p][i] = rl[p][i] /\ new[p][i] \in R
      OBVIOUS
  <2>1. CASE p # q
        BY <1>1, <2>1 DEF Exact, Sound
  <2>2. CASE p = q /\ i = n + 1
        BY <1>2, <2>2
  <2>3. CASE p = q /\ i # n + 1
    <3>1. i \in 1 .. n
          BY <1>1, <1>2, <2>3
    <3> QED BY <1>2, <2>3, <3>1 DEF Exact, Sound
  <2> QED BY <2>1, <2>2, <2>3
<1>4. \A p \in Priority : \A i \in 1 .. Len(rl[p]) :
         i \in 1 .. Len(new[p]) /\ new[p][i] = rl[p][i]
  <2> SUFFICES ASSUME NEW p \in Priority, NEW i \in 1 .. Len(rl[p])
               PROVE  i \in 1 .. Len(new[p]) /\ new[p][i] = rl[p][i]
      OBVIOUS
  <2>1. CASE p # q
        BY <1>1, <2>1
  <2>2. CASE p = q
    <3>1. i \in 1 .. n /\ i \in 1 .. n + 1
          BY <1>1, <2>2
    <3>2. new[q][i] = rl[q][i] /\ i \in 1 .. Len(new[q])
          BY <1>2, <3>1
    <3> QED BY <2>2, <3>2
  <2> QED BY <2>1, <2>2
<1>5. Sound(new, R \cup {t}, pr)
      BY <1>3 DEF Exact, Sound, q
<1>6. Injective(new)
      BY <1>3 DEF Exact, Injective
<1>7. Complete(new, R \cup {t})
  <2>1. q \in Priority /\ n + 1 \in 1 .. Len(new[q]) /\ new[q][n + 1] = t
        BY <1>1, <1>2 DEF q
  <2>2. ASSUME NEW u \in R
        PROVE  \E p \in Priority : \E i \in 1 .. Len(new[p]) : new[p][i] = u
    <3>1. PICK p \in Priority : \E i \in 1 .. Len(rl[p]) : rl[p][i] = u
          BY DEF Exact, Complete
    <3>2. PICK i \in 1 .. Len(rl[p]) : rl[p][i] = u
          BY <3>1
    <3> QED BY <1>4, <3>2
  <2> QED BY <2>1, <2>2 DEF Complete
<1> QED BY <1>5, <1>6, <1>7 DEF Exact, new, q

(* Dropping entry f of list q keeps the lists exact. *)
LEMMA DropExact ==
    ASSUME NEW rl \in [Priority -> Seq(Thread)], NEW R \in SUBSET Thread, NEW pr,
           NEW q \in Priority, NEW f \in 1 .. Len(rl[q]), Exact(rl, R, pr),
           NEW s \in Seq(Thread), Len(s) = Len(rl[q]) - 1,
           \A i \in 1 .. Len(s) : s[i] = IF i < f THEN rl[q][i] ELSE rl[q][i + 1]
    PROVE  /\ rl[q][f] \in R
           /\ pr[rl[q][f]] = q
           /\ Exact([rl EXCEPT ![q] = s], R \ {rl[q][f]}, pr)
<1> DEFINE new == [rl EXCEPT ![q] = s]
           h == rl[q][f]
           n == Len(rl[q])
           Old(p, i) == IF p = q /\ f <= i THEN i + 1 ELSE i
<1>1. /\ n \in Nat
      /\ f \in 1 .. n
      /\ Len(new[q]) = n - 1
      /\ \A i \in 1 .. n - 1 : new[q][i] = IF i < f THEN rl[q][i] ELSE rl[q][i + 1]
      /\ \A p \in Priority : p # q => new[p] = rl[p]
      BY LenProperties
<1>2. \A p \in Priority : Len(rl[p]) \in Nat
      BY LenProperties
<1> HIDE DEF new, h
<1>3. h \in R /\ pr[h] = q
      BY <1>1 DEF Exact, Sound, h
<1>4. \A p \in Priority : \A i \in 1 .. Len(new[p]) :
         Old(p, i) \in 1 .. Len(rl[p]) /\ new[p][i] = rl[p][Old(p, i)]
  <2> SUFFICES ASSUME NEW p \in Priority, NEW i \in 1 .. Len(new[p])
               PROVE  Old(p, i) \in 1 .. Len(rl[p]) /\ new[p][i] = rl[p][Old(p, i)]
      OBVIOUS
  <2>1. CASE p # q
        BY <1>1, <2>1
  <2>2. CASE p = q
    <3>1. i \in 1 .. n - 1 /\ i \in 1 .. n /\ i + 1 \in 1 .. n
          BY <1>1, <2>2
    <3> QED BY <1>1, <2>2, <3>1
  <2> QED BY <2>1, <2>2
<1>5. \A p \in Priority : \A i \in 1 .. Len(new[p]) : new[p][i] # h
  <2> SUFFICES ASSUME NEW p \in Priority, NEW i \in 1 .. Len(new[p]), new[p][i] = h
               PROVE  FALSE
      OBVIOUS
  <2>1. Old(p, i) \in 1 .. Len(rl[p]) /\ rl[p][Old(p, i)] = rl[q][f]
        BY <1>4 DEF h
  <2>2. p = q /\ Old(p, i) = f
        BY <2>1 DEF Exact, Injective
  <2> QED BY <1>1, <2>2
<1>6. Sound(new, R \ {h}, pr)
  <2> SUFFICES ASSUME NEW p \in Priority, NEW i \in 1 .. Len(new[p])
               PROVE  new[p][i] \in R \ {h} /\ pr[new[p][i]] = p
      BY DEF Sound
  <2>1. new[p][i] # h /\ Old(p, i) \in 1 .. Len(rl[p]) /\ new[p][i] = rl[p][Old(p, i)]
        BY <1>4, <1>5
  <2> HIDE DEF Old
  <2> QED BY <2>1 DEF Exact, Sound
<1>7. Injective(new)
  <2> SUFFICES ASSUME NEW p \in Priority, NEW r \in Priority,
                      NEW i \in 1 .. Len(new[p]), NEW j \in 1 .. Len(new[r]),
                      new[p][i] = new[r][j]
               PROVE  p = r /\ i = j
      BY DEF Injective
  <2>1. /\ Old(p, i) \in 1 .. Len(rl[p])
        /\ Old(r, j) \in 1 .. Len(rl[r])
        /\ rl[p][Old(p, i)] = rl[r][Old(r, j)]
        BY <1>4
  <2>2. p = r /\ Old(p, i) = Old(r, j)
        BY <2>1 DEF Exact, Injective
  <2> QED BY <1>1, <2>2
<1>8. Complete(new, R \ {h})
  <2> SUFFICES ASSUME NEW u \in R \ {h}
               PROVE  \E p \in Priority : \E i \in 1 .. Len(new[p]) : new[p][i] = u
      BY DEF Complete
  <2>1. PICK p \in Priority : \E i \in 1 .. Len(rl[p]) : rl[p][i] = u
        BY DEF Exact, Complete
  <2>2. PICK i \in 1 .. Len(rl[p]) : rl[p][i] = u
        BY <2>1
  <2>3. CASE p # q
        BY <1>1, <2>2, <2>3
  <2>4. CASE p = q /\ i < f
    <3>1. i \in 1 .. n - 1 /\ new[q][i] = u
          BY <1>1, <2>2, <2>4
    <3> QED BY <1>1, <3>1
  <2>5. CASE p = q /\ f < i
    <3>1. i - 1 \in 1 .. n - 1 /\ ~(i - 1 < f) /\ (i - 1) + 1 = i
          BY <1>1, <2>5
    <3>2. new[q][i - 1] = u
          BY <1>1, <2>2, <2>5, <3>1
    <3> QED BY <1>1, <3>1, <3>2
  <2>6. ~(p = q /\ i = f)
        BY <2>2 DEF h
  <2> QED BY <1>1, <1>2, <2>3, <2>4, <2>5, <2>6
<1> QED BY <1>3, <1>6, <1>7, <1>8 DEF Exact, new, h

(* What FindNextToRun does to exact lists. *)
LEMMA DequeueExact ==
    ASSUME NEW rl \in [Priority -> Seq(Thread)], NEW R \in SUBSET Thread, NEW pr,
           NEW q \in Priority, rl[q] # <<>>, Exact(rl, R, pr)
    PROVE  /\ Head(rl[q]) \in R
           /\ pr[Head(rl[q])] = q
           /\ Exact([rl EXCEPT ![q] = Tail(@)], R \ {Head(rl[q])}, pr)
<1> DEFINE s == Tail(rl[q])
           one == 1
<1>1. /\ s \in Seq(Thread)
      /\ Len(s) = Len(rl[q]) - 1
      /\ \A i \in 1 .. Len(s) : s[i] = rl[q][i + 1]
      BY HeadTailProperties
<1>2. one \in 1 .. Len(rl[q]) /\ Head(rl[q]) = rl[q][one]
      BY EmptySeq
<1>3. \A i \in 1 .. Len(s) : s[i] = IF i < one THEN rl[q][i] ELSE rl[q][i + 1]
      BY <1>1
<1> HIDE DEF s, one
<1>4. /\ rl[q][one] \in R
      /\ pr[rl[q][one]] = q
      /\ Exact([rl EXCEPT ![q] = s], R \ {rl[q][one]}, pr)
      BY <1>1, <1>2, <1>3, DropExact
<1> QED BY <1>2, <1>4 DEF s

(* What List::Remove does to exact lists. *)
LEMMA RemoveExact ==
    ASSUME NEW rl \in [Priority -> Seq(Thread)], NEW R \in SUBSET Thread, NEW pr,
           NEW t \in Thread, NEW q \in Priority, isReady(rl, t, q), Exact(rl, R, pr)
    PROVE  t \in R /\ Exact(removeFromPriorityList(rl, t, q), R \ {t}, pr)
<1>1. PICK f \in 1 .. Len(rl[q]) :
         LET s == [i \in 1 .. Len(rl[q]) - 1 |->
                     IF i < f THEN rl[q][i] ELSE rl[q][i + 1]]
         IN  /\ rl[q][f] = t
             /\ s \in Seq(Thread)
             /\ Len(s) = Len(rl[q]) - 1
             /\ removeFromPriorityList(rl, t, q) = [rl EXCEPT ![q] = s]
      BY RemoveShifts
<1> DEFINE s == [i \in 1 .. Len(rl[q]) - 1 |->
                   IF i < f THEN rl[q][i] ELSE rl[q][i + 1]]
<1>2. \A i \in 1 .. Len(s) : s[i] = IF i < f THEN rl[q][i] ELSE rl[q][i + 1]
      BY <1>1
<1>3. s \in Seq(Thread) /\ Len(s) = Len(rl[q]) - 1
      BY <1>1
<1> HIDE DEF s
<1>4. rl[q][f] \in R /\ Exact([rl EXCEPT ![q] = s], R \ {rl[q][f]}, pr)
      BY <1>2, <1>3, DropExact
<1> QED BY <1>1, <1>4 DEF s

-----------------------------------------------------------------------------
(* The program asks for priorities below PRIORITY_SIZE only: setPriority's *)
(* clamp lets PRIORITY_SIZE itself through, which is no index of the lists. *)
RequestsInRange == \A p \in RequestedPriority : p < PRIORITY_SIZE

ReadyThreads == {t \in Thread : status[t] = "READY"}

PrioritiesInRange == \A t \in Thread : priority[t] \in Priority

(* A thread that was never forked was never queued, and the carcass kept   *)
(* for Run is a finished thread.                                           *)
LifeMatchesStatus ==
    /\ \A t \in Thread : life[t] = "created" => status[t] = "JUST_CREATED"
    /\ threadToBeDestroyed \in Thread => life[threadToBeDestroyed] = "finished"

(* The inductive invariant.  The four invariants of Scheduler.tla are not  *)
(* inductive by themselves: Run must not be handed a carcass, and a        *)
(* priority out of range would drop a thread.                              *)
SchedInv ==
    /\ TypeOK
    /\ PrioritiesInRange
    /\ Exact(readyLists, ReadyThreads, priority)
    /\ NoCarcassRuns
    /\ LifeMatchesStatus

(* The lists only depend on the priorities of the queued threads. *)
LEMMA PriorityExact ==
    ASSUME NEW rl, NEW R, NEW pr, NEW pr2, Exact(rl, R, pr), \A t \in R : pr2[t] = pr[t]
    PROVE  Exact(rl, R, pr2)
BY DEF Exact, Sound

(* Run establishes the invariant when the caller has blocked or queued the *)
(* running thread and taken the next one off exact lists.                  *)
LEMMA RunKeeps ==
    ASSUME TypeOK, PrioritiesInRange, UNCHANGED priority,
           NEW rl \in [Priority -> Seq(Thread)], NEW st \in [Thread -> Status],
           NEW lf \in [Thread -> Life], NEW carcass \in Thread \cup {NoThread},
           NEW next \in Thread, st[next] = "READY",
           Exact(rl, {t \in Thread : st[t] = "READY"} \ {next}, priority),
           \A t \in Thread : st[t] # "RUNNING",
           \A t \in Thread : lf[t] \in {"finished", "deleted"} => st[t] = "BLOCKED",
           \A t \in Thread : lf[t] = "created" => st[t] = "JUST_CREATED",
           carcass \in Thread => lf[carcass] = "finished",
           Run(next, rl, st, lf, carcass)
    PROVE  SchedInv'
<1>1. TypeOK'
      BY RunType
<1> DEFINE S == {t \in Thread : st[t] = "READY"} \ {next}
<1>2. ReadyThreads' = S /\ readyLists' = rl /\ priority' = priority
      BY DEF ReadyThreads, Run, Status
<1>3. Exact(readyLists, ReadyThreads, priority)'
  <2>1. Exact(rl, S, priority)
        OBVIOUS
  <2> HIDE DEF S
  <2> QED BY <1>2, <2>1 DEF Exact, Sound, Injective, Complete
<1>4. PrioritiesInRange'
      BY DEF PrioritiesInRange
<1>5. NoCarcassRuns'
      BY DEF NoCarcassRuns, Run, Status, Life
<1>6. LifeMatchesStatus'
      BY SchedulerAssumption DEF LifeMatchesStatus, Run, Status, Life, SchedulerAssumption
<1> QED BY <1>1, <1>3, <1>4, <1>5, <1>6 DEF SchedInv

(* So does Sleep, for a running thread that leaves itself or nobody as the *)
(* carcass.                                                                *)
LEMMA SleepKeeps ==
    ASSUME SchedInv, Running, UNCHANGED priority,
           NEW lf \in [Thread -> Life], NEW carcass \in Thread \cup {NoThread},
           \/ lf = life /\ carcass = threadToBeDestroyed
           \/ lf = [life EXCEPT ![currentThread] = "finished"] /\ carcass = currentThread,
           SleepWith(lf, carcass)
    PROVE  SchedInv'
<1> DEFINE st == [status EXCEPT ![currentThread] = "BLOCKED"]
<1>1. /\ st \in [Thread -> Status]
      /\ \A t \in Thread : st[t] # "RUNNING"
      /\ {t \in Thread : st[t] = "READY"} = ReadyThreads
      BY DEF SchedInv, TypeOK, NoCarcassRuns, Running, Status, ReadyThreads
<1>2. /\ \A t \in Thread : lf[t] \in {"finished", "deleted"} => st[t] = "BLOCKED"
      /\ \A t \in Thread : lf[t] = "created" => st[t] = "JUST_CREATED"
      /\ carcass \in Thread => lf[carcass] = "finished"
      BY DEF SchedInv, TypeOK, NoCarcassRuns, LifeMatchesStatus, Running, Status, Life
<1>3. CASE AnyReady
  <2> DEFINE next == FindNextToRun
  <2>1. /\ next \in ReadyThreads
        /\ Dequeued \in [Priority -> Seq(Thread)]
        /\ Exact(Dequeued, ReadyThreads \ {next}, priority)
        BY <1>3, FindNextToRunFinds, DequeueExact
        DEF SchedInv, TypeOK, Dequeued, FindNextToRun, ReadyThreads
  <2>2. Run(next, Dequeued, st, lf, carcass)
        BY <1>3 DEF SleepWith
  <2>3. next \in Thread /\ st[next] = "READY"
        BY <1>1, <2>1 DEF ReadyThreads
  <2> HIDE DEF next, st
  <2> QED BY <1>1, <1>2, <2>1, <2>2, <2>3, RunKeeps DEF SchedInv
<1>4. CASE ~AnyReady
  <2>1. status' = st /\ life' = lf /\ threadToBeDestroyed' = carcass
        /\ UNCHANGED <<currentThread, readyLists, priority>>
        BY <1>4 DEF SleepWith
  <2>2. TypeOK'
        BY SleepType DEF SchedInv
  <2>3. ReadyThreads' = ReadyThreads
        BY <1>1, <2>1 DEF ReadyThreads
  <2>4. Exact(readyLists, ReadyThreads, priority)' /\ PrioritiesInRange'
        BY <2>1, <2>3 DEF SchedInv, PrioritiesInRange, Exact, Sound, Injective, Complete
  <2>5. lf[currentThread] # "deleted"
        BY DEF SchedInv, TypeOK, NoCarcassRuns, Life
  <2>6. NoCarcassRuns' /\ LifeMatchesStatus'
        BY <1>1, <1>2, <2>1, <2>5 DEF NoCarcassRuns, LifeMatchesStatus
  <2> QED BY <2>2, <2>4, <2>6 DEF SchedInv
<1> QED BY <1>3, <1>4

(* ReadyToRun of a thread that is not queued: Fork and Wake. *)
LEMMA ReadyToRunKeeps ==
    ASSUME SchedInv, NEW t \in Thread, status[t] # "READY", status[t] # "RUNNING",
           life[t] \in {"created", "begun"},
           status' = [status EXCEPT ![t] = "READY"],
           readyLists' = ReadyToRun(readyLists, t),
           life' \in {life, [life EXCEPT ![t] = "forked"]},
           life'[t] # "created",
           UNCHANGED <<currentThread, priority, threadToBeDestroyed>>
    PROVE  SchedInv'
<1>1. TypeOK'
      BY AddType DEF SchedInv, TypeOK, ReadyToRun, Status, Life
<1>2. t \notin ReadyThreads /\ ReadyThreads' = ReadyThreads \cup {t}
      BY DEF SchedInv, TypeOK, ReadyThreads
<1>3. Exact(addToPriorityList(readyLists, t, priority[t]), ReadyThreads \cup {t}, priority)
      BY <1>2, AddExact DEF SchedInv, TypeOK, PrioritiesInRange, ReadyThreads
<1>4. Exact(readyLists, ReadyThreads, priority)'
      BY <1>2, <1>3 DEF ReadyToRun, Exact, Sound, Injective, Complete
<1>5. PrioritiesInRange'
      BY DEF SchedInv, PrioritiesInRange
<1>6. NoCarcassRuns' /\ LifeMatchesStatus'
      BY SchedulerAssumption
      DEF SchedInv, TypeOK, NoCarcassRuns, LifeMatchesStatus, Life, Status, SchedulerAssumption
<1> QED BY <1>1, <1>4, <1>5, <1>6 DEF SchedInv

(* A priority change of a thread that is not queued. *)
LEMMA PriorityKeeps ==
    ASSUME SchedInv, NEW t \in Thread \ ReadyThreads, NEW p \in Priority,
           priority' = [priority EXCEPT ![t] = p],
           UNCHANGED <<currentThread, status, readyLists, threadToBeDestroyed, life>>
    PROVE  SchedInv'
<1>0. p \in Int
      BY SchedulerAssumption DEF Priority, SchedulerAssumption
<1>1. TypeOK' /\ PrioritiesInRange'
      BY <1>0 DEF SchedInv, TypeOK, PrioritiesInRange
<1>2. Exact(readyLists, ReadyThreads, priority')
      BY PriorityExact DEF SchedInv, TypeOK, ReadyThreads
<1>3. Exact(readyLists, ReadyThreads, priority)'
      BY <1>2 DEF ReadyThreads, Exact, Sound, Injective, Complete
<1>4. NoCarcassRuns' /\ LifeMatchesStatus'
      BY DEF SchedInv, NoCarcassRuns, LifeMatchesStatus
<1> QED BY <1>1, <1>3, <1>4 DEF SchedInv

(* A queued thread is on the list of its priority, so that Donate finds it. *)
LEMMA ReadyIsFound ==
    ASSUME SchedInv, NEW t \in Thread
    PROVE  isReady(readyLists, t, priority[t]) <=> t \in ReadyThreads
<1>1. ASSUME t \in ReadyThreads PROVE isReady(readyLists, t, priority[t])
  <2>1. PICK p \in Priority : \E i \in 1 .. Len(readyLists[p]) : readyLists[p][i] = t
        BY <1>1 DEF SchedInv, Exact, Complete
  <2>2. p = priority[t]
        BY <2>1 DEF SchedInv, Exact, Sound
  <2> QED BY <2>1, <2>2 DEF isReady
<1>2. ASSUME isReady(readyLists, t, priority[t]) PROVE t \in ReadyThreads
      BY <1>2 DEF SchedInv, Exact, Sound, isReady
<1> QED BY <1>1, <1>2

(* Donation moves a queued thread to another list and leaves it queued     *)
(* once.                                                                   *)
LEMMA DonateKeeps ==
    ASSUME SchedInv, NEW t \in Thread, Donate(t)
    PROVE  SchedInv'
<1> DEFINE old == priority[t]
           new == priority[currentThread]
           mid == removeFromPriorityList(readyLists, t, old)
<1>1. old \in Priority /\ new \in Priority
      BY DEF SchedInv, TypeOK, PrioritiesInRange
<1>2. CASE t \notin ReadyThreads
  <2>1. readyLists' = readyLists
        BY <1>2, ReadyIsFound DEF Donate
  <2> QED BY <1>1, <1>2, <2>1, PriorityKeeps DEF Donate
<1>3. CASE t \in ReadyThreads
  <2>1. isReady(readyLists, t, old)
        BY <1>3, ReadyIsFound
  <2>2. /\ mid \in [Priority -> Seq(Thread)]
        /\ Exact(mid, ReadyThreads \ {t}, priority)
        BY <1>1, <2>1, RemoveExact, RemoveType DEF SchedInv, TypeOK, ReadyThreads
  <2>3. /\ priority' = [priority EXCEPT ![t] = new]
        /\ readyLists' = addToPriorityList(mid, t, new)
        /\ UNCHANGED <<currentThread, status, threadToBeDestroyed, life>>
        BY <2>1 DEF Donate
  <2>4. priority'[t] = new /\ \A u \in ReadyThreads \ {t} : priority'[u] = priority[u]
        BY <2>3 DEF SchedInv, TypeOK, ReadyThreads
  <2> HIDE DEF mid, new, old
  <2>5. Exact(mid, ReadyThreads \ {t}, priority')
        BY <2>2, <2>4, PriorityExact
  <2>6. Exact(addToPriorityList(mid, t, priority'[t]), (ReadyThreads \ {t}) \cup {t}, priority')
        BY <1>1, <2>2, <2>4, <2>5, AddExact DEF ReadyThreads
  <2>7. (ReadyThreads \ {t}) \cup {t} = ReadyThreads /\ ReadyThreads' = ReadyThreads
        BY <1>3, <2>3 DEF ReadyThreads
  <2>8. Exact(readyLists, ReadyThreads, priority)'
        BY <2>3, <2>4, <2>6, <2>7 DEF Exact, Sound, Injective, Complete
  <2>9. TypeOK' /\ PrioritiesInRange'
    <3>1. new \in Int
          BY <1>1, SchedulerAssumption DEF Priority, SchedulerAssumption
    <3>2. readyLists' \in [Priority -> Seq(Thread)]
          BY <2>2, <2>3, AddType
    <3> QED BY <1>1, <2>3, <3>1, <3>2 DEF SchedInv, TypeOK, PrioritiesInRange
  <2>10. NoCarcassRuns' /\ LifeMatchesStatus'
        BY <2>3 DEF SchedInv, NoCarcassRuns, LifeMatchesStatus
  <2> QED BY <2>8, <2>9, <2>10 DEF SchedInv
<1> QED BY <1>2, <1>3

(* Taking the next thread off the lists, as Yield, Sleep and the idle loop *)
(* do.                                                                     *)
LEMMA NextIsReady ==
    ASSUME SchedInv, AnyReady
    PROVE  /\ FindNextToRun \in ReadyThreads
           /\ Dequeued \in [Priority -> Seq(Thread)]
           /\ Exact(Dequeued, ReadyThreads \ {FindNextToRun}, priority)
BY FindNextToRunFinds, DequeueExact
   DEF SchedInv, TypeOK, Dequeued, FindNextToRun, ReadyThreads

LEMMA YieldKeeps ==
    ASSUME SchedInv, Yield
    PROVE  SchedInv'
<1> DEFINE next == FindNextToRun
           cur == currentThread
           st == [status EXCEPT ![cur] = "READY"]
           rl == ReadyToRun(Dequeued, cur)
<1>1. /\ next \in ReadyThreads
      /\ Dequeued \in [Priority -> Seq(Thread)]
      /\ Exact(Dequeued, ReadyThreads \ {next}, priority)
      BY NextIsReady DEF Yield
<1>2. cur \in Thread /\ cur \notin ReadyThreads /\ priority[cur] \in Priority
      BY DEF SchedInv, TypeOK, PrioritiesInRange, Yield, Running, ReadyThreads
<1>3. rl \in [Priority -> Seq(Thread)] /\ Exact(rl, (ReadyThreads \ {next}) \cup {cur}, priority)
      BY <1>1, <1>2, AddType, AddExact DEF ReadyToRun, ReadyThreads
<1>4. (ReadyThreads \ {next}) \cup {cur} = {t \in Thread : st[t] = "READY"} \ {next}
      BY <1>1, <1>2 DEF SchedInv, TypeOK, ReadyThreads
<1>5. /\ st \in [Thread -> Status]
      /\ next \in Thread
      /\ st[next] = "READY"
      /\ \A t \in Thread : st[t] # "RUNNING"
      /\ \A t \in Thread : life[t] \in {"finished", "deleted"} => st[t] = "BLOCKED"
      /\ \A t \in Thread : life[t] = "created" => st[t] = "JUST_CREATED"
      BY <1>1, <1>2 DEF SchedInv, TypeOK, NoCarcassRuns, LifeMatchesStatus, Yield,
                        Running, Status, ReadyThreads
<1>6. /\ life \in [Thread -> Life]
      /\ threadToBeDestroyed \in Thread \cup {NoThread}
      /\ threadToBeDestroyed \in Thread => life[threadToBeDestroyed] = "finished"
      BY DEF SchedInv, TypeOK, LifeMatchesStatus
<1>7. UNCHANGED priority /\ Run(next, rl, st, life, threadToBeDestroyed)
      BY DEF Yield
<1>8. Exact(rl, {t \in Thread : st[t] = "READY"} \ {next}, priority)
      BY <1>3, <1>4
<1> HIDE DEF next, st, rl
<1> QED BY <1>3, <1>5, <1>6, <1>7, <1>8, RunKeeps DEF SchedInv

LEMMA IdleDispatchKeeps ==
    ASSUME SchedInv, IdleDispatch
    PROVE  SchedInv'
<1> DEFINE next == FindNextToRun
<1>1. /\ next \in ReadyThreads
      /\ Dequeued \in [Priority -> Seq(Thread)]
      /\ Exact(Dequeued, {t \in Thread : status[t] = "READY"} \ {next}, priority)
      BY NextIsReady DEF IdleDispatch, ReadyThreads
<1>2. /\ next \in Thread
      /\ status[next] = "READY"
      /\ \A t \in Thread : status[t] # "RUNNING"
      BY <1>1 DEF SchedInv, NoCarcassRuns, IdleDispatch, Idle, Running, ReadyThreads
<1>3. UNCHANGED priority /\ Run(next, Dequeued, status, life, threadToBeDestroyed)
      BY DEF IdleDispatch
<1> HIDE DEF next
<1> QED BY <1>1, <1>2, <1>3, RunKeeps
        DEF SchedInv, TypeOK, NoCarcassRuns, LifeMatchesStatus

LEMMA SchedInitInv == Init => SchedInv
<1> SUFFICES ASSUME Init PROVE SchedInv
    OBVIOUS
<1>1. TypeOK
      BY InitType
<1>2. PrioritiesInRange
      BY SchedulerAssumption DEF Init, PrioritiesInRange, SchedulerAssumption, Priority
<1>3. ReadyThreads = {} /\ \A p \in Priority : Len(readyLists[p]) = 0
      BY DEF Init, ReadyThreads
<1>4. Exact(readyLists, ReadyThreads, priority)
      BY <1>3 DEF Exact, Sound, Injective, Complete
<1>5. NoCarcassRuns /\ LifeMatchesStatus
      BY SchedulerAssumption DEF Init, NoCarcassRuns, LifeMatchesStatus, SchedulerAssumption
<1> QED BY <1>1, <1>2, <1>4, <1>5 DEF SchedInv

(* Every step but setPriority keeps the invariant, whatever the program    *)
(* asks for.                                                               *)
LEMMA StepKeeps ==
    ASSUME SchedInv,
           \/ Yield \/ Sleep \/ Finish \/ IdleDispatch \/ UNCHANGED vars
           \/ \E t \in Thread : Fork(t) \/ Wake(t) \/ Donate(t)
    PROVE  SchedInv'
<1>1. CASE Yield
      BY <1>1, YieldKeeps
<1>2. CASE Sleep
      BY <1>2, SleepKeeps DEF Sleep, SchedInv, TypeOK
<1>3. CASE Finish
  <2>1. [life EXCEPT ![currentThread] = "finished"] \in [Thread -> Life]
        BY DEF SchedInv, TypeOK, Life
  <2>2. currentThread \in Thread \cup {NoThread}
        BY DEF SchedInv, TypeOK
  <2> QED BY <1>3, <2>1, <2>2, SleepKeeps DEF Finish
<1>4. CASE IdleDispatch
      BY <1>4, IdleDispatchKeeps
<1>5. ASSUME NEW t \in Thread, Fork(t) PROVE SchedInv'
  <2>1. status[t] = "JUST_CREATED" /\ life'[t] = "forked"
        BY <1>5 DEF Fork, SchedInv, TypeOK, LifeMatchesStatus
  <2> QED BY <1>5, <2>1, ReadyToRunKeeps DEF Fork
<1>6. ASSUME NEW t \in Thread, Wake(t) PROVE SchedInv'
      BY <1>6, ReadyToRunKeeps DEF Wake
<1>7. ASSUME NEW t \in Thread, Donate(t) PROVE SchedInv'
      BY <1>7, DonateKeeps
<1>8. CASE UNCHANGED vars
      BY <1>8 DEF vars, SchedInv, TypeOK, PrioritiesInRange, NoCarcassRuns,
                  LifeMatchesStatus, ReadyThreads, Exact, Sound, Injective, Complete
<1> QED BY <1>1, <1>2, <1>3, <1>4, <1>5, <1>6, <1>7, <1>8

LEMMA SchedInvHolds ==
    ASSUME RequestsInRange
    PROVE  Spec => []SchedInv
<1>1. SchedInv /\ [Next]_vars => SchedInv'
  <2> SUFFICES ASSUME SchedInv, [Next]_vars PROVE SchedInv'
      OBVIOUS
  <2>1. ASSUME NEW t \in Thread, NEW p \in RequestedPriority, SetPriority(t, p)
        PROVE  SchedInv'
    <3>1. Clamped(p) \in Priority
          BY SchedulerAssumption DEF RequestsInRange, Clamped, Priority, SchedulerAssumption
    <3>2. t \notin ReadyThreads
          BY <2>1 DEF SetPriority, Running, SchedInv, LifeMatchesStatus, ReadyThreads
    <3> QED BY <2>1, <3>1, <3>2, PriorityKeeps DEF SetPriority
  <2> QED BY <2>1, StepKeeps DEF Next
<1> QED BY <1>1, SchedInitInv, PTL DEF Spec

(* For any threads and priorities, and any program that asks for           *)
(* priorities below PRIORITY_SIZE: queued threads are READY and on the     *)
(* list of their priority, no thread is queued twice, and no READY thread  *)
(* is off the lists (scheduler.cc:42-82).                                  *)
THEOREM ReadyListsAreExact ==
    ASSUME RequestsInRange
    PROVE  Spec => []ReadyListsAreRight
<1>1. SchedInv => ReadyListsAreRight
      BY DEF SchedInv, Exact, Sound, Injective, Complete, ReadyThreads, Slots,
             ReadyListsAreRight, ListedThreadsAreReady, NoThreadQueuedTwice, ReadyThreadsAreListed
<1> QED BY <1>1, SchedInvHolds, PTL

(* Under the same hypothesis nobody runs on, or is queued with, a stack    *)
(* that Run has freed or is about to free (thread.cc:72, scheduler.cc:137). *)
THEOREM CarcassesDoNotRun ==
    ASSUME RequestsInRange
    PROVE  Spec => []NoCarcassRuns
<1>1. SchedInv => NoCarcassRuns
      BY DEF SchedInv
<1> QED BY <1>1, SchedInvHolds, PTL

(* The head of the highest list in use outranks every READY thread.        *)
LEMMA NextOutranks ==
    ASSUME SchedInv, AnyReady
    PROVE  /\ status[FindNextToRun] = "READY"
           /\ \A t \in Thread : status[t] = "READY" => priority[t] <= priority[FindNextToRun]
<1> DEFINE top == TopPriority
           next == FindNextToRun
<1>1. /\ top \in Priority /\ readyLists[top] # <<>> /\ readyLists[top] \in Seq(Thread)
      /\ \A q \in Priority : q > top => readyLists[q] = <<>>
      /\ next \in ReadyThreads
      BY FindNextToRunFinds, NextIsReady DEF SchedInv, TypeOK
<1>2. 1 \in 1 .. Len(readyLists[top]) /\ next = readyLists[top][1]
      BY <1>1 DEF FindNextToRun
<1>3. priority[next] = top
      BY <1>1, <1>2 DEF SchedInv, Exact, Sound
<1>4. ASSUME NEW t \in Thread, status[t] = "READY" PROVE priority[t] <= top
  <2>1. PICK p \in Priority : \E i \in 1 .. Len(readyLists[p]) : readyLists[p][i] = t
        BY <1>4 DEF SchedInv, Exact, Complete, ReadyThreads
  <2>2. priority[t] = p /\ readyLists[p] # <<>>
        BY <2>1 DEF SchedInv, Exact, Sound
  <2>3. ~(p > top)
        BY <1>1, <2>1, <2>2
  <2> QED BY <1>1, <2>1, <2>2, <2>3, SchedulerAssumption DEF SchedulerAssumption, Priority
<1> HIDE DEF top, next
<1>5. status[next] = "READY"
      BY <1>1 DEF ReadyThreads
<1> QED BY <1>3, <1>4, <1>5 DEF next

(* Every context switch, whether from Yield, Sleep, Finish or the idle     *)
(* loop, goes to a READY thread that no READY thread outranks: donation,   *)
(* preemption and wake-ups never leave a stale list entry for              *)
(* FindNextToRun to prefer (scheduler.cc:66-82).                           *)
THEOREM SwitchesAreToHighest ==
    ASSUME RequestsInRange
    PROVE  Spec => SwitchesToHighest
<1>1. ASSUME SchedInv, [Next]_vars, currentThread' # currentThread
      PROVE  /\ status[currentThread'] = "READY"
             /\ \A t \in Thread :
                   status[t] = "READY" => priority[t] <= priority[currentThread']
  <2>1. AnyReady /\ currentThread' = FindNextToRun
    <3>1. CASE Yield
          BY <3>1 DEF Yield, Run
    <3>2. CASE Sleep
          BY <3>2, <1>1 DEF Sleep, SleepWith, Run
    <3>3. CASE Finish
          BY <3>3, <1>1 DEF Finish, SleepWith, Run
    <3>4. CASE IdleDispatch
          BY <3>4 DEF IdleDispatch, Run
    <3>5. ASSUME NEW t \in Thread, Fork(t) \/ Wake(t) \/ Donate(t) PROVE FALSE
          BY <3>5, <1>1 DEF Fork, Wake, Donate
    <3>6. ASSUME NEW t \in Thread, NEW p \in RequestedPriority, SetPriority(t, p) PROVE FALSE
          BY <3>6, <1>1 DEF SetPriority
    <3>7. CASE UNCHANGED vars
          BY <3>7, <1>1 DEF vars
    <3> QED BY <1>1, <3>1, <3>2, <3>3, <3>4, <3>5, <3>6, <3>7 DEF Next
  <2> QED BY <1>1, <2>1, NextOutranks
<1>2. SchedInv /\ [Next]_vars
        => [currentThread' # currentThread =>
              /\ status[currentThread'] = "READY"
              /\ \A t \in Thread :
                    status[t] = "READY" => priority[t] <= priority[currentThread']]_vars
      BY <1>1
<1> QED BY <1>2, SchedInvHolds, PTL DEF Spec, SwitchesToHighest

-----------------------------------------------------------------------------
(* Semaphore. *)

LEMMA SemInitType == SemInit => SemTypeOK
<1> SUFFICES ASSUME SemInit PROVE SemTypeOK
    OBVIOUS
<1>1. TypeOK
      BY InitType DEF SemInit
<1>2. <<>> \in Seq(Thread)
      BY EmptySeq
<1> QED BY <1>1, <1>2, SemaphoreAssumption DEF SemaphoreAssumption, SemInit, SemTypeOK

LEMMA WakeOneType ==
    ASSUME SemTypeOK, NEW s \in Sem, VBody(s)
    PROVE  SemTypeOK'
<1>1. value' \in [Sem -> Nat]
      BY DEF SemTypeOK, VBody
<1>2. CASE queue[s] = <<>>
      BY <1>1, <1>2 DEF SemTypeOK, TypeOK, VBody
<1>3. CASE queue[s] # <<>>
  <2>1. queue[s] \in Seq(Thread)
        BY DEF SemTypeOK
  <2>2. Head(queue[s]) \in Thread /\ Tail(queue[s]) \in Seq(Thread)
        BY <1>3, <2>1, HeadTailProperties
  <2>3. readyLists' = addToPriorityList(readyLists, Head(queue[s]), priority[Head(queue[s])])
        BY <1>3 DEF VBody, WakeOne, ReadyToRun
  <2>4. readyLists' \in [Priority -> Seq(Thread)]
        BY <2>2, <2>3, AddType DEF SemTypeOK, TypeOK
  <2>5. queue' \in [Sem -> Seq(Thread)] /\ status' \in [Thread -> Status]
        BY <1>3, <2>2 DEF SemTypeOK, TypeOK, VBody, WakeOne, Status
  <2> QED BY <1>1, <2>4, <2>5 DEF SemTypeOK, TypeOK, VBody
<1> QED BY <1>2, <1>3

LEMMA PType ==
    ASSUME SemTypeOK, NEW s \in Sem, P(s)
    PROVE  SemTypeOK'
<1>1. CASE PBlocks(s)
  <2>1. TypeOK'
        BY <1>1, SleepType DEF SemTypeOK, TypeOK, PBlocks
  <2>2. queue' \in [Sem -> Seq(Thread)]
        BY <1>1, AppendProperties DEF SemTypeOK, TypeOK, PBlocks
  <2> QED BY <1>1, <2>1, <2>2 DEF SemTypeOK, TypeOK, PBlocks
<1>2. CASE PTakes(s)
  <2>1. value' \in [Sem -> Nat]
        BY <1>2 DEF SemTypeOK, PTakes
  <2> QED BY <1>2, <2>1 DEF SemTypeOK, TypeOK, PTakes, vars
<1> QED BY <1>1, <1>2 DEF P

(* Preempt and Start are steps of the scheduler. *)
LEMMA SwitchType ==
    ASSUME SemTypeOK, [Next]_vars, UNCHANGED <<value, queue, inP>>
    PROVE  SemTypeOK'
<1>1. TypeOK'
      BY NextType DEF SemTypeOK
<1> QED BY <1>1 DEF SemTypeOK

-----------------------------------------------------------------------------
(* What a scheduler step does to who is blocked and who is alive. *)

Gone == {"finished", "deleted"}

(* A running thread has begun; so has a thread inside P. *)
RunningHasBegun == \A t \in Thread : status[t] = "RUNNING" => life[t] = "begun"
SleeperHasBegun == \A t \in Thread : inP[t] # NoSem => life[t] = "begun"

SemInv ==
    SchedInv /\ SemTypeOK /\ SleepersAreQueued /\ RunningHasBegun /\ SleeperHasBegun

(* Blocked threads stay blocked and others stay unblocked; threads that    *)
(* began stay so, threads that are gone too.                               *)
LEMMA RunEffect ==
    ASSUME SchedInv, NEW st \in [Thread -> Status], NEW lf \in [Thread -> Life],
           NEW next \in Thread, st[next] = "READY", NEW rl,
           NEW carcass, carcass \in Thread => lf[carcass] = "finished",
           lf[next] \notin Gone,
           \A t \in Thread : st[t] # "RUNNING",
           Run(next, rl, st, lf, carcass)
    PROVE  /\ \A t \in Thread : status'[t] = "BLOCKED" <=> st[t] = "BLOCKED"
           /\ \A t \in Thread : lf[t] = "begun" => life'[t] = "begun"
           /\ \A t \in Thread : lf[t] \in Gone => life'[t] \in Gone
           /\ RunningHasBegun'
BY DEF Run, Gone, RunningHasBegun

LEMMA SleepEffect ==
    ASSUME SchedInv, Running,
           NEW lf \in [Thread -> Life], NEW carcass,
           carcass \in Thread => lf[carcass] = "finished",
           \A t \in Thread : lf[t] \in Gone => t = currentThread \/ life[t] \in Gone,
           SleepWith(lf, carcass)
    PROVE  /\ \A t \in Thread :
                 status'[t] = "BLOCKED" <=> status[t] = "BLOCKED" \/ t = currentThread
           /\ \A t \in Thread : lf[t] = "begun" => life'[t] = "begun"
           /\ \A t \in Thread : lf[t] \in Gone => life'[t] \in Gone
           /\ RunningHasBegun'
<1> DEFINE st == [status EXCEPT ![currentThread] = "BLOCKED"]
<1>1. /\ st \in [Thread -> Status]
      /\ \A t \in Thread : st[t] # "RUNNING"
      /\ \A t \in Thread : st[t] = "BLOCKED" <=> status[t] = "BLOCKED" \/ t = currentThread
      BY DEF SchedInv, TypeOK, NoCarcassRuns, Running, Status
<1>2. CASE AnyReady
  <2> DEFINE next == FindNextToRun
             rl == Dequeued
  <2>1. next \in Thread /\ status[next] = "READY"
        BY <1>2, NextIsReady DEF ReadyThreads
  <2>2. st[next] = "READY" /\ lf[next] \notin Gone
        BY <2>1 DEF SchedInv, TypeOK, NoCarcassRuns, Running, Gone
  <2>3. Run(next, rl, st, lf, carcass)
        BY <1>2 DEF SleepWith
  <2> HIDE DEF next, rl, st
  <2> QED BY <1>1, <2>1, <2>2, <2>3, RunEffect
<1>3. CASE ~AnyReady
      BY <1>1, <1>3 DEF SleepWith, RunningHasBegun
<1> QED BY <1>2, <1>3

(* Yield and the idle loop block nobody. *)
LEMMA DispatchEffect ==
    ASSUME SchedInv, Yield \/ IdleDispatch
    PROVE  /\ \A t \in Thread : status'[t] = "BLOCKED" <=> status[t] = "BLOCKED"
           /\ \A t \in Thread : life[t] = "begun" => life'[t] = "begun"
           /\ \A t \in Thread : life[t] \in Gone => life'[t] \in Gone
           /\ RunningHasBegun'
<1> DEFINE next == FindNextToRun
           yst == [status EXCEPT ![currentThread] = "READY"]
<1>1. next \in Thread /\ status[next] = "READY"
      BY NextIsReady DEF ReadyThreads, Yield, IdleDispatch
<1>2. /\ life[next] \notin Gone
      /\ life \in [Thread -> Life]
      /\ threadToBeDestroyed \in Thread => life[threadToBeDestroyed] = "finished"
      BY <1>1 DEF SchedInv, TypeOK, NoCarcassRuns, LifeMatchesStatus, Gone
<1>3. CASE Yield
  <2>1. /\ yst \in [Thread -> Status]
        /\ \A t \in Thread : yst[t] # "RUNNING"
        /\ \A t \in Thread : yst[t] = "BLOCKED" <=> status[t] = "BLOCKED"
        /\ yst[next] = "READY"
        BY <1>1, <1>3 DEF SchedInv, TypeOK, NoCarcassRuns, Yield, Running, Status
  <2>2. Run(next, ReadyToRun(Dequeued, currentThread), yst, life, threadToBeDestroyed)
        BY <1>3 DEF Yield
  <2> HIDE DEF next, yst
  <2> QED BY <1>1, <1>2, <2>1, <2>2, RunEffect
<1>4. CASE IdleDispatch
  <2>1. status \in [Thread -> Status] /\ \A t \in Thread : status[t] # "RUNNING"
        BY <1>4 DEF SchedInv, TypeOK, NoCarcassRuns, IdleDispatch, Idle, Running
  <2>2. Run(next, Dequeued, status, life, threadToBeDestroyed)
        BY <1>4 DEF IdleDispatch
  <2> HIDE DEF next
  <2> QED BY <1>1, <1>2, <2>1, <2>2, RunEffect
<1> QED BY <1>3, <1>4

-----------------------------------------------------------------------------
(* P puts the running thread, which is in no queue, at the end of one. *)
LEMMA PBlocksKeeps ==
    ASSUME SemInv, NEW s \in Sem, Running, inP[currentThread] \in {NoSem, s}, PBlocks(s)
    PROVE  SemInv' /\ Sleep
<1> DEFINE c == currentThread
           n == Len(queue[s])
<1>1. /\ c \in Thread /\ status[c] = "RUNNING"
      /\ queue \in [Sem -> Seq(Thread)] /\ inP \in [Thread -> Sem \cup {NoSem}]
      /\ queue[s] \in Seq(Thread) /\ n \in Nat
      BY LenProperties DEF SemInv, SemTypeOK, TypeOK, Running
<1>2. Sleep
      BY DEF PBlocks, Sleep
<1>3. SchedInv'
      BY <1>2, StepKeeps DEF SemInv
<1>4. SemTypeOK'
      BY PType DEF SemInv, P
<1>5. /\ \A t \in Thread : status'[t] = "BLOCKED" <=> status[t] = "BLOCKED" \/ t = c
      /\ \A t \in Thread : life[t] = "begun" => life'[t] = "begun"
      /\ \A t \in Thread : life[t] \in Gone => life'[t] \in Gone
      /\ RunningHasBegun'
      BY SleepEffect DEF SemInv, SchedInv, TypeOK, LifeMatchesStatus, PBlocks
<1>6. /\ queue' = [queue EXCEPT ![s] = Append(@, c)]
      /\ inP' = [inP EXCEPT ![c] = s]
      BY DEF PBlocks
<1>7. /\ Len(queue'[s]) = n + 1
      /\ \A i \in 1 .. n : queue'[s][i] = queue[s][i]
      /\ queue'[s][n + 1] = c
      /\ \A k \in Sem \ {s} : queue'[k] = queue[k]
      BY <1>1, <1>6, AppendProperties
<1>8. \A k \in Sem : ~Queued(c, k)
      BY <1>1 DEF SemInv, SleepersAreQueued
<1>9. \A t \in Thread, k \in Sem :
         Queued(t, k)' <=> Queued(t, k) \/ (t = c /\ k = s)
  <2> SUFFICES ASSUME NEW t \in Thread, NEW k \in Sem
               PROVE  Queued(t, k)' <=> Queued(t, k) \/ (t = c /\ k = s)
      OBVIOUS
  <2>1. CASE k # s
        BY <1>7, <2>1 DEF Queued
  <2>2. CASE k = s
    <3>1. \A i \in 1 .. n + 1 : i \in 1 .. n \/ i = n + 1
          BY <1>1
    <3>2. 1 .. n \subseteq 1 .. n + 1 /\ n + 1 \in 1 .. n + 1
          BY <1>1
    <3>3. Queued(t, s)' <=> \E i \in 1 .. n + 1 : queue'[s][i] = t
          BY <1>7 DEF Queued
    <3> QED BY <1>7, <2>2, <3>1, <3>2, <3>3 DEF Queued
  <2> QED BY <2>1, <2>2
<1>10. SleepersAreQueued'
  <2>1. ASSUME NEW k \in Sem, NEW i \in 1 .. Len(queue'[k]), NEW j \in 1 .. Len(queue'[k]),
               queue'[k][i] = queue'[k][j]
        PROVE  i = j
    <3>1. CASE k # s
          BY <1>7, <2>1, <3>1 DEF SemInv, SleepersAreQueued
    <3>2. CASE k = s
      <4>1. \A m \in 1 .. n : queue[s][m] # c
            BY <1>8 DEF Queued
      <4>2. \A m \in 1 .. Len(queue'[k]) : m \in 1 .. n \/ m = n + 1
            BY <1>1, <1>7, <3>2
      <4>3. (i \in 1 .. n \/ i = n + 1) /\ (j \in 1 .. n \/ j = n + 1)
            BY <2>1, <4>2
      <4>4. \A a, b \in 1 .. n : queue[s][a] = queue[s][b] => a = b
            BY DEF SemInv, SleepersAreQueued
      <4> QED BY <1>7, <2>1, <3>2, <4>1, <4>3, <4>4
    <3> QED BY <3>1, <3>2
  <2>2. ASSUME NEW t \in Thread, NEW k \in Sem
        PROVE  Queued(t, k)' <=> inP'[t] = k /\ status'[t] = "BLOCKED"
    <3>1. CASE t = c
          BY <1>1, <1>5, <1>6, <1>8, <1>9, <3>1
    <3>2. CASE t # c
          BY <1>1, <1>5, <1>6, <1>9, <3>2 DEF SemInv, SleepersAreQueued
    <3> QED BY <3>1, <3>2
  <2>3. ASSUME NEW t \in Thread, status'[t] = "BLOCKED"
        PROVE  inP'[t] # NoSem \/ life'[t] \in Gone
        BY <1>1, <1>5, <1>6, <2>3, SemaphoreAssumption
        DEF SemInv, SleepersAreQueued, Gone, SemaphoreAssumption
  <2> QED BY <2>1, <2>2, <2>3 DEF SleepersAreQueued, Gone
<1>11. SleeperHasBegun'
       BY <1>1, <1>5, <1>6 DEF SemInv, RunningHasBegun, SleeperHasBegun
<1> QED BY <1>2, <1>3, <1>4, <1>5, <1>10, <1>11 DEF SemInv

(* P that finds a unit takes the running thread out of P. *)
LEMMA PTakesKeeps ==
    ASSUME SemInv, NEW s \in Sem, Running, inP[currentThread] \in {NoSem, s}, PTakes(s)
    PROVE  SemInv' /\ UNCHANGED vars
<1>1. currentThread \in Thread /\ status[currentThread] = "RUNNING"
      BY DEF SemInv, SchedInv, TypeOK, Running
<1>2. /\ UNCHANGED vars /\ UNCHANGED <<status, life, queue>>
      /\ inP' = [inP EXCEPT ![currentThread] = NoSem]
      BY DEF PTakes, vars
<1>3. SchedInv'
      BY <1>2, StepKeeps DEF SemInv
<1>4. SemTypeOK'
      BY PType DEF SemInv, P
<1>5. inP \in [Thread -> Sem \cup {NoSem}]
      BY DEF SemInv, SemTypeOK
<1>6. SleepersAreQueued'
  <2>1. \A t \in Thread, k \in Sem : Queued(t, k)' <=> Queued(t, k)
        BY <1>2 DEF Queued
  <2> QED BY <1>1, <1>2, <1>5, <2>1, SemaphoreAssumption
          DEF SemInv, SleepersAreQueued, SemaphoreAssumption
<1>7. RunningHasBegun' /\ SleeperHasBegun'
      BY <1>1, <1>2, <1>5 DEF SemInv, RunningHasBegun, SleeperHasBegun
<1> QED BY <1>2, <1>3, <1>4, <1>6, <1>7 DEF SemInv

(* V takes the oldest sleeper, which is in no other place, off the queue. *)
LEMMA VKeeps ==
    ASSUME SemInv, NEW s \in Sem, VBody(s)
    PROVE  /\ SemInv'
           /\ queue[s] = <<>> => UNCHANGED vars /\ queue' = queue
           /\ queue[s] # <<>> => \E t \in Thread :
                /\ Wake(t) /\ Queued(t, s)
                /\ \A u \in Thread, k \in Sem :
                      Queued(u, k)' <=> Queued(u, k) /\ ~(u = t /\ k = s)
<1>1. SemTypeOK'
      BY WakeOneType DEF SemInv
<1>2. CASE queue[s] = <<>>
  <2>1. UNCHANGED vars /\ UNCHANGED <<status, life, queue, inP>>
        BY <1>2 DEF VBody, vars
  <2>2. SchedInv'
        BY <2>1, StepKeeps DEF SemInv
  <2>3. \A t \in Thread, k \in Sem : Queued(t, k)' <=> Queued(t, k)
        BY <2>1 DEF Queued
  <2>4. SleepersAreQueued' /\ RunningHasBegun' /\ SleeperHasBegun'
        BY <2>1, <2>3 DEF SemInv, SleepersAreQueued, RunningHasBegun, SleeperHasBegun
  <2> QED BY <1>1, <1>2, <2>1, <2>2, <2>4 DEF SemInv
<1>3. CASE queue[s] # <<>>
  <2> DEFINE t == Head(queue[s])
             n == Len(queue[s])
  <2>1. queue[s] \in Seq(Thread) /\ n \in Nat \ {0} /\ t \in Thread /\ t = queue[s][1]
        BY <1>3, HeadTailProperties, LenProperties, EmptySeq DEF SemInv, SemTypeOK
  <2>2. Queued(t, s)
        BY <2>1 DEF Queued
  <2>3. inP[t] = s /\ status[t] = "BLOCKED" /\ life[t] = "begun"
        BY <2>1, <2>2, SemaphoreAssumption
        DEF SemInv, SleepersAreQueued, SleeperHasBegun, SemaphoreAssumption
  <2>4. Wake(t)
        BY <1>3, <2>3 DEF VBody, WakeOne, Wake
  <2>5. SchedInv'
        BY <2>1, <2>4, StepKeeps DEF SemInv
  <2>6. /\ queue' = [queue EXCEPT ![s] = Tail(@)]
        /\ status' = [status EXCEPT ![t] = "READY"]
        /\ UNCHANGED <<life, inP>>
        BY <1>3 DEF VBody, WakeOne
  <2>7. /\ Len(queue'[s]) = n - 1
        /\ \A i \in 1 .. n - 1 : queue'[s][i] = queue[s][i + 1]
        /\ \A k \in Sem \ {s} : queue'[k] = queue[k]
        BY <1>3, <2>1, <2>6, HeadTailProperties DEF SemInv, SemTypeOK
  <2>8. \A i, j \in 1 .. n : queue[s][i] = queue[s][j] => i = j
        BY DEF SemInv, SleepersAreQueued
  <2>9. ASSUME NEW u \in Thread, NEW k \in Sem
        PROVE  Queued(u, k)' <=> Queued(u, k) /\ ~(u = t /\ k = s)
    <3>1. CASE k # s
          BY <2>7, <3>1 DEF Queued
    <3>2. CASE k = s
      <4>1. ASSUME Queued(u, s)' PROVE Queued(u, s) /\ u # t
        <5>1. PICK i \in 1 .. n - 1 : queue[s][i + 1] = u
              BY <2>1, <2>7, <4>1 DEF Queued
        <5>2. i + 1 \in 1 .. n /\ i + 1 # 1 /\ 1 \in 1 .. n
              BY <2>1, <5>1
        <5> QED BY <2>1, <2>8, <5>1, <5>2 DEF Queued
      <4>2. ASSUME Queued(u, s), u # t PROVE Queued(u, s)'
        <5>1. PICK i \in 1 .. n : queue[s][i] = u
              BY <4>2 DEF Queued
        <5>2. i - 1 \in 1 .. n - 1 /\ (i - 1) + 1 = i
              BY <2>1, <4>2, <5>1
        <5> QED BY <2>7, <5>1, <5>2 DEF Queued
      <4> QED BY <3>2, <4>1, <4>2
    <3> QED BY <3>1, <3>2
  <2>10. SleepersAreQueued'
    <3>1. ASSUME NEW k \in Sem, NEW i \in 1 .. Len(queue'[k]), NEW j \in 1 .. Len(queue'[k]),
                 queue'[k][i] = queue'[k][j]
          PROVE  i = j
      <4>1. CASE k # s
            BY <2>7, <3>1, <4>1 DEF SemInv, SleepersAreQueued
      <4>2. CASE k = s
        <5>1. /\ i \in Int /\ j \in Int /\ i + 1 \in 1 .. n /\ j + 1 \in 1 .. n
              /\ queue[s][i + 1] = queue[s][j + 1]
              BY <2>1, <2>7, <3>1, <4>2
        <5>2. i + 1 = j + 1
              BY <2>8, <5>1
        <5> QED BY <5>1, <5>2
      <4> QED BY <4>1, <4>2
    <3>2. \A u \in Thread : status'[u] = IF u = t THEN "READY" ELSE status[u]
          BY <2>1, <2>6 DEF SemInv, SchedInv, TypeOK
    <3>3. \A u \in Thread, k \in Sem : Queued(u, k)' <=> inP'[u] = k /\ status'[u] = "BLOCKED"
          BY <2>3, <2>6, <2>9, <3>2 DEF SemInv, SleepersAreQueued
    <3>4. \A u \in Thread : status'[u] = "BLOCKED" => inP'[u] # NoSem \/ life'[u] \in Gone
          BY <2>6, <3>2 DEF SemInv, SleepersAreQueued, Gone
    <3> QED BY <3>1, <3>3, <3>4 DEF SleepersAreQueued, Gone
  <2>11. RunningHasBegun' /\ SleeperHasBegun'
         BY <2>1, <2>6 DEF SemInv, SchedInv, TypeOK, RunningHasBegun, SleeperHasBegun
  <2> QED BY <1>1, <1>3, <2>1, <2>2, <2>4, <2>5, <2>9, <2>10, <2>11 DEF SemInv
<1> QED BY <1>2, <1>3

(* Exit of a thread that is in no P, and the steps that block nobody. *)
LEMMA ExitKeeps ==
    ASSUME SemInv, Exit
    PROVE  SemInv'
<1> DEFINE c == currentThread
           lf == [life EXCEPT ![c] = "finished"]
<1>1. /\ c \in Thread /\ Running /\ inP[c] = NoSem /\ lf \in [Thread -> Life]
      /\ SleepWith(lf, c) /\ UNCHANGED <<value, queue, inP>>
      BY DEF Exit, Finish, InterruptsOn, SemInv, SchedInv, TypeOK, Life
<1>2. SchedInv'
      BY StepKeeps DEF SemInv, Exit
<1>3. SemTypeOK'
      BY <1>2 DEF SemInv, SchedInv, SemTypeOK, Exit
<1>4. /\ lf[c] = "finished"
      /\ \A t \in Thread : t # c => lf[t] = life[t]
      BY <1>1 DEF SemInv, SchedInv, TypeOK
<1>5. /\ \A t \in Thread : status'[t] = "BLOCKED" <=> status[t] = "BLOCKED" \/ t = c
      /\ \A t \in Thread : lf[t] = "begun" => life'[t] = "begun"
      /\ \A t \in Thread : lf[t] \in Gone => life'[t] \in Gone
      /\ RunningHasBegun'
  <2>1. \A t \in Thread : lf[t] \in Gone => t = c \/ life[t] \in Gone
        BY <1>4
  <2> HIDE DEF lf
  <2> QED BY <1>1, <1>4, <2>1, SleepEffect DEF SemInv
<1>6. \A t \in Thread, k \in Sem : Queued(t, k)' <=> Queued(t, k)
      BY <1>1 DEF Queued
<1>7. SleepersAreQueued'
  <2>1. ASSUME NEW t \in Thread, status'[t] = "BLOCKED"
        PROVE  inP'[t] # NoSem \/ life'[t] \in Gone
    <3>1. CASE t = c
          BY <1>4, <1>5, <3>1 DEF Gone
    <3>2. CASE t # c
          BY <1>1, <1>4, <1>5, <2>1, <3>2 DEF SemInv, SleepersAreQueued, Gone
    <3> QED BY <3>1, <3>2
  <2>2. \A t \in Thread, k \in Sem : Queued(t, k)' <=> inP'[t] = k /\ status'[t] = "BLOCKED"
        BY <1>1, <1>5, <1>6, SemaphoreAssumption
        DEF SemInv, SleepersAreQueued, SemaphoreAssumption
  <2> QED BY <1>1, <2>1, <2>2 DEF SemInv, SleepersAreQueued, Gone
<1>8. SleeperHasBegun'
      BY <1>1, <1>4, <1>5 DEF SemInv, SleeperHasBegun
<1> QED BY <1>2, <1>3, <1>5, <1>7, <1>8 DEF SemInv

LEMMA DispatchKeeps ==
    ASSUME SemInv, Preempt \/ Resume
    PROVE  SemInv'
<1>1. (Yield \/ IdleDispatch) /\ UNCHANGED <<value, queue, inP>>
      BY DEF Preempt, Resume
<1>2. SchedInv'
      BY <1>1, StepKeeps DEF SemInv
<1>3. SemTypeOK'
      BY <1>1, <1>2 DEF SemInv, SchedInv, SemTypeOK
<1>4. /\ \A t \in Thread : status'[t] = "BLOCKED" <=> status[t] = "BLOCKED"
      /\ \A t \in Thread : life[t] = "begun" => life'[t] = "begun"
      /\ \A t \in Thread : life[t] \in Gone => life'[t] \in Gone
      /\ RunningHasBegun'
      BY <1>1, DispatchEffect DEF SemInv
<1>5. \A t \in Thread, k \in Sem : Queued(t, k)' <=> Queued(t, k)
      BY <1>1 DEF Queued
<1>6. SleepersAreQueued' /\ SleeperHasBegun'
      BY <1>1, <1>4, <1>5 DEF SemInv, SleepersAreQueued, SleeperHasBegun, Gone
<1> QED BY <1>2, <1>3, <1>4, <1>6 DEF SemInv

LEMMA StartKeeps ==
    ASSUME SemInv, NEW t \in Thread, Start(t)
    PROVE  SemInv'
<1>1. Fork(t) /\ UNCHANGED <<value, queue, inP>>
      BY DEF Start
<1>2. SchedInv'
      BY <1>1, StepKeeps DEF SemInv
<1>3. SemTypeOK'
      BY <1>1, <1>2 DEF SemInv, SchedInv, SemTypeOK
<1>4. status[t] = "JUST_CREATED" /\ life[t] = "created"
      BY <1>1 DEF Fork, SemInv, SchedInv, LifeMatchesStatus
<1>5. /\ \A u \in Thread : status'[u] = IF u = t THEN "READY" ELSE status[u]
      /\ \A u \in Thread : life'[u] = IF u = t THEN "forked" ELSE life[u]
      BY <1>1 DEF Fork, SemInv, SchedInv, TypeOK
<1>6. \A u \in Thread, k \in Sem : Queued(u, k)' <=> Queued(u, k)
      BY <1>1 DEF Queued
<1>7. SleepersAreQueued' /\ SleeperHasBegun' /\ RunningHasBegun'
      BY <1>1, <1>4, <1>5, <1>6
      DEF SemInv, SleepersAreQueued, SleeperHasBegun, RunningHasBegun
<1> QED BY <1>2, <1>3, <1>7 DEF SemInv

LEMMA SemInitInv == SemInit => SemInv
<1> SUFFICES ASSUME SemInit PROVE SemInv
    OBVIOUS
<1>1. SchedInv /\ SemTypeOK
      BY SchedInitInv, SemInitType DEF SemInit
<1>2. \A s \in Sem : Len(queue[s]) = 0
      BY DEF SemInit
<1>3. SleepersAreQueued
      BY <1>2, SemaphoreAssumption
      DEF SemInit, Init, SleepersAreQueued, Queued, SemaphoreAssumption
<1>4. RunningHasBegun /\ SleeperHasBegun
      BY DEF SemInit, Init, RunningHasBegun, SleeperHasBegun
<1> QED BY <1>1, <1>3, <1>4 DEF SemInv

LEMMA SemNextInv ==
    ASSUME SemInv, [SemNext]_semVars
    PROVE  SemInv' /\ [Next]_vars
<1>1. ASSUME NEW s \in Sem, P(s) PROVE SemInv' /\ [Next]_vars
      BY <1>1, PBlocksKeeps, PTakesKeeps DEF P, Next
<1>2. ASSUME NEW s \in Sem, VBody(s) PROVE SemInv' /\ [Next]_vars
      BY <1>2, VKeeps DEF Next
<1>3. CASE Preempt \/ Resume
      BY <1>3, DispatchKeeps DEF Preempt, Resume, Next
<1>4. CASE Exit
      BY <1>4, ExitKeeps DEF Exit, Next
<1>5. ASSUME NEW t \in Thread, Start(t) PROVE SemInv' /\ [Next]_vars
      BY <1>5, StartKeeps DEF Start, Next
<1>6. CASE UNCHANGED semVars
  <2>1. UNCHANGED vars /\ UNCHANGED <<status, life, value, queue, inP>>
        BY <1>6 DEF semVars, vars
  <2>2. SchedInv'
        BY <2>1, StepKeeps DEF SemInv
  <2>3. \A u \in Thread, k \in Sem : Queued(u, k)' <=> Queued(u, k)
        BY <2>1 DEF Queued
  <2>4. SemTypeOK' /\ SleepersAreQueued' /\ SleeperHasBegun' /\ RunningHasBegun'
        BY <2>1, <2>2, <2>3
        DEF SemInv, SchedInv, SemTypeOK, SleepersAreQueued, SleeperHasBegun, RunningHasBegun
  <2> QED BY <2>1, <2>2, <2>4 DEF SemInv
<1> QED BY <1>1, <1>2, <1>3, <1>4, <1>5, <1>6, SemaphoreAssumption
        DEF SemNext, V, HandlerV, SemaphoreAssumption

(* Whatever the program does with its semaphores, and whenever handlers    *)
(* call V: the sleep queues hold exactly the threads asleep in P, each on  *)
(* the semaphore it waits for and once (semaphore.cc:60-93).               *)
THEOREM SleepQueuesAreExact == SemSpec => []SleepersAreQueued
<1>1. SemInv => SleepersAreQueued
      BY DEF SemInv
<1> QED BY <1>1, SemInitInv, SemNextInv, PTL DEF SemSpec

(* A program on semaphores is a program on the scheduler: P sleeps only    *)
(* the running thread, and V wakes only a thread that sleeps, so that what *)
(* holds of Scheduler.tla holds under every such program.                  *)
THEOREM SemaphoresUseScheduler == SemSpec => ImplementsScheduler
<1>1. SemInit => Init
      BY DEF SemInit
<1> QED BY <1>1, SemInitInv, SemNextInv, PTL DEF SemSpec, Spec, ImplementsScheduler

-----------------------------------------------------------------------------
(* Lost wake-ups.  Woken(s) loses a thread only when that thread takes a   *)
(* unit or finds none, and gains one with every V that finds a sleeper.    *)

LEMMA WakeupKept ==
    ASSUME IsFiniteSet(Thread), SemInv, SemInv', NoLostWakeup, [SemNext]_semVars
    PROVE  NoLostWakeup'
<1>1. \A s \in Sem : /\ IsFiniteSet(Woken(s)) /\ Cardinality(Woken(s)) \in Nat
                     /\ IsFiniteSet(Woken(s)') /\ Cardinality(Woken(s)') \in Nat
  <2> SUFFICES ASSUME NEW s \in Sem
               PROVE  IsFiniteSet(Woken(s)) /\ IsFiniteSet(Woken(s)')
      BY FS_CardinalityType
  <2>1. Woken(s) \subseteq Thread /\ Woken(s)' \subseteq Thread
        BY DEF Woken
  <2> QED BY <2>1, FS_Subset
<1>2. value \in [Sem -> Nat] /\ inP \in [Thread -> Sem \cup {NoSem}] /\ currentThread \in Thread
      BY DEF SemInv, SemTypeOK, TypeOK
<1>3. ASSUME UNCHANGED <<value, queue, inP>> PROVE NoLostWakeup'
  <2>1. \A s \in Sem : Woken(s)' = Woken(s)
        BY <1>3 DEF Woken, Queued
  <2> QED BY <1>3, <2>1 DEF NoLostWakeup
<1>4. ASSUME NEW s \in Sem, Running, inP[currentThread] \in {NoSem, s}, PBlocks(s)
      PROVE  NoLostWakeup'
  <2> SUFFICES ASSUME NEW k \in Sem, queue'[k] # <<>>
               PROVE  value'[k] <= Cardinality(Woken(k)')
      BY DEF NoLostWakeup
  <2>1. CASE k = s
        BY <1>1, <1>2, <1>4, <2>1 DEF PBlocks
  <2>2. CASE k # s
    <3>1. queue'[k] = queue[k] /\ value'[k] = value[k]
          BY <1>4, <2>2 DEF PBlocks, SemInv, SemTypeOK
    <3>2. \A t \in Thread : inP'[t] = k <=> inP[t] = k
          BY <1>2, <1>4, <2>2, SemaphoreAssumption DEF PBlocks, SemaphoreAssumption
    <3>3. Woken(k)' = Woken(k)
          BY <3>1, <3>2 DEF Woken, Queued
    <3> QED BY <3>1, <3>3 DEF NoLostWakeup
  <2> QED BY <2>1, <2>2
<1>5. ASSUME NEW s \in Sem, Running, inP[currentThread] \in {NoSem, s}, PTakes(s)
      PROVE  NoLostWakeup'
  <2> SUFFICES ASSUME NEW k \in Sem, queue'[k] # <<>>
               PROVE  value'[k] <= Cardinality(Woken(k)')
      BY DEF NoLostWakeup
  <2>1. /\ queue' = queue /\ value[s] # 0
        /\ value' = [value EXCEPT ![s] = @ - 1]
        /\ inP' = [inP EXCEPT ![currentThread] = NoSem]
        BY <1>5 DEF PTakes
  <2>2. value[k] <= Cardinality(Woken(k))
        BY <2>1 DEF NoLostWakeup
  <2>3. ~Queued(currentThread, s)
        BY <1>2, <1>5 DEF SemInv, SleepersAreQueued, Running
  <2>4. CASE k = s
    <3>1. Woken(s)' = Woken(s) \ {currentThread}
          BY <1>2, <1>5, <2>1, SemaphoreAssumption DEF Woken, Queued, SemaphoreAssumption
    <3>2. \/ Cardinality(Woken(s)') = Cardinality(Woken(s))
          \/ Cardinality(Woken(s)') = Cardinality(Woken(s)) - 1
          BY <1>1, <3>1, FS_RemoveElement
    <3>3. value'[s] = value[s] - 1
          BY <1>2, <2>1
    <3> QED BY <1>1, <1>2, <2>2, <2>4, <3>2, <3>3
  <2>5. CASE k # s
    <3>1. \A t \in Thread : inP'[t] = k <=> inP[t] = k
          BY <1>2, <1>5, <2>1, <2>5, SemaphoreAssumption DEF SemaphoreAssumption
    <3>2. Woken(k)' = Woken(k)
          BY <2>1, <3>1 DEF Woken, Queued
    <3> QED BY <1>2, <2>1, <2>2, <2>5, <3>2
  <2> QED BY <2>4, <2>5
<1>6. ASSUME NEW s \in Sem, VBody(s) PROVE NoLostWakeup'
  <2> SUFFICES ASSUME NEW k \in Sem, queue'[k] # <<>>
               PROVE  value'[k] <= Cardinality(Woken(k)')
      BY DEF NoLostWakeup
  <2>1. /\ value' = [value EXCEPT ![s] = @ + 1] /\ inP' = inP
        BY <1>6 DEF VBody
  <2>2. CASE k = s
    <3>1. queue[s] # <<>>
          BY <1>6, <2>2, VKeeps
    <3>2. PICK t \in Thread :
             /\ Queued(t, s)
             /\ \A u \in Thread : Queued(u, s)' <=> Queued(u, s) /\ u # t
          BY <1>6, <3>1, VKeeps
    <3>3. inP[t] = s
          BY <3>2 DEF SemInv, SleepersAreQueued
    <3>4. Woken(s)' = Woken(s) \cup {t} /\ t \notin Woken(s)
          BY <2>1, <3>2, <3>3 DEF Woken
    <3>5. Cardinality(Woken(s)') = Cardinality(Woken(s)) + 1
          BY <1>1, <3>4, FS_AddElement
    <3>6. value'[s] = value[s] + 1 /\ value[s] <= Cardinality(Woken(s))
          BY <1>2, <2>1, <3>1 DEF NoLostWakeup
    <3> QED BY <1>1, <1>2, <2>2, <3>5, <3>6
  <2>3. CASE k # s
    <3>1. queue'[k] = queue[k]
          BY <1>6, <2>3 DEF VBody, WakeOne, SemInv, SemTypeOK
    <3>2. Woken(k)' = Woken(k)
          BY <2>1, <3>1 DEF Woken, Queued
    <3> QED BY <1>2, <2>1, <2>3, <3>1, <3>2 DEF NoLostWakeup
  <2> QED BY <2>2, <2>3
<1> QED BY <1>3, <1>4, <1>5, <1>6, SemaphoreAssumption
        DEF SemNext, P, V, HandlerV, Preempt, Exit, Resume, Start, semVars, SemaphoreAssumption

(* With finitely many threads, a unit of a semaphore somebody sleeps on    *)
(* always has a woken thread on its way to it, however third threads take  *)
(* units in between (the Pop and the increment of Semaphore::V).           *)
THEOREM WakeupsAreNotLost ==
    ASSUME IsFiniteSet(Thread)
    PROVE  SemSpec => []NoLostWakeup
<1>1. SemInit => NoLostWakeup
      BY DEF SemInit, NoLostWakeup
<1> QED BY <1>1, SemInitInv, SemNextInv, WakeupKept, PTL DEF SemSpec
==============================================================================
