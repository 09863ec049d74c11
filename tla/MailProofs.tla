----------------------------- MODULE MailProofs -----------------------------
(***************************************************************************)
(* Proofs about the condition variable, the synchronised list and the mail *)
(* system built on them (Condition.tla, SynchList.tla, Mail.tla), for any  *)
(* number of threads and senders.                                          *)
(***************************************************************************)
EXTENDS Mail, TLAPS, FiniteSetTheorems, SequenceTheorems

-----------------------------------------------------------------------------
(* The condition variable. *)

CondTypeOK ==
    /\ holder \in [{"cl"} -> Thread \cup {Nobody}]
    /\ sem \in Nat
    /\ countWaiters \in Nat
    /\ pc \in [Thread -> CondLabel]

(* A thread in a call of the condition variable holds the lock, unless it  *)
(* has given it up inside Wait.                                            *)
CallersHoldLock ==
    \A t \in Thread : pc[t] \notin {"outside", "sleep", "reacquire"} => holder["cl"] = t

(* Whoever is about to decrement the counter finds it positive. *)
CounterIsPositive ==
    \A t \in Thread :
        pc[t] \in {"signalV", "signalDec", "broadcastV", "broadcastDec"} => countWaiters > 0

CondInv == CondTypeOK /\ CallersHoldLock /\ CounterIsPositive /\ WaitersAreAccountedFor

CondStep(t) ==
    \/ Enter(t) \/ Leave(t)
    \/ Wait(t) \/ Signal(t) \/ Broadcast(t)
    \/ WaitStep(t) \/ SignalStep(t) \/ BroadcastStep(t)

LEMMA CondInitInv == CondInit => CondInv
<1> SUFFICES ASSUME CondInit PROVE CondInv
    OBVIOUS
<1>1. CondTypeOK /\ CallersHoldLock /\ CounterIsPositive
      BY DEF CondInit, Locks!MutexInit, CondTypeOK, CondLabel, CallersHoldLock, CounterIsPositive
<1>2. Waiting = {} /\ CountedTwice = {} /\ countWaiters = 0 /\ sem = 0
      BY DEF CondInit, Waiting, CountedTwice
<1>3. WaitersAreAccountedFor
      BY <1>2, FS_EmptySet DEF WaitersAreAccountedFor
<1> QED BY <1>1, <1>3 DEF CondInv

LEMMA CondStutter ==
    ASSUME CondInv, UNCHANGED condVars
    PROVE  CondInv'
BY DEF condVars, CondInv, CondTypeOK, CallersHoldLock, CounterIsPositive,
       WaitersAreAccountedFor, Waiting, CountedTwice

LEMMA CondStepType ==
    ASSUME CondInv, NEW t \in Thread, CondStep(t)
    PROVE  CondTypeOK'
<1> USE DEF CondInv, CondTypeOK, CondLabel, Goto
<1>1. CASE Enter(t) \/ Leave(t)
      BY <1>1 DEF Enter, Leave, Locks!Take, Locks!Free
<1>2. CASE Wait(t) \/ Signal(t) \/ Broadcast(t)
      BY <1>2 DEF Wait, Signal, Broadcast
<1>3. CASE WaitRelease(t) \/ WaitAcquire(t)
      BY <1>3 DEF WaitRelease, WaitAcquire, Locks!Take, Locks!Free
<1>4. CASE WaitP(t) \/ SignalV(t) \/ SignalDec(t)
      BY <1>4 DEF WaitP, SignalV, SignalDec, CounterIsPositive
<1>5. CASE BroadcastTest(t) \/ BroadcastV(t) \/ BroadcastDec(t)
      BY <1>5 DEF BroadcastTest, BroadcastV, BroadcastDec, CounterIsPositive
<1> QED BY <1>1, <1>2, <1>3, <1>4, <1>5 DEF CondStep, WaitStep, SignalStep, BroadcastStep

LEMMA CondStepLock ==
    ASSUME CondInv, NEW t \in Thread, CondStep(t)
    PROVE  CallersHoldLock'
<1> USE DEF CondInv, CondTypeOK, CallersHoldLock, Goto
<1>1. CASE Enter(t) \/ WaitAcquire(t)
      BY <1>1, ConditionAssumption DEF Enter, WaitAcquire, Locks!Take, ConditionAssumption
<1>2. CASE Leave(t) \/ WaitRelease(t)
      BY <1>2 DEF Leave, WaitRelease, Locks!Free
<1>3. CASE Wait(t) \/ Signal(t) \/ Broadcast(t) \/ WaitP(t)
      BY <1>3 DEF Wait, Signal, Broadcast, WaitP
<1>4. CASE SignalV(t) \/ SignalDec(t)
      BY <1>4 DEF SignalV, SignalDec
<1>5. CASE BroadcastTest(t) \/ BroadcastV(t) \/ BroadcastDec(t)
      BY <1>5 DEF BroadcastTest, BroadcastV, BroadcastDec
<1> QED BY <1>1, <1>2, <1>3, <1>4, <1>5 DEF CondStep, WaitStep, SignalStep, BroadcastStep

LEMMA CondStepCounter ==
    ASSUME CondInv, NEW t \in Thread, CondStep(t)
    PROVE  CounterIsPositive'
<1> USE DEF CondInv, CondTypeOK, CallersHoldLock, CounterIsPositive, Goto
<1>1. CASE Enter(t) \/ WaitAcquire(t) \/ Leave(t) \/ WaitRelease(t)
      BY <1>1 DEF Enter, WaitAcquire, Leave, WaitRelease
<1>2. CASE Wait(t) \/ Signal(t) \/ Broadcast(t) \/ WaitP(t)
      BY <1>2 DEF Wait, Signal, Broadcast, WaitP
<1>3. CASE SignalV(t) \/ SignalDec(t)
      BY <1>3 DEF SignalV, SignalDec
<1>4. CASE BroadcastTest(t) \/ BroadcastV(t) \/ BroadcastDec(t)
      BY <1>4 DEF BroadcastTest, BroadcastV, BroadcastDec
<1> QED BY <1>1, <1>2, <1>3, <1>4 DEF CondStep, WaitStep, SignalStep, BroadcastStep

(* The sizes of the two sets of the balance. *)
LEMMA CountsAreFinite ==
    ASSUME IsFiniteSet(Thread)
    PROVE  /\ IsFiniteSet(Waiting) /\ Cardinality(Waiting) \in Nat
           /\ IsFiniteSet(CountedTwice) /\ Cardinality(CountedTwice) \in Nat
<1>1. Waiting \in SUBSET Thread /\ CountedTwice \in SUBSET Thread
      BY DEF Waiting, CountedTwice
<1> QED BY <1>1, FS_Subset, FS_CardinalityType

LEMMA CondStepBalance ==
    ASSUME IsFiniteSet(Thread), CondInv, NEW t \in Thread, CondStep(t)
    PROVE  WaitersAreAccountedFor'
<1>1. /\ IsFiniteSet(Waiting) /\ Cardinality(Waiting) \in Nat
      /\ IsFiniteSet(CountedTwice) /\ Cardinality(CountedTwice) \in Nat
      BY CountsAreFinite
<1> USE DEF CondInv, CondTypeOK, Goto
<1>2. CASE Wait(t)
  <2>1. t \notin Waiting /\ Waiting' = Waiting \cup {t} /\ CountedTwice' = CountedTwice
        BY <1>2 DEF Wait, Waiting, CountedTwice
  <2>2. Cardinality(Waiting') = Cardinality(Waiting) + 1
        BY <1>1, <2>1, FS_AddElement
  <2> QED BY <1>1, <1>2, <2>1, <2>2 DEF Wait, WaitersAreAccountedFor
<1>3. CASE WaitP(t)
  <2>1. t \in Waiting /\ Waiting' = Waiting \ {t} /\ CountedTwice' = CountedTwice
        BY <1>3 DEF WaitP, Waiting, CountedTwice
  <2>2. Cardinality(Waiting') = Cardinality(Waiting) - 1
        BY <1>1, <2>1, FS_RemoveElement
  <2> QED BY <1>1, <1>3, <2>1, <2>2 DEF WaitP, WaitersAreAccountedFor
<1>4. CASE SignalV(t) \/ BroadcastV(t)
  <2>1. /\ t \notin CountedTwice /\ CountedTwice' = CountedTwice \cup {t}
        /\ Waiting' = Waiting
        BY <1>4 DEF SignalV, BroadcastV, Waiting, CountedTwice
  <2>2. Cardinality(CountedTwice') = Cardinality(CountedTwice) + 1
        BY <1>1, <2>1, FS_AddElement
  <2> QED BY <1>1, <1>4, <2>1, <2>2 DEF SignalV, BroadcastV, WaitersAreAccountedFor
<1>5. CASE SignalDec(t) \/ BroadcastDec(t)
  <2>1. /\ t \in CountedTwice /\ CountedTwice' = CountedTwice \ {t}
        /\ Waiting' = Waiting
        BY <1>5 DEF SignalDec, BroadcastDec, Waiting, CountedTwice
  <2>2. Cardinality(CountedTwice') = Cardinality(CountedTwice) - 1
        BY <1>1, <2>1, FS_RemoveElement
  <2> QED BY <1>1, <1>5, <2>1, <2>2 DEF SignalDec, BroadcastDec, WaitersAreAccountedFor
<1>6. ASSUME \/ Enter(t) \/ WaitAcquire(t) \/ Leave(t) \/ WaitRelease(t)
             \/ Signal(t) \/ Broadcast(t) \/ BroadcastTest(t)
      PROVE  WaitersAreAccountedFor'
  <2>1. UNCHANGED <<sem, countWaiters>>
        BY <1>6 DEF Enter, WaitAcquire, Leave, WaitRelease, Signal, Broadcast, BroadcastTest
  <2>2. Waiting' = Waiting /\ CountedTwice' = CountedTwice
    <3>1. CASE Enter(t) \/ WaitAcquire(t) \/ Leave(t) \/ WaitRelease(t)
          BY <3>1 DEF Enter, WaitAcquire, Leave, WaitRelease, Waiting, CountedTwice
    <3>2. CASE Signal(t) \/ Broadcast(t) \/ BroadcastTest(t)
          BY <3>2 DEF Signal, Broadcast, BroadcastTest, Waiting, CountedTwice
    <3> QED BY <1>6, <3>1, <3>2
  <2> QED BY <2>1, <2>2 DEF WaitersAreAccountedFor
<1> QED BY <1>2, <1>3, <1>4, <1>5, <1>6
        DEF CondStep, WaitStep, SignalStep, BroadcastStep

LEMMA CondStepInv ==
    ASSUME IsFiniteSet(Thread), CondInv, NEW t \in Thread, CondStep(t)
    PROVE  CondInv'
BY CondStepType, CondStepLock, CondStepCounter, CondStepBalance DEF CondInv

(* No signal is lost and none is left over: any threads that call Wait,    *)
(* Signal and Broadcast under the lock, in any order, leave countWaiters   *)
(* and the semaphore together equal to the number of threads that still    *)
(* have to be woken (condition.cc:43-76).                                  *)
THEOREM SignalsAreAccountedFor ==
    ASSUME IsFiniteSet(Thread)
    PROVE  CondSpec => []WaitersAreAccountedFor
<1>1. CondInv /\ [CondNext]_condVars => CondInv'
      BY CondStepInv, CondStutter DEF CondNext, CondStep
<1>2. CondInv => WaitersAreAccountedFor
      BY DEF CondInv
<1> QED BY <1>1, <1>2, CondInitInv, PTL DEF CondSpec

-----------------------------------------------------------------------------
(* The senders. *)

SendLabel == {"idle", "acquire", "send", "wait", "release"}

SendTypeOK ==
    /\ sendPc \in [Sender -> SendLabel]
    /\ sendLock \in Sender \cup {Nobody}
    /\ messageSent \in Nat
    /\ sendInts \in Nat

SendInv == SendTypeOK /\ OneSendAtATime

SendersWaiting == {s \in Sender : sendPc[s] = "wait"}

(* The steps that leave the senders, their lock and their interrupts alone. *)
NotSending ==
    \/ CheckPktAvail \/ DeliveryStep
    \/ \E t \in Thread : Receive(t) \/ GetItem(t) \/ BoxStep(t)

LEMMA NotSendingKeeps ==
    ASSUME NotSending
    PROVE  UNCHANGED sendVars
BY DEF NotSending, CheckPktAvail, DeliveryStep, DeliveryP, NetworkReceive, Put, PutItem,
       PutDone, Receive, GetItem, BoxStep

LEMMA SendInitInv == MailInit => SendInv
<1> SUFFICES ASSUME MailInit PROVE SendInv
    OBVIOUS
<1>1. SendersWaiting = {} /\ SendTypeOK
      BY DEF MailInit, SendersWaiting, SendTypeOK, SendLabel
<1> QED BY <1>1, FS_EmptySet DEF MailInit, SendInv, OneSendAtATime, SendersWaiting

LEMMA SendNextInv ==
    ASSUME SendInv, [MailNext]_mailVars
    PROVE  SendInv'
<1> USE DEF SendGoto
<1>1. \A s, u \in Sender :
         sendPc[s] \in {"send", "wait", "release"} /\ sendPc[u] \in {"send", "wait", "release"}
             => s = u
      BY DEF SendInv, OneSendAtATime
<1>2. sendInts + messageSent = Cardinality(SendersWaiting)
      BY DEF SendInv, OneSendAtATime, SendersWaiting
<1>3. SUFFICES /\ SendTypeOK'
               /\ sendInts' + messageSent' = Cardinality(SendersWaiting')
               /\ \A s \in Sender : sendPc'[s] \in {"send", "wait", "release"} => sendLock' = s
      BY DEF SendInv, OneSendAtATime, SendersWaiting
<1> USE DEF SendInv, SendTypeOK, SendLabel
<1>4. ASSUME NEW s \in Sender, Send(s) \/ SendAcquire(s)
      PROVE  /\ SendTypeOK'
             /\ sendInts' + messageSent' = Cardinality(SendersWaiting')
             /\ \A u \in Sender : sendPc'[u] \in {"send", "wait", "release"} => sendLock' = u
  <2>1. SendTypeOK' /\ UNCHANGED <<sendInts, messageSent>>
        BY <1>4 DEF Send, SendAcquire
  <2>2. SendersWaiting' = SendersWaiting
        BY <1>4 DEF Send, SendAcquire, SendersWaiting
  <2>3. \A u \in Sender : sendPc'[u] \in {"send", "wait", "release"} => sendLock' = u
        BY <1>4, MailAssumption DEF Send, SendAcquire, OneSendAtATime, MailAssumption
  <2> QED BY <1>2, <2>1, <2>2, <2>3
<1>5. ASSUME NEW s \in Sender, NEW lost \in BOOLEAN, NetworkSend(s, lost)
      PROVE  /\ SendTypeOK'
             /\ sendInts' + messageSent' = Cardinality(SendersWaiting')
             /\ \A u \in Sender : sendPc'[u] \in {"send", "wait", "release"} => sendLock' = u
  <2>1. /\ SendTypeOK' /\ messageSent' = messageSent /\ sendInts' = sendInts + 1
        /\ sendLock' = sendLock /\ sendPc[s] = "send" /\ sendPc' = [sendPc EXCEPT ![s] = "wait"]
        BY <1>5 DEF NetworkSend
  <2>2. SendersWaiting = {} /\ SendersWaiting' = {s}
        BY <1>1, <2>1 DEF SendersWaiting
  <2>3. Cardinality(SendersWaiting) = 0 /\ Cardinality(SendersWaiting') = 1
        BY <2>2, FS_EmptySet, FS_Singleton
  <2>4. \A u \in Sender : sendPc'[u] \in {"send", "wait", "release"} => sendLock' = u
        BY <2>1 DEF OneSendAtATime
  <2> QED BY <1>2, <2>1, <2>3, <2>4
<1>6. ASSUME NEW s \in Sender, SendP(s)
      PROVE  /\ SendTypeOK'
             /\ sendInts' + messageSent' = Cardinality(SendersWaiting')
             /\ \A u \in Sender : sendPc'[u] \in {"send", "wait", "release"} => sendLock' = u
  <2>1. /\ SendTypeOK' /\ messageSent' = messageSent - 1 /\ sendInts' = sendInts
        /\ sendLock' = sendLock /\ sendPc[s] = "wait" /\ sendPc' = [sendPc EXCEPT ![s] = "release"]
        BY <1>6 DEF SendP
  <2>2. SendersWaiting = {s} /\ SendersWaiting' = {}
        BY <1>1, <2>1 DEF SendersWaiting
  <2>3. Cardinality(SendersWaiting) = 1 /\ Cardinality(SendersWaiting') = 0
        BY <2>2, FS_EmptySet, FS_Singleton
  <2>4. \A u \in Sender : sendPc'[u] \in {"send", "wait", "release"} => sendLock' = u
        BY <2>1 DEF OneSendAtATime
  <2> QED BY <1>2, <2>1, <2>3, <2>4
<1>7. ASSUME NEW s \in Sender, SendRelease(s)
      PROVE  /\ SendTypeOK'
             /\ sendInts' + messageSent' = Cardinality(SendersWaiting')
             /\ \A u \in Sender : sendPc'[u] \in {"send", "wait", "release"} => sendLock' = u
  <2>1. /\ SendTypeOK' /\ UNCHANGED <<sendInts, messageSent>>
        /\ sendPc[s] = "release" /\ sendPc' = [sendPc EXCEPT ![s] = "idle"]
        BY <1>7 DEF SendRelease
  <2>2. SendersWaiting' = SendersWaiting
        BY <2>1 DEF SendersWaiting
  <2>3. \A u \in Sender : sendPc'[u] \notin {"send", "wait", "release"}
        BY <1>1, <2>1
  <2> QED BY <1>2, <2>1, <2>2, <2>3
<1>8. ASSUME SendDone \/ NotSending \/ UNCHANGED mailVars
      PROVE  /\ SendTypeOK'
             /\ sendInts' + messageSent' = Cardinality(SendersWaiting')
             /\ \A u \in Sender : sendPc'[u] \in {"send", "wait", "release"} => sendLock' = u
  <2>1. /\ sendPc' = sendPc /\ sendLock' = sendLock
        /\ \/ sendInts > 0 /\ sendInts' = sendInts - 1 /\ messageSent' = messageSent + 1
           \/ UNCHANGED <<sendInts, messageSent>>
        BY <1>8, NotSendingKeeps DEF SendDone, sendVars, mailVars
  <2>2. SendersWaiting' = SendersWaiting
        BY <2>1 DEF SendersWaiting
  <2>3. SendTypeOK' /\ sendInts' + messageSent' = sendInts + messageSent
        BY <2>1
  <2>4. \A u \in Sender : sendPc'[u] \in {"send", "wait", "release"} => sendLock' = u
        BY <2>1 DEF OneSendAtATime
  <2> QED BY <1>2, <2>2, <2>3, <2>4
<1> QED BY <1>4, <1>5, <1>6, <1>7, <1>8 DEF MailNext, SendStep, NotSending

(* Between NetworkSend and the return of P exactly one interrupt is on its *)
(* way, and it is the one of the sender that holds sendLock, for any       *)
(* number of senders and whether or not packets are lost (post.cc:270-274, *)
(* network.cc:134).                                                        *)
THEOREM SendsExclude == MailSpec => []OneSendAtATime
<1>1. SendInv => OneSendAtATime
      BY DEF SendInv
<1> QED BY <1>1, SendInitInv, SendNextInv, PTL DEF MailSpec

-----------------------------------------------------------------------------
(* The packets. *)

PacketTypeOK ==
    /\ calls \in Nat /\ sending \in [Sender -> Nat]
    /\ wire \in Seq(Nat) /\ socket \in Seq(Nat) /\ inbox \in Seq(Nat)
    /\ hand \in Seq(Nat) /\ box \in Seq(Nat) /\ delivered \in Seq(Nat)
    /\ messageAvailable \in Nat
    /\ workerPc \in {"wait", "receive", "put", "putting"}
    /\ op \in [Thread -> Op]

(* The worker is the only appender and takes nothing out of the box. *)
WorkerAppends ==
    /\ workerPc = "putting" <=> op[Worker] # "none"
    /\ op[Worker] # "pop"
    /\ \A t \in Thread : op[t] \in {"append", "signal"} => t = Worker

(* The buffer is full exactly while a unit of messageAvailable, or the     *)
(* worker that took it, is there to empty it; the worker has a packet in   *)
(* hand exactly between Network::Receive and the Append of the box.        *)
BufferIsClaimed ==
    /\ Len(inbox) = messageAvailable + IF workerPc = "receive" THEN 1 ELSE 0
    /\ Len(inbox) <= 1
    /\ Len(hand) = IF workerPc = "put" \/ op[Worker] = "append" THEN 1 ELSE 0

(* The list behind the box has the messages that the box has. *)
BoxIsList == size = Len(box) /\ PopNeverComesEmpty

PacketInv ==
    PacketTypeOK /\ WorkerAppends /\ BufferIsClaimed /\ BoxIsList /\ PacketsKeepOrder

LEMMA PacketInitInv == MailInit => PacketInv
<1> SUFFICES ASSUME MailInit PROVE PacketInv
    OBVIOUS
<1>1. PacketTypeOK /\ WorkerAppends
      BY MailAssumption DEF MailInit, ListInit, PacketTypeOK, WorkerAppends, Op, MailAssumption
<1>2. BufferIsClaimed /\ BoxIsList
      BY MailAssumption
      DEF MailInit, ListInit, BufferIsClaimed, BoxIsList, PopNeverComesEmpty, MailAssumption
<1>3. PacketsKeepOrder
      BY DEF MailInit, PacketsKeepOrder
<1> QED BY <1>1, <1>2, <1>3 DEF PacketInv

(* Concatenation of packets, under a name so that the provers take it for  *)
(* what the three facts below say and no more.                             *)
Cat(s, t) == s \o t

LEMMA CatType == \A s, t \in Seq(Nat) : Cat(s, t) \in Seq(Nat) /\ Len(Cat(s, t)) = Len(s) + Len(t)
BY ConcatProperties DEF Cat

LEMMA CatAssoc == \A s, t, u \in Seq(Nat) : Cat(Cat(s, t), u) = Cat(s, Cat(t, u))
BY ConcatAssociative DEF Cat

LEMMA CatEmpty == \A s \in Seq(Nat) : Cat(s, <<>>) = s /\ Cat(<<>>, s) = s
BY ConcatEmptySeq DEF Cat

(* Append, under a name for the same reason. *)
Snoc(s, m) == Append(s, m)

LEMMA SnocType ==
    ASSUME NEW s \in Seq(Nat), NEW m \in Nat
    PROVE  Snoc(s, m) \in Seq(Nat) /\ Snoc(s, m) = Cat(s, <<m>>) /\ <<m>> \in Seq(Nat)
<1>1. Append(s, m) = s \o <<m>>
      BY AppendIsConcat
<1>2. Append(s, m) \in Seq(Nat)
      BY AppendProperties
<1> QED BY <1>1, <1>2 DEF Cat, Snoc

(* PacketsKeepOrder, bracketed to the right. *)
InOrder(a, b, c, d, e) == Cat(a, Cat(b, Cat(c, Cat(d, e))))

LEMMA Regroup ==
    ASSUME NEW a \in Seq(Nat), NEW b \in Seq(Nat), NEW c \in Seq(Nat),
           NEW d \in Seq(Nat), NEW e \in Seq(Nat)
    PROVE  Cat(Cat(Cat(Cat(a, b), c), d), e) = InOrder(a, b, c, d, e)
<1> DEFINE ab == Cat(a, b)
           abc == Cat(ab, c)
           de == Cat(d, e)
           cde == Cat(c, de)
<1>2. ab \in Seq(Nat) /\ abc \in Seq(Nat) /\ de \in Seq(Nat) /\ cde \in Seq(Nat)
      BY CatType
<1>3. Cat(Cat(abc, d), e) = Cat(abc, de)
      BY <1>2, CatAssoc
<1>4. Cat(Cat(ab, c), de) = Cat(ab, cde)
      BY <1>2, CatAssoc
<1>5. Cat(Cat(a, b), cde) = Cat(a, Cat(b, cde))
      BY <1>2, CatAssoc
<1> QED BY <1>3, <1>4, <1>5 DEF InOrder

LEMMA HeadAndTail ==
    ASSUME NEW s \in Seq(Nat), s # <<>>
    PROVE  /\ Head(s) \in Nat /\ <<Head(s)>> \in Seq(Nat) /\ Tail(s) \in Seq(Nat)
           /\ Len(Tail(s)) = Len(s) - 1
           /\ Cat(<<Head(s)>>, Tail(s)) = s
<1>1. Head(s) \in Nat /\ <<Head(s)>> \in Seq(Nat) /\ Tail(s) \in Seq(Nat) /\ Len(Tail(s)) = Len(s) - 1
      BY HeadTailProperties
<1>2. SubSeq(s, 1, Len(s)) = <<s[1]>> \o SubSeq(s, 2, Len(s))
  <2>1. 1 \in 1 .. Len(s) /\ Len(s) \in 1 .. Len(s)
        BY EmptySeq
  <2> QED BY <2>1, SubSeqRecursiveFirst
<1>3. SubSeq(s, 1, Len(s)) = s /\ SubSeq(s, 2, Len(s)) = Tail(s) /\ Head(s) = s[1]
      BY SubSeqFull, TailIsSubSeq
<1>4. Cat(<<Head(s)>>, Tail(s)) = s
      BY <1>2, <1>3 DEF Cat
<1> QED BY <1>1, <1>4

(* The ways in which packets move from place to place.  Each keeps their   *)
(* order.                                                                  *)
LEMMA EnterSocket ==
    ASSUME NEW a \in Seq(Nat), NEW b \in Seq(Nat), NEW c \in Seq(Nat),
           NEW d \in Seq(Nat), NEW e \in Seq(Nat), NEW m \in Nat
    PROVE  InOrder(a, b, c, d, Snoc(e, m)) = Snoc(InOrder(a, b, c, d, e), m)
<1> DEFINE f == <<m>>
           de == Cat(d, e)
           cde == Cat(c, de)
           bcde == Cat(b, cde)
           abcde == Cat(a, bcde)
<1>1. f \in Seq(Nat) /\ Snoc(e, m) = Cat(e, f)
      BY SnocType
<1>2. de \in Seq(Nat)
      BY CatType
<1>3. cde \in Seq(Nat)
  <2> HIDE DEF de
  <2> QED BY <1>2, CatType
<1>4. bcde \in Seq(Nat)
  <2> HIDE DEF cde
  <2> QED BY <1>3, CatType
<1>5. abcde \in Seq(Nat)
  <2> HIDE DEF bcde
  <2> QED BY <1>4, CatType
<1>6. Snoc(abcde, m) = Cat(abcde, f)
  <2> HIDE DEF abcde
  <2> QED BY <1>5, SnocType
<1> HIDE DEF f
<1>7. Cat(d, Cat(e, f)) = Cat(de, f)
      BY <1>1, CatAssoc
<1>8. Cat(c, Cat(de, f)) = Cat(cde, f)
      BY <1>1, <1>2, CatAssoc
<1>9. Cat(b, Cat(cde, f)) = Cat(bcde, f)
      BY <1>1, <1>3, CatAssoc
<1>10. Cat(a, Cat(bcde, f)) = Cat(abcde, f)
      BY <1>1, <1>4, CatAssoc
<1> QED BY <1>1, <1>6, <1>7, <1>8, <1>9, <1>10 DEF InOrder

LEMMA SocketToInbox ==
    ASSUME NEW a \in Seq(Nat), NEW b \in Seq(Nat), NEW c \in Seq(Nat),
           NEW e \in Seq(Nat), e # <<>>
    PROVE  InOrder(a, b, c, <<Head(e)>>, Tail(e)) = InOrder(a, b, c, <<>>, e)
<1>1. Cat(<<Head(e)>>, Tail(e)) = Cat(<<>>, e)
      BY HeadAndTail, CatEmpty
<1> QED BY <1>1 DEF InOrder

LEMMA InboxToHand ==
    ASSUME NEW a \in Seq(Nat), NEW b \in Seq(Nat), NEW d \in Seq(Nat), NEW e \in Seq(Nat)
    PROVE  InOrder(a, b, d, <<>>, e) = InOrder(a, b, <<>>, d, e)
<1>1. Cat(<<>>, e) = e /\ Cat(<<>>, Cat(d, e)) = Cat(d, e)
      BY CatType, CatEmpty
<1> QED BY <1>1 DEF InOrder

LEMMA HandToBox ==
    ASSUME NEW a \in Seq(Nat), NEW b \in Seq(Nat), NEW c \in Seq(Nat),
           NEW d \in Seq(Nat), NEW e \in Seq(Nat)
    PROVE  InOrder(a, b \o c, <<>>, d, e) = InOrder(a, b, c, d, e)
<1> DEFINE de == Cat(d, e)
<1>1. de \in Seq(Nat) /\ b \o c = Cat(b, c)
      BY CatType DEF Cat
<1>2. Cat(<<>>, de) = de /\ Cat(Cat(b, c), de) = Cat(b, Cat(c, de))
      BY <1>1, CatEmpty, CatAssoc
<1> QED BY <1>1, <1>2 DEF InOrder

LEMMA BoxToReader ==
    ASSUME NEW a \in Seq(Nat), NEW b \in Seq(Nat), NEW c \in Seq(Nat),
           NEW d \in Seq(Nat), NEW e \in Seq(Nat), b # <<>>
    PROVE  InOrder(Append(a, Head(b)), Tail(b), c, d, e) = InOrder(a, b, c, d, e)
<1> DEFINE r == Cat(c, Cat(d, e))
           h == <<Head(b)>>
           t == Tail(b)
<1>1. r \in Seq(Nat) /\ h \in Seq(Nat) /\ t \in Seq(Nat) /\ Cat(h, t) = b /\ Cat(t, r) \in Seq(Nat)
      BY HeadAndTail, CatType
<1>2. Append(a, Head(b)) = Cat(a, h)
      BY HeadAndTail, AppendIsConcat DEF Cat
<1> HIDE DEF r, h, t
<1>3. Cat(Cat(a, h), Cat(t, r)) = Cat(a, Cat(h, Cat(t, r)))
      BY <1>1, CatAssoc
<1>4. Cat(h, Cat(t, r)) = Cat(Cat(h, t), r)
      BY <1>1, CatAssoc
<1> QED BY <1>1, <1>2, <1>3, <1>4 DEF InOrder, r, t

LEMMA OrderIs ==
    ASSUME PacketTypeOK
    PROVE  PacketsKeepOrder <=> InOrder(delivered, box, hand, inbox, socket) = wire
<1>1. PacketsKeepOrder <=> Cat(Cat(Cat(Cat(delivered, box), hand), inbox), socket) = wire
      BY DEF PacketsKeepOrder, Cat
<1> QED BY <1>1, Regroup DEF PacketTypeOK

LEMMA OrderIsNext ==
    ASSUME PacketTypeOK'
    PROVE  PacketsKeepOrder' <=> InOrder(delivered', box', hand', inbox', socket') = wire'
<1>1. PacketsKeepOrder' <=> Cat(Cat(Cat(Cat(delivered', box'), hand'), inbox'), socket') = wire'
      BY DEF PacketsKeepOrder, Cat
<1> QED BY <1>1, Regroup DEF PacketTypeOK

(* What a step that moves no packet leaves alone. *)
Packets == <<delivered, box, hand, inbox, socket, wire>>

LEMMA PacketsStay ==
    ASSUME PacketInv, PacketTypeOK', UNCHANGED Packets
    PROVE  PacketsKeepOrder'
BY DEF PacketInv, PacketsKeepOrder, Packets

LEMMA SenderKeeps ==
    ASSUME PacketInv, NEW s \in Sender,
           Send(s) \/ SendAcquire(s) \/ SendP(s) \/ SendRelease(s)
    PROVE  PacketInv'
<1>1. /\ UNCHANGED <<Packets, messageAvailable, workerPc, op, size, emptyPops>>
      /\ calls' \in Nat /\ sending' \in [Sender -> Nat]
  <2>1. CASE Send(s)
    <3>1. /\ UNCHANGED <<Packets, messageAvailable, workerPc, op, size, emptyPops>>
          /\ calls' = calls + 1 /\ sending' = [sending EXCEPT ![s] = calls + 1]
          BY <2>1 DEF Send, listVars, recvVars, Packets
    <3>2. calls \in Nat /\ sending \in [Sender -> Nat]
          BY DEF PacketInv, PacketTypeOK
    <3> QED BY <3>1, <3>2
  <2>2. CASE SendAcquire(s)
        BY <2>2 DEF PacketInv, PacketTypeOK, SendAcquire, listVars, recvVars, Packets
  <2>3. CASE SendP(s)
        BY <2>3 DEF PacketInv, PacketTypeOK, SendP, listVars, recvVars, Packets
  <2>4. CASE SendRelease(s)
        BY <2>4 DEF PacketInv, PacketTypeOK, SendRelease, listVars, recvVars, Packets
  <2> QED BY <2>1, <2>2, <2>3, <2>4
<1>2. PacketTypeOK'
      BY <1>1 DEF PacketInv, PacketTypeOK, Packets
<1>3. WorkerAppends' /\ BufferIsClaimed' /\ BoxIsList'
      BY <1>1 DEF PacketInv, WorkerAppends, BufferIsClaimed, BoxIsList, PopNeverComesEmpty, Packets
<1> QED BY <1>1, <1>2, <1>3, PacketsStay DEF PacketInv

LEMMA NetworkSendKeeps ==
    ASSUME PacketInv, NEW s \in Sender, NEW lost \in BOOLEAN, NetworkSend(s, lost)
    PROVE  PacketInv'
<1>1. /\ UNCHANGED <<delivered, box, hand, inbox, messageAvailable, workerPc, op, size,
                     emptyPops, calls, sending>>
      /\ sending[s] \in Nat
      /\ IF lost THEN UNCHANGED <<socket, wire>>
         ELSE socket' = Append(socket, sending[s]) /\ wire' = Append(wire, sending[s])
      BY DEF PacketInv, PacketTypeOK, NetworkSend, listVars, recvVars
<1> DEFINE m == sending[s]
<1>5. m \in Nat /\ socket \in Seq(Nat) /\ wire \in Seq(Nat)
      BY <1>1 DEF PacketInv, PacketTypeOK
<1>6. IF lost THEN UNCHANGED <<socket, wire>> ELSE socket' = Snoc(socket, m) /\ wire' = Snoc(wire, m)
      BY <1>1 DEF Snoc
<1> HIDE DEF m
<1>7. socket' \in Seq(Nat) /\ wire' \in Seq(Nat)
      BY <1>5, <1>6, SnocType
<1>2. PacketTypeOK'
  <2>1. UNCHANGED <<delivered, box, hand, inbox, messageAvailable, workerPc, op, size,
                     emptyPops, calls, sending>>
        BY <1>1
  <2> QED BY <1>7, <2>1 DEF PacketInv, PacketTypeOK
<1>3. WorkerAppends' /\ BufferIsClaimed' /\ BoxIsList'
      BY <1>1 DEF PacketInv, WorkerAppends, BufferIsClaimed, BoxIsList, PopNeverComesEmpty
<1>4. PacketsKeepOrder'
  <2>1. CASE lost
        BY <1>1, <1>2, <2>1, PacketsStay DEF Packets
  <2>2. CASE ~lost
    <3>3. delivered \in Seq(Nat) /\ box \in Seq(Nat) /\ hand \in Seq(Nat) /\ inbox \in Seq(Nat)
          BY DEF PacketInv, PacketTypeOK
    <3>1. InOrder(delivered, box, hand, inbox, Snoc(socket, m))
            = Snoc(InOrder(delivered, box, hand, inbox, socket), m)
          BY <1>5, <3>3, EnterSocket
    <3>2. InOrder(delivered, box, hand, inbox, socket) = wire
          BY OrderIs DEF PacketInv
    <3>4. InOrder(delivered', box', hand', inbox', socket') = wire'
          BY <1>1, <1>6, <2>2, <3>1, <3>2
    <3> QED BY <1>2, <3>4, OrderIsNext
  <2> QED BY <2>1, <2>2
<1> QED BY <1>2, <1>3, <1>4 DEF PacketInv

LEMMA CheckPktAvailKeeps ==
    ASSUME PacketInv, CheckPktAvail
    PROVE  PacketInv'
<1>1. /\ UNCHANGED <<delivered, box, hand, wire, workerPc, op, size, emptyPops, calls, sending>>
      /\ inbox = <<>> /\ socket # <<>>
      /\ inbox' = <<Head(socket)>> /\ socket' = Tail(socket)
      /\ messageAvailable' = messageAvailable + 1
      BY DEF CheckPktAvail, CanBuffer, listVars, sendVars
<1>2. Head(socket) \in Nat /\ inbox' \in Seq(Nat) /\ Len(inbox') = 1 /\ socket' \in Seq(Nat)
      BY <1>1, HeadAndTail DEF PacketInv, PacketTypeOK
<1>3. PacketTypeOK'
      BY <1>1, <1>2 DEF PacketInv, PacketTypeOK
<1>4. BufferIsClaimed'
      BY <1>1, <1>2 DEF PacketInv, PacketTypeOK, BufferIsClaimed
<1>5. WorkerAppends' /\ BoxIsList'
      BY <1>1 DEF PacketInv, WorkerAppends, BoxIsList, PopNeverComesEmpty
<1>6. PacketsKeepOrder'
  <2>1. InOrder(delivered, box, hand, <<Head(socket)>>, Tail(socket))
          = InOrder(delivered, box, hand, inbox, socket)
        BY <1>1, SocketToInbox DEF PacketInv, PacketTypeOK
  <2> QED BY <1>1, <1>3, <2>1, OrderIs, OrderIsNext DEF PacketInv
<1> QED BY <1>3, <1>4, <1>5, <1>6 DEF PacketInv

LEMMA DeliveryPKeeps ==
    ASSUME PacketInv, DeliveryP
    PROVE  PacketInv'
<1>1. /\ UNCHANGED <<Packets, op, size, emptyPops, calls, sending>>
      /\ workerPc = "wait" /\ workerPc' = "receive"
      /\ messageAvailable > 0 /\ messageAvailable' = messageAvailable - 1
      BY DEF DeliveryP, listVars, sendVars, Packets
<1>2. PacketTypeOK'
      BY <1>1 DEF PacketInv, PacketTypeOK, Packets
<1>3. WorkerAppends' /\ BufferIsClaimed' /\ BoxIsList'
      BY <1>1 DEF PacketInv, PacketTypeOK, WorkerAppends, BufferIsClaimed, BoxIsList,
                  PopNeverComesEmpty, Packets
<1> QED BY <1>1, <1>2, <1>3, PacketsStay DEF PacketInv

LEMMA NetworkReceiveKeeps ==
    ASSUME PacketInv, NetworkReceive
    PROVE  PacketInv'
<1>1. /\ UNCHANGED <<delivered, box, socket, wire, messageAvailable, op, size, emptyPops,
                     calls, sending>>
      /\ workerPc = "receive" /\ workerPc' = "put" /\ hand' = inbox /\ inbox' = <<>>
      BY DEF NetworkReceive, listVars, sendVars
<1>2. Len(hand) = 0 /\ Len(inbox) = 1 /\ messageAvailable = 0
      BY <1>1 DEF PacketInv, PacketTypeOK, BufferIsClaimed, WorkerAppends
<1>3. hand = <<>>
      BY <1>2, EmptySeq DEF PacketInv, PacketTypeOK
<1>4. PacketTypeOK'
      BY <1>1 DEF PacketInv, PacketTypeOK
<1>5. WorkerAppends' /\ BufferIsClaimed' /\ BoxIsList'
      BY <1>1, <1>2 DEF PacketInv, WorkerAppends, BufferIsClaimed, BoxIsList, PopNeverComesEmpty
<1>6. PacketsKeepOrder'
  <2>1. InOrder(delivered, box, inbox, <<>>, socket) = InOrder(delivered, box, <<>>, inbox, socket)
        BY InboxToHand DEF PacketInv, PacketTypeOK
  <2> QED BY <1>1, <1>3, <1>4, <2>1, OrderIs, OrderIsNext DEF PacketInv
<1> QED BY <1>4, <1>5, <1>6 DEF PacketInv

LEMMA PutKeeps ==
    ASSUME PacketInv, Put \/ PutDone
    PROVE  PacketInv'
<1>1. /\ UNCHANGED <<Packets, messageAvailable, size, emptyPops, calls, sending>>
      /\ \/ /\ workerPc = "put" /\ workerPc' = "putting"
            /\ op[Worker] = "none" /\ op' = [op EXCEPT ![Worker] = "append"]
         \/ /\ workerPc = "putting" /\ workerPc' = "wait"
            /\ op[Worker] = "leave" /\ op' = [op EXCEPT ![Worker] = "none"]
      BY DEF Put, PutDone, ListAppend, ListRelease, Phase, sendVars, Packets
<1>2. Worker \in Thread
      BY MailAssumption DEF MailAssumption
<1>3. PacketTypeOK'
      BY <1>1, <1>2 DEF PacketInv, PacketTypeOK, Packets, Op
<1>4. WorkerAppends' /\ BufferIsClaimed' /\ BoxIsList'
      BY <1>1, <1>2 DEF PacketInv, PacketTypeOK, WorkerAppends, BufferIsClaimed, BoxIsList,
                        PopNeverComesEmpty, Packets
<1> QED BY <1>1, <1>3, <1>4, PacketsStay DEF PacketInv

LEMMA PutItemKeeps ==
    ASSUME PacketInv, PutItem
    PROVE  PacketInv'
<1>1. /\ UNCHANGED <<delivered, inbox, socket, wire, messageAvailable, workerPc, emptyPops,
                     calls, sending>>
      /\ op[Worker] = "append" /\ op' = [op EXCEPT ![Worker] = "signal"]
      /\ size' = size + 1 /\ box' = box \o hand /\ hand' = <<>>
      BY DEF PutItem, AppendItem, Phase, sendVars
<1>2. Worker \in Thread
      BY MailAssumption DEF MailAssumption
<1>3. Len(hand) = 1 /\ workerPc = "putting"
      BY <1>1 DEF PacketInv, BufferIsClaimed, WorkerAppends
<1>4. box' \in Seq(Nat) /\ Len(box') = Len(box) + 1
  <2>1. box \in Seq(Nat) /\ hand \in Seq(Nat)
        BY DEF PacketInv, PacketTypeOK
  <2>2. box' = Cat(box, hand)
        BY <1>1 DEF Cat
  <2> QED BY <1>3, <2>1, <2>2, CatType
<1>5. PacketTypeOK'
      BY <1>1, <1>2, <1>4 DEF PacketInv, PacketTypeOK, Op
<1>6. WorkerAppends' /\ BufferIsClaimed'
      BY <1>1, <1>2, <1>3 DEF PacketInv, PacketTypeOK, WorkerAppends, BufferIsClaimed
<1>7. BoxIsList'
      BY <1>1, <1>4 DEF PacketInv, BoxIsList, PopNeverComesEmpty
<1>8. PacketsKeepOrder'
  <2>1. InOrder(delivered, box \o hand, <<>>, inbox, socket)
          = InOrder(delivered, box, hand, inbox, socket)
        BY HandToBox DEF PacketInv, PacketTypeOK
  <2>2. InOrder(delivered', box', hand', inbox', socket') = wire'
        BY <1>1, <2>1, OrderIs DEF PacketInv
  <2> QED BY <1>5, <2>2, OrderIsNext
<1> QED BY <1>5, <1>6, <1>7, <1>8 DEF PacketInv

LEMMA GetItemKeeps ==
    ASSUME PacketInv, NEW t \in Thread, GetItem(t)
    PROVE  PacketInv'
<1>1. /\ UNCHANGED <<hand, inbox, socket, wire, messageAvailable, workerPc, calls, sending>>
      /\ op[t] = "pop" /\ op' = [op EXCEPT ![t] = "leave"]
      /\ size # 0 /\ size' = size - 1 /\ emptyPops' = emptyPops
      BY DEF GetItem, PopItem, TakeItem, MustWait, Phase, sendVars, recvVars
<1>2. box # <<>>
      BY <1>1 DEF PacketInv, BoxIsList
<1>3. box' = Tail(box) /\ delivered' = Append(delivered, Head(box))
      BY <1>2 DEF GetItem
<1>4. box' \in Seq(Nat) /\ Len(box') = Len(box) - 1 /\ Head(box) \in Nat /\ delivered' \in Seq(Nat)
      BY <1>2, <1>3, HeadAndTail, AppendProperties DEF PacketInv, PacketTypeOK
<1>5. t # Worker
      BY <1>1 DEF PacketInv, WorkerAppends
<1>6. PacketTypeOK'
      BY <1>1, <1>4 DEF PacketInv, PacketTypeOK, Op
<1>7. WorkerAppends' /\ BufferIsClaimed'
      BY <1>1, <1>5 DEF PacketInv, PacketTypeOK, WorkerAppends, BufferIsClaimed
<1>8. BoxIsList'
      BY <1>1, <1>4 DEF PacketInv, BoxIsList, PopNeverComesEmpty
<1>9. PacketsKeepOrder'
  <2>1. InOrder(Append(delivered, Head(box)), Tail(box), hand, inbox, socket)
          = InOrder(delivered, box, hand, inbox, socket)
        BY <1>2, BoxToReader DEF PacketInv, PacketTypeOK
  <2>2. InOrder(delivered', box', hand', inbox', socket') = wire'
        BY <1>1, <1>3, <2>1, OrderIs DEF PacketInv
  <2> QED BY <1>6, <2>2, OrderIsNext
<1> QED BY <1>6, <1>7, <1>8, <1>9 DEF PacketInv

LEMMA ReaderKeeps ==
    ASSUME PacketInv, NEW t \in Thread, Receive(t) \/ BoxStep(t)
    PROVE  PacketInv'
<1>1. /\ UNCHANGED <<Packets, messageAvailable, workerPc, size, emptyPops, calls, sending>>
      /\ \/ op' = op
         \/ t # Worker /\ op[t] = "none" /\ op' = [op EXCEPT ![t] = "pop"]
         \/ op[t] = "signal" /\ op' = [op EXCEPT ![t] = "leave"]
         \/ t # Worker /\ op[t] = "leave" /\ op' = [op EXCEPT ![t] = "none"]
  <2>1. CASE Receive(t)
        BY <2>1 DEF Receive, ListPop, Phase, sendVars, recvVars, Packets
  <2>2. CASE BoxStep(t)
    <3>1. UNCHANGED <<Packets, messageAvailable, workerPc, calls, sending>>
          BY <2>2 DEF BoxStep, sendVars, recvVars, Packets
    <3>2. CASE ListAcquire(t) \/ PopWait(t) \/ ListCondStep(t)
          BY <3>1, <3>2 DEF ListAcquire, PopWait, ListCondStep
    <3>3. CASE AppendSignal(t)
          BY <3>1, <3>3 DEF AppendSignal, Phase
    <3>4. CASE t # Worker /\ ListRelease(t)
          BY <3>1, <3>4 DEF ListRelease, Phase
    <3> QED BY <2>2, <3>2, <3>3, <3>4 DEF BoxStep
  <2> QED BY <2>1, <2>2
<1>2. PacketTypeOK'
      BY <1>1 DEF PacketInv, PacketTypeOK, Packets, Op
<1>4. Worker \in Thread /\ op \in [Thread -> Op]
      BY MailAssumption DEF MailAssumption, PacketInv, PacketTypeOK
<1>5. WorkerAppends'
      BY <1>1, <1>4 DEF PacketInv, WorkerAppends
<1>6. op'[Worker] = "append" <=> op[Worker] = "append"
      BY <1>1, <1>4 DEF PacketInv, WorkerAppends
<1>7. UNCHANGED <<box, hand, inbox, messageAvailable, workerPc, size, emptyPops>>
      BY <1>1 DEF Packets
<1>3. BufferIsClaimed' /\ BoxIsList'
      BY <1>6, <1>7 DEF PacketInv, BufferIsClaimed, BoxIsList, PopNeverComesEmpty
<1> QED BY <1>1, <1>2, <1>3, <1>5, PacketsStay DEF PacketInv

LEMMA PacketNextInv ==
    ASSUME PacketInv, [MailNext]_mailVars
    PROVE  PacketInv'
<1>1. CASE UNCHANGED mailVars
  <2>1. UNCHANGED <<Packets, messageAvailable, workerPc, op, size, emptyPops, calls, sending>>
        BY <1>1 DEF mailVars, listVars, sendVars, recvVars, Packets
  <2>2. PacketTypeOK'
        BY <2>1 DEF PacketInv, PacketTypeOK, Packets
  <2>3. WorkerAppends' /\ BufferIsClaimed' /\ BoxIsList'
        BY <2>1 DEF PacketInv, WorkerAppends, BufferIsClaimed, BoxIsList, PopNeverComesEmpty, Packets
  <2> QED BY <2>1, <2>2, <2>3, PacketsStay DEF PacketInv
<1>2. CASE SendDone
  <2>1. /\ UNCHANGED <<Packets, messageAvailable, workerPc, op, size, emptyPops, calls, sending>>
        BY <1>2 DEF SendDone, listVars, recvVars, Packets
  <2>2. PacketTypeOK'
        BY <2>1 DEF PacketInv, PacketTypeOK, Packets
  <2>3. WorkerAppends' /\ BufferIsClaimed' /\ BoxIsList'
        BY <2>1 DEF PacketInv, WorkerAppends, BufferIsClaimed, BoxIsList, PopNeverComesEmpty, Packets
  <2> QED BY <2>1, <2>2, <2>3, PacketsStay DEF PacketInv
<1> QED BY <1>1, <1>2, SenderKeeps, NetworkSendKeeps, CheckPktAvailKeeps, DeliveryPKeeps,
           NetworkReceiveKeeps, PutKeeps, PutItemKeeps, GetItemKeeps, ReaderKeeps
        DEF MailNext, DeliveryStep, SendStep

(* The packets that the network does not lose reach the readers in the     *)
(* order of the sends, each once, for any number of senders and readers    *)
(* and however slow the worker is (network.cc:82-108, 156-168,             *)
(* post.cc:207-236).                                                       *)
THEOREM PacketsStayInOrder == MailSpec => []PacketsKeepOrder
<1>1. PacketInv => PacketsKeepOrder
      BY DEF PacketInv
<1> QED BY <1>1, PacketInitInv, PacketNextInv, PTL DEF MailSpec

(* Every Pop of the mailbox returns a message: the list has one whenever   *)
(* its loop ends, also for a reader that took another one's signal         *)
(* (synch_list.hh:100-114).                                                *)
THEOREM PopsFindItems == MailSpec => []PopNeverComesEmpty
<1>1. PacketInv => PopNeverComesEmpty
      BY DEF PacketInv, BoxIsList
<1> QED BY <1>1, PacketInitInv, PacketNextInv, PTL DEF MailSpec

-----------------------------------------------------------------------------
(* To the condition variable of the mailbox, every step of the mail system *)
(* is a call or part of one, by a thread that is where that call requires, *)
(* or no step.                                                             *)
LEMMA MailUsesCondition ==
    ASSUME [MailNext]_mailVars
    PROVE  UNCHANGED condVars \/ \E t \in Thread : CondStep(t)
<1>1. CASE SendDone \/ CheckPktAvail \/ UNCHANGED mailVars
      BY <1>1 DEF SendDone, CheckPktAvail, mailVars, listVars
<1>2. ASSUME NEW s \in Sender, Send(s) \/ SendStep(s) PROVE UNCHANGED condVars
      BY <1>2 DEF Send, SendStep, SendAcquire, SendP, SendRelease, NetworkSend, listVars
<1>3. CASE DeliveryP \/ NetworkReceive \/ Put \/ PutItem
      BY <1>3 DEF DeliveryP, NetworkReceive, Put, PutItem, ListAppend, AppendItem, listVars
<1>4. CASE PutDone
      BY <1>4, MailAssumption DEF PutDone, ListRelease, CondStep, MailAssumption
<1>5. ASSUME NEW t \in Thread, Receive(t) \/ GetItem(t) PROVE UNCHANGED condVars
      BY <1>5 DEF Receive, GetItem, ListPop, PopItem, TakeItem
<1>6. ASSUME NEW t \in Thread, BoxStep(t) PROVE CondStep(t)
      BY <1>6 DEF BoxStep, ListAcquire, AppendSignal, PopWait, ListCondStep, ListRelease, CondStep
<1> QED BY <1>1, <1>2, <1>3, <1>4, <1>5, <1>6 DEF MailNext, DeliveryStep

(* In the mailbox no signal of an Append is lost or left over: the balance *)
(* of the condition variable holds in the whole mail system                *)
(* (synch_list.hh:70-114, condition.cc:43-76).                             *)
THEOREM MailboxSignalsAreAccountedFor ==
    ASSUME IsFiniteSet(Thread)
    PROVE  MailSpec => []WaitersAreAccountedFor
<1>1. MailInit => CondInv
      BY CondInitInv DEF MailInit, ListInit
<1>2. CondInv /\ [MailNext]_mailVars => CondInv'
      BY CondStepInv, CondStutter, MailUsesCondition
<1>3. CondInv => WaitersAreAccountedFor
      BY DEF CondInv
<1> QED BY <1>1, <1>2, <1>3, PTL DEF MailSpec
=============================================================================
