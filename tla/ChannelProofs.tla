--------------------------- MODULE ChannelProofs ---------------------------
(***************************************************************************)
(* Proof that Channel.tla implements Rendezvous.tla, for any number of     *)
(* senders and receivers and any messages.                                 *)
(***************************************************************************)
EXTENDS Channel, TLAPS

Label == {"idle"} \cup SendLabel \cup ReceiveLabel

ChannelTypeOK ==
    /\ holder \in [{"lockSender"} -> Thread \cup {Nobody}]
    /\ semReceiver \in Nat
    /\ semFinish \in Nat
    /\ myMessage \in Message
    /\ pc \in [Thread -> Label]
    /\ message \in [Thread -> Message]

(* Only the holder of lockSender is past Send's Acquire. *)
SenderHoldsLock ==
    \A t \in Thread :
        pc[t] \in {"write", "announce", "wait", "release"} => holder["lockSender"] = t

(* The one permission to read or to return that a sender's Announce puts   *)
(* in circulation is in one place: in a semaphore or with a receiver.      *)
Reading == {r \in Thread : pc[r] \in {"read", "confirm"}}

OnePermission ==
    /\ semReceiver + semFinish <= 1
    /\ \A r, q \in Reading : r = q
    /\ Reading # {} => semReceiver + semFinish = 0

(* The permission exists only while its sender waits. *)
PermissionHasSender ==
    semReceiver + semFinish > 0 \/ Reading # {} => \E s \in Thread : pc[s] = "wait"

(* Until its sender returns nobody overwrites the message. *)
MessageStays ==
    \A s \in Thread : pc[s] \in {"announce", "wait"} => myMessage = message[s]

ChannelInv ==
    /\ ChannelTypeOK
    /\ SenderHoldsLock
    /\ OnePermission
    /\ PermissionHasSender
    /\ MessageStays

-----------------------------------------------------------------------------
LEMMA ChannelInitInv == Init => ChannelInv
BY ChannelAssumption
   DEF Init, Locks!MutexInit, ChannelInv, ChannelTypeOK, SenderHoldsLock, OnePermission,
       PermissionHasSender, MessageStays, Reading, Label, ChannelAssumption

LEMMA NextType ==
    ASSUME ChannelTypeOK, [Next]_vars
    PROVE  ChannelTypeOK'
<1> USE DEF ChannelTypeOK, Label, SendLabel, ReceiveLabel, Goto
<1>1. ASSUME NEW t \in Thread, Acquire(t) \/ Release(t) PROVE ChannelTypeOK'
      BY <1>1 DEF Acquire, Release, Locks!Take, Locks!Free
<1>2. ASSUME NEW t \in Thread, Write(t) \/ Announce(t) \/ Wait(t) PROVE ChannelTypeOK'
      BY <1>2 DEF Write, Announce, Wait
<1>3. ASSUME NEW t \in Thread, Await(t) \/ Read(t) \/ Confirm(t) PROVE ChannelTypeOK'
      BY <1>3 DEF Await, Read, Confirm
<1>4. ASSUME NEW t \in Thread, Receive(t) \/ \E m \in Message : Send(t, m) PROVE ChannelTypeOK'
      BY <1>4 DEF Receive, Send
<1>5. CASE UNCHANGED vars
      BY <1>5 DEF vars
<1> QED BY <1>1, <1>2, <1>3, <1>4, <1>5 DEF Next, Step

(* Two threads past Acquire are the same. *)
LEMMA OneSender ==
    ASSUME ChannelInv, NEW s \in Thread, NEW t \in Thread,
           pc[s] \in {"write", "announce", "wait", "release"},
           pc[t] \in {"write", "announce", "wait", "release"}
    PROVE  s = t
BY DEF ChannelInv, SenderHoldsLock

LEMMA NextInv ==
    ASSUME ChannelInv, [Next]_vars
    PROVE  ChannelInv'
<1>1. ChannelTypeOK'
      BY NextType DEF ChannelInv
<1> USE DEF ChannelTypeOK, Goto
<1>2. SenderHoldsLock'
  <2> USE DEF ChannelInv, SenderHoldsLock
  <2>1. ASSUME NEW t \in Thread, Acquire(t) PROVE SenderHoldsLock'
        BY <2>1, ChannelAssumption DEF Acquire, Locks!Take, ChannelAssumption
  <2>2. ASSUME NEW t \in Thread, Release(t) PROVE SenderHoldsLock'
        BY <2>2 DEF Release, Locks!Free
  <2>3. ASSUME NEW t \in Thread, Write(t) \/ Announce(t) \/ Wait(t) PROVE SenderHoldsLock'
        BY <2>3 DEF Write, Announce, Wait
  <2>4. ASSUME NEW t \in Thread, Await(t) \/ Read(t) \/ Confirm(t) PROVE SenderHoldsLock'
        BY <2>4 DEF Await, Read, Confirm
  <2>5. ASSUME NEW t \in Thread, Receive(t) \/ \E m \in Message : Send(t, m) PROVE SenderHoldsLock'
        BY <2>5 DEF Receive, Send
  <2>6. CASE UNCHANGED vars
        BY <2>6 DEF vars
  <2> QED BY <2>1, <2>2, <2>3, <2>4, <2>5, <2>6 DEF Next, Step
<1>3. OnePermission'
  <2> USE DEF ChannelInv, OnePermission, Reading
  <2>1. ASSUME NEW t \in Thread, Announce(t) PROVE OnePermission'
    <3>1. ~\E s \in Thread : pc[s] = "wait"
          BY <2>1, OneSender DEF Announce
    <3> QED BY <2>1, <3>1 DEF Announce, PermissionHasSender
  <2>2. ASSUME NEW t \in Thread, Await(t) \/ Read(t) \/ Confirm(t) PROVE OnePermission'
        BY <2>2 DEF Await, Read, Confirm
  <2>3. ASSUME NEW t \in Thread, Acquire(t) \/ Write(t) \/ Wait(t) \/ Release(t)
        PROVE  OnePermission'
        BY <2>3 DEF Acquire, Write, Wait, Release
  <2>4. ASSUME NEW t \in Thread, Receive(t) \/ \E m \in Message : Send(t, m) PROVE OnePermission'
        BY <2>4 DEF Receive, Send
  <2>5. CASE UNCHANGED vars
        BY <2>5 DEF vars
  <2> QED BY <2>1, <2>2, <2>3, <2>4, <2>5 DEF Next, Step
<1>4. PermissionHasSender'
  <2> USE DEF ChannelInv, PermissionHasSender, Reading
  <2>1. ASSUME NEW t \in Thread, Announce(t) PROVE PermissionHasSender'
        BY <2>1 DEF Announce
  <2>2. ASSUME NEW t \in Thread, Wait(t) PROVE PermissionHasSender'
        BY <2>2 DEF Wait, OnePermission
  <2>3. ASSUME NEW t \in Thread, Await(t) \/ Read(t) \/ Confirm(t) PROVE PermissionHasSender'
        BY <2>3 DEF Await, Read, Confirm
  <2>4. ASSUME NEW t \in Thread, Acquire(t) \/ Write(t) \/ Release(t) PROVE PermissionHasSender'
        BY <2>4 DEF Acquire, Write, Release
  <2>5. ASSUME NEW t \in Thread, Receive(t) \/ \E m \in Message : Send(t, m)
        PROVE  PermissionHasSender'
        BY <2>5 DEF Receive, Send
  <2>6. CASE UNCHANGED vars
        BY <2>6 DEF vars
  <2> QED BY <2>1, <2>2, <2>3, <2>4, <2>5, <2>6 DEF Next, Step
<1>5. MessageStays'
  <2> USE DEF ChannelInv, MessageStays
  <2>1. ASSUME NEW t \in Thread, Write(t) PROVE MessageStays'
        BY <2>1, OneSender DEF Write
  <2>2. ASSUME NEW t \in Thread, Read(t) PROVE MessageStays'
        BY <2>2 DEF Read
  <2>3. ASSUME NEW t \in Thread, Acquire(t) \/ Announce(t) \/ Wait(t) \/ Release(t)
        PROVE  MessageStays'
        BY <2>3 DEF Acquire, Announce, Wait, Release
  <2>4. ASSUME NEW t \in Thread, Await(t) \/ Confirm(t) \/ Receive(t) PROVE MessageStays'
        BY <2>4 DEF Await, Confirm, Receive
  <2>5. ASSUME NEW t \in Thread, NEW m \in Message, Send(t, m) PROVE MessageStays'
        BY <2>5 DEF Send
  <2>6. CASE UNCHANGED vars
        BY <2>6 DEF vars
  <2> QED BY <2>1, <2>2, <2>3, <2>4, <2>5, <2>6 DEF Next, Step
<1> QED BY <1>1, <1>2, <1>3, <1>4, <1>5 DEF ChannelInv

-----------------------------------------------------------------------------
(* What a thread in each place shows to the users of the channel. *)
LEMMA CallIs ==
    ASSUME ChannelInv, NEW t \in Thread
    PROVE  /\ pc[t] = "idle" => call[t] = <<"idle">>
           /\ pc[t] \in {"await", "read"} => call[t] = <<"receiving">>
           /\ pc[t] = "confirm" => call[t] = <<"received", message[t]>>
           /\ pc[t] = "release" => call[t] = <<"sent">>
           /\ pc[t] = "wait" /\ WasRead => call[t] = <<"sent">>
           /\ pc[t] = "wait" /\ ~WasRead => call[t] = <<"sending", message[t]>>
           /\ pc[t] \in {"acquire", "write", "announce"} => call[t] = <<"sending", message[t]>>
BY DEF call, ChannelInv, ChannelTypeOK, Label, SendLabel, ReceiveLabel

LEMMA CallIsNext ==
    ASSUME ChannelInv', NEW t \in Thread
    PROVE  /\ pc'[t] = "idle" => call'[t] = <<"idle">>
           /\ pc'[t] \in {"await", "read"} => call'[t] = <<"receiving">>
           /\ pc'[t] = "confirm" => call'[t] = <<"received", message'[t]>>
           /\ pc'[t] = "release" => call'[t] = <<"sent">>
           /\ pc'[t] = "wait" /\ WasRead' => call'[t] = <<"sent">>
           /\ pc'[t] = "wait" /\ ~WasRead' => call'[t] = <<"sending", message'[t]>>
           /\ pc'[t] \in {"acquire", "write", "announce"} => call'[t] = <<"sending", message'[t]>>
BY DEF call, ChannelInv, ChannelTypeOK, Label, SendLabel, ReceiveLabel

(* A thread that stays where it is and whose message is kept shows what it *)
(* showed, unless it waits and its message is being read.                  *)
LEMMA CallKept ==
    ASSUME ChannelInv, ChannelInv', NEW t \in Thread,
           pc'[t] = pc[t], message'[t] = message[t],
           pc[t] = "wait" => (WasRead' <=> WasRead)
    PROVE  call'[t] = call[t]
<1>1. pc[t] \in Label
      BY DEF ChannelInv, ChannelTypeOK
<1> QED BY <1>1, CallIs, CallIsNext DEF Label, SendLabel, ReceiveLabel

LEMMA CallDomain == call = [t \in Thread |-> call[t]] /\ call' = [t \in Thread |-> call'[t]]
BY DEF call

(* Acquire, Write, Announce, Wait and Await are invisible. *)
LEMMA SilentStep ==
    ASSUME ChannelInv, ChannelInv', NEW t \in Thread,
           Acquire(t) \/ Write(t) \/ Announce(t) \/ Wait(t) \/ Await(t)
    PROVE  call' = call
<1> USE DEF Goto
<1>1. /\ \A u \in Thread : u # t => pc'[u] = pc[u]
      /\ message' = message
      BY DEF Acquire, Write, Announce, Wait, Await, ChannelInv, ChannelTypeOK
<1>2. CASE Acquire(t) \/ Write(t) \/ Await(t)
  <2>1. WasRead' <=> WasRead
        BY <1>2 DEF WasRead, Acquire, Write, Await, ChannelInv, ChannelTypeOK
  <2>2. call'[t] = call[t]
    <3>1. \/ pc[t] \in {"acquire", "write"} /\ pc'[t] \in {"write", "announce"}
          \/ pc[t] = "await" /\ pc'[t] = "read"
          BY <1>2 DEF Acquire, Write, Await, ChannelInv, ChannelTypeOK
    <3> QED BY <1>1, <3>1, CallIs, CallIsNext
  <2> QED BY <1>1, <2>1, <2>2, CallKept, CallDomain
<1>3. CASE Announce(t)
  <2>1. ~\E s \in Thread : pc[s] = "wait"
        BY <1>3, OneSender DEF Announce
  <2>2. ~WasRead
        BY <2>1 DEF WasRead, ChannelInv, ChannelTypeOK, PermissionHasSender, Reading
  <2>3. ~WasRead' /\ pc[t] = "announce" /\ pc'[t] = "wait"
        BY <1>3, <2>2 DEF WasRead, Announce, ChannelInv, ChannelTypeOK
  <2>4. call'[t] = call[t]
        BY <1>1, <2>3, CallIs, CallIsNext
  <2> QED BY <1>1, <2>1, <2>4, CallKept, CallDomain
<1>4. CASE Wait(t)
  <2>1. WasRead /\ pc[t] = "wait" /\ pc'[t] = "release"
        BY <1>4 DEF Wait, WasRead, ChannelInv, ChannelTypeOK
  <2>2. \A s \in Thread : pc[s] = "wait" => s = t
        BY <2>1, OneSender
  <2>3. call'[t] = call[t]
        BY <2>1, CallIs, CallIsNext
  <2> QED BY <1>1, <2>2, <2>3, CallKept, CallDomain
<1> QED BY <1>2, <1>3, <1>4

(* Read is the moment of the meeting. *)
LEMMA ReadIsMeet ==
    ASSUME ChannelInv, ChannelInv', NEW r \in Thread, Read(r)
    PROVE  \E s \in Thread : Abstract!Meet(s, r)
<1> USE DEF Goto
<1>1. /\ pc[r] = "read" /\ pc'[r] = "confirm"
      /\ message'[r] = myMessage
      /\ \A u \in Thread : u # r => pc'[u] = pc[u] /\ message'[u] = message[u]
      BY DEF Read, ChannelInv, ChannelTypeOK
<1>2. PICK s \in Thread : pc[s] = "wait"
      BY <1>1 DEF ChannelInv, PermissionHasSender, Reading
<1>3. ~WasRead /\ WasRead'
      BY <1>1 DEF WasRead, ChannelInv, ChannelTypeOK, OnePermission, Reading
<1>4. message[s] \in Message /\ myMessage = message[s] /\ s # r
      BY <1>1, <1>2 DEF ChannelInv, ChannelTypeOK, MessageStays
<1>5. call[s] = <<"sending", message[s]>> /\ call[r] = <<"receiving">>
      BY <1>1, <1>2, <1>3, CallIs
<1>6. call'[s] = <<"sent">> /\ call'[r] = <<"received", message[s]>>
      BY <1>1, <1>2, <1>3, <1>4, CallIsNext
<1>7. ASSUME NEW u \in Thread, u # s, u # r PROVE call'[u] = call[u]
  <2>1. pc[u] # "wait"
        BY <1>2, <1>7, OneSender
  <2> QED BY <1>1, <1>7, <2>1, CallKept
<1>8. call' = [call EXCEPT ![s] = <<"sent">>, ![r] = <<"received", message[s]>>]
      BY <1>4, <1>6, <1>7, CallDomain
<1> QED BY <1>4, <1>5, <1>8 DEF Abstract!Meet

(* Confirm and Release are the returns. *)
LEMMA ReturnStep ==
    ASSUME ChannelInv, ChannelInv', NEW t \in Thread, Confirm(t) \/ Release(t)
    PROVE  Abstract!Return(t)
<1> USE DEF Goto
<1>1. /\ pc[t] \in {"confirm", "release"} /\ pc'[t] = "idle"
      /\ message' = message
      /\ \A u \in Thread : u # t => pc'[u] = pc[u]
      BY DEF Confirm, Release, ChannelInv, ChannelTypeOK
<1>2. message[t] \in Message
      BY DEF ChannelInv, ChannelTypeOK
<1>3. call[t] \in Abstract!Finished
      BY <1>1, <1>2, CallIs DEF Abstract!Finished
<1>4. ASSUME NEW u \in Thread, u # t PROVE call'[u] = call[u]
  <2>1. CASE Confirm(t)
    <3>1. WasRead /\ WasRead'
          BY <2>1 DEF Confirm, WasRead, ChannelInv, ChannelTypeOK
    <3> QED BY <1>1, <1>4, <3>1, CallKept
  <2>2. CASE Release(t)
    <3>1. pc[u] # "wait"
          BY <1>4, <2>2, OneSender DEF Release
    <3> QED BY <1>1, <1>4, <3>1, CallKept
  <2> QED BY <2>1, <2>2
<1>5. call' = [call EXCEPT ![t] = <<"idle">>]
      BY <1>1, <1>4, CallIsNext, CallDomain
<1> QED BY <1>3, <1>5 DEF Abstract!Return

LEMMA EnterStep ==
    ASSUME ChannelInv, ChannelInv', NEW t \in Thread,
           Receive(t) \/ \E m \in Message : Send(t, m)
    PROVE  Abstract!Enter(t)
<1> USE DEF Goto
<1>1. /\ pc[t] = "idle"
      /\ \A u \in Thread : u # t => pc'[u] = pc[u] /\ message'[u] = message[u]
      BY DEF Receive, Send, ChannelInv, ChannelTypeOK
<1>2. WasRead' <=> WasRead
      BY DEF WasRead, Receive, Send, ChannelInv, ChannelTypeOK
<1>3. \A u \in Thread : u # t => call'[u] = call[u]
      BY <1>1, <1>2, CallKept
<1>4. PICK c \in Abstract!Calling : call'[t] = c
  <2>1. CASE Receive(t)
    <3>1. pc'[t] = "await"
          BY <2>1 DEF Receive, ChannelInv, ChannelTypeOK
    <3> QED BY <3>1, CallIsNext DEF Abstract!Calling
  <2>2. ASSUME NEW m \in Message, Send(t, m) PROVE \E c \in Abstract!Calling : call'[t] = c
    <3>1. pc'[t] = "acquire" /\ message'[t] = m
          BY <2>2 DEF Send, ChannelInv, ChannelTypeOK
    <3> QED BY <3>1, CallIsNext DEF Abstract!Calling
  <2> QED BY <2>1, <2>2
<1>5. call' = [call EXCEPT ![t] = c]
      BY <1>3, <1>4, CallDomain
<1> QED BY <1>1, <1>5, CallIs DEF Abstract!Enter

LEMMA StepIsRendezvousStep ==
    ASSUME ChannelInv, ChannelInv', [Next]_vars
    PROVE  [Abstract!RendezvousNext]_call
<1>1. CASE UNCHANGED vars
  <2>1. call' = call
        BY <1>1 DEF vars, call, WasRead
  <2> QED BY <2>1
<1> QED BY <1>1, SilentStep, ReadIsMeet, ReturnStep, EnterStep
        DEF Next, Step, Abstract!RendezvousNext

(* Channel.tla implements Rendezvous.tla: with any number of senders and   *)
(* receivers, every message passes from one Send to one Receive in one     *)
(* step, and neither returns before (channel.cc:16-38).                    *)
THEOREM ChannelIsRendezvous == Spec => ImplementsRendezvous
<1>1. Init => Abstract!RendezvousInit
      BY DEF Init, call, Abstract!RendezvousInit
<1> QED BY <1>1, ChannelInitInv, NextInv, StepIsRendezvousStep, PTL
        DEF Spec, ImplementsRendezvous, Abstract!RendezvousSpec
=============================================================================
