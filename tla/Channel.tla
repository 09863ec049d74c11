------------------------------ MODULE Channel ------------------------------
(***************************************************************************)
(* threads/channel.cc: a rendezvous made of a lock and two semaphores,     *)
(* used by Thread::Join.  One step per statement of Send and Receive.  The *)
(* lock is a Mutex (Lock.tla implements it) and a semaphore is its value,  *)
(* P waiting until it is positive (Semaphore.tla).                         *)
(***************************************************************************)
EXTENDS Naturals, FiniteSets

CONSTANTS
    Thread,   \* the callers
    Nobody,   \* no holder
    Message   \* what is sent

ASSUME ChannelAssumption == Nobody \notin Thread /\ Message # {}

VARIABLES
    holder,       \* of lockSender
    semReceiver,  \* value of the semaphore
    semFinish,    \* value of the semaphore
    myMessage,    \* Channel::myMessage
    pc,           \* next statement of each thread
    message       \* per thread, Send's argument or what Receive read

vars == <<holder, semReceiver, semFinish, myMessage, pc, message>>

SendLabel    == {"acquire", "write", "announce", "wait", "release"}
ReceiveLabel == {"await", "read", "confirm"}

Locks == INSTANCE Mutex WITH User <- Thread, TheLocks <- {"lockSender"}

Init ==
    /\ Locks!MutexInit
    /\ semReceiver = 0
    /\ semFinish = 0
    /\ myMessage \in Message
    /\ pc = [t \in Thread |-> "idle"]
    /\ message \in [Thread -> {myMessage}]

Goto(t, from, to) == pc[t] = from /\ pc' = [pc EXCEPT ![t] = to]

-----------------------------------------------------------------------------
(* Channel::Send *)
Send(t, m) ==
    /\ Goto(t, "idle", "acquire")
    /\ message' = [message EXCEPT ![t] = m]
    /\ UNCHANGED <<holder, semReceiver, semFinish, myMessage>>

Acquire_Skipped(t) ==
    /\ Goto(t, "acquire", "write")
    /\ UNCHANGED <<holder, semReceiver, semFinish, myMessage, message>>

Acquire(t) ==
    /\ Goto(t, "acquire", "write")
    /\ Locks!Take("lockSender", t)
    /\ UNCHANGED <<semReceiver, semFinish, myMessage, message>>

Write(t) ==
    /\ Goto(t, "write", "announce")
    /\ myMessage' = message[t]
    /\ UNCHANGED <<holder, semReceiver, semFinish, message>>

Announce(t) ==
    /\ Goto(t, "announce", "wait")
    /\ semReceiver' = semReceiver + 1
    /\ UNCHANGED <<holder, semFinish, myMessage, message>>

Wait(t) ==
    /\ Goto(t, "wait", "release")
    /\ semFinish > 0
    /\ semFinish' = semFinish - 1
    /\ UNCHANGED <<holder, semReceiver, myMessage, message>>

Release(t) ==
    /\ Goto(t, "release", "idle")
    /\ Locks!Free("lockSender", t)
    /\ UNCHANGED <<semReceiver, semFinish, myMessage, message>>

-----------------------------------------------------------------------------
(* Channel::Receive *)
Receive(t) ==
    /\ Goto(t, "idle", "await")
    /\ UNCHANGED <<holder, semReceiver, semFinish, myMessage, message>>

Await(t) ==
    /\ Goto(t, "await", "read")
    /\ semReceiver > 0
    /\ semReceiver' = semReceiver - 1
    /\ UNCHANGED <<holder, semFinish, myMessage, message>>

Read(t) ==
    /\ Goto(t, "read", "confirm")
    /\ message' = [message EXCEPT ![t] = myMessage]
    /\ UNCHANGED <<holder, semReceiver, semFinish, myMessage>>

Confirm_Forgotten(t) ==
    /\ Goto(t, "confirm", "idle")
    /\ UNCHANGED <<holder, semReceiver, semFinish, myMessage, message>>

Confirm(t) ==
    /\ Goto(t, "confirm", "idle")
    /\ semFinish' = semFinish + 1
    /\ UNCHANGED <<holder, semReceiver, myMessage, message>>

-----------------------------------------------------------------------------
Step(t) ==
    \/ Acquire(t) \/ Write(t) \/ Announce(t) \/ Wait(t) \/ Release(t)
    \/ Await(t) \/ Read(t) \/ Confirm(t)

Next ==
    \E t \in Thread :
        \/ Step(t)
        \/ Receive(t)
        \/ \E m \in Message : Send(t, m)

Spec == Init /\ [][Next]_vars

(* A thread that can go on with its call does: it is ready, and the        *)
(* scheduler runs ready threads (of equal priority).                       *)
FairSpec == Spec /\ \A t \in Thread : WF_vars(Step(t))

-----------------------------------------------------------------------------
(* The sender's message has been read and the sender does not know yet. *)
WasRead == semFinish > 0 \/ \E r \in Thread : pc[r] = "confirm"

call == [t \in Thread |->
    CASE pc[t] = "idle" -> <<"idle">>
      [] pc[t] \in {"await", "read"} -> <<"receiving">>
      [] pc[t] = "confirm" -> <<"received", message[t]>>
      [] pc[t] = "release" \/ (pc[t] = "wait" /\ WasRead) -> <<"sent">>
      [] OTHER -> <<"sending", message[t]>>]

Abstract == INSTANCE Rendezvous WITH Party <- Thread

(* A receiver gets the message of exactly one sender, which returns only   *)
(* after it was read: no message is lost, overwritten or read twice, with  *)
(* any number of senders and receivers at once (channel.cc:16-38).         *)
ImplementsRendezvous == Abstract!RendezvousSpec

Offers(t) == pc[t] \in {"acquire", "write", "announce", "wait"} /\ call[t][1] = "sending"

(* When somebody sends and somebody receives, they meet. *)
SenderMeetsReceiver ==
    (\E s, r \in Thread : Offers(s) /\ pc[r] = "await")
        ~> (\E r \in Thread : pc[r] = "confirm")
=============================================================================
