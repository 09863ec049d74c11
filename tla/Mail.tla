-------------------------------- MODULE Mail --------------------------------
(***************************************************************************)
(* The network device (machine/network.cc) and the post office             *)
(* (network/post.cc), from the senders of one machine to a mailbox of      *)
(* another: the mailbox is the SynchList of Condition's lock and variable, *)
(* the postal worker its only appender.  Semaphores are their values, the  *)
(* lock sendLock its holder.  The socket keeps the packets it is given, in *)
(* order.  A message is the number of the Send that made it.               *)
(***************************************************************************)
EXTENDS SynchList, Sequences

CONSTANTS Sender, Worker   \* Worker: the thread of PostalDelivery, in Thread

ASSUME MailAssumption == Worker \in Thread /\ Sender \cap Thread = {} /\ Nobody \notin Sender

VARIABLES
    calls,             \* calls of PostOffice::Send so far, at most MaxAppends
    sending,           \* the message each sender is sending
    sendPc,            \* where each sender is in Send
    sendLock, messageSent, messageAvailable,
    sendInts,          \* pending NETWORK_SEND interrupts
    socket,            \* packets in the socket of the receiving machine
    inbox,             \* Network::inbox: nothing, or the packet buffered
    workerPc, hand,    \* PostalDelivery: waiting, or past P; the packet it has
    box,               \* the messages on the SynchList
    delivered,         \* not in the code: the messages that Receive returned
    wire               \* not in the code: the packets that were not lost

sendVars == <<calls, sending, sendPc, sendLock, messageSent, sendInts, wire>>
recvVars == <<messageAvailable, inbox, workerPc, hand>>
mailVars == <<listVars, sendVars, recvVars, socket, box, delivered>>

MailInit ==
    /\ ListInit
    /\ calls = 0 /\ sending = [s \in Sender |-> 0] /\ sendPc = [s \in Sender |-> "idle"]
    /\ sendLock = Nobody /\ messageSent = 0 /\ messageAvailable = 0 /\ sendInts = 0
    /\ socket = <<>> /\ inbox = <<>> /\ workerPc = "wait" /\ hand = <<>>
    /\ box = <<>> /\ delivered = <<>> /\ wire = <<>>

-----------------------------------------------------------------------------
(* PostOffice::Send *)
SendGoto(s, from, to) == sendPc[s] = from /\ sendPc' = [sendPc EXCEPT ![s] = to]

Send(s) ==
    /\ SendGoto(s, "idle", "acquire")
    /\ calls < MaxAppends
    /\ calls' = calls + 1
    /\ sending' = [sending EXCEPT ![s] = calls + 1]
    /\ UNCHANGED <<listVars, recvVars, socket, box, delivered, sendLock, messageSent, sendInts, wire>>

SendAcquire(s) ==
    /\ SendGoto(s, "acquire", "send")
    /\ sendLock = Nobody /\ sendLock' = s
    /\ UNCHANGED <<listVars, recvVars, socket, box, delivered, calls, sending, messageSent, sendInts, wire>>

NetworkSend_Silent(s, lost) ==
    /\ SendGoto(s, "send", "wait")
    /\ sendInts' = IF lost THEN sendInts ELSE sendInts + 1
    /\ IF lost THEN UNCHANGED <<socket, wire>>
       ELSE socket' = Append(socket, sending[s]) /\ wire' = Append(wire, sending[s])
    /\ UNCHANGED <<listVars, recvVars, box, delivered, calls, sending, sendLock, messageSent>>

(* Network::Send.  A lost packet is reported as sent all the same.         *)
(* sendBusy, which it asserts to be false, is never set.                   *)
NetworkSend(s, lost) ==
    /\ SendGoto(s, "send", "wait")
    /\ sendInts' = sendInts + 1
    /\ IF lost THEN UNCHANGED <<socket, wire>>
       ELSE socket' = Append(socket, sending[s]) /\ wire' = Append(wire, sending[s])
    /\ UNCHANGED <<listVars, recvVars, box, delivered, calls, sending, sendLock, messageSent>>

SendP_Skipped(s) ==
    /\ SendGoto(s, "wait", "release")
    /\ UNCHANGED <<listVars, recvVars, socket, box, delivered, calls, sending, sendLock, messageSent, sendInts, wire>>

SendP(s) ==
    /\ SendGoto(s, "wait", "release")
    /\ messageSent > 0 /\ messageSent' = messageSent - 1
    /\ UNCHANGED <<listVars, recvVars, socket, box, delivered, calls, sending, sendLock, sendInts, wire>>

SendRelease(s) ==
    /\ SendGoto(s, "release", "idle")
    /\ sendLock' = Nobody
    /\ UNCHANGED <<listVars, recvVars, socket, box, delivered, calls, sending, messageSent, sendInts, wire>>

(* Network::SendDone and PostOffice::PacketSent. *)
SendDone ==
    /\ sendInts > 0 /\ sendInts' = sendInts - 1
    /\ messageSent' = messageSent + 1
    /\ UNCHANGED <<listVars, recvVars, socket, box, delivered, calls, sending, sendPc, sendLock, wire>>

-----------------------------------------------------------------------------
CanBuffer_Always == socket # <<>>

(* CheckPktAvail reads a packet only into an empty inbox. *)
CanBuffer == inbox = <<>> /\ socket # <<>>

(* Network::CheckPktAvail and PostOffice::IncomingPacket. *)
CheckPktAvail ==
    /\ CanBuffer
    /\ inbox' = <<Head(socket)>> /\ socket' = Tail(socket)
    /\ messageAvailable' = messageAvailable + 1
    /\ UNCHANGED <<listVars, sendVars, box, delivered, workerPc, hand>>

(* PostalDelivery: P, Network::Receive, MailBox::Put. *)
DeliveryP ==
    /\ workerPc = "wait" /\ workerPc' = "receive"
    /\ messageAvailable > 0 /\ messageAvailable' = messageAvailable - 1
    /\ UNCHANGED <<listVars, sendVars, socket, box, delivered, inbox, hand>>

NetworkReceive_Keeps ==
    /\ workerPc = "receive" /\ workerPc' = "put"
    /\ hand' = inbox
    /\ UNCHANGED <<listVars, sendVars, socket, box, delivered, messageAvailable, inbox>>

NetworkReceive ==
    /\ workerPc = "receive" /\ workerPc' = "put"
    /\ hand' = inbox /\ inbox' = <<>>
    /\ UNCHANGED <<listVars, sendVars, socket, box, delivered, messageAvailable>>

Put ==
    /\ workerPc = "put" /\ workerPc' = "putting"
    /\ ListAppend(Worker)
    /\ UNCHANGED <<sendVars, messageAvailable, inbox, hand, socket, box, delivered>>

PutItem ==
    /\ AppendItem(Worker)
    /\ box' = box \o hand /\ hand' = <<>>
    /\ UNCHANGED <<sendVars, messageAvailable, inbox, workerPc, socket, delivered>>

PutDone ==
    /\ workerPc = "putting" /\ workerPc' = "wait"
    /\ ListRelease(Worker)
    /\ UNCHANGED <<sendVars, messageAvailable, inbox, hand, socket, box, delivered>>

(* PostOffice::Receive and MailBox::Get. *)
Receive(t) ==
    /\ t # Worker /\ ListPop(t)
    /\ UNCHANGED <<sendVars, recvVars, socket, box, delivered>>

GetItem(t) ==
    /\ PopItem(t)
    /\ IF box = <<>> THEN UNCHANGED <<box, delivered>>
       ELSE box' = Tail(box) /\ delivered' = Append(delivered, Head(box))
    /\ UNCHANGED <<sendVars, recvVars, socket>>

BoxStep(t) ==
    /\ \/ ListAcquire(t) \/ AppendSignal(t) \/ PopWait(t) \/ ListCondStep(t)
       \/ t # Worker /\ ListRelease(t)
    /\ UNCHANGED <<sendVars, recvVars, socket, box, delivered>>

DeliveryStep == DeliveryP \/ NetworkReceive \/ Put \/ PutItem \/ PutDone

SendStep(s) ==
    SendAcquire(s) \/ SendP(s) \/ SendRelease(s) \/ \E lost \in BOOLEAN : NetworkSend(s, lost)

MailNext ==
    \/ SendDone \/ CheckPktAvail \/ DeliveryStep
    \/ \E s \in Sender : Send(s) \/ SendStep(s)
    \/ \E t \in Thread : Receive(t) \/ GetItem(t) \/ BoxStep(t)

(* Scheduled interrupts come, and threads that can go on do; the mailbox's *)
(* lock and semaphore serve their waiters in order, hence SF.              *)
MailSpec ==
    /\ MailInit /\ [][MailNext]_mailVars
    /\ WF_mailVars(SendDone) /\ WF_mailVars(CheckPktAvail) /\ WF_mailVars(DeliveryStep)
    /\ \A s \in Sender : WF_mailVars(SendStep(s))
    /\ \A t \in Thread : SF_mailVars(GetItem(t) \/ BoxStep(t))

-----------------------------------------------------------------------------
(* A packet that the network did not lose is in exactly one place, behind  *)
(* the packets sent before it: a slow worker or a slow reader loses,       *)
(* repeats and reorders nothing (network.cc:86, 156-168, post.cc:217-235). *)
PacketsKeepOrder == delivered \o box \o hand \o inbox \o socket = wire

(* The device has one packet at a time, and whoever holds sendLock gets    *)
(* the interrupt of its own packet.  Only sendLock and the wait ensure it: *)
(* the device's sendBusy is never set (network.cc:134, post.cc:270-274).   *)
OneSendAtATime ==
    /\ sendInts + messageSent = Cardinality({s \in Sender : sendPc[s] = "wait"})
    /\ \A s \in Sender : sendPc[s] \in {"send", "wait", "release"} => sendLock = s

(* Send returns, also when its packet was lost (network.cc:137-145). *)
SendsReturn == \A s \in Sender : sendPc[s] = "wait" ~> sendPc[s] = "idle"

(* A packet on the wire reaches the mailbox whether or not anybody reads:  *)
(* no interleaving of poll, worker and readers leaves one in the socket or *)
(* the inbox (post.cc:207-236, network.cc:82-108).                         *)
PacketsReachTheBox ==
    \A n \in 1 .. MaxAppends : Len(wire) = n ~> Len(delivered \o box) >= n
=============================================================================
