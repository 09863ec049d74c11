----------------------------- MODULE Rendezvous -----------------------------
(***************************************************************************)
(* What a channel promises: a Send and a Receive meet.  The message passes *)
(* in one step from one sender to one receiver, and neither call returns   *)
(* before.  Channel.tla implements it.                                     *)
(***************************************************************************)
CONSTANTS Party, Message

VARIABLE call   \* what each party is doing

Calling  == {<<"sending", m>> : m \in Message} \cup {<<"receiving">>}
Finished == {<<"received", m>> : m \in Message} \cup {<<"sent">>}

RendezvousInit == call = [p \in Party |-> <<"idle">>]

Enter(p) == call[p] = <<"idle">> /\ \E c \in Calling : call' = [call EXCEPT ![p] = c]

Meet(s, r) ==
    \E m \in Message :
        /\ call[s] = <<"sending", m>>
        /\ call[r] = <<"receiving">>
        /\ call' = [call EXCEPT ![s] = <<"sent">>, ![r] = <<"received", m>>]

Return(p) == call[p] \in Finished /\ call' = [call EXCEPT ![p] = <<"idle">>]

RendezvousNext ==
    \/ \E p \in Party : Enter(p) \/ Return(p)
    \/ \E s, r \in Party : Meet(s, r)

RendezvousSpec == RendezvousInit /\ [][RendezvousNext]_call
=============================================================================
