-------------------------------- MODULE Table --------------------------------
(***************************************************************************)
(* lib/table.hh: the table of open files of a thread and the table of      *)
(* processes.  Indices below current are in use unless they are on the     *)
(* sorted list freed.                                                      *)
(*                                                                         *)
(* The loop of Remove is a step of its own (Trim) per turn.  The variables *)
(* `live' and `mispopped' are not in the code: live is what the callers of *)
(* Add and Remove believe the table holds, and mispopped records that the  *)
(* loop took an index off freed that was not the one it looked at.         *)
(***************************************************************************)
EXTENDS Integers, Sequences

CONSTANTS
    SIZE,   \* capacity
    Item,   \* what is stored
    NoItem  \* T()

VARIABLES
    current,    \* Table::current
    freed,      \* Table::freed
    data,       \* Table::data
    trimming,   \* inside the loop of Remove
    j,          \* its counter
    live,
    mispopped

vars == <<current, freed, data, trimming, j, live, mispopped>>

Index == 0 .. SIZE - 1

Has(s, i) == \E k \in 1 .. Len(s) : s[k] = i

HasKey(i) == i < current /\ ~Has(freed, i)

(* X_... before X: a faulty variant of X, kept to show that the properties *)
(* notice the fault.                                                       *)
SortedInsert_AtEnd(s, i) == Append(s, i)

(* List::SortedInsert: before the first bigger element. *)
SortedInsert(s, i) ==
    LET pos == CHOOSE p \in 1 .. Len(s) + 1 :
                 /\ p <= Len(s) => i < s[p]
                 /\ \A k \in 1 .. p - 1 : s[k] <= i
    IN  [k \in 1 .. Len(s) + 1 |-> IF k < pos THEN s[k] ELSE IF k = pos THEN i ELSE s[k - 1]]

Init ==
    /\ current = 0
    /\ freed = <<>>
    /\ data = [i \in Index |-> NoItem]
    /\ trimming = FALSE
    /\ j = -1
    /\ live = [i \in Index |-> NoItem]
    /\ mispopped = FALSE

-----------------------------------------------------------------------------
(* The item goes to index i, which is returned. *)
Store(i, x) ==
    /\ data' = [data EXCEPT ![i] = x]
    /\ live' = [live EXCEPT ![i] = x]

AddRoom == current < SIZE

(* Add; with no room it returns -1 and changes nothing. *)
Add(x) ==
    /\ ~trimming
    /\ \/ /\ freed # <<>>
          /\ Store(Head(freed), x)
          /\ freed' = Tail(freed)
          /\ UNCHANGED current
       \/ /\ freed = <<>>
          /\ AddRoom
          /\ Store(current, x)
          /\ current' = current + 1
          /\ UNCHANGED freed
    /\ UNCHANGED <<trimming, j, mispopped>>

(* Remove up to its loop; its caller forgets i in any case. *)
Remove(i) ==
    /\ ~trimming
    /\ live' = [live EXCEPT ![i] = NoItem]
    /\ IF ~HasKey(i)
       THEN UNCHANGED <<current, freed, trimming, j>>
       ELSE IF i = current - 1
       THEN /\ current' = current - 1
            /\ trimming' = TRUE
            /\ j' = current - 2
            /\ UNCHANGED freed
       ELSE /\ freed' = SortedInsert(freed, i)
            /\ UNCHANGED <<current, trimming, j>>
    /\ UNCHANGED <<data, mispopped>>

LoopGoesOn == j >= 0 /\ ~HasKey(j)

(* One turn of the loop: SortedPop(&j) takes the first element of freed,   *)
(* the smallest, and puts it in j.                                         *)
Trim ==
    /\ trimming
    /\ IF LoopGoesOn
       THEN /\ freed' = Tail(freed)
            /\ mispopped' = (mispopped \/ Head(freed) # j)
            /\ current' = current - 1
            /\ j' = Head(freed) - 1
            /\ UNCHANGED trimming
       ELSE /\ trimming' = FALSE
            /\ j' = -1
            /\ UNCHANGED <<current, freed, mispopped>>
    /\ UNCHANGED <<data, live>>

(* Update, under its ASSERTs. *)
Update(i, x) ==
    /\ ~trimming
    /\ HasKey(i)
    /\ Store(i, x)
    /\ UNCHANGED <<current, freed, trimming, j, mispopped>>

Next ==
    \/ Trim
    \/ \E x \in Item : Add(x)
    \/ \E i \in Index : Remove(i)
    \/ \E i \in Index, x \in Item : Update(i, x)

Spec == Init /\ [][Next]_vars

-----------------------------------------------------------------------------
(* freed stays sorted and holds no index twice, over any sequence of calls *)
(* (SortedInsert is only called for an index that HasKey).                 *)
FreedIsSorted == \A k \in 1 .. Len(freed) - 1 : freed[k] < freed[k + 1]

(* ASSERT(freed.Has(j)) in the loop of Remove (table.hh:132). *)
LoopAssertHolds == trimming /\ LoopGoesOn => Has(freed, j)

(* What Get(i) answers. *)
Get(i) == IF HasKey(i) THEN data[i] ELSE NoItem

(* As long as the loop pops what it looks at, the table is the map its     *)
(* callers think it is.                                                    *)
ExactUntilMispop == ~mispopped => \A i \in Index : Get(i) = live[i]

(* "Check whether a given index has an associated item" (table.hh:30).     *)
HasKeyIsExact == \A i \in Index : HasKey(i) <=> live[i] # NoItem
=============================================================================
