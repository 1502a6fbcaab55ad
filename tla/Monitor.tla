------------------------------- MODULE Monitor -------------------------------
(***************************************************************************)
(* What locks and condition variables promise together: a Mesa monitor.    *)
(* A lock has at most one owner.  Waiting gives the lock up and joins the  *)
(* end of the condition's queue in one step.  A signal takes the thread    *)
(* that has waited longest out of the queue and hands it nothing: it then  *)
(* enters like everybody else.  A thread in a queue enters no monitor.     *)
(***************************************************************************)
EXTENDS Sequences, List

CONSTANTS Threads, Locks, Conds, LockOf, None

VARIABLES
    owner,          \* owner of each lock, or None
    queue           \* threads waiting for each condition, in order

Init == /\ owner = [l \in Locks |-> None]
        /\ queue = [c \in Conds |-> <<>>]

Enter(t, l) ==
    /\ owner[l] = None
    /\ \A c \in Conds : t \notin Elems(queue[c])
    /\ owner' = [owner EXCEPT ![l] = t]
    /\ UNCHANGED queue

Leave(t, l) ==
    /\ owner[l] = t
    /\ owner' = [owner EXCEPT ![l] = None]
    /\ UNCHANGED queue

Wait(t, c) ==
    /\ owner[LockOf[c]] = t
    /\ owner' = [owner EXCEPT ![LockOf[c]] = None]
    /\ queue' = [queue EXCEPT ![c] = Append(@, t)]

Signal(t, c) ==
    /\ owner[LockOf[c]] = t
    /\ queue[c] # <<>>
    /\ queue' = [queue EXCEPT ![c] = Tail(@)]
    /\ UNCHANGED owner

Next == \E t \in Threads : \/ \E l \in Locks : Enter(t, l) \/ Leave(t, l)
                           \/ \E c \in Conds : Wait(t, c) \/ Signal(t, c)

Spec == Init /\ [][Next]_<<owner, queue>>
=============================================================================
