----------------------------- MODULE AtomicDisk -----------------------------
(***************************************************************************)
(* What disk_read and disk_write promise their callers: between the call   *)
(* and the return there is one moment at which the sector is read or       *)
(* written as a whole, whatever other callers do.                          *)
(***************************************************************************)
CONSTANTS Threads, Slots, Values, Nothing

VARIABLES
    store,     \* contents of every sector of every disk
    call       \* what each thread has asked for, or got

vars == <<store, call>>

Op(kind, slot, val) == [op |-> kind, slot |-> slot, val |-> val]

Init ==
    /\ store \in [Slots -> Values]
    /\ call = [t \in Threads |-> Nothing]

Ask(t, c) ==
    /\ call[t] = Nothing
    /\ call' = [call EXCEPT ![t] = c]
    /\ UNCHANGED store

Read(t, s) ==
    /\ call[t] = Op("read", s, Nothing)
    /\ call' = [call EXCEPT ![t] = Op("got", s, store[s])]
    /\ UNCHANGED store

Write(t, s, v) ==
    /\ call[t] = Op("write", s, v)
    /\ store' = [store EXCEPT ![s] = v]
    /\ call' = [call EXCEPT ![t] = Op("put", s, v)]

Return(t, s, v) ==
    /\ call[t] \in {Op("got", s, v), Op("put", s, v)}
    /\ call' = [call EXCEPT ![t] = Nothing]
    /\ UNCHANGED store

Next == \E t \in Threads, s \in Slots :
    \/ Ask(t, Op("read", s, Nothing))
    \/ Read(t, s)
    \/ \E v \in Values : Ask(t, Op("write", s, v)) \/ Write(t, s, v) \/ Return(t, s, v)

Spec == Init /\ [][Next]_vars
=============================================================================
