------------------------------- MODULE MCSynch -------------------------------
(* Synch on small instances for TLC. *)
EXTENDS Synch

CONSTANTS t1, t2, t3, s1, l1, c1

MCOneLock == [c \in Conds |-> l1]
MCEmpty == [s \in Semas |-> 0]
=============================================================================
