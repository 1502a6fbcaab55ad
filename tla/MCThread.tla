------------------------------ MODULE MCThread ------------------------------
(* Thread on small instances for TLC. *)
EXTENDS Thread

(* A sleep that is over before it begins, one of no ticks, and one of two. *)
MCDurations == {-1, 0, 2}
=============================================================================
