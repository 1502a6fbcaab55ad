----------------------------- MODULE AlarmClock -----------------------------
(***************************************************************************)
(* What timer_sleep does for its callers, with no list and no cached       *)
(* earliest deadline.  A thread that goes to sleep ahead of its deadline   *)
(* sleeps until the tick that reaches it.  A thread whose deadline has     *)
(* been reached already does not return at once: it sleeps until the next  *)
(* tick.  Ticks are the only moments at which anybody wakes.               *)
(***************************************************************************)
EXTENDS Integers

CONSTANTS
    Sleepers,       \* the threads that may sleep
    Deadlines       \* the ticks at which they may ask to be woken

VARIABLES
    now,            \* ticks since boot
    asleep          \* the set of <<thread, deadline>> of sleeping threads

Init == now = 0 /\ asleep = {}

FallAsleep(t, deadline) ==
    /\ \A p \in asleep : p[1] # t
    /\ asleep' = asleep \cup {<<t, deadline>>}
    /\ UNCHANGED now

(* The deadline lies ahead.                                                *)
Sleep(t, deadline) == deadline > now /\ FallAsleep(t, deadline)

(* The deadline has been reached: a sleep of no ticks or fewer, or one that *)
(* was interrupted after timer_sleep had read the clock.                    *)
SleepLate(t, deadline) == deadline <= now /\ FallAsleep(t, deadline)

(* A tick wakes every thread whose deadline it reaches or finds reached.   *)
Tick ==
    /\ now' = now + 1
    /\ asleep' = {p \in asleep : p[2] > now'}

Next == \/ Tick
        \/ \E t \in Sleepers, deadline \in Deadlines :
             Sleep(t, deadline) \/ SleepLate(t, deadline)

Spec == Init /\ [][Next]_<<now, asleep>>
=============================================================================
