----------------------------- MODULE Calibrate -----------------------------
(***************************************************************************)
(* devices/timer.c: how many iterations of busy_wait fill a timer tick, as *)
(* timer_calibrate finds out by trying, and the sleeps of less than a tick *)
(* that are cut out of it.                                                 *)
(***************************************************************************)
EXTENDS Integers

CONSTANTS
    Rates,      \* iterations a CPU really makes in a tick
    Unsigned,   \* 2^32, the range of `unsigned'
    Freq,       \* TIMER_FREQ
    Sleeps      \* what may be slept for: <<num, denom>>, seconds

VARIABLES
    rate, pc,
    loops_per_tick, high_bit, test_bit,
    sleep       \* the last real_time_sleep: what it asked for and did

vars == <<rate, pc, loops_per_tick, high_bit, test_bit, sleep>>

Init ==
    /\ rate \in Rates
    /\ pc = "double" /\ loops_per_tick = 2 ^ 10 /\ high_bit = 0 /\ test_bit = 0
    /\ sleep = <<"none">>

(* busy_wait(loops), begun just after a tick, sees the next one.             *)
too_many_loops(loops) == loops > rate

(* One turn of the loop that looks for the highest bit.                      *)
Double ==
    /\ pc = "double"
    /\ LET twice == (2 * loops_per_tick) % Unsigned IN
       IF too_many_loops(twice)
       THEN /\ pc' = "refine" /\ high_bit' = loops_per_tick /\ test_bit' = loops_per_tick \div 2
            /\ UNCHANGED loops_per_tick
       ELSE /\ loops_per_tick' = twice
            /\ pc' = (IF twice = 0 THEN "panic" ELSE pc)      \* ASSERT (loops_per_tick != 0)
            /\ UNCHANGED <<high_bit, test_bit>>
    /\ UNCHANGED <<rate, sleep>>

(* Mutant: the last bits are not tried.                                      *)
LastBit_early(high) == high \div 2 ^ 7
(* Mutant: a bound that the shifted bit never meets.                         *)
LastBit_never(high) == high
(* The bit at which the refinement stops, untried.                           *)
LastBit(high) == high \div 2 ^ 10

(* One turn of the loop that refines: each bit is tried with the highest bit *)
(* alone.                                                                    *)
Refine ==
    /\ pc = "refine"
    /\ IF test_bit = LastBit(high_bit)
       THEN pc' = "done" /\ UNCHANGED <<loops_per_tick, test_bit>>
       ELSE /\ loops_per_tick' = (IF too_many_loops(high_bit + test_bit) THEN loops_per_tick
                                  ELSE loops_per_tick + test_bit)
            /\ test_bit' = test_bit \div 2 /\ UNCHANGED pc
    /\ UNCHANGED <<rate, high_bit, sleep>>

(* Mutant: the time is divided down before it is multiplied.                 *)
SubTick_early(num, denom) == (((num \div 1000) * loops_per_tick * Freq) \div (denom \div 1000))
(* The loops of a sleep of less than a tick.                                 *)
SubTick(num, denom) == ((((loops_per_tick * num) \div 1000) * Freq) \div (denom \div 1000))

(* timer_msleep, timer_usleep and timer_nsleep.                              *)
real_time_sleep(num, denom) ==
    /\ pc = "done"
    /\ LET ticks == (num * Freq) \div denom IN
       sleep' = IF ticks > 0 THEN <<"ticks", ticks, num, denom>>
                ELSE <<"loops", SubTick(num, denom), num, denom>>
    /\ UNCHANGED <<rate, pc, loops_per_tick, high_bit, test_bit>>

Next == Double \/ Refine \/ \E s \in Sleeps : real_time_sleep(s[1], s[2])
FairSpec == Init /\ [][Next]_vars /\ WF_vars(Double \/ Refine)

-----------------------------------------------------------------------------
Calibrated == pc = "done" /\ rate >= 2 ^ 10

(* timer_calibrate never ends far below the rate: it misses less than the    *)
(* last bit it tries, and stays below twice the rate; its assertion fails    *)
(* only on a CPU whose rate has the top bit of an unsigned.                  *)
CalibrationNear ==
    /\ Calibrated => loops_per_tick + high_bit \div 2 ^ 9 >= rate /\ loops_per_tick < 2 * rate
    /\ pc = "panic" => rate >= Unsigned \div 2

(* Sleeps are rounded down, never up; one of whole ticks by less than a      *)
(* tick, a shorter one by no more than the loops that the two divisions      *)
(* lose.                                                                     *)
SleepRoundsDown ==
    /\ sleep[1] = "ticks" =>
         sleep[2] * sleep[4] <= sleep[3] * Freq /\ sleep[3] * Freq < (sleep[2] + 1) * sleep[4]
    /\ sleep[1] = "loops" =>
         LET asked == loops_per_tick * sleep[3] * Freq IN
         sleep[2] * sleep[4] <= asked /\ asked < (sleep[2] + 1) * sleep[4] + 1000 * Freq

(* timer_calibrate comes to an end.                                          *)
CalibrationOver == pc \in {"done", "panic"}
CalibrationEnds == <>CalibrationOver

(* "Number of loops per timer tick.": that many loops do not take longer     *)
(* than a tick, by the very test the calibration uses.                       *)
(* The code does not keep it: README.md, "Disagreements".                    *)
LoopsFitTick == Calibrated => ~too_many_loops(loops_per_tick)
=============================================================================
