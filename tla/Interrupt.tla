------------------------------ MODULE Interrupt ------------------------------
(***************************************************************************)
(* threads/interrupt.c: registration, intr_handler, and the two interrupt  *)
(* controllers (PICs) it acknowledges, with threads that run with          *)
(* interrupts on or off and are switched from within an interrupt.  A      *)
(* device line stays requested until it is delivered, or is withdrawn      *)
(* before that, which the controller reports as a spurious interrupt of    *)
(* its lowest line.                                                        *)
(***************************************************************************)
EXTENDS Integers, FiniteSets, FiniteSetsExt

CONSTANTS
    Threads,
    MasterLines,    \* a subset of (0 .. 7) \ {2}
    SlaveLines,     \* a subset of 8 .. 15
    Registered,     \* lines whose vector has a handler
    MaxRaises,      \* how often a device raises its line
    MaxGlitches,    \* how often a line is withdrawn
    MaxOff,         \* how often a thread turns interrupts off itself
    None

Lines == MasterLines \cup SlaveLines
Cascade == 2
Vector(l) == 32 + l

VARIABLES
    irr,              \* lines requested and not delivered
    isr_m, isr_s,     \* lines in service on the master and on the slave
    current,          \* the thread on the processor
    int_on,           \* the processor's interrupt flag
    th,               \* Threads -> [at, vec, saved]: where each thread stands
    in_external_intr, yield_on_return,
    panic, raised, glitches, offs, served

vars == <<irr, isr_m, isr_s, current, int_on, th, in_external_intr, yield_on_return,
          panic, raised, glitches, offs, served>>
pic == <<irr, isr_m, isr_s>>
counts == <<raised, glitches, offs>>

Init ==
    /\ irr = {} /\ isr_m = {} /\ isr_s = {}
    /\ current \in Threads /\ int_on = TRUE
    /\ th = [t \in Threads |-> [at |-> "code", vec |-> None, saved |-> TRUE]]
    /\ in_external_intr = FALSE /\ yield_on_return = FALSE
    /\ panic = FALSE /\ raised = [l \in Lines |-> 0] /\ glitches = 0 /\ offs = 0
    /\ served = [l \in Lines |-> 0]

At(p) == ~panic /\ th[current].at = p

-----------------------------------------------------------------------------
(* The controllers: the highest request that nothing of the same or a higher *)
(* priority in service holds back; a slave line also occupies the cascade.   *)
Level(l) == IF l >= 8 THEN Cascade ELSE l
Deliverable(l) ==
    /\ \A k \in isr_m : Level(l) < k
    /\ l >= 8 => \A k \in isr_s : l < k
Pending == {l \in irr : Deliverable(l)}
Highest == CHOOSE l \in Pending : \A k \in Pending : 16 * Level(l) + l <= 16 * Level(k) + k

Raise(l) ==
    /\ ~panic /\ raised[l] < MaxRaises /\ l \notin irr
    /\ irr' = irr \cup {l} /\ raised' = [raised EXCEPT ![l] = @ + 1]
    /\ UNCHANGED <<isr_m, isr_s, current, int_on, th, in_external_intr, yield_on_return, panic, glitches, offs, served>>

(* The stub of an interrupt gate: interrupts off, the old flag saved.        *)
Enter(vec) ==
    /\ th' = [th EXCEPT ![current] = [at |-> "entry", vec |-> vec, saved |-> int_on]]
    /\ int_on' = FALSE

Deliver ==
    /\ At("code") /\ int_on /\ Pending # {}
    /\ LET l == Highest IN
         /\ irr' = irr \ {l}
         /\ isr_m' = isr_m \cup {Level(l)}
         /\ isr_s' = IF l >= 8 THEN isr_s \cup {l} ELSE isr_s
         /\ Enter(Vector(l))
    /\ UNCHANGED <<current, in_external_intr, yield_on_return, panic, counts, served>>

(* The request is withdrawn while the processor answers: vector 0x27 from    *)
(* the master with nothing in service, 0x2f from the slave with only the     *)
(* cascade in service.                                                       *)
Spurious ==
    /\ At("code") /\ int_on /\ Pending # {} /\ glitches < MaxGlitches
    /\ glitches' = glitches + 1
    /\ LET l == Highest IN
         /\ irr' = irr \ {l}
         /\ isr_m' = IF l >= 8 THEN isr_m \cup {Cascade} ELSE isr_m
         /\ Enter(IF l >= 8 THEN Vector(15) ELSE Vector(7))
         /\ served' = [served EXCEPT ![l] = @ + 1]
    /\ UNCHANGED <<isr_s, current, in_external_intr, yield_on_return, panic, raised, offs>>

-----------------------------------------------------------------------------
(* intr_handler *)
external(vec) == vec \in 32 .. 47
HasHandler(vec) == vec - 32 \in Registered

intr_handler ==
    LET vec == th[current].vec IN
    /\ At("entry")
    /\ in_external_intr' = TRUE /\ yield_on_return' = FALSE
    /\ IF HasHandler(vec) THEN th' = [th EXCEPT ![current].at = "handler"] /\ UNCHANGED panic
       ELSE IF vec \in {39, 47} THEN th' = [th EXCEPT ![current].at = "complete"] /\ UNCHANGED panic
       ELSE panic' = TRUE /\ UNCHANGED th
    /\ UNCHANGED <<pic, current, int_on, counts, served>>

(* A device's handler: it serves its line and may call intr_yield_on_return. *)
Handler ==
    LET l == th[current].vec - 32 IN
    /\ At("handler")
    /\ served' = IF l \in isr_s \cup isr_m THEN [served EXCEPT ![l] = @ + 1] ELSE served
    /\ yield_on_return' \in {yield_on_return, TRUE}
    /\ th' = [th EXCEPT ![current].at = "complete"]
    /\ UNCHANGED <<pic, current, int_on, in_external_intr, panic, counts>>

(* Mutant: only the controller the line belongs to is acknowledged.          *)
pic_end_of_interrupt_own(vec) ==
    /\ isr_m' = IF vec >= 40 \/ isr_m = {} THEN isr_m ELSE isr_m \ {Min(isr_m)}
    /\ isr_s' = IF vec >= 40 /\ isr_s # {} THEN isr_s \ {Min(isr_s)} ELSE isr_s

(* A nonspecific end of interrupt clears the highest line in service.        *)
pic_end_of_interrupt(vec) ==
    /\ isr_m' = IF isr_m = {} THEN {} ELSE isr_m \ {Min(isr_m)}
    /\ isr_s' = IF vec >= 40 /\ isr_s # {} THEN isr_s \ {Min(isr_s)} ELSE isr_s

(* Mutant: the flag is cleared after the yield.                              *)
Complete_late ==
    /\ At("complete")
    /\ pic_end_of_interrupt(th[current].vec)
    /\ th' = [th EXCEPT ![current].at = IF yield_on_return THEN "yield" ELSE "return"]
    /\ in_external_intr' = yield_on_return
    /\ UNCHANGED <<irr, current, int_on, yield_on_return, panic, counts, served>>

Complete ==
    /\ At("complete")
    /\ in_external_intr' = FALSE
    /\ pic_end_of_interrupt(th[current].vec)
    /\ th' = [th EXCEPT ![current].at = IF yield_on_return THEN "yield" ELSE "return"]
    /\ UNCHANGED <<irr, current, int_on, yield_on_return, panic, counts, served>>

(* thread_yield from the handler: another thread goes on where it stood, in  *)
(* the tail of an interrupt of its own or in code that had yielded with      *)
(* interrupts off, or in a new thread, which enables interrupts first; the   *)
(* same thread may be picked again.                                          *)
Yield ==
    /\ At("yield")
    /\ th' = [th EXCEPT ![current].at = "return"]
    /\ current' \in Threads
    /\ UNCHANGED <<pic, int_on, in_external_intr, yield_on_return, panic, counts, served>>

(* iretq: the saved flag comes back.                                         *)
Return ==
    /\ At("return")
    /\ int_on' = th[current].saved
    /\ th' = [th EXCEPT ![current] = [at |-> "code", vec |-> None, saved |-> TRUE]]
    /\ UNCHANGED <<pic, current, in_external_intr, yield_on_return, panic, counts, served>>

-----------------------------------------------------------------------------
(* intr_disable and intr_enable in thread code, and thread_yield there.      *)
intr_disable ==
    /\ At("code") /\ int_on /\ offs < MaxOff
    /\ int_on' = FALSE /\ offs' = offs + 1
    /\ UNCHANGED <<pic, current, th, in_external_intr, yield_on_return, panic, raised, glitches, served>>

intr_enable ==
    /\ At("code") /\ ~int_on
    /\ int_on' = TRUE
    /\ UNCHANGED <<pic, current, th, in_external_intr, yield_on_return, panic, counts, served>>

(* thread_yield turns interrupts off, and the thread that continues restores *)
(* what it had.                                                              *)
thread_yield ==
    /\ At("code") /\ offs < MaxOff
    /\ offs' = offs + 1
    /\ int_on' = FALSE
    /\ th' = [th EXCEPT ![current] = [at |-> "return", vec |-> None, saved |-> int_on]]
    /\ current' \in Threads
    /\ UNCHANGED <<pic, in_external_intr, yield_on_return, panic, raised, glitches, served>>

Next ==
    \/ \E l \in Lines : Raise(l)
    \/ Deliver \/ Spurious \/ intr_handler \/ Handler \/ Complete \/ Yield \/ Return
    \/ intr_disable \/ intr_enable \/ thread_yield

Spec == Init /\ [][Next]_vars

(* Code that turned interrupts off turns them on again, the processor takes  *)
(* requests, and handlers run to their end.                                  *)
Processor == Deliver \/ intr_handler \/ Handler \/ Complete \/ Yield \/ Return \/ intr_enable
FairSpec == Spec /\ WF_vars(Processor)

-----------------------------------------------------------------------------
(* intr_context and the assertions of intr_handler: in_external_intr is true *)
(* exactly while the running thread is between the entry and the end of an   *)
(* external handler, with interrupts off, so a handler never nests and       *)
(* thread_yield is never called from one; no thread is switched out there.   *)
OneExternalAtATime ==
    ~panic =>
    /\ in_external_intr <=> th[current].at \in {"handler", "complete"}
    /\ in_external_intr => ~int_on
    /\ \A t \in Threads \ {current} : th[t].at \notin {"entry", "handler", "complete"}

(* pic_end_of_interrupt: "If we don't acknowledge the IRQ, it will never be  *)
(* delivered to us again".  Outside handlers nothing is left in service on   *)
(* either controller, spurious interrupts included, and within one nothing   *)
(* but its own line.                                                         *)
AcknowledgesWhatItServes ==
    /\ th[current].at \notin {"entry", "handler", "complete"} => isr_m = {} /\ isr_s = {}
    /\ Cardinality(isr_m) <= 1 /\ Cardinality(isr_s) <= 1

(* intr_handler: a request of a line with a handler is waiting, in service   *)
(* with its handler still to run, or has been served or withdrawn, once each *)
(* time it was raised: none is lost and none is served twice.                *)
Unserved(l) == l \in isr_m \cup isr_s /\ th[current].at \in {"entry", "handler"}
RequestsAccounted ==
    \A l \in Lines \cap Registered :
        raised[l] = served[l] + (IF l \in irr THEN 1 ELSE 0) + (IF Unserved(l) THEN 1 ELSE 0)

(* Every request of a line with a handler is served, once for each time it   *)
(* was raised, whatever else is requested and wherever threads are switched. *)
Requested(l) == l \in irr
AllServed(l) == panic \/ (l \notin irr /\ served[l] = raised[l])
EveryRequestServed == \A l \in Lines \cap Registered : Requested(l) ~> AllServed(l)
=============================================================================
