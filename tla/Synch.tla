-------------------------------- MODULE Synch --------------------------------
(***************************************************************************)
(* threads/synch.c: semaphores, locks and condition variables, used by     *)
(* preemptible threads on one CPU.  Each function is cut at the points     *)
(* where interrupts are on: sema_down, sema_up and sema_try_down turn them *)
(* off and are one step up to thread_block; lock and condition operations  *)
(* are several steps, and the timer may preempt the thread between them.   *)
(*                                                                         *)
(* The scheduler is thread.c's run queue (module Thread models it in full; *)
(* the clock, thread creation and thread exit are left out here, so nobody *)
(* reaps pages and the timer interrupt is a preemption at any moment).     *)
(***************************************************************************)
EXTENDS Integers, Sequences, FiniteSets, List

CONSTANTS
    Threads,      \* kernel threads other than the idle thread
    Idle,         \* the idle thread
    None,         \* no object
    Semas,        \* semaphores used as such
    Locks,
    Conds,
    LockOf,       \* the one lock a condition variable is associated with
    InitValue,    \* initial values of the semaphores
    MaxValue      \* bound: nobody ups a semaphore beyond it

ASSUME SynchAssumption ==
    /\ IsFiniteSet(Threads) /\ Idle \notin Threads /\ None \notin Threads \cup {Idle}
    /\ Semas \cap Locks = {} /\ Threads \cap (Semas \cup Locks) = {}
    /\ None \notin Semas \cup Locks \cup Conds
    /\ LockOf \in [Conds -> Locks]
    /\ InitValue \in [Semas -> Nat]
    /\ MaxValue \in Nat

(* Every semaphore: plain ones, those inside locks, and the one in the     *)
(* semaphore_elem on the stack of a thread that is in cond_wait.           *)
AllSemas == Semas \cup Locks \cup Threads

(* "run": in the caller's code.  "down"/"wake": sema_down of obj[t], fresh *)
(* or back from thread_block with interrupts off.  "hold": lock_acquire    *)
(* after sema_down.  "clear": lock_release inside cond_wait.  "up":        *)
(* sema_up of obj[t].  "bcast"/"bup": cond_broadcast's loop.               *)
Labels == {"run", "down", "wake", "hold", "clear", "up", "bcast", "bup"}

VARIABLES
    current, ready_list,
    value, waiters,     \* semaphores
    holder,             \* locks
    cwait,              \* cond->waiters, each waiter named by its thread
    pc, obj,            \* control point of each thread and its operand
    cv                  \* the condition a thread waits for or broadcasts

schedVars == <<current, ready_list>>
semaVars == <<value, waiters>>
locVars == <<pc, obj, cv>>
vars == <<schedVars, semaVars, holder, cwait, locVars>>

Init ==
    /\ current = Idle
    /\ ready_list \in {s \in [1..Cardinality(Threads) -> Threads] : NoDup(s)}
    /\ value = [s \in AllSemas |->
                  IF s \in Semas THEN InitValue[s] ELSE IF s \in Locks THEN 1 ELSE 0]
    /\ waiters = [s \in AllSemas |-> <<>>]
    /\ holder = [l \in Locks |-> None]
    /\ cwait = [c \in Conds |-> <<>>]
    /\ pc = [t \in Threads |-> "run"]
    /\ obj = [t \in Threads |-> None]
    /\ cv = [t \in Threads |-> None]

-----------------------------------------------------------------------------
(* The run queue.                                                          *)

(* schedule(): the front of the run queue, or the idle thread.             *)
schedule(ready) ==
    /\ current' = IF ready = <<>> THEN Idle ELSE Head(ready)
    /\ ready_list' = IF ready = <<>> THEN <<>> ELSE Tail(ready)

At(t, label) == t = current /\ pc[t] = label
Goto(t, label) == pc' = [pc EXCEPT ![t] = label]
With(t, o) == obj' = [obj EXCEPT ![t] = o]

(* Mutants: thread_yield queues the thread at the front, or not at all.    *)
PreemptFront ==
    /\ current # Idle
    /\ pc[current] # "wake"
    /\ schedule(<<current>> \o ready_list)
    /\ UNCHANGED <<semaVars, holder, cwait, locVars>>

PreemptDrops ==
    /\ current # Idle
    /\ pc[current] # "wake"
    /\ schedule(ready_list)
    /\ UNCHANGED <<semaVars, holder, cwait, locVars>>

(* The timer preempts a thread that has interrupts on.                     *)
Preempt ==
    /\ current # Idle
    /\ pc[current] # "wake"
    /\ schedule(Append(ready_list, current))
    /\ UNCHANGED <<semaVars, holder, cwait, locVars>>

(* An interrupt ends the idle thread's hlt; it blocks again.               *)
IdleBlocks ==
    /\ current = Idle
    /\ ready_list # <<>>
    /\ schedule(ready_list)
    /\ UNCHANGED <<semaVars, holder, cwait, locVars>>

-----------------------------------------------------------------------------
(* Semaphores.                                                             *)

(* Mutants: sema_up wakes a thread only when the value was 0, or never.    *)
UpFromZero(s) ==
    /\ value' = [value EXCEPT ![s] = @ + 1]
    /\ IF waiters[s] = <<>> \/ value[s] > 0
       THEN UNCHANGED <<waiters, ready_list>>
       ELSE /\ waiters' = [waiters EXCEPT ![s] = Tail(@)]
            /\ ready_list' = Append(ready_list, Head(waiters[s]))

UpSilently(s) ==
    /\ value' = [value EXCEPT ![s] = @ + 1]
    /\ UNCHANGED <<waiters, ready_list>>

(* sema_up(s), up to but not including what the caller does next.          *)
Up(s) ==
    /\ value' = [value EXCEPT ![s] = @ + 1]
    /\ IF waiters[s] = <<>>
       THEN UNCHANGED <<waiters, ready_list>>
       ELSE /\ waiters' = [waiters EXCEPT ![s] = Tail(@)]
            /\ ready_list' = Append(ready_list, Head(waiters[s]))

(* A thread calls sema_down(s) ...                                         *)
CallDown(t, s) ==
    /\ At(t, "run")
    /\ Goto(t, "down")
    /\ With(t, s)
    /\ UNCHANGED <<schedVars, semaVars, holder, cwait, cv>>

(* Mutant: cond_wait records itself as the holder without lock_acquire.    *)
AfterDownUnlocked(t, s) ==
    \/ s \in Semas /\ Goto(t, "run") /\ With(t, None)
    \/ s \in Locks /\ Goto(t, "hold") /\ UNCHANGED obj
    \/ s = t /\ Goto(t, "hold") /\ With(t, LockOf[cv[t]])

(* What follows sema_down(s): its caller's code, the rest of lock_acquire,  *)
(* or the lock_acquire at the end of cond_wait.                             *)
AfterDown(t, s) ==
    \/ s \in Semas /\ Goto(t, "run") /\ With(t, None)
    \/ s \in Locks /\ Goto(t, "hold") /\ UNCHANGED obj
    \/ s = t /\ Goto(t, "down") /\ With(t, LockOf[cv[t]])

(* ... which blocks while the value is 0.                                  *)
sema_down(t) ==
    LET s == obj[t]
    IN  /\ At(t, "down") \/ At(t, "wake")
        /\ \/ /\ value[s] = 0
              /\ waiters' = [waiters EXCEPT ![s] = Append(@, t)]
              /\ Goto(t, "wake")
              /\ schedule(ready_list)
              /\ UNCHANGED <<value, obj>>
           \/ /\ value[s] > 0
              /\ value' = [value EXCEPT ![s] = @ - 1]
              /\ AfterDown(t, s)
              /\ UNCHANGED <<schedVars, waiters>>
        /\ UNCHANGED <<holder, cwait, cv>>

(* sema_try_down, by a thread or by an interrupt handler.                  *)
sema_try_down(s) ==
    /\ current # Idle => pc[current] # "wake"
    /\ value[s] > 0
    /\ value' = [value EXCEPT ![s] = @ - 1]
    /\ UNCHANGED <<schedVars, waiters, holder, cwait, locVars>>

(* sema_up on a plain semaphore, by a thread or by an interrupt handler.   *)
sema_up(s) ==
    /\ current # Idle => pc[current] # "wake"
    /\ value[s] < MaxValue
    /\ Up(s)
    /\ UNCHANGED <<current, holder, cwait, locVars>>

-----------------------------------------------------------------------------
(* Locks.                                                                  *)

(* lock_acquire's sema_down; its assertion excludes the holder.            *)
CallAcquire(t, l) ==
    /\ holder[l] # t
    /\ CallDown(t, l)

(* lock_acquire and lock_try_acquire after the down: record the holder.    *)
lock_acquire(t) ==
    /\ At(t, "hold")
    /\ holder' = [holder EXCEPT ![obj[t]] = t]
    /\ Goto(t, "run")
    /\ With(t, None)
    /\ cv' = [cv EXCEPT ![t] = None]
    /\ UNCHANGED <<schedVars, semaVars, cwait>>

(* Mutant: lock_try_acquire decrements without looking.                    *)
lock_try_acquire_blind(t, l) ==
    /\ At(t, "run")
    /\ holder[l] # t
    /\ value' = [value EXCEPT ![l] = @ - 1]
    /\ Goto(t, "hold")
    /\ With(t, l)
    /\ UNCHANGED <<schedVars, waiters, holder, cwait, cv>>

(* sema_try_down and the test of its result, when it succeeds.             *)
lock_try_acquire(t, l) ==
    /\ At(t, "run")
    /\ holder[l] # t
    /\ value[l] > 0
    /\ value' = [value EXCEPT ![l] = @ - 1]
    /\ Goto(t, "hold")
    /\ With(t, l)
    /\ UNCHANGED <<schedVars, waiters, holder, cwait, cv>>

(* lock_release: clears the holder, called by a thread or (label "clear")  *)
(* by cond_wait ...                                                        *)
lock_release(t, l) ==
    /\ \/ At(t, "run") /\ holder[l] = t
       \/ At(t, "clear") /\ obj[t] = l
    /\ holder' = [holder EXCEPT ![l] = None]
    /\ Goto(t, "up")
    /\ With(t, l)
    /\ UNCHANGED <<schedVars, semaVars, cwait, cv>>

(* ... and ups its semaphore.  The same step is cond_signal's sema_up of a  *)
(* waiter.  Inside cond_wait the thread goes on to down its own semaphore.  *)
UpStep(t) ==
    /\ At(t, "up")
    /\ Up(obj[t])
    /\ \/ cv[t] = None /\ Goto(t, "run") /\ With(t, None)
       \/ cv[t] # None /\ Goto(t, "down") /\ With(t, t)
    /\ UNCHANGED <<current, holder, cwait, cv>>

-----------------------------------------------------------------------------
(* Condition variables; all three require the caller to hold the lock.     *)

(* Mutant: cond_wait queues the waiter at the front.                       *)
cond_wait_front(t, c) ==
    /\ At(t, "run")
    /\ holder[LockOf[c]] = t
    /\ value' = [value EXCEPT ![t] = 0]
    /\ cwait' = [cwait EXCEPT ![c] = <<t>> \o @]
    /\ cv' = [cv EXCEPT ![t] = c]
    /\ Goto(t, "clear")
    /\ With(t, LockOf[c])
    /\ UNCHANGED <<schedVars, waiters, holder>>

(* cond_wait: a fresh semaphore on the stack, queued, then lock_release.   *)
cond_wait(t, c) ==
    /\ At(t, "run")
    /\ holder[LockOf[c]] = t
    /\ value' = [value EXCEPT ![t] = 0]
    /\ cwait' = [cwait EXCEPT ![c] = Append(@, t)]
    /\ cv' = [cv EXCEPT ![t] = c]
    /\ Goto(t, "clear")
    /\ With(t, LockOf[c])
    /\ UNCHANGED <<schedVars, waiters, holder>>

(* Mutant: cond_signal leaves the waiter on the list.                      *)
cond_signal_linked(t, c) ==
    /\ At(t, "run")
    /\ holder[LockOf[c]] = t
    /\ cwait[c] # <<>>
    /\ Goto(t, "up")
    /\ With(t, Head(cwait[c]))
    /\ UNCHANGED <<schedVars, semaVars, holder, cwait, cv>>

(* cond_signal: unlinks the first waiter; UpStep ups its semaphore.        *)
cond_signal(t, c) ==
    /\ At(t, "run")
    /\ holder[LockOf[c]] = t
    /\ cwait[c] # <<>>
    /\ cwait' = [cwait EXCEPT ![c] = Tail(@)]
    /\ Goto(t, "up")
    /\ With(t, Head(cwait[c]))
    /\ UNCHANGED <<schedVars, semaVars, holder, cv>>

(* cond_broadcast: cond_signal until nobody is left.                       *)
CallBroadcast(t, c) ==
    /\ At(t, "run")
    /\ holder[LockOf[c]] = t
    /\ cwait[c] # <<>>
    /\ Goto(t, "bcast")
    /\ cv' = [cv EXCEPT ![t] = c]
    /\ UNCHANGED <<schedVars, semaVars, holder, cwait, obj>>

cond_broadcast(t) ==
    /\ At(t, "bcast")
    /\ \/ /\ cwait[cv[t]] # <<>>
          /\ cwait' = [cwait EXCEPT ![cv[t]] = Tail(@)]
          /\ Goto(t, "bup")
          /\ With(t, Head(cwait[cv[t]]))
          /\ UNCHANGED cv
       \/ /\ cwait[cv[t]] = <<>>
          /\ Goto(t, "run")
          /\ With(t, None)
          /\ cv' = [cv EXCEPT ![t] = None]
          /\ UNCHANGED cwait
    /\ UNCHANGED <<schedVars, semaVars, holder>>

BroadcastUp(t) ==
    /\ At(t, "bup")
    /\ Up(obj[t])
    /\ Goto(t, "bcast")
    /\ UNCHANGED <<current, holder, cwait, obj, cv>>

-----------------------------------------------------------------------------
(* A thread in its own code may call anything whose assertions it meets.   *)
Call ==
    \/ \E s \in Semas : sema_try_down(s) \/ sema_up(s)
    \/ \E t \in Threads :
         \/ \E s \in Semas : CallDown(t, s)
         \/ \E l \in Locks : \/ CallAcquire(t, l)
                             \/ lock_try_acquire(t, l)
                             \/ pc[t] = "run" /\ lock_release(t, l)
         \/ \E c \in Conds : cond_wait(t, c) \/ cond_signal(t, c) \/ CallBroadcast(t, c)

(* The steps of a call that is under way.                                  *)
Step(t) ==
    \/ sema_down(t) \/ lock_acquire(t) \/ UpStep(t)
    \/ cond_broadcast(t) \/ BroadcastUp(t)
    \/ \E l \in Locks : pc[t] = "clear" /\ lock_release(t, l)

Next == Preempt \/ IdleBlocks \/ Call \/ \E t \in Threads : Step(t)

Spec == Init /\ [][Next]_vars

(* The timer keeps interrupting (a pending interrupt is taken when they     *)
(* come on), and a call that is under way goes on.                          *)
FairSpec == /\ Spec
            /\ SF_vars(Preempt) /\ WF_vars(IdleBlocks)
            /\ \A t \in Threads : SF_vars(Step(t))

-----------------------------------------------------------------------------
(* Properties.                                                             *)

(* Type invariant.                                                         *)
TypeOK ==
    /\ current \in Threads \cup {Idle}
    /\ ready_list \in Seq(Threads)
    /\ value \in [AllSemas -> Nat]
    /\ waiters \in [AllSemas -> Seq(Threads)]
    /\ holder \in [Locks -> Threads \cup {None}]
    /\ cwait \in [Conds -> Seq(Threads)]
    /\ pc \in [Threads -> Labels]
    /\ obj \in [Threads -> AllSemas \cup {None}]
    /\ cv \in [Threads -> Conds \cup {None}]

(* From sema_down's decrement of the lock to sema_up's increment.          *)
Owns(t, l) == holder[l] = t \/ (obj[t] = l /\ pc[t] \in {"hold", "clear", "up"})

(* lock_init's comment: a lock can be held by at most a single thread, over  *)
(* every path that takes it (lock_acquire, lock_try_acquire, cond_wait); its *)
(* semaphore is 0 exactly while somebody is inside.                          *)
LockExclusion ==
    \A l \in Locks :
      /\ \A t, u \in Threads : Owns(t, l) /\ Owns(u, l) => t = u
      /\ value[l] = IF \E t \in Threads : Owns(t, l) THEN 0 ELSE 1

(* A thread is running, or on the run queue once, or on exactly one wait   *)
(* list once, at the point in sema_down where being woken makes it look    *)
(* again (sema_down, sema_up, thread_unblock's assertion).                 *)
NoLostThread ==
    /\ NoDup(ready_list)
    /\ \A t \in Threads :
         /\ t = current => t \notin Elems(ready_list)
         /\ t \notin {current} \cup Elems(ready_list) <=>
              \E s \in AllSemas : t \in Elems(waiters[s])
    /\ \A s \in AllSemas :
         /\ NoDup(waiters[s])
         /\ \A t \in Elems(waiters[s]) : obj[t] = s /\ pc[t] = "wake"

(* sema_up loses no wake-up: while threads are on the wait list, the units  *)
(* of the semaphore are at most as many as the threads already woken for    *)
(* them, so no unit is left to which nobody has been called, whoever barges *)
(* in between (sema_down of a newcomer, sema_try_down).                     *)
NoLostWakeup ==
    \A s \in AllSemas :
      waiters[s] # <<>> =>
        value[s] <= Cardinality({t \in Threads : /\ obj[t] = s /\ pc[t] = "wake"
                                                 /\ t \notin Elems(waiters[s])})

(* A thread between cond_wait's list_push_back and its return from the       *)
(* sema_down of the semaphore on its stack.                                  *)
InWait(t) == /\ cv[t] # None
             /\ \/ pc[t] \in {"clear", "up"}
                \/ pc[t] \in {"down", "wake"} /\ obj[t] = t

Signaller(u, t) == obj[u] = t /\ pc[u] \in {"up", "bup"}

(* A cond_wait is signalled exactly once: the waiter is on the condition's   *)
(* list, or a signaller that has unlinked it is about to up its semaphore,   *)
(* or the semaphore is up.  So no signal is lost, and the list and the       *)
(* signaller never hold a pointer into the stack of a thread that has left   *)
(* cond_wait.                                                                *)
SignalledOnce ==
    /\ \A t \in Threads :
         LET listed == \E c \in Conds : t \in Elems(cwait[c])
             called == \E u \in Threads : Signaller(u, t)
         IN  /\ listed \/ called \/ value[t] > 0 <=> InWait(t)
             /\ ~ (listed /\ called) /\ ~ (listed /\ value[t] > 0)
             /\ ~ (called /\ value[t] > 0) /\ value[t] <= 1
    /\ \A c \in Conds : /\ NoDup(cwait[c])
                        /\ \A t \in Elems(cwait[c]) : cv[t] = c

(* No wake-up is lost, neither a unit's (sema_up) nor a signal's            *)
(* (cond_signal).                                                           *)
WakeupsKept == NoLostWakeup /\ SignalledOnce

(* Who is inside a lock.                                                   *)
Insiders(l) == {t \in Threads : Owns(t, l)}

(* The one of at most one thread.                                          *)
Sole(inside) == IF inside = {} THEN None ELSE CHOOSE t \in inside : TRUE

(* The monitor's state: the thread inside each lock, and the waiters of each *)
(* condition that have given the lock up.  A waiter that has not is the last *)
(* on the list.                                                              *)
Owner == [l \in Locks |-> Sole(Insiders(l))]

Queue == [c \in Conds |-> IF Elems(cwait[c]) \cap Insiders(LockOf[c]) = {}
                          THEN cwait[c]
                          ELSE Popped(cwait[c], Len(cwait[c]) - 1)]

(* Locks and conditions implement a Mesa monitor; in particular cond_wait     *)
(* "atomically releases LOCK and waits", although it queues itself, clears    *)
(* the holder, ups the semaphore and blocks in separate, preemptible steps.   *)
M == INSTANCE Monitor WITH owner <- Owner, queue <- Queue

ImplementsMonitor == M!Spec

(* Round robin: a thread on the run queue gets the CPU (thread_tick,        *)
(* thread_yield, next_thread_to_run).                                       *)
RoundRobin == \A t \in Threads : t \in Elems(ready_list) ~> t = current

(* A unit of a semaphore does not lie idle beside its waiters: a free lock   *)
(* somebody is queued for is taken, by that thread or by one that barged in. *)
UnitsAreTaken ==
    \A s \in AllSemas :
      (value[s] > 0 /\ waiters[s] # <<>>) ~> (value[s] = 0 \/ waiters[s] = <<>>)

(* A signalled waiter leaves cond_wait's sema_down.                         *)
SignalIsReceived ==
    \A t \in Threads : (\E u \in Threads : Signaller(u, t)) ~> ~ InWait(t)

(* What sema_up and cond_signal hand out gets to somebody.                  *)
WakeupsArrive == UnitsAreTaken /\ SignalIsReceived
=============================================================================
