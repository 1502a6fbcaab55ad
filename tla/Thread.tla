------------------------------- MODULE Thread -------------------------------
(***************************************************************************)
(* The scheduler of threads/thread.c with everything that runs inside it:  *)
(* the timer interrupt (devices/timer.c, the external-interrupt path of    *)
(* threads/interrupt.c), the alarm clock (thread_sleep, thread_wakeup),    *)
(* thread creation with the page allocator's and the tid lock, thread exit *)
(* with the deferred release of the dead thread's page, and the idle       *)
(* thread.                                                                 *)
(*                                                                         *)
(* The machine has one CPU.  A region that runs with interrupts off is one *)
(* atomic step up to the point where it calls schedule(); between any two  *)
(* steps of a thread that runs with interrupts on the timer interrupt may  *)
(* be taken.  A `struct thread' lives at the bottom of its own page, so a  *)
(* thread is identified with its page: page 0 is the initial thread's      *)
(* (set up by the loader, outside the pool), pages 1..NPages are the       *)
(* kernel pool.                                                            *)
(***************************************************************************)
EXTENDS Integers, Sequences, List

CONSTANTS
    NPages,       \* pages of the kernel pool
    TIME_SLICE,   \* timer ticks given to each thread
    Durations,    \* arguments of timer_sleep
    ListTail,     \* &sleep_list.tail read as an int64_t
    INT64_MAX,    \* value of earliest_wake_up_tick when nobody sleeps
    MaxTicks,     \* bound: timer interrupts
    MaxTid        \* bound: thread_create is not called once next_tid > MaxTid

ASSUME ThreadAssumption ==
    /\ NPages \in Nat \ {0}
    /\ TIME_SLICE \in Nat \ {0}
    /\ Durations \subseteq Int
    /\ MaxTicks \in Nat
    /\ MaxTid \in Nat
    /\ ListTail \in Int
    /\ INT64_MAX \in Int
    (* The kernel is linked above KERN_BASE = 0x8004000000, so the address *)
    (* of a list sentinel exceeds every tick count and alarm of a run.     *)
    /\ MaxTicks < ListTail
    /\ \A d \in Durations : MaxTicks + d < ListTail
    /\ ListTail <= INT64_MAX

NULL == -1
Main == 0                       \* initial_thread
Pool == 1..NPages
Threads == {Main} \cup Pool
Locks == {"pool", "tid"}        \* kernel_pool.lock, tid_lock
Semas == Locks \cup {"idle"}    \* their semaphores, and idle_started

Statuses == {"NONE", "RUNNING", "READY", "BLOCKED", "DYING"}

(* Where a thread is.  "run": in its thread function, interrupts on, between *)
(* calls.  "down" .. "up": inside lock_acquire / lock_release or a semaphore *)
(* operation on lk[t]; "wake" is the inside of sema_down's loop after        *)
(* thread_block has returned, "reap" the same loop inside do_schedule, both  *)
(* with interrupts off.                                                      *)
Labels == {"none", "boot", "run", "sleep", "down", "wake", "hold", "read",
           "write", "clear", "up", "insert", "reap", "dead",
           "idle_init", "idle_block", "idle_hlt"}

VARIABLES
    current,            \* the running thread
    status,             \* t->status ("NONE": the page is no thread)
    ready_list, sleep_list, destruction_req,
    alarm,              \* t->alarm
    earliest,           \* earliest_wake_up_tick
    ticks, thread_ticks,
    used_map,           \* pages of the kernel pool that are allocated
    value, waiters,     \* semaphores
    holder,             \* lock->holder
    next_tid, tid,
    idle_thread,
    pc, lk, page, val,  \* control point and locals of each thread
    fault               \* "none", or how the kernel stopped

schedVars == <<current, status, ready_list, thread_ticks, destruction_req>>
alarmVars == <<sleep_list, alarm, earliest>>
lockVars == <<value, waiters, holder>>
tidVars == <<next_tid, tid>>
locVars == <<lk, page, val>>
vars == <<schedVars, alarmVars, ticks, used_map, lockVars, tidVars,
          idle_thread, pc, locVars, fault>>

-----------------------------------------------------------------------------
(* thread_init, up to the call of thread_start.                            *)
Init ==
    /\ current = Main
    /\ status = [t \in Threads |-> IF t = Main THEN "RUNNING" ELSE "NONE"]
    /\ ready_list = <<>> /\ sleep_list = <<>> /\ destruction_req = <<>>
    /\ alarm = [t \in Threads |-> 0]
    /\ earliest = INT64_MAX
    /\ ticks = 0 /\ thread_ticks = 0
    /\ used_map = {}
    /\ value = [s \in Semas |-> IF s \in Locks THEN 1 ELSE 0]
    /\ waiters = [s \in Semas |-> <<>>]
    /\ holder = [l \in Locks |-> NULL]
    /\ next_tid = 2
    /\ tid = [t \in Threads |-> IF t = Main THEN 1 ELSE 0]
    /\ idle_thread = NULL
    /\ pc = [t \in Threads |-> IF t = Main THEN "boot" ELSE "none"]
    /\ lk = [t \in Threads |-> "pool"]
    /\ page = [t \in Threads |-> NULL]
    /\ val = [t \in Threads |-> 0]
    /\ fault = "none"

-----------------------------------------------------------------------------
(* The context switch.                                                     *)

next_thread_to_run(ready) == IF ready = <<>> THEN idle_thread ELSE Head(ready)

(* schedule() called with the statuses st, the run queue ready and the     *)
(* destruction queue req: starts a new time slice for the next thread, and *)
(* queues the page of a dying thread it switches away from.                *)
schedule(st, ready, req) ==
    LET next == next_thread_to_run(ready)
    IN  /\ current' = next
        /\ status' = [st EXCEPT ![next] = "RUNNING"]
        /\ ready_list' = IF ready = <<>> THEN <<>> ELSE Tail(ready)
        /\ thread_ticks' = 0
        /\ destruction_req' =
             IF next # current /\ st[current] = "DYING" /\ current # Main
             THEN Append(req, current) ELSE req

(* Mutant: thread_block leaves the status alone.                           *)
thread_block_running == schedule(status, ready_list, destruction_req)

thread_block == schedule([status EXCEPT ![current] = "BLOCKED"],
                         ready_list, destruction_req)

(* do_schedule(new) when the pool lock is free or nothing is to be freed:   *)
(* every page of req goes back to the pool.  palloc_free_page downs and ups *)
(* the lock's semaphore, so each release also wakes one thread that still   *)
(* waits for the lock.  st, ready, pcs: as the caller has left them.        *)
do_schedule(new, req, st, ready, pcs) ==
    LET k == Least({Len(req), Len(waiters["pool"])})
        woken == Popped(waiters["pool"], k)
        freed == Elems(req)
    IN  /\ req = <<>> \/ value["pool"] > 0
        /\ used_map' = used_map \ freed
        /\ waiters' = [waiters EXCEPT !["pool"] = Rest(@, k)]
        /\ pc' = [t \in Threads |-> IF t \in freed THEN "none" ELSE pcs[t]]
        /\ schedule([t \in Threads |->
                       IF t = current THEN new
                       ELSE IF t \in freed THEN "NONE"
                       ELSE IF t \in Elems(woken) THEN "READY" ELSE st[t]],
                    ready \o woken, <<>>)
        /\ UNCHANGED <<value, holder, locVars, fault>>

(* do_schedule when the current thread meets a held pool lock in           *)
(* palloc_free_page.  An exiting thread is on no list: it waits for the    *)
(* lock, and goes on freeing (label "reap") once it is woken.  The page it *)
(* has popped is filled with 0xcc by then; the model leaves the dead       *)
(* thread's status and tid as they were, for nobody reads them any more.   *)
do_schedule_waits(req) ==
    /\ req # <<>>
    /\ value["pool"] = 0
    /\ holder["pool"] # current
    /\ waiters' = [waiters EXCEPT !["pool"] = Append(@, current)]
    /\ pc' = [pc EXCEPT ![current] = "reap"]
    /\ page' = [page EXCEPT ![current] = Head(req)]
    /\ schedule([status EXCEPT ![current] = "BLOCKED"], ready_list, Tail(req))
    /\ UNCHANGED <<value, holder, used_map, lk, val, fault>>

(* A yielding thread is already linked into the run queue.  If it holds    *)
(* the lock itself, lock_acquire's assertion stops the kernel; otherwise   *)
(* sema_down links it a second time.  What linked lists do after that is   *)
(* not modelled: the kernel counts as stopped there too.                   *)
yield_meets_lock(ready, pcs) ==
    /\ destruction_req # <<>>
    /\ value["pool"] = 0
    /\ destruction_req' = Tail(destruction_req)
    /\ ready_list' = ready
    /\ pc' = pcs
    /\ UNCHANGED <<current, thread_ticks, used_map, value, holder, locVars>>

yield_asserts(st, ready, pcs) ==
    /\ yield_meets_lock(ready, pcs)
    /\ holder["pool"] = current
    /\ fault' = "lock_assert"
    /\ status' = st
    /\ UNCHANGED waiters

yield_relinks(st, ready, pcs) ==
    /\ yield_meets_lock(ready, pcs)
    /\ holder["pool"] # current
    /\ fault' = "double_link"
    /\ status' = [st EXCEPT ![current] = "BLOCKED"]
    /\ waiters' = [waiters EXCEPT !["pool"] = Append(@, current)]

(* Mutants: thread_yield queues the idle thread too, or queues nobody.     *)
RequeuedIdle(ready) == Append(ready, current)
RequeuedNobody(ready) == ready

(* thread_yield: the idle thread is never put on the run queue.            *)
Requeued(ready) == IF current = idle_thread THEN ready ELSE Append(ready, current)

thread_yield(st, ready, pcs) ==
    \/ do_schedule("READY", destruction_req, st, Requeued(ready), pcs)
    \/ yield_relinks(st, Requeued(ready), pcs)

-----------------------------------------------------------------------------
(* The timer interrupt.                                                    *)

(* Mutant: an if in place of thread_wakeup's loop.                         *)
WakeOne(now) == IF sleep_list = <<>> \/ now < earliest THEN 0 ELSE 1

(* How many sleepers thread_wakeup pops: its loop tests                     *)
(* earliest_wake_up_tick first and, after each pop, the alarm of the new    *)
(* front; at the empty list it reads ListTail in place of an alarm.         *)
WakeCount(now) ==
    IF sleep_list = <<>> \/ now < earliest THEN 0
    ELSE Least({n \in 1..Len(sleep_list) :
                 n < Len(sleep_list) => now < alarm[sleep_list[n + 1]]})

(* Mutant: thread_wakeup forgets the sleepers it leaves on the list.       *)
NextEarliestReset(n) == IF n = 0 THEN earliest ELSE INT64_MAX

(* earliest_wake_up_tick after thread_wakeup has popped n sleepers.        *)
NextEarliest(n) ==
    IF sleep_list = <<>> THEN INT64_MAX
    ELSE IF n = 0 THEN earliest
    ELSE IF n = Len(sleep_list) THEN ListTail
    ELSE alarm[sleep_list[n + 1]]

(* Interrupts are on unless the current thread is in early boot or has     *)
(* just come back inside a region that disabled them.                      *)
InterruptsOn == pc[current] \notin {"boot", "wake", "reap"}

(* thread_tick asks for a yield at the end of the time slice.              *)
SliceOver == thread_ticks + 1 >= TIME_SLICE

(* timer_interrupt, when thread_wakeup pops n sleepers.                    *)
timer_interrupt(n) ==
    /\ ticks' = ticks + 1
    /\ sleep_list' = Rest(sleep_list, n)
    /\ earliest' = NextEarliest(n)

(* intr_handler for vector 0x20: timer_interrupt, then thread_yield when    *)
(* thread_tick has asked for it.  An interrupt ends the idle thread's hlt. *)
TimerInterrupt ==
    LET n == WakeCount(ticks + 1)
        woken == Popped(sleep_list, n)
        st == [t \in Threads |-> IF t \in Elems(woken) THEN "READY" ELSE status[t]]
        ready == ready_list \o woken
        pcs == IF pc[current] = "idle_hlt"
               THEN [pc EXCEPT ![current] = "idle_block"] ELSE pc
    IN  /\ fault = "none"
        /\ InterruptsOn
        /\ ticks < MaxTicks
        /\ timer_interrupt(n)
        /\ \/ /\ SliceOver
              /\ \/ thread_yield(st, ready, pcs)
                 \/ yield_asserts(st, Requeued(ready), pcs)
           \/ /\ ~ SliceOver
              /\ thread_ticks' = thread_ticks + 1
              /\ status' = st
              /\ ready_list' = ready
              /\ pc' = pcs
              /\ UNCHANGED <<current, destruction_req, used_map, lockVars,
                             locVars, fault>>
        /\ UNCHANGED <<alarm, tidVars, idle_thread>>

-----------------------------------------------------------------------------
(* What the running thread does.                                           *)

At(label) == fault = "none" /\ pc[current] = label
Goto(label) == pc' = [pc EXCEPT ![current] = label]

(* thread_start, interrupts still off: creates the idle thread.            *)
thread_start ==
    /\ At("boot")
    /\ LET p == Least(Pool \ used_map)
       IN  /\ used_map' = used_map \cup {p}
           /\ status' = [status EXCEPT ![p] = "READY"]
           /\ ready_list' = Append(ready_list, p)
           /\ tid' = [tid EXCEPT ![p] = next_tid]
           /\ pc' = [pc EXCEPT ![Main] = "down", ![p] = "idle_init"]
    /\ next_tid' = next_tid + 1
    /\ lk' = [lk EXCEPT ![Main] = "idle"]
    /\ UNCHANGED <<current, thread_ticks, destruction_req, alarmVars, ticks,
                   lockVars, idle_thread, page, val, fault>>

(* thread_yield, called by the thread, which holds no lock then.           *)
Yield ==
    /\ At("run")
    /\ thread_yield(status, ready_list, pc)
    /\ UNCHANGED <<alarmVars, ticks, tidVars, idle_thread>>

(* Mutant: thread_exit calls schedule() itself and reaps nothing.          *)
thread_exit_unreaped ==
    /\ At("run")
    /\ schedule([status EXCEPT ![current] = "DYING"], ready_list, destruction_req)
    /\ Goto("dead")
    /\ UNCHANGED <<alarmVars, ticks, used_map, lockVars, tidVars, idle_thread,
                   locVars, fault>>

(* thread_exit.                                                            *)
thread_exit ==
    /\ At("run")
    /\ \/ do_schedule("DYING", destruction_req, status, ready_list,
                      [pc EXCEPT ![current] = "dead"])
       \/ do_schedule_waits(destruction_req)
    /\ UNCHANGED <<alarmVars, ticks, tidVars, idle_thread>>

(* An exiting thread comes back from waiting for the pool lock with the     *)
(* victim it had popped, and finishes do_schedule's loop.                   *)
Reap ==
    /\ At("reap")
    /\ \/ do_schedule("DYING", <<page[current]>> \o destruction_req, status,
                      ready_list, [pc EXCEPT ![current] = "dead"])
       \/ do_schedule_waits(<<page[current]>> \o destruction_req)
    /\ UNCHANGED <<alarmVars, ticks, tidVars, idle_thread>>

(* timer_sleep reads the clock ...                                         *)
timer_sleep(d) ==
    /\ At("run")
    /\ Goto("sleep")
    /\ val' = [val EXCEPT ![current] = ticks + d]
    /\ UNCHANGED <<schedVars, alarmVars, ticks, used_map, lockVars, tidVars,
                   idle_thread, lk, page, fault>>

(* Mutant: thread_sleep does not call earliest_time.                       *)
thread_sleep_stale ==
    /\ At("sleep")
    /\ LET a == val[current]
           Bigger == {t \in Threads : a <= alarm[t]}
       IN  /\ alarm' = [alarm EXCEPT ![current] = a]
           /\ sleep_list' = list_insert_ordered(sleep_list, current, Bigger)
    /\ Goto("run")
    /\ val' = [val EXCEPT ![current] = 0]
    /\ thread_block
    /\ UNCHANGED <<earliest, ticks, used_map, lockVars, tidVars, idle_thread, lk,
                   page, fault>>

(* ... and thread_sleep blocks until the alarm, perhaps ticks later.       *)
thread_sleep ==
    /\ At("sleep")
    /\ LET a == val[current]
           Bigger == {t \in Threads : a <= alarm[t]}    \* timer_comparator
       IN  /\ alarm' = [alarm EXCEPT ![current] = a]
           /\ earliest' = IF earliest > a THEN a ELSE earliest
           /\ sleep_list' = list_insert_ordered(sleep_list, current, Bigger)
    /\ Goto("run")
    /\ val' = [val EXCEPT ![current] = 0]
    /\ thread_block
    /\ UNCHANGED <<ticks, used_map, lockVars, tidVars, idle_thread, lk, page, fault>>

(* Mutant: the pool's bitmap is scanned without its lock.                  *)
thread_create_unlocked ==
    /\ At("run")
    /\ next_tid <= MaxTid
    /\ Goto("read")
    /\ lk' = [lk EXCEPT ![current] = "pool"]
    /\ UNCHANGED <<schedVars, alarmVars, ticks, used_map, lockVars, tidVars,
                   idle_thread, page, val, fault>>

(* thread_create: palloc_get_page and allocate_tid take their locks the    *)
(* same way.  "down": sema_down of the lock's semaphore.                   *)
thread_create ==
    /\ At("run")
    /\ next_tid <= MaxTid
    /\ Goto("down")
    /\ lk' = [lk EXCEPT ![current] = "pool"]
    /\ UNCHANGED <<schedVars, alarmVars, ticks, used_map, lockVars, tidVars,
                   idle_thread, page, val, fault>>

(* Mutant: allocate_tid does not wait for tid_lock.                        *)
sema_down_tid_open ==
    LET s == lk[current]
    IN  /\ At("down") \/ At("wake")
        /\ \/ /\ value[s] = 0 /\ s # "tid"
              /\ waiters' = [waiters EXCEPT ![s] = Append(@, current)]
              /\ Goto("wake")
              /\ thread_block
              /\ UNCHANGED value
           \/ /\ value[s] > 0 \/ s = "tid"
              /\ value' = [value EXCEPT ![s] = IF s = "tid" THEN 0 ELSE @ - 1]
              /\ Goto(IF s = "idle" THEN "run" ELSE "hold")
              /\ UNCHANGED <<schedVars, waiters>>
        /\ UNCHANGED <<alarmVars, ticks, used_map, holder, tidVars, idle_thread,
                       locVars, fault>>

(* sema_down: fresh ("down") or back from thread_block ("wake").           *)
sema_down ==
    LET s == lk[current]
    IN  /\ At("down") \/ At("wake")
        /\ \/ /\ value[s] = 0
              /\ waiters' = [waiters EXCEPT ![s] = Append(@, current)]
              /\ Goto("wake")
              /\ thread_block
              /\ UNCHANGED value
           \/ /\ value[s] > 0
              /\ value' = [value EXCEPT ![s] = @ - 1]
              /\ Goto(IF s = "idle" THEN "run" ELSE "hold")
              /\ UNCHANGED <<schedVars, waiters>>
        /\ UNCHANGED <<alarmVars, ticks, used_map, holder, tidVars, idle_thread,
                       locVars, fault>>

(* lock_acquire after sema_down: records the holder.                       *)
lock_acquire ==
    /\ At("hold")
    /\ holder' = [holder EXCEPT ![lk[current]] = current]
    /\ Goto("read")
    /\ UNCHANGED <<schedVars, alarmVars, ticks, used_map, value, waiters, tidVars,
                   idle_thread, locVars, fault>>

(* Mutants: bitmap_scan goes one bit too far, or its BITMAP_ERROR is       *)
(* taken for page 0 of the pool.                                           *)
LowestFreeBeyond == Least((1..(NPages + 1)) \ used_map)
LowestFreeUnchecked == IF Pool \subseteq used_map THEN 1 ELSE Least(Pool \ used_map)

(* The two critical sections read ...                                      *)
LowestFree == IF Pool \subseteq used_map THEN NULL ELSE Least(Pool \ used_map)

CriticalRead ==
    /\ At("read")
    /\ Goto("write")
    /\ \/ /\ lk[current] = "pool"            \* bitmap_scan
          /\ page' = [page EXCEPT ![current] = LowestFree]
          /\ UNCHANGED val
       \/ /\ lk[current] = "tid"             \* load next_tid
          /\ val' = [val EXCEPT ![current] = next_tid]
          /\ UNCHANGED page
    /\ UNCHANGED <<schedVars, alarmVars, ticks, used_map, lockVars, tidVars,
                   idle_thread, lk, fault>>

(* allocate_tid stores the next tid, thread_create the new thread's: after *)
(* lock_release in the code, but nobody else sees the page before          *)
(* thread_unblock.                                                         *)
allocate_tid ==
    /\ next_tid' = val[current] + 1
    /\ tid' = [tid EXCEPT ![page[current]] = val[current]]

(* ... and write.                                                          *)
CriticalWrite ==
    /\ At("write")
    /\ Goto("clear")
    /\ \/ /\ lk[current] = "pool"            \* bitmap_set_multiple
          /\ used_map' = used_map \cup ({page[current]} \ {NULL})
          /\ UNCHANGED <<tidVars, val>>
       \/ /\ lk[current] = "tid"
          /\ allocate_tid
          /\ val' = [val EXCEPT ![current] = 0]
          /\ UNCHANGED used_map
    /\ UNCHANGED <<schedVars, alarmVars, ticks, lockVars, idle_thread, lk, page,
                   fault>>

(* lock_release clears the holder ...                                      *)
lock_release ==
    /\ At("clear")
    /\ holder' = [holder EXCEPT ![lk[current]] = NULL]
    /\ Goto("up")
    /\ UNCHANGED <<schedVars, alarmVars, ticks, used_map, value, waiters, tidVars,
                   idle_thread, locVars, fault>>

(* Mutant: sema_up only increments.                                        *)
UnblockNobody(s) == <<>>

(* The waiter that sema_up unblocks, if there is one.                      *)
Unblocked(s) == IF waiters[s] = <<>> THEN <<>> ELSE <<Head(waiters[s])>>

(* init_thread clears the new struct thread, and makes it BLOCKED.          *)
init_thread(t, st) ==
    /\ status' = [st EXCEPT ![t] = "BLOCKED"]
    /\ alarm' = [alarm EXCEPT ![t] = 0]
    /\ tid' = [tid EXCEPT ![t] = 0]

(* ... and ups the semaphore, waking the thread that has waited longest.    *)
(* After the pool lock, thread_create either returns TID_ERROR or           *)
(* initialises the new thread as BLOCKED and goes on to allocate_tid.       *)
sema_up ==
    LET s == lk[current]
        woken == Unblocked(s)
        st == [t \in Threads |-> IF t \in Elems(woken) THEN "READY" ELSE status[t]]
    IN  /\ At("up")
        /\ value' = [value EXCEPT ![s] = @ + 1]
        /\ waiters' = [waiters EXCEPT ![s] = Rest(@, Len(woken))]
        /\ ready_list' = ready_list \o woken
        /\ \/ /\ s = "pool" /\ page[current] # NULL
              /\ init_thread(page[current], st)
              /\ Goto("down")
              /\ lk' = [lk EXCEPT ![current] = "tid"]
           \/ /\ ~ (s = "pool" /\ page[current] # NULL)
              /\ status' = st
              /\ Goto(CASE s = "pool" -> "run"
                        [] s = "tid" -> "insert"
                        [] OTHER -> "idle_block")
              /\ UNCHANGED <<alarm, tid, lk>>
        /\ UNCHANGED <<current, thread_ticks, destruction_req, sleep_list,
                       earliest, ticks, used_map, holder, next_tid, idle_thread,
                       page, val, fault>>

(* thread_create's thread_unblock of the new thread.                       *)
thread_unblock ==
    /\ At("insert")
    /\ LET t == page[current]
       IN  /\ ready_list' = Append(ready_list, t)
           /\ status' = [status EXCEPT ![t] = "READY"]
           /\ pc' = [pc EXCEPT ![current] = "run", ![t] = "run"]
           /\ page' = [page EXCEPT ![current] = NULL, ![t] = NULL]
           /\ val' = [val EXCEPT ![t] = 0]
           /\ lk' = [lk EXCEPT ![current] = "pool", ![t] = "pool"]
    /\ UNCHANGED <<current, thread_ticks, destruction_req, alarmVars, ticks,
                   used_map, lockVars, tidVars, idle_thread, fault>>

(* The idle thread: registers itself, ups idle_started (sema_up above),    *)
(* and then blocks and halts for ever.                                     *)
idle_init ==
    /\ At("idle_init")
    /\ idle_thread' = current
    /\ Goto("up")
    /\ lk' = [lk EXCEPT ![current] = "idle"]
    /\ UNCHANGED <<schedVars, alarmVars, ticks, used_map, lockVars, tidVars,
                   page, val, fault>>

idle ==
    /\ At("idle_block")
    /\ Goto("idle_hlt")
    /\ thread_block
    /\ UNCHANGED <<alarmVars, ticks, used_map, lockVars, tidVars, idle_thread,
                   locVars, fault>>

(* A thread in its function may call anything at any time.                 *)
Call == Yield \/ thread_exit \/ thread_create \/ \E d \in Durations : timer_sleep(d)

(* The steps of a call that is under way.                                  *)
Step == thread_start \/ Reap \/ thread_sleep \/ sema_down \/ lock_acquire
        \/ CriticalRead \/ CriticalWrite \/ lock_release \/ sema_up
        \/ thread_unblock \/ idle_init \/ idle

Next == TimerInterrupt \/ Call \/ Step

Spec == Init /\ [][Next]_vars

(* The timer keeps interrupting: a request that arrives while interrupts   *)
(* are off stays pending in the interrupt controller and is taken when     *)
(* they come on.  A call that has begun goes on.                           *)
FairSpec == Spec /\ SF_vars(TimerInterrupt) /\ WF_vars(Step)

-----------------------------------------------------------------------------
(* Properties.  A kernel that has stopped (fault) promises nothing more.   *)

Running == fault = "none"

(* Type invariant: every variable has the shape of the C object it models.  *)
TypeOK ==
    /\ current \in Threads
    /\ status \in [Threads -> Statuses]
    /\ ready_list \in Seq(Threads)
    /\ sleep_list \in Seq(Threads)
    /\ destruction_req \in Seq(Pool)
    /\ alarm \in [Threads -> Int]
    /\ earliest \in Int
    /\ ticks \in 0..MaxTicks
    /\ thread_ticks \in 0..(TIME_SLICE - 1)
    /\ used_map \subseteq Pool
    /\ value \in [Semas -> Nat]
    /\ waiters \in [Semas -> Seq(Threads)]
    /\ holder \in [Locks -> Threads \cup {NULL}]
    /\ next_tid \in Nat
    /\ tid \in [Threads -> Nat]
    /\ idle_thread \in Threads \cup {NULL}
    /\ pc \in [Threads -> Labels]
    /\ lk \in [Threads -> Semas]
    /\ page \in [Threads -> Pool \cup {NULL}]
    /\ val \in [Threads -> Int]
    /\ fault \in {"none", "lock_assert", "double_link"}

(* A thread that is building another one in thread_create: the new page is  *)
(* page[c], reserved from CriticalWrite on and a BLOCKED thread once        *)
(* init_thread has run.                                                     *)
HasPage(c) == /\ page[c] # NULL
              /\ \/ lk[c] = "pool" /\ pc[c] \in {"clear", "up"}
                 \/ lk[c] = "tid" /\ pc[c] \in {"down", "wake", "hold", "read",
                                                "write", "clear", "up"}
                 \/ pc[c] = "insert"
HasThread(c) == HasPage(c) /\ (lk[c] = "tid" \/ pc[c] = "insert")

Waiting == UNION {Elems(waiters[s]) : s \in Semas}

(* A struct thread is linked into the list its status calls for and into   *)
(* no other, and no runnable or blocked thread is on no list at all, where *)
(* nothing could ever wake it (thread.c's lists, the elem member).         *)
NoLostThread ==
    Running =>
    /\ \A t \in Threads :
         /\ status[t] = "RUNNING" <=> t = current
         /\ t # idle_thread =>
              (status[t] = "READY" <=> t \in Elems(ready_list))
         /\ (status[t] = "BLOCKED" /\ t # idle_thread) <=>
              (t \in Elems(sleep_list) \cup Waiting
               \/ \E c \in Threads : HasThread(c) /\ page[c] = t)
         /\ (status[t] = "DYING" /\ t # Main) <=>
              (t \in Elems(destruction_req)
               \/ \E c \in Threads : pc[c] = "reap" /\ page[c] = t)
    /\ NoDup(ready_list) /\ NoDup(sleep_list)
    /\ Elems(sleep_list) \cap Waiting = {}
    /\ \A s \in Semas :
         /\ NoDup(waiters[s])
         /\ \A r \in Semas \ {s} : Elems(waiters[s]) \cap Elems(waiters[r]) = {}

(* thread.h on the elem member: being on the run queue and being on a       *)
(* semaphore's wait list are mutually exclusive.  Stated of every state, the *)
(* one where do_schedule has just linked a thread a second time included.    *)
ElemExclusive == Elems(ready_list) \cap Waiting = {}

(* Pages of the kernel pool are neither leaked nor handed out twice: every  *)
(* allocated page is the struct thread of a thread that has not been freed  *)
(* or the page of exactly one thread_create in progress (palloc_get_page,   *)
(* thread_create, do_schedule's palloc_free_page).                          *)
PageAccounting ==
    Running =>
    /\ used_map = {t \in Pool : status[t] # "NONE"}
                  \cup {page[c] : c \in {d \in Threads : HasPage(d)}}
    /\ \A c, d \in Threads :
         (HasPage(c) /\ HasPage(d) /\ page[c] = page[d]) => c = d
    /\ \A c \in Threads :
         HasPage(c) => status[page[c]] = (IF HasThread(c) THEN "BLOCKED" ELSE "NONE")

(* Inside the region a lock protects: from sema_down's decrement to         *)
(* sema_up's increment.                                                     *)
Owns(t, l) == lk[t] = l /\ pc[t] \in {"hold", "read", "write", "clear", "up"}

(* kernel_pool.lock and tid_lock exclude, although lock_acquire records the *)
(* holder in a separate, interruptible step, and although do_schedule takes *)
(* the pool lock in the middle of a context switch.                         *)
LockExclusion ==
    Running =>
    \A l \in Locks :
      /\ \A t, u \in Threads : Owns(t, l) /\ Owns(u, l) => t = u
      /\ value[l] = IF \E t \in Threads : Owns(t, l) THEN 0 ELSE 1
      /\ \A t \in Threads :
           holder[l] = t <=> Owns(t, l) /\ pc[t] \in {"read", "write", "clear"}

(* Two threads never have the same tid (allocate_tid).                     *)
TidsUnique ==
    Running => \A t, u \in Threads :
      (tid[t] = tid[u] /\ tid[t] # 0 /\ status[t] # "NONE" /\ status[u] # "NONE")
         => t = u

(* sema_up loses no wake-up: when a semaphore is positive while threads are *)
(* on its wait list, somebody who will take it is on the way.               *)
NoLostWakeup ==
    Running => \A s \in Semas :
      (value[s] > 0 /\ waiters[s] # <<>>) =>
         \/ \E t \in Threads : /\ lk[t] = s /\ pc[t] \in {"down", "wake"}
                               /\ t \notin Elems(waiters[s])
         \/ s = "pool" /\ \E t \in Threads : /\ pc[t] = "reap"
                                             /\ t \notin Elems(waiters[s])

(* idle()'s comment: once it has registered itself the idle thread never    *)
(* appears in the ready list.  Nor does it ever find the pool lock taken    *)
(* when it reaps in do_schedule, where it could not be allowed to wait.     *)
IdleNeverQueued ==
    (Running /\ idle_thread # NULL) =>
      /\ idle_thread \notin Elems(ready_list) \cup Elems(sleep_list) \cup Waiting
      /\ current = idle_thread => \A l \in Locks : value[l] = 1

(* Both: every thread is where its status says it is, the idle thread too.  *)
ThreadsInPlace == NoLostThread /\ IdleNeverQueued

(* do_schedule empties the destruction queue before schedule() adds to it:  *)
(* at most one dead page waits there.                                       *)
OneDeadPage == Running => Len(destruction_req) <= 1

(* The alarm clock's lists: sleep_list is in alarm order and               *)
(* earliest_wake_up_tick is the alarm at its front, or beyond every tick   *)
(* when nobody sleeps (thread_sleep, thread_wakeup with its read past the  *)
(* end of an emptied list).                                                *)
SleepListOrdered ==
    Running =>
    /\ \A i, j \in 1..Len(sleep_list) :
         i < j => alarm[sleep_list[i]] <= alarm[sleep_list[j]]
    /\ IF sleep_list = <<>> THEN earliest >= ListTail
       ELSE earliest = alarm[Head(sleep_list)]

(* When an alarm may be due, and who sleeps until when.                     *)
AlarmTimes == {n + d : n \in 0..MaxTicks, d \in Durations}
Asleep == {<<t, alarm[t]>> : t \in Elems(sleep_list)}

Clock == INSTANCE AlarmClock
         WITH Sleepers <- Threads, Deadlines <- AlarmTimes,
              now <- ticks, asleep <- Asleep

(* thread_sleep and the timer interrupt implement the alarm clock: no       *)
(* thread wakes before its alarm, the tick that reaches an alarm wakes its  *)
(* sleeper, and a thread that goes to sleep with its alarm already reached  *)
(* (an argument of zero or less, or a tick between timer_sleep's reading of *)
(* the clock and thread_sleep) wakes at the next tick, whatever the order   *)
(* in which alarms were set.                                                *)
ImplementsAlarmClock == Clock!Spec

(* tests/threads/alarm-zero.c: timer_sleep(0) should return immediately.    *)
(* Then a thread goes to sleep only for an alarm that is still to come, and *)
(* every tick takes those it has reached off the list.                      *)
ZeroSleepReturns == \A t \in Elems(sleep_list) : ticks < alarm[t]

(* lock_acquire's precondition: the lock must not already be held by the    *)
(* current thread.                                                          *)
(* The code does not keep it: README.md, "Disagreements".                   *)
NotRecursive == fault # "lock_assert"

(* schedule()'s comment: the page of a dead thread is freed at the beginning *)
(* of the next schedule().                                                   *)
(* The code does not keep it: README.md, "Disagreements".                    *)
FreedAtNextSchedule ==
    [][current' # current =>
         Elems(destruction_req) \cap Elems(destruction_req') = {}]_vars

(* Every sleeper is woken, if the clock runs as far as its alarm and at     *)
(* least one tick is still to come: thread_wakeup runs at ticks only, so an *)
(* alarm that has passed when it is set is noticed at the next one.         *)
SleeperWakes ==
    \A t \in Threads :
      (t \in Elems(sleep_list) /\ alarm[t] <= MaxTicks /\ ticks < MaxTicks)
         ~> (t \notin Elems(sleep_list) \/ ~ Running)

(* thread_start returns: the idle thread registers itself and lets the      *)
(* initial thread go on.                                                    *)
BootFinishes == <>(idle_thread # NULL /\ pc[Main] = "run")

-----------------------------------------------------------------------------
(* What makes TypeOK, LockExclusion, TidsUnique and OneDeadPage inductive.   *)

(* The boot sequence: thread_start runs alone, and until the idle thread has *)
(* registered itself it is running or on the run queue, so schedule() never  *)
(* has to fall back on a null idle_thread.                                   *)
BootInv ==
    /\ \A t \in Threads : pc[t] = "boot" => t = Main
    /\ pc[Main] = "boot" => /\ current = Main
                            /\ used_map = {}
                            /\ destruction_req = <<>>
                            /\ \A t \in Pool : pc[t] = "none"
    /\ (idle_thread = NULL /\ pc[Main] # "boot") =>
         \E i \in Pool : pc[i] = "idle_init" /\ i \in {current} \cup Elems(ready_list)

(* Who holds a page: live and dead threads, and threads being created, whose *)
(* page runs nothing yet.  A scan result that is still to be marked is free. *)
PageInv ==
    /\ pc[Main] # "none"
    /\ \A t \in Pool : pc[t] # "none" => t \in used_map
    /\ \A c \in Threads :
         /\ HasPage(c) => page[c] \in used_map /\ pc[page[c]] = "none"
         /\ (pc[c] = "write" /\ lk[c] = "pool") => page[c] \notin used_map
         /\ (pc[c] = "insert" \/ (lk[c] = "tid" /\ pc[c] \in
               {"down", "wake", "hold", "read", "write", "clear", "up"}))
              => page[c] # NULL
    /\ \A c, d \in Threads :
         (HasPage(c) /\ HasPage(d) /\ page[c] = page[d]) => c = d

(* The pages do_schedule has still to free: queued, or in the hands of an    *)
(* exiting thread that waits for the pool lock; each of them once.           *)
VictimInv ==
    /\ Len(destruction_req) <= 1
    /\ \A t \in Elems(destruction_req) : pc[t] = "dead"
    /\ \A c \in Threads :
         pc[c] = "reap" => /\ page[c] \in Pool
                           /\ pc[page[c]] = "dead"
                           /\ page[c] \notin Elems(destruction_req)
    /\ \A c, d \in Threads :
         (pc[c] = "reap" /\ pc[d] = "reap" /\ page[c] = page[d]) => c = d

(* Tids grow, under tid_lock.                                              *)
TidInv ==
    /\ \A t \in Threads : tid[t] < next_tid
    /\ \A t, u \in Threads : (tid[t] = tid[u] /\ tid[t] # 0) => t = u
    /\ \A c \in Threads : (pc[c] = "write" /\ lk[c] = "tid") => val[c] = next_tid

(* The inductive invariant behind the lock and page theorems: who is inside *)
(* each lock, who has each page, and how booting goes (thread_create,       *)
(* palloc.c, do_schedule, thread_start).                                    *)
IInv ==
    /\ TypeOK
    /\ Running => LockExclusion /\ BootInv /\ PageInv /\ VictimInv /\ TidInv
-----------------------------------------------------------------------------
(* What makes ThreadsInPlace inductive: every thread is where its status     *)
(* says.  R is the run queue, S the sleep list and W the wait lists, each as *)
(* a set; st, p, l, pg, idler stand for status, pc, lk, page, idle_thread,   *)
(* or for values they take in the middle of a step.                          *)

(* c is in thread_create and has initialised the thread on page pg[c].      *)
Building(p, l, pg, c) ==
    /\ pg[c] # NULL
    /\ \/ p[c] = "insert"
       \/ l[c] = "tid" /\ p[c] \in {"down", "wake", "hold", "read", "write",
                                    "clear", "up"}

(* Where sema_down of semaphore s blocks.                                   *)
WaitsFor(p, l, t, s) ==
    (p[t] = "wake" /\ l[t] = s) \/ (p[t] = "reap" /\ s = "pool")

(* Where only the registered idle thread is.                                *)
Idling(p, l, t) ==
    p[t] \in {"idle_block", "idle_hlt"} \/ (p[t] = "up" /\ l[t] = "idle")

InQueue(st, R, idler) ==
    /\ R \subseteq Threads /\ idler \notin R
    /\ \A t \in Threads : t # idler => (st[t] = "READY" <=> t \in R)

InSleep(st, S, p) ==
    S \subseteq Threads /\ \A t \in S : st[t] = "BLOCKED" /\ p[t] = "run"

InWait(st, W, p, l) ==
    \A s \in Semas : /\ W[s] \subseteq Threads
                     /\ \A t \in W[s] : st[t] = "BLOCKED" /\ WaitsFor(p, l, t, s)

InBuild(st, p, l, pg) ==
    \A c \in Threads : Building(p, l, pg, c) =>
       pg[c] \in Threads /\ st[pg[c]] = "BLOCKED" /\ p[pg[c]] = "none"

(* A blocked thread is somewhere.                                           *)
Found(st, S, W, p, l, pg, idler) ==
    \A t \in Threads : st[t] = "BLOCKED" /\ t # idler =>
         \/ t \in S
         \/ \E s \in Semas : t \in W[s]
         \/ \E c \in Threads : Building(p, l, pg, c) /\ pg[c] = t

Lives(st, p) ==
    \A t \in Threads : /\ st[t] = "DYING" <=> p[t] = "dead"
                       /\ p[t] = "none" => st[t] \in {"NONE", "BLOCKED"}
                       /\ st[t] = "NONE" => p[t] = "none"

Idles(p, l, idler) ==
    \A t \in Threads : /\ Idling(p, l, t) <=> t = idler
                       /\ p[t] \in {"hold", "read", "write", "clear"} => l[t] # "idle"

Arranged(st, R, S, W, p, l, pg, idler) ==
    /\ InQueue(st, R, idler)
    /\ InSleep(st, S, p)
    /\ InWait(st, W, p, l)
    /\ InBuild(st, p, l, pg)
    /\ Found(st, S, W, p, l, pg, idler)
    /\ Lives(st, p)
    /\ Idles(p, l, idler)

(* A dead thread's page is still to be freed, by the next do_schedule or by *)
(* the one that waits for the pool lock; nobody frees the initial thread's. *)
Victims(D, p, pg) ==
    \A t \in Pool : p[t] = "dead" =>
         t \in D \/ \E c \in Threads : p[c] = "reap" /\ pg[c] = t

(* While the idle thread runs no lock is taken; before there is one, only   *)
(* the initial thread has got anywhere, up to waiting for idle_started.      *)
Unlocked ==
    \A t \in Threads :
      pc[t] \in {"hold", "read", "write", "clear", "up"} => lk[t] = "idle"

Booting ==
    /\ value["idle"] = 0
    /\ pc[Main] \in {"boot", "down", "wake"}
    /\ pc[Main] # "boot" => lk[Main] = "idle"
    /\ \A t \in Pool : pc[t] \in {"none", "idle_init"}

WaitSets == [s \in Semas |-> Elems(waiters[s])]

PlaceInv ==
    Running =>
    /\ Arranged(status, Elems(ready_list), Elems(sleep_list), WaitSets, pc, lk,
                page, idle_thread)
    /\ \A t \in Threads : status[t] = "RUNNING" <=> t = current
    /\ Victims(Elems(destruction_req), pc, page)
    /\ NoDup(ready_list) /\ NoDup(sleep_list) /\ \A s \in Semas : NoDup(waiters[s])
    /\ current = idle_thread => Unlocked
    /\ idle_thread = NULL => Booting

-----------------------------------------------------------------------------
(* What makes SleepListOrdered, NoLostWakeup and PageAccounting inductive,   *)
(* given IInv and PlaceInv.                                                  *)

(* A page that is marked used has a thread or is in the hands of one that is *)
(* creating a thread.                                                        *)
NoLeak ==
    \A t \in used_map : pc[t] # "none" \/ \E c \in Threads : HasPage(c) /\ page[c] = t

(* timer_sleep has computed an alarm time.                                  *)
AlarmsKnown == \A t \in Threads : pc[t] = "sleep" => val[t] \in AlarmTimes

(* Only the initial thread ever waits for idle_started.                     *)
OnlyMainStarts ==
    \A t \in Threads : pc[t] \in {"down", "wake"} /\ lk[t] = "idle" => t = Main

ServiceInv ==
    /\ SleepListOrdered /\ NoLostWakeup
    /\ Running => NoLeak /\ AlarmsKnown /\ OnlyMainStarts
=============================================================================
