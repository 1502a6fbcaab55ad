---------------------------- MODULE PlaceProofs ----------------------------
(***************************************************************************)
(* Every thread of module Thread is on the list its status calls for and   *)
(* on no other, at every moment and for every number of pages: PlaceInv is *)
(* preserved by each action, given the invariant IInv of ThreadBaseProofs. *)
(* The steps that go through do_schedule come last.                        *)
(***************************************************************************)
EXTENDS ThreadBaseProofs

-----------------------------------------------------------------------------
(* Once idle_thread is set, nobody starts the boot sequence again.          *)

(* There is one idle thread in the making, and only until it registers.     *)
BootOnce ==
    Running =>
    /\ pc[Main] = "boot" => idle_thread = NULL
    /\ \A t \in Threads : pc[t] = "idle_init" =>
         /\ idle_thread = NULL
         /\ \A u \in Threads : pc[u] = "idle_init" => u = t

(* The current thread moves on to a label outside the boot sequence.        *)
Moved(x) == /\ x \notin {"boot", "idle_init"}
            /\ pc' = [pc EXCEPT ![current] = x]
            /\ idle_thread' = idle_thread

(* Every step but the two of the boot sequence itself leaves BootOnce true.  *)
LEMMA NextBootOnce ==
    TypeOK /\ BootOnce /\ [Next]_vars => BootOnce' \/ thread_start \/ idle_init
(* A step that starts nothing of the boot sequence.                         *)
<1>BootOnceFrame.
    ASSUME BootOnce, Running, idle_thread' = idle_thread,
           \A t \in Threads : /\ pc'[t] = "boot" => pc[t] = "boot"
                              /\ pc'[t] = "idle_init" => pc[t] = "idle_init"
    PROVE  BootOnce'
  BY ZenonT(60), <1>BootOnceFrame, PoolFacts DEF BootOnce
(* Such a step starts no idle thread.                                       *)
<1>MovedBootOnce.
    ASSUME TypeOK, BootOnce, Running, NEW x, Moved(x)
    PROVE  BootOnce'
  <2> USE <1>MovedBootOnce
  <2>1. \A t \in Threads : pc'[t] = IF t = current THEN x ELSE pc[t]
    BY DEF Moved, TypeOK
  <2>2. idle_thread' = idle_thread /\ x \notin {"boot", "idle_init"}
    BY ZenonT(60) DEF Moved
  <2> QED BY ZenonT(60), <2>1, <2>2, <1>BootOnceFrame
(* The steps of thread_create, timer_sleep and the idle loop are such steps. *)
<1>MovesOn.
    ASSUME TypeOK,
           \/ thread_create \/ thread_sleep \/ sema_down \/ lock_acquire
           \/ CriticalRead \/ CriticalWrite \/ lock_release \/ sema_up \/ idle
           \/ \E d \in Durations : timer_sleep(d)
    PROVE  Running /\ \E x : Moved(x)
  <2> USE <1>MovesOn
  <2>1. CASE thread_create
    BY ZenonT(60), <2>1 DEF thread_create, At, Goto, Moved, Running
  <2>2. CASE thread_sleep
    BY ZenonT(60), <2>2 DEF thread_sleep, At, Goto, Moved, Running
  <2>3. CASE sema_down
    <3>1. \/ Goto("wake") \/ Goto("run") \/ Goto("hold")
      BY ZenonT(60), <2>3 DEF sema_down
    <3>2. Running /\ idle_thread' = idle_thread
      BY ZenonT(60), <2>3 DEF sema_down, At, Running
    <3> QED BY ZenonT(60), <3>1, <3>2 DEF Goto, Moved
  <2>4. CASE lock_acquire
    BY ZenonT(60), <2>4 DEF lock_acquire, At, Goto, Moved, Running
  <2>5. CASE CriticalRead
    BY ZenonT(60), <2>5 DEF CriticalRead, At, Goto, Moved, Running
  <2>6. CASE CriticalWrite
    BY ZenonT(60), <2>6 DEF CriticalWrite, At, Goto, Moved, Running
  <2>7. CASE lock_release
    BY ZenonT(60), <2>7 DEF lock_release, At, Goto, Moved, Running
  <2>8. CASE sema_up
    <3>1. PICK s \in Semas : s = lk[current]
      BY ZenonT(60) DEF TypeOK
    <3>2. \/ Goto("down")
          \/ Goto(CASE s = "pool" -> "run" [] s = "tid" -> "insert" [] OTHER -> "idle_block")
      BY ZenonT(60), <2>8, <3>1 DEF sema_up
    <3>3. (CASE s = "pool" -> "run" [] s = "tid" -> "insert" [] OTHER -> "idle_block")
            \in {"run", "insert", "idle_block"}
      BY DEF Semas, Locks
    <3>4. Running /\ idle_thread' = idle_thread
      BY ZenonT(60), <2>8 DEF sema_up, At, Running
    <3> QED BY ZenonT(60), <3>2, <3>3, <3>4 DEF Goto, Moved
  <2>9. CASE idle
    BY ZenonT(60), <2>9 DEF idle, At, Goto, Moved, Running
  <2>10. CASE \E d \in Durations : timer_sleep(d)
    BY ZenonT(60), <2>10 DEF timer_sleep, At, Goto, Moved, Running
  <2> QED BY ZenonT(60), <2>1, <2>2, <2>3, <2>4, <2>5, <2>6, <2>7, <2>8, <2>9, <2>10
(* do_schedule gives nobody a label but the caller and the threads it frees. *)
<1>ScheduleBootOnce.
    ASSUME BootOnce, Running, NEW new, NEW req, NEW st, NEW ready, NEW pcs,
           do_schedule(new, req, st, ready, pcs), idle_thread' = idle_thread,
           \A t \in Threads : pcs[t] = pc[t] \/ pcs[t] \notin {"boot", "idle_init"}
    PROVE  BootOnce'
  <2> USE <1>ScheduleBootOnce
  <2>1. \A t \in Threads : pc'[t] = IF t \in Elems(req) THEN "none" ELSE pcs[t]
    BY DEF do_schedule
  <2> QED BY ZenonT(60), <2>1, <1>BootOnceFrame
(* thread_exit and its end after the wait for the pool lock.                *)
<1>ExitBootOnce.
    ASSUME TypeOK, BootOnce, thread_exit \/ Reap
    PROVE  BootOnce'
  <2> USE <1>ExitBootOnce
  <2>1. PICK req : \/ do_schedule("DYING", req, status, ready_list,
                                  [pc EXCEPT ![current] = "dead"])
                   \/ do_schedule_waits(req)
    BY ZenonT(60) DEF thread_exit, Reap
  <2>2. Running /\ idle_thread' = idle_thread
    BY ZenonT(60) DEF thread_exit, Reap, At, Running
  <2>3. PICK pcs : pcs = [pc EXCEPT ![current] = "dead"]
    BY ZenonT(60)
  <2>4. \A t \in Threads : pcs[t] = pc[t] \/ pcs[t] = "dead"
    BY <2>3 DEF TypeOK
  <2>5. CASE do_schedule("DYING", req, status, ready_list, pcs)
    BY ZenonT(60), <2>2, <2>4, <2>5, <1>ScheduleBootOnce
  <2>6. CASE do_schedule_waits(req)
    <3>1. Moved("reap")
      BY ZenonT(60), <2>2, <2>6 DEF do_schedule_waits, Moved
    <3> QED BY ZenonT(60), <3>1, <2>2, <1>MovedBootOnce
  <2> QED BY ZenonT(60), <2>1, <2>3, <2>5, <2>6
(* thread_yield, called by the thread or by the timer interrupt.            *)
<1>YieldBootOnce.
    ASSUME TypeOK, BootOnce, Yield \/ TimerInterrupt
    PROVE  BootOnce'
  <2> USE <1>YieldBootOnce
  <2>1. PICK pcs, st, ready :
           /\ pcs = pc \/ pcs = [pc EXCEPT ![current] = "idle_block"]
           /\ \/ do_schedule("READY", destruction_req, st, ready, pcs)
              \/ yield_relinks(st, ready, pcs) \/ yield_asserts(st, ready, pcs)
              \/ pc' = pcs
    <3>1. CASE Yield
      BY ZenonT(60), <3>1 DEF Yield, thread_yield
    <3>2. CASE TimerInterrupt
      <4> DEFINE woken == Popped(sleep_list, WakeCount(ticks + 1))
                 st == [t \in Threads |-> IF t \in Elems(woken) THEN "READY" ELSE status[t]]
                 ready == ready_list \o woken
                 pcs == IF pc[current] = "idle_hlt"
                        THEN [pc EXCEPT ![current] = "idle_block"] ELSE pc
      <4>1. \/ do_schedule("READY", destruction_req, st, Requeued(ready), pcs)
            \/ yield_relinks(st, Requeued(ready), pcs)
            \/ yield_asserts(st, Requeued(ready), pcs) \/ pc' = pcs
        BY ZenonT(60), <3>2 DEF TimerInterrupt, thread_yield
      <4>2. pcs = pc \/ pcs = [pc EXCEPT ![current] = "idle_block"]
        BY ZenonT(60)
      <4> HIDE DEF pcs, st, ready
      <4> QED BY ZenonT(60), <4>1, <4>2
    <3> QED BY ZenonT(60), <3>1, <3>2
  <2>2. Running /\ idle_thread' = idle_thread
    BY ZenonT(60) DEF Yield, TimerInterrupt, At, Running
  <2>3. \A t \in Threads : pcs[t] = pc[t] \/ pcs[t] = "idle_block"
    BY <2>1 DEF TypeOK
  <2>4. CASE do_schedule("READY", destruction_req, st, ready, pcs)
    BY ZenonT(60), <2>2, <2>3, <2>4, <1>ScheduleBootOnce
  <2>5. CASE yield_relinks(st, ready, pcs) \/ yield_asserts(st, ready, pcs)
    BY ZenonT(60), <2>5 DEF yield_relinks, yield_asserts, BootOnce, Running
  <2>6. CASE pc' = pcs
    BY ZenonT(60), <2>2, <2>3, <2>6, <1>BootOnceFrame
  <2> QED BY ZenonT(60), <2>1, <2>4, <2>5, <2>6
(* thread_create's thread_unblock gives two threads a label.                *)
<1>UnblockBootOnce.
    ASSUME TypeOK, BootOnce, thread_unblock
    PROVE  BootOnce'
  <2> USE <1>UnblockBootOnce
  <2>1. /\ Running /\ idle_thread' = idle_thread
        /\ pc' = [pc EXCEPT ![current] = "run", ![page[current]] = "run"]
    BY ZenonT(60) DEF thread_unblock, At, Running
  <2>2. \A t \in Threads : pc'[t] = pc[t] \/ pc'[t] = "run"
    BY <2>1 DEF TypeOK
  <2> QED BY ZenonT(60), <2>1, <2>2, <1>BootOnceFrame
<1> SUFFICES ASSUME TypeOK, BootOnce, [Next]_vars
             PROVE  BootOnce' \/ thread_start \/ idle_init
  OBVIOUS
<1>1. CASE Yield \/ TimerInterrupt
  BY ZenonT(60), <1>1, <1>YieldBootOnce
<1>2. CASE thread_exit \/ Reap
  BY ZenonT(60), <1>2, <1>ExitBootOnce
<1>3. CASE thread_unblock
  BY ZenonT(60), <1>3, <1>UnblockBootOnce
<1>4. CASE \/ thread_create \/ thread_sleep \/ sema_down \/ lock_acquire
           \/ CriticalRead \/ CriticalWrite \/ lock_release \/ sema_up \/ idle
           \/ \E d \in Durations : timer_sleep(d)
  <2>1. Running /\ \E x : Moved(x)
    BY ZenonT(60), <1>4, <1>MovesOn
  <2> QED BY ZenonT(60), <2>1, <1>MovedBootOnce
<1>5. CASE UNCHANGED vars
  <2>1. UNCHANGED <<idle_thread, pc, fault>>
    BY ZenonT(60), <1>5 DEF vars, schedVars, alarmVars, lockVars, locVars
  <2> QED BY ZenonT(60), <2>1 DEF BootOnce, Running
<1> QED BY ZenonT(60), <1>1, <1>2, <1>3, <1>4, <1>5 DEF Next, Call, Step

-----------------------------------------------------------------------------
(* How the pieces of a scheduler step move threads between the lists: each  *)
(* lemma takes one rearrangement (a thread moves on, blocks, is woken, is   *)
(* queued, dies, is freed, is created, is dispatched) and shows that every  *)
(* thread is still where its status says.  A step of the kernel is a few of *)
(* them in a row, whose intermediate states no variable ever holds; so they *)
(* are stated of values, not of variables.                                  *)

(* The null pointer is no thread.                                          *)
LEMMA NullIsNoThread == NULL \notin Threads
BY ThreadAssumption DEF NULL, Threads, Main, Pool

(* A run queue that a thread has joined is not empty.                        *)
LEMMA LinkedIsNonempty == \A s \in Seq(Threads), e \in Threads : Append(s, e) # <<>>
BY AppendElems

(* The running thread is on no list and is not being created.               *)
LEMMA RunnerIsNowhere ==
    ASSUME NEW st, NEW R, NEW S, NEW W, NEW p, NEW l, NEW pg, NEW idler,
           Arranged(st, R, S, W, p, l, pg, idler),
           NEW me \in Threads, st[me] = "RUNNING"
    PROVE  /\ me \notin R /\ me \notin S /\ \A s \in Semas : me \notin W[s]
           /\ \A c \in Threads : Building(p, l, pg, c) => pg[c] # me
           /\ p[me] \notin {"none", "dead"}
<1>1. me \notin R
  BY ZenonT(60) DEF Arranged, InQueue
<1>2. me \notin S
  BY ZenonT(60) DEF Arranged, InSleep
<1>3. \A s \in Semas : me \notin W[s]
  BY ZenonT(60) DEF Arranged, InWait
<1>4. \A c \in Threads : Building(p, l, pg, c) => pg[c] # me
  BY ZenonT(60) DEF Arranged, InBuild
<1>5. p[me] \notin {"none", "dead"}
  BY ZenonT(60) DEF Arranged, Lives
<1> QED BY <1>1, <1>2, <1>3, <1>4, <1>5

-----------------------------------------------------------------------------
(* What a rearrangement must leave alone for each part of Arranged.        *)

(* A rearrangement that adds no sleeper and touches none that stays.        *)
SleepStays(st, S, p, st2, S2, p2) ==
    /\ InSleep(st, S, p) /\ S2 \subseteq S
    /\ \A t \in S2 : st2[t] = st[t] /\ p2[t] = p[t]

(* The sleepers are still asleep in thread_sleep.                           *)
LEMMA SleepFrame ==
    ASSUME NEW st, NEW S, NEW p, NEW st2, NEW S2, NEW p2, SleepStays(st, S, p, st2, S2, p2)
    PROVE  InSleep(st2, S2, p2)
BY ZenonT(60) DEF InSleep, SleepStays

(* One that adds no waiter to a semaphore and touches none that stays.      *)
WaitStays(st, W, p, l, st2, W2, p2, l2) ==
    /\ InWait(st, W, p, l)
    /\ \A s \in Semas : W2[s] \subseteq W[s]
    /\ \A s \in Semas : \A t \in W2[s] :
         st2[t] = st[t] /\ p2[t] = p[t] /\ l2[t] = l[t]

(* The waiters still wait, blocked, for their semaphores.                   *)
LEMMA WaitFrame ==
    ASSUME NEW st, NEW W, NEW p, NEW l, NEW st2, NEW W2, NEW p2, NEW l2,
           WaitStays(st, W, p, l, st2, W2, p2, l2)
    PROVE  InWait(st2, W2, p2, l2)
<1> SUFFICES ASSUME NEW s \in Semas, NEW t \in W2[s]
             PROVE  t \in Threads /\ st2[t] = "BLOCKED" /\ WaitsFor(p2, l2, t, s)
  BY ZenonT(60) DEF InWait
<1>1. t \in Threads /\ st[t] = "BLOCKED" /\ WaitsFor(p, l, t, s)
  BY ZenonT(60) DEF InWait, WaitStays
<1>2. st2[t] = st[t] /\ p2[t] = p[t] /\ l2[t] = l[t]
  BY ZenonT(60) DEF WaitStays
<1> QED BY ZenonT(60), <1>1, <1>2 DEF WaitsFor

(* One that starts no thread_create and leaves the threads in the making.   *)
BuildStays(st, p, l, pg, st2, p2, l2, pg2) ==
    /\ InBuild(st, p, l, pg)
    /\ \A c \in Threads :
         Building(p2, l2, pg2, c) => Building(p, l, pg, c) /\ pg2[c] = pg[c]
    /\ \A c \in Threads : Building(p2, l2, pg2, c) =>
         st2[pg[c]] = st[pg[c]] /\ p2[pg[c]] = p[pg[c]]

(* The threads in the making are still blocked and in nobody's function.    *)
LEMMA BuildFrame ==
    ASSUME NEW st, NEW p, NEW l, NEW pg, NEW st2, NEW p2, NEW l2, NEW pg2,
           BuildStays(st, p, l, pg, st2, p2, l2, pg2)
    PROVE  InBuild(st2, p2, l2, pg2)
<1> SUFFICES ASSUME NEW c \in Threads, Building(p2, l2, pg2, c)
             PROVE  pg2[c] \in Threads /\ st2[pg2[c]] = "BLOCKED" /\ p2[pg2[c]] = "none"
  BY ZenonT(60) DEF InBuild
<1>1. Building(p, l, pg, c) /\ pg2[c] = pg[c]
  BY ZenonT(60) DEF BuildStays
<1>2. pg[c] \in Threads /\ st[pg[c]] = "BLOCKED" /\ p[pg[c]] = "none"
  BY ZenonT(60), <1>1 DEF InBuild, BuildStays
<1>3. st2[pg[c]] = st[pg[c]] /\ p2[pg[c]] = p[pg[c]]
  BY ZenonT(60) DEF BuildStays
<1> QED BY ZenonT(60), <1>1, <1>2, <1>3

-----------------------------------------------------------------------------
(* The rearrangements.                                                     *)

(* Thread me runs and goes on: its new control point and locals fit it.      *)
Moving(st, R, S, W, p, l, pg, idler, me, p2, l2, pg2) ==
    /\ Arranged(st, R, S, W, p, l, pg, idler)
    /\ me \in Threads
    /\ st[me] = "RUNNING"
    /\ \A t \in Threads : t # me => p2[t] = p[t] /\ l2[t] = l[t] /\ pg2[t] = pg[t]
    /\ p2[me] \notin {"none", "dead"}
    /\ Building(p2, l2, pg2, me) => Building(p, l, pg, me)
    /\ Building(p, l, pg, me) => Building(p2, l2, pg2, me) /\ pg2[me] = pg[me]
    /\ Idling(p2, l2, me) <=> me = idler
    /\ p2[me] \in {"hold", "read", "write", "clear"} => l2[me] # "idle"

(* The running thread goes on to another point of the function it is in     *)
(* (any step of thread_create or of a lock operation that does not block).  *)
LEMMA Moves ==
    ASSUME NEW st, NEW R, NEW S, NEW W, NEW p, NEW l, NEW pg, NEW idler, NEW me,
           NEW p2, NEW l2, NEW pg2,
           Moving(st, R, S, W, p, l, pg, idler, me, p2, l2, pg2)
    PROVE  Arranged(st, R, S, W, p2, l2, pg2, idler)
<1>0. /\ Arranged(st, R, S, W, p, l, pg, idler)
      /\ me \in Threads
      /\ st[me] = "RUNNING"
      /\ \A t \in Threads : t # me => p2[t] = p[t] /\ l2[t] = l[t] /\ pg2[t] = pg[t]
      /\ p2[me] \notin {"none", "dead"}
      /\ Building(p2, l2, pg2, me) => Building(p, l, pg, me)
      /\ Building(p, l, pg, me) => Building(p2, l2, pg2, me) /\ pg2[me] = pg[me]
      /\ Idling(p2, l2, me) <=> me = idler
      /\ p2[me] \in {"hold", "read", "write", "clear"} => l2[me] # "idle"
  BY ZenonT(60) DEF Moving
<1> USE <1>0
<1>1. /\ me \notin R /\ me \notin S /\ \A s \in Semas : me \notin W[s]
      /\ \A c \in Threads : Building(p, l, pg, c) => pg[c] # me
      /\ p[me] \notin {"none", "dead"}
  BY RunnerIsNowhere
<1>2. ASSUME NEW c \in Threads
      PROVE  /\ Building(p2, l2, pg2, c) <=> Building(p, l, pg, c)
             /\ Building(p, l, pg, c) => pg2[c] = pg[c]
  <2>1. CASE c = me
    BY ZenonT(60), <2>1
  <2>2. CASE c # me
    BY ZenonT(60), <2>2 DEF Building
  <2> QED BY <2>1, <2>2
<1>3. InQueue(st, R, idler)
  BY ZenonT(60) DEF Arranged
<1>4. InSleep(st, S, p2)
  <2>1. InSleep(st, S, p) /\ S \subseteq Threads
    BY ZenonT(60) DEF Arranged, InSleep
  <2>2. \A t \in S : p2[t] = p[t]
    BY ZenonT(60), <2>1, <1>1
  <2>9. SleepStays(st, S, p, st, S, p2)
    BY ZenonT(60), <2>1, <2>2 DEF SleepStays
  <2> QED BY ZenonT(60), <2>9, SleepFrame
<1>5. InWait(st, W, p2, l2)
  <2>1. InWait(st, W, p, l) /\ \A s \in Semas : W[s] \subseteq Threads
    BY ZenonT(60) DEF Arranged, InWait
  <2>2. \A s \in Semas : \A t \in W[s] : p2[t] = p[t] /\ l2[t] = l[t]
    BY ZenonT(60), <2>1, <1>1
  <2>9. WaitStays(st, W, p, l, st, W, p2, l2)
    BY ZenonT(60), <2>1, <2>2 DEF WaitStays
  <2> QED BY ZenonT(60), <2>9, WaitFrame
<1>6. InBuild(st, p2, l2, pg2)
  <2>1. InBuild(st, p, l, pg)
    BY ZenonT(60) DEF Arranged
  <2>2. \A c \in Threads : Building(p2, l2, pg2, c) => p2[pg[c]] = p[pg[c]]
    BY ZenonT(60), <2>1, <1>1, <1>2 DEF InBuild
  <2>9. BuildStays(st, p, l, pg, st, p2, l2, pg2)
    BY ZenonT(60), <2>1, <2>2, <1>2 DEF BuildStays
  <2> QED BY ZenonT(60), <2>9, BuildFrame
<1>7. Found(st, S, W, p2, l2, pg2, idler)
  <2> SUFFICES ASSUME NEW t \in Threads, st[t] = "BLOCKED", t # idler
               PROVE  \/ t \in S
                      \/ \E s \in Semas : t \in W[s]
                      \/ \E c \in Threads : Building(p2, l2, pg2, c) /\ pg2[c] = t
    BY ZenonT(60) DEF Found
  <2>1. \/ t \in S
        \/ \E s \in Semas : t \in W[s]
        \/ \E c \in Threads : Building(p, l, pg, c) /\ pg[c] = t
    BY ZenonT(60) DEF Arranged, Found
  <2> QED BY ZenonT(60), <2>1, <1>2
<1>8. Lives(st, p2)
  BY ZenonT(60), <1>1 DEF Arranged, Lives
<1>9. Idles(p2, l2, idler)
  <2>1. ASSUME NEW t \in Threads, t # me
        PROVE  /\ Idling(p2, l2, t) <=> t = idler
               /\ p2[t] \in {"hold", "read", "write", "clear"} => l2[t] # "idle"
    BY ZenonT(60), <2>1 DEF Arranged, Idles, Idling
  <2> QED BY ZenonT(60), <2>1 DEF Idles
<1> QED BY ZenonT(60), <1>3, <1>4, <1>5, <1>6, <1>7, <1>8, <1>9 DEF Arranged

(* Thread me may have joined the sleep list and wait lists that fit its     *)
(* place in the code, and has joined one unless it is the idle thread.      *)
JoinsSleep(S, S2, p, me) == S2 = S \/ (S2 = S \cup {me} /\ p[me] = "run")

JoinsWait(W, W2, p, l, me) ==
    \A s \in Semas : W2[s] = W[s] \/ (W2[s] = W[s] \cup {me} /\ WaitsFor(p, l, me, s))

OnSomeList(S, W, me, idler) == me \in S \/ (\E s \in Semas : me \in W[s]) \/ me = idler

(* Thread me runs, and blocks on a list it has just joined.                  *)
Parking(st, R, S, W, p, l, pg, idler, me, st2, S2, W2) ==
    /\ Arranged(st, R, S, W, p, l, pg, idler)
    /\ me \in Threads
    /\ st[me] = "RUNNING"
    /\ \A t \in Threads : st2[t] = IF t = me THEN "BLOCKED" ELSE st[t]
    /\ JoinsSleep(S, S2, p, me)
    /\ JoinsWait(W, W2, p, l, me)
    /\ OnSomeList(S2, W2, me, idler)

(* The running thread blocks on the sleep list or on a wait list, or is the *)
(* idle thread (thread_block's callers).                                    *)
LEMMA Parks ==
    ASSUME NEW st, NEW R, NEW S, NEW W, NEW p, NEW l, NEW pg, NEW idler, NEW me,
           NEW st2, NEW S2, NEW W2,
           Parking(st, R, S, W, p, l, pg, idler, me, st2, S2, W2)
    PROVE  Arranged(st2, R, S2, W2, p, l, pg, idler)
<1>0. /\ Arranged(st, R, S, W, p, l, pg, idler)
      /\ me \in Threads
      /\ st[me] = "RUNNING"
      /\ \A t \in Threads : st2[t] = IF t = me THEN "BLOCKED" ELSE st[t]
      /\ JoinsSleep(S, S2, p, me)
      /\ JoinsWait(W, W2, p, l, me)
      /\ OnSomeList(S2, W2, me, idler)
  BY ZenonT(60) DEF Parking
<1> USE <1>0
<1>1. /\ me \notin R /\ me \notin S /\ \A s \in Semas : me \notin W[s]
      /\ \A c \in Threads : Building(p, l, pg, c) => pg[c] # me
      /\ p[me] \notin {"none", "dead"}
  BY RunnerIsNowhere
<1>2. st2[me] = "BLOCKED" /\ \A t \in Threads : t # me => st2[t] = st[t]
  BY ZenonT(60)
<1> USE DEF JoinsSleep, JoinsWait, OnSomeList
<1>3. InQueue(st2, R, idler)
  BY ZenonT(60), <1>1, <1>2 DEF Arranged, InQueue
<1>4. InSleep(st2, S2, p)
  BY ZenonT(60), <1>1, <1>2 DEF Arranged, InSleep
<1>5. InWait(st2, W2, p, l)
  <2> SUFFICES ASSUME NEW s \in Semas, NEW t \in W2[s]
               PROVE  t \in Threads /\ st2[t] = "BLOCKED" /\ WaitsFor(p, l, t, s)
    BY ZenonT(60) DEF InWait
  <2>1. CASE t = me
    BY ZenonT(60), <2>1, <1>1, <1>2
  <2>2. CASE t # me
    <3>1. t \in W[s]
      BY ZenonT(60), <2>2
    <3> QED BY ZenonT(60), <3>1, <2>2, <1>2 DEF Arranged, InWait
  <2> QED BY <2>1, <2>2
<1>6. InBuild(st2, p, l, pg)
  <2>1. InBuild(st, p, l, pg)
    BY ZenonT(60) DEF Arranged
  <2>2. \A c \in Threads : Building(p, l, pg, c) => st2[pg[c]] = st[pg[c]]
    BY ZenonT(60), <2>1, <1>1, <1>2 DEF InBuild
  <2>9. BuildStays(st, p, l, pg, st2, p, l, pg)
    BY ZenonT(60), <2>1, <2>2 DEF BuildStays
  <2> QED BY ZenonT(60), <2>9, BuildFrame
<1>7. Found(st2, S2, W2, p, l, pg, idler)
  <2> SUFFICES ASSUME NEW t \in Threads, st2[t] = "BLOCKED", t # idler
               PROVE  \/ t \in S2
                      \/ \E s \in Semas : t \in W2[s]
                      \/ \E c \in Threads : Building(p, l, pg, c) /\ pg[c] = t
    BY ZenonT(60) DEF Found
  <2>1. CASE t = me
    BY ZenonT(60), <2>1
  <2>2. CASE t # me
    <3>1. S \subseteq S2 /\ \A s \in Semas : W[s] \subseteq W2[s]
      BY ZenonT(60)
    <3>2. st[t] = "BLOCKED"
      BY ZenonT(60), <2>2, <1>2
    <3>3. \/ t \in S
          \/ \E s \in Semas : t \in W[s]
          \/ \E c \in Threads : Building(p, l, pg, c) /\ pg[c] = t
      BY ZenonT(60), <3>2 DEF Arranged, Found
    <3> QED BY ZenonT(60), <3>1, <3>3
  <2> QED BY <2>1, <2>2
<1>8. Lives(st2, p)
  BY ZenonT(60), <1>1, <1>2 DEF Arranged, Lives
<1> QED BY ZenonT(60), <1>3, <1>4, <1>5, <1>6, <1>7, <1>8 DEF Arranged

(* K are threads that sleep or wait; they move to the run queue.            *)
Chosen(K, S, W) ==
    K \subseteq Threads /\ \A t \in K : t \in S \/ \E s \in Semas : t \in W[s]

MadeReady(K, st, R, S, W, st2, R2, S2, W2) ==
    /\ \A t \in Threads : st2[t] = IF t \in K THEN "READY" ELSE st[t]
    /\ R2 = R \cup K /\ S2 = S \ K /\ \A s \in Semas : W2[s] = W[s] \ K

(* The threads of K are on a sleep or wait list, and become ready.           *)
Waking(st, R, S, W, p, l, pg, idler, K, st2, R2, S2, W2) ==
    /\ Arranged(st, R, S, W, p, l, pg, idler)
    /\ Chosen(K, S, W)
    /\ MadeReady(K, st, R, S, W, st2, R2, S2, W2)

(* Threads that sleep or wait are made ready (thread_wakeup, sema_up and    *)
(* the releases of the pool lock in do_schedule).                           *)
LEMMA Wakes ==
    ASSUME NEW st, NEW R, NEW S, NEW W, NEW p, NEW l, NEW pg, NEW idler, NEW K,
           NEW st2, NEW R2, NEW S2, NEW W2,
           Waking(st, R, S, W, p, l, pg, idler, K, st2, R2, S2, W2)
    PROVE  Arranged(st2, R2, S2, W2, p, l, pg, idler)
<1>0. /\ Arranged(st, R, S, W, p, l, pg, idler)
      /\ Chosen(K, S, W)
      /\ MadeReady(K, st, R, S, W, st2, R2, S2, W2)
  BY ZenonT(60) DEF Waking
<1> USE <1>0
<1> USE DEF Chosen, MadeReady
<1>1. ASSUME NEW t \in K
      PROVE  /\ t \in Threads /\ st[t] = "BLOCKED" /\ p[t] \in {"run", "wake", "reap"}
             /\ t # idler
  <2>1. st[t] = "BLOCKED" /\ p[t] \in {"run", "wake", "reap"}
    <3>1. CASE t \in S
      BY ZenonT(60), <3>1 DEF Arranged, InSleep
    <3>2. ASSUME NEW s \in Semas, t \in W[s]
          PROVE  st[t] = "BLOCKED" /\ p[t] \in {"run", "wake", "reap"}
      BY ZenonT(60), <3>2 DEF Arranged, InWait, WaitsFor
    <3> QED BY ZenonT(60), <3>1, <3>2
  <2>2. t # idler
    BY ZenonT(60), <2>1 DEF Arranged, Idles, Idling
  <2> QED BY ZenonT(60), <2>1, <2>2
<1>2. InQueue(st2, R2, idler)
  BY ZenonT(60), <1>1 DEF Arranged, InQueue
<1>3. InSleep(st2, S2, p)
  BY ZenonT(60) DEF Arranged, InSleep
<1>4. InWait(st2, W2, p, l)
  BY ZenonT(60) DEF Arranged, InWait
<1>5. InBuild(st2, p, l, pg)
  BY ZenonT(60), <1>1 DEF Arranged, InBuild
<1>6. Found(st2, S2, W2, p, l, pg, idler)
  <2> SUFFICES ASSUME NEW t \in Threads, st2[t] = "BLOCKED", t # idler
               PROVE  \/ t \in S2
                      \/ \E s \in Semas : t \in W2[s]
                      \/ \E c \in Threads : Building(p, l, pg, c) /\ pg[c] = t
    BY ZenonT(60) DEF Found
  <2>1. t \notin K /\ st[t] = "BLOCKED"
    BY ZenonT(60)
  <2>2. \/ t \in S
        \/ \E s \in Semas : t \in W[s]
        \/ \E c \in Threads : Building(p, l, pg, c) /\ pg[c] = t
    BY ZenonT(60), <2>1 DEF Arranged, Found
  <2> QED BY ZenonT(60), <2>1, <2>2
<1>7. Lives(st2, p)
  BY ZenonT(60), <1>1 DEF Arranged, Lives
<1> QED BY ZenonT(60), <1>2, <1>3, <1>4, <1>5, <1>6, <1>7 DEF Arranged

(* Thread me runs, and is put on the run queue unless it is the idle thread. *)
Queueing(st, R, S, W, p, l, pg, idler, me, st2, R2) ==
    /\ Arranged(st, R, S, W, p, l, pg, idler)
    /\ me \in Threads
    /\ st[me] = "RUNNING"
    /\ \A t \in Threads : st2[t] = IF t = me THEN "READY" ELSE st[t]
    /\ R2 = IF me = idler THEN R ELSE R \cup {me}

(* Thread me runs, creates nobody, and dies.                                 *)
Dying(st, R, S, W, p, l, pg, idler, me, st2, p2) ==
    /\ Arranged(st, R, S, W, p, l, pg, idler)
    /\ me \in Threads
    /\ st[me] = "RUNNING"
    /\ me # idler
    /\ ~ Building(p, l, pg, me)
    /\ \A t \in Threads : st2[t] = IF t = me THEN "DYING" ELSE st[t]
    /\ \A t \in Threads : p2[t] = IF t = me THEN "dead" ELSE p[t]

(* The threads of F are dead, and stop being threads.                       *)
Buries(F, st, p, st2, p2) ==
    /\ F \subseteq Threads /\ \A t \in F : p[t] = "dead"
    /\ \A t \in Threads : st2[t] = IF t \in F THEN "NONE" ELSE st[t]
    /\ \A t \in Threads : p2[t] = IF t \in F THEN "none" ELSE p[t]

(* The threads of F are dead, and their pages are freed.                     *)
Freeing(st, R, S, W, p, l, pg, idler, F, st2, p2) ==
    /\ Arranged(st, R, S, W, p, l, pg, idler)
    /\ Buries(F, st, p, st2, p2)

(* Nobody runs, and next may be the one who does.                            *)
Dispatching(st, R, S, W, p, l, pg, idler, next, st2, R2) ==
    /\ Arranged(st, R, S, W, p, l, pg, idler)
    /\ \A t \in Threads : st[t] # "RUNNING"
    /\ next \in Threads
    /\ next \in R \/ (R = {} /\ next = idler)
    /\ \A t \in Threads : st2[t] = IF t = next THEN "RUNNING" ELSE st[t]
    /\ R2 = R \ {next}

(* With nobody running, the front of the run queue or, when that is empty,  *)
(* the idle thread is dispatched (schedule).                                *)
LEMMA Dispatch ==
    ASSUME NEW st, NEW R, NEW S, NEW W, NEW p, NEW l, NEW pg, NEW idler, NEW next,
           NEW st2, NEW R2,
           Dispatching(st, R, S, W, p, l, pg, idler, next, st2, R2)
    PROVE  Arranged(st2, R2, S, W, p, l, pg, idler)
<1>0. /\ Arranged(st, R, S, W, p, l, pg, idler)
      /\ \A t \in Threads : st[t] # "RUNNING"
      /\ next \in Threads
      /\ next \in R \/ (R = {} /\ next = idler)
      /\ \A t \in Threads : st2[t] = IF t = next THEN "RUNNING" ELSE st[t]
      /\ R2 = R \ {next}
  BY ZenonT(60) DEF Dispatching
<1> USE <1>0
<1>1. st2[next] = "RUNNING" /\ \A t \in Threads : t # next => st2[t] = st[t]
  BY ZenonT(60)
<1>2. /\ next \notin S /\ \A s \in Semas : next \notin W[s]
      /\ \A c \in Threads : Building(p, l, pg, c) => pg[c] # next
      /\ p[next] \notin {"none", "dead"}
  <2>1. CASE next = idler
    <3>1. Idling(p, l, next)
      BY ZenonT(60), <2>1 DEF Arranged, Idles
    <3>2. p[next] \in {"idle_block", "idle_hlt", "up"}
      BY ZenonT(60), <3>1 DEF Idling
    <3>3. \A s \in Semas : next \notin W[s]
      BY ZenonT(60), <3>2 DEF Arranged, InWait, WaitsFor
    <3> QED BY ZenonT(60), <3>2, <3>3 DEF Arranged, InSleep, InBuild
  <2>2. CASE next # idler
    <3>1. st[next] = "READY"
      BY ZenonT(60), <2>2 DEF Arranged, InQueue
    <3> QED BY ZenonT(60), <3>1 DEF Arranged, InSleep, InWait, InBuild, Lives
  <2> QED BY <2>1, <2>2
<1>3. InQueue(st2, R2, idler)
  BY ZenonT(60), <1>1 DEF Arranged, InQueue
<1>4. InSleep(st2, S, p)
  BY ZenonT(60), <1>1, <1>2 DEF Arranged, InSleep
<1>5. InWait(st2, W, p, l)
  BY ZenonT(60), <1>1, <1>2 DEF Arranged, InWait
<1>6. InBuild(st2, p, l, pg)
  <2>1. InBuild(st, p, l, pg)
    BY ZenonT(60) DEF Arranged
  <2>2. \A c \in Threads : Building(p, l, pg, c) => st2[pg[c]] = st[pg[c]]
    BY ZenonT(60), <2>1, <1>1, <1>2 DEF InBuild
  <2>9. BuildStays(st, p, l, pg, st2, p, l, pg)
    BY ZenonT(60), <2>1, <2>2 DEF BuildStays
  <2> QED BY ZenonT(60), <2>9, BuildFrame
<1>7. Found(st2, S, W, p, l, pg, idler)
  BY ZenonT(60), <1>1 DEF Arranged, Found
<1>8. Lives(st2, p)
  BY ZenonT(60), <1>1, <1>2 DEF Arranged, Lives
<1> QED BY ZenonT(60), <1>3, <1>4, <1>5, <1>6, <1>7, <1>8 DEF Arranged

(* Thread me runs, and makes the thread of the page it has got.              *)
Initing(st, R, S, W, p, l, pg, idler, me, new, st2, p2, l2) ==
    /\ Arranged(st, R, S, W, p, l, pg, idler)
    /\ me \in Threads
    /\ st[me] = "RUNNING"
    /\ me # idler
    /\ new \in Threads
    /\ p[new] = "none"
    /\ new # NULL
    /\ pg[me] = new
    /\ \A t \in Threads : st2[t] = IF t = new THEN "BLOCKED" ELSE st[t]
    /\ \A t \in Threads : p2[t] = IF t = me THEN "down" ELSE p[t]
    /\ \A t \in Threads : l2[t] = IF t = me THEN "tid" ELSE l[t]

(* Nobody but me is building new, whose page runs nothing yet.              *)
SoleBuilder(p, l, pg, me, new) ==
    /\ p[new] = "none"
    /\ \A c \in Threads : c # me /\ Building(p, l, pg, c) => pg[c] # new
    /\ Building(p, l, pg, me) => pg[me] = new

(* new becomes ready, and me is done with it.                               *)
Newborn(st, R, st2, R2, new) ==
    /\ \A t \in Threads : st2[t] = IF t = new THEN "READY" ELSE st[t]
    /\ R2 = R \cup {new}

Leaves(p, l, pg, p2, l2, pg2, me, new) ==
    /\ \A t \in Threads : t \notin {me, new} =>
         p2[t] = p[t] /\ l2[t] = l[t] /\ pg2[t] = pg[t]
    /\ p2[me] \in {"run", "down"} /\ p2[new] \in {"run", "idle_init"}
    /\ ~ Building(p2, l2, pg2, me)

(* Thread me runs, and makes ready a thread that only it knows.              *)
Bearing(st, R, S, W, p, l, pg, idler, me, new, st2, R2, p2, l2, pg2) ==
    /\ Arranged(st, R, S, W, p, l, pg, idler)
    /\ me \in Threads
    /\ st[me] = "RUNNING"
    /\ me # idler
    /\ new \in Threads
    /\ SoleBuilder(p, l, pg, me, new)
    /\ Newborn(st, R, st2, R2, new)
    /\ Leaves(p, l, pg, p2, l2, pg2, me, new)

(* The running thread puts a new thread on the run queue: the one it has    *)
(* been creating (thread_unblock) or the idle thread (thread_start).        *)
LEMMA Births ==
    ASSUME NEW st, NEW R, NEW S, NEW W, NEW p, NEW l, NEW pg, NEW idler, NEW me,
           NEW new, NEW st2, NEW R2, NEW p2, NEW l2, NEW pg2,
           Bearing(st, R, S, W, p, l, pg, idler, me, new, st2, R2, p2, l2, pg2)
    PROVE  Arranged(st2, R2, S, W, p2, l2, pg2, idler)
<1>0. /\ Arranged(st, R, S, W, p, l, pg, idler)
      /\ me \in Threads
      /\ st[me] = "RUNNING"
      /\ me # idler
      /\ new \in Threads
      /\ SoleBuilder(p, l, pg, me, new)
      /\ Newborn(st, R, st2, R2, new)
      /\ Leaves(p, l, pg, p2, l2, pg2, me, new)
  BY ZenonT(60) DEF Bearing
<1> USE <1>0
<1> USE DEF SoleBuilder, Newborn, Leaves
<1>1. /\ me \notin R /\ me \notin S /\ \A s \in Semas : me \notin W[s]
      /\ \A c \in Threads : Building(p, l, pg, c) => pg[c] # me
      /\ p[me] \notin {"none", "dead"}
  BY RunnerIsNowhere
<1>2. /\ new # me /\ new # idler
      /\ new \notin S /\ \A s \in Semas : new \notin W[s]
  <2>1. new # idler
    BY ZenonT(60) DEF Arranged, Idles, Idling
  <2>2. new \notin S /\ \A s \in Semas : new \notin W[s]
    BY ZenonT(60) DEF Arranged, InSleep, InWait, WaitsFor
  <2> QED BY ZenonT(60), <2>1, <2>2, <1>1
<1>3. /\ st2[new] = "READY" /\ \A t \in Threads : t # new => st2[t] = st[t]
  BY ZenonT(60)
<1>4. /\ ~ Building(p2, l2, pg2, me) /\ ~ Building(p2, l2, pg2, new)
      /\ \A c \in Threads : c # me /\ c # new =>
            (Building(p2, l2, pg2, c) <=> Building(p, l, pg, c)) /\ pg2[c] = pg[c]
      /\ ~ Building(p, l, pg, new)
  <2>1. ~ Building(p2, l2, pg2, new) /\ ~ Building(p, l, pg, new)
    BY ZenonT(60) DEF Building
  <2>2. ASSUME NEW c \in Threads, c # me, c # new
        PROVE  (Building(p2, l2, pg2, c) <=> Building(p, l, pg, c)) /\ pg2[c] = pg[c]
    BY ZenonT(60), <2>2 DEF Building
  <2> QED BY ZenonT(60), <2>1, <2>2
<1>6. InQueue(st2, R2, idler)
  BY ZenonT(60), <1>2, <1>3 DEF Arranged, InQueue
<1>7. InSleep(st2, S, p2)
  <2>1. InSleep(st, S, p) /\ S \subseteq Threads
    BY ZenonT(60) DEF Arranged, InSleep
  <2>2. \A t \in S : st2[t] = st[t] /\ p2[t] = p[t]
    BY ZenonT(60), <2>1, <1>1, <1>2, <1>3
  <2>9. SleepStays(st, S, p, st2, S, p2)
    BY ZenonT(60), <2>1, <2>2 DEF SleepStays
  <2> QED BY ZenonT(60), <2>9, SleepFrame
<1>8. InWait(st2, W, p2, l2)
  <2>1. InWait(st, W, p, l) /\ \A s \in Semas : W[s] \subseteq Threads
    BY ZenonT(60) DEF Arranged, InWait
  <2>2. \A s \in Semas : \A t \in W[s] : st2[t] = st[t] /\ p2[t] = p[t] /\ l2[t] = l[t]
    BY ZenonT(60), <2>1, <1>1, <1>2, <1>3
  <2>9. WaitStays(st, W, p, l, st2, W, p2, l2)
    BY ZenonT(60), <2>1, <2>2 DEF WaitStays
  <2> QED BY ZenonT(60), <2>9, WaitFrame
<1>9. InBuild(st2, p2, l2, pg2)
  <2> SUFFICES ASSUME NEW c \in Threads, Building(p2, l2, pg2, c)
               PROVE  pg2[c] \in Threads /\ st2[pg2[c]] = "BLOCKED" /\ p2[pg2[c]] = "none"
    BY ZenonT(60) DEF InBuild
  <2>1. c # me /\ c # new /\ Building(p, l, pg, c) /\ pg2[c] = pg[c]
    BY ZenonT(60), <1>4
  <2>2. pg[c] \in Threads /\ st[pg[c]] = "BLOCKED" /\ p[pg[c]] = "none"
        /\ pg[c] # me /\ pg[c] # new
    BY ZenonT(60), <2>1, <1>1 DEF Arranged, InBuild
  <2> QED BY ZenonT(60), <2>1, <2>2, <1>3
<1>10. Found(st2, S, W, p2, l2, pg2, idler)
  <2> SUFFICES ASSUME NEW t \in Threads, st2[t] = "BLOCKED", t # idler
               PROVE  \/ t \in S
                      \/ \E s \in Semas : t \in W[s]
                      \/ \E c \in Threads : Building(p2, l2, pg2, c) /\ pg2[c] = t
    BY ZenonT(60) DEF Found
  <2>1. t # new /\ st[t] = "BLOCKED"
    BY ZenonT(60), <1>3
  <2>2. \/ t \in S
        \/ \E s \in Semas : t \in W[s]
        \/ \E c \in Threads : Building(p, l, pg, c) /\ pg[c] = t
    BY ZenonT(60), <2>1 DEF Arranged, Found
  <2>3. ASSUME NEW c \in Threads, Building(p, l, pg, c), pg[c] = t
        PROVE  Building(p2, l2, pg2, c) /\ pg2[c] = t
    BY ZenonT(60), <2>1, <2>3, <1>4
  <2> QED BY ZenonT(60), <2>2, <2>3
<1>11. Lives(st2, p2)
  <2>1. ASSUME NEW t \in Threads
        PROVE  /\ st2[t] = "DYING" <=> p2[t] = "dead"
               /\ p2[t] = "none" => st2[t] \in {"NONE", "BLOCKED"}
               /\ st2[t] = "NONE" => p2[t] = "none"
    <3>1. CASE t = new
      BY ZenonT(60), <3>1, <1>2, <1>3
    <3>2. CASE t = me
      BY ZenonT(60), <3>2, <1>2, <1>3
    <3>3. CASE t # new /\ t # me
      BY ZenonT(60), <3>3, <1>3 DEF Arranged, Lives
    <3> QED BY ZenonT(60), <3>1, <3>2, <3>3
  <2> QED BY ZenonT(60), <2>1 DEF Lives
<1>12. Idles(p2, l2, idler)
  <2>1. ASSUME NEW t \in Threads
        PROVE  /\ Idling(p2, l2, t) <=> t = idler
               /\ p2[t] \in {"hold", "read", "write", "clear"} => l2[t] # "idle"
    <3>1. CASE t = new
      BY ZenonT(60), <3>1, <1>2 DEF Idling
    <3>2. CASE t = me
      BY ZenonT(60), <3>2 DEF Idling
    <3>3. CASE t # new /\ t # me
      BY ZenonT(60), <3>3 DEF Arranged, Idles, Idling
    <3> QED BY ZenonT(60), <3>1, <3>2, <3>3
  <2> QED BY ZenonT(60), <2>1 DEF Idles
<1> QED BY ZenonT(60), <1>6, <1>7, <1>8, <1>9, <1>10, <1>11, <1>12 DEF Arranged

(* Thread me runs at the start of the idle thread, when there is none.       *)
Registering(st, R, S, W, p, l, pg, me, p2, l2) ==
    /\ Arranged(st, R, S, W, p, l, pg, NULL)
    /\ me \in Threads
    /\ st[me] = "RUNNING"
    /\ p[me] = "idle_init"
    /\ \A t \in Threads : p2[t] = IF t = me THEN "up" ELSE p[t]
    /\ \A t \in Threads : l2[t] = IF t = me THEN "idle" ELSE l[t]

-----------------------------------------------------------------------------
(* PlaceInv.                                                                *)

(* The part of PlaceInv that the rearrangements are about.                  *)
Placed ==
    Arranged(status, Elems(ready_list), Elems(sleep_list), WaitSets, pc, lk, page,
             idle_thread)

(* The lists are proper lists.                                             *)
Linked == NoDup(ready_list) /\ NoDup(sleep_list) /\ \A s \in Semas : NoDup(waiters[s])

OneRuns == \A t \in Threads : status[t] = "RUNNING" <=> t = current

(* What PlaceInv says of a running kernel.                                 *)
LEMMA PlaceParts ==
    ASSUME PlaceInv, Running
    PROVE  /\ Placed /\ OneRuns /\ Linked
           /\ Victims(Elems(destruction_req), pc, page)
           /\ current = idle_thread => Unlocked
           /\ idle_thread = NULL => Booting
BY ZenonT(60) DEF PlaceInv, Placed, OneRuns, Linked

(* Its parts make PlaceInv.                                                *)
LEMMA PlaceWhole ==
    ASSUME Placed', OneRuns', Linked', Victims(Elems(destruction_req'), pc', page'),
           current' = idle_thread' => Unlocked', idle_thread' = NULL => Booting'
    PROVE  PlaceInv'
BY ZenonT(60) DEF PlaceInv, Placed, OneRuns, Linked

(* The initial state.                                                      *)
LEMMA InitPlace == Init => PlaceInv
<1> SUFFICES ASSUME Init PROVE PlaceInv
  OBVIOUS
<1>1. /\ current = Main /\ idle_thread = NULL
      /\ ready_list = <<>> /\ sleep_list = <<>> /\ destruction_req = <<>>
      /\ \A s \in Semas : waiters[s] = <<>>
      /\ value["idle"] = 0
      /\ \A t \in Threads : /\ status[t] = IF t = Main THEN "RUNNING" ELSE "NONE"
                            /\ pc[t] = IF t = Main THEN "boot" ELSE "none"
  BY DEF Init, Semas, Locks
<1>2. \A t \in Threads : t # NULL
  BY NullIsNoThread
<1>3. \A t \in Threads : status[t] \in {"RUNNING", "NONE"} /\ pc[t] \in {"boot", "none"}
  BY ZenonT(60), <1>1
<1>4. /\ Elems(ready_list) = {} /\ Elems(sleep_list) = {}
      /\ \A s \in Semas : WaitSets[s] = {}
  BY <1>1, ElemsEmpty DEF WaitSets
<1>5. \A c \in Threads : ~ Building(pc, lk, page, c)
  BY ZenonT(60), <1>3 DEF Building
<1>6. InQueue(status, Elems(ready_list), idle_thread)
  BY ZenonT(60), <1>3, <1>4 DEF InQueue
<1>7. InSleep(status, Elems(sleep_list), pc)
  BY ZenonT(60), <1>4 DEF InSleep
<1>8. InWait(status, WaitSets, pc, lk)
  BY ZenonT(60), <1>4 DEF InWait
<1>9. InBuild(status, pc, lk, page)
  BY ZenonT(60), <1>5 DEF InBuild
<1>10. Found(status, Elems(sleep_list), WaitSets, pc, lk, page, idle_thread)
  BY ZenonT(60), <1>3 DEF Found
<1>11. Lives(status, pc)
  BY ZenonT(60), <1>1 DEF Lives
<1>12. Idles(pc, lk, idle_thread)
  BY ZenonT(60), <1>1, <1>2, <1>3 DEF Idles, Idling
<1>13. Victims(Elems(destruction_req), pc, page)
  BY ZenonT(60), <1>3, PoolFacts DEF Victims
<1>14. NoDup(ready_list) /\ NoDup(sleep_list) /\ \A s \in Semas : NoDup(waiters[s])
  BY <1>1, ElemsEmpty
<1>15. \A t \in Threads : status[t] = "RUNNING" <=> t = current
  BY ZenonT(60), <1>1
<1>16. current # idle_thread
  BY ZenonT(60), <1>1, <1>2, PoolFacts
<1>17. Booting
  BY ZenonT(60), <1>1, PoolFacts DEF Booting
<1> QED BY ZenonT(60), <1>6, <1>7, <1>8, <1>9, <1>10, <1>11, <1>12, <1>13, <1>14, <1>15, <1>16,
           <1>17 DEF PlaceInv, Arranged

-----------------------------------------------------------------------------
(* Steps that neither block nor wake anybody.                              *)

(* Before there is an idle thread, the running thread is at the very start  *)
(* of the boot sequence.                                                    *)
LEMMA BootLabels ==
    ASSUME Booting, NEW t \in Threads
    PROVE  /\ pc[t] \in {"boot", "down", "wake", "none", "idle_init"}
           /\ pc[t] \in {"down", "wake"} => lk[t] = "idle" /\ value[lk[t]] = 0 /\ t = Main
<1>1. t = Main \/ t \in Pool
  BY PoolFacts
<1> QED BY ZenonT(60), <1>1 DEF Booting

-----------------------------------------------------------------------------
(* The context switch.                                                     *)

(* The run queue is empty and the idle thread runs.                         *)
Alone(st, S, W, p, l, pg, idler) ==
    /\ Arranged(st, {}, S, W, p, l, pg, idler)
    /\ \A t \in Threads : st[t] = "RUNNING" <=> t = idler
    /\ \A t \in Threads : st[t] \in Statuses

(* When the idle thread is dispatched because the run queue is empty, no    *)
(* thread is inside a lock: it would be ready, running or blocked elsewhere. *)
LEMMA IdleAlone ==
    ASSUME NEW st, NEW S, NEW W, NEW p, NEW l, NEW pg, NEW idler,
           Alone(st, S, W, p, l, pg, idler),
           NEW t \in Threads, p[t] \in {"hold", "read", "write", "clear", "up"}
    PROVE  l[t] = "idle"
<1>0. /\ Arranged(st, {}, S, W, p, l, pg, idler)
      /\ \A u \in Threads : st[u] = "RUNNING" <=> u = idler
      /\ \A u \in Threads : st[u] \in Statuses
  BY ZenonT(60) DEF Alone
<1> USE <1>0
<1>1. CASE t = idler
  <2>1. Idling(p, l, t)
    BY ZenonT(60), <1>1 DEF Arranged, Idles
  <2> QED BY ZenonT(60), <2>1 DEF Idling
<1>2. CASE t # idler
  <2>1. st[t] # "RUNNING" /\ st[t] # "READY"
    BY ZenonT(60), <1>2 DEF Arranged, InQueue
  <2>2. st[t] # "DYING" /\ st[t] # "NONE"
    BY ZenonT(60) DEF Arranged, Lives
  <2>3. st[t] = "BLOCKED"
    BY ZenonT(60), <2>1, <2>2 DEF Statuses
  <2>4. \/ t \in S
        \/ \E s \in Semas : t \in W[s]
        \/ \E c \in Threads : Building(p, l, pg, c) /\ pg[c] = t
    BY ZenonT(60), <2>3, <1>2 DEF Arranged, Found
  <2>5. CASE t \in S
    BY ZenonT(60), <2>5 DEF Arranged, InSleep
  <2>6. ASSUME NEW s \in Semas, t \in W[s] PROVE FALSE
    BY ZenonT(60), <2>6 DEF Arranged, InWait, WaitsFor
  <2>7. ASSUME NEW c \in Threads, Building(p, l, pg, c), pg[c] = t PROVE FALSE
    BY ZenonT(60), <2>7 DEF Arranged, InBuild
  <2> QED BY ZenonT(60), <2>4, <2>5, <2>6, <2>7
<1> QED BY <1>1, <1>2

(* schedule() dispatches one thread and leaves the others where they are.   *)
LEMMA SchedulePlace ==
    ASSUME TypeOK, NEW st \in [Threads -> Statuses], NEW ready \in Seq(Threads),
           NEW req, schedule(st, ready, req), NoDup(ready),
           ready # <<>> \/ idle_thread # NULL,
           \A t \in Threads : st[t] # "RUNNING",
           Arranged(st, Elems(ready), Elems(sleep_list'), WaitSets', pc', lk', page',
                    idle_thread),
           idle_thread' = idle_thread
    PROVE  /\ Placed' /\ OneRuns' /\ NoDup(ready_list')
           /\ current' = idle_thread' => Unlocked'
<1> DEFINE next == next_thread_to_run(ready)
<1>1. /\ current' = next /\ status' = [st EXCEPT ![next] = "RUNNING"]
      /\ ready_list' = IF ready = <<>> THEN <<>> ELSE Tail(ready)
  BY ZenonT(60) DEF schedule
<1>2. /\ next \in Threads
      /\ next \in Elems(ready) \/ (Elems(ready) = {} /\ next = idle_thread)
      /\ NoDup(ready_list')
      /\ Elems(ready_list') = Elems(ready) \ {next}
  <2>1. CASE ready = <<>>
    <3>1. next = idle_thread /\ idle_thread \in Threads
      BY <2>1 DEF next_thread_to_run, TypeOK
    <3>2. ready_list' = <<>> /\ Elems(ready) = {} /\ NoDup(<<>>)
      BY <2>1, <1>1, ElemsEmpty
    <3>3. Elems(ready_list') = {}
      BY <3>2, ElemsEmpty
    <3> QED BY <3>1, <3>2, <3>3
  <2>2. CASE ready # <<>>
    <3>1. next = Head(ready) /\ ready_list' = Tail(ready)
      BY <2>2, <1>1 DEF next_thread_to_run
    <3>2. Head(ready) \in Elems(ready) /\ Head(ready) \in Threads
      BY <2>2, ElemsNonempty
    <3>3. NoDup(Tail(ready)) /\ Elems(Tail(ready)) = Elems(ready) \ {Head(ready)}
      BY <2>2, NoDupTail
    <3> QED BY ZenonT(60), <3>1, <3>2, <3>3
  <2> QED BY <2>1, <2>2
<1> HIDE DEF next
<1>3. \A t \in Threads : status'[t] = IF t = next THEN "RUNNING" ELSE st[t]
  BY <1>1, <1>2
<1>4. /\ Arranged(status', Elems(ready_list'), Elems(sleep_list'), WaitSets', pc', lk',
                  page', idle_thread)
      /\ \A t \in Threads : status'[t] = "RUNNING" <=> t = next
  <2>1. Dispatching(st, Elems(ready), Elems(sleep_list'), WaitSets', pc', lk', page',
                    idle_thread, next, status', Elems(ready_list'))
    BY ZenonT(60), <1>2, <1>3 DEF Dispatching
  <2>2. Arranged(status', Elems(ready_list'), Elems(sleep_list'), WaitSets', pc', lk',
                 page', idle_thread)
    BY ZenonT(60), <2>1, Dispatch
  <2>3. \A t \in Threads : status'[t] = "RUNNING" <=> t = next
    BY ZenonT(60), <1>3
  <2> QED BY ZenonT(60), <2>2, <2>3
<1>5. Placed' /\ OneRuns'
  BY ZenonT(60), <1>1, <1>4 DEF Placed, OneRuns
<1>6. ASSUME current' = idle_thread' PROVE Unlocked'
  <2>1. next = idle_thread
    BY ZenonT(60), <1>1, <1>6
  <2>2. Elems(ready_list') = {}
    <3>1. idle_thread \notin Elems(ready)
      BY ZenonT(60) DEF Arranged, InQueue
    <3> QED BY ZenonT(60), <3>1, <2>1, <1>2
  <2>3. Arranged(status', {}, Elems(sleep_list'), WaitSets', pc', lk', page', idle_thread)
    BY ZenonT(60), <2>2, <1>4
  <2>4. \A t \in Threads : status'[t] \in Statuses
    BY <1>3 DEF Statuses
  <2>5. ASSUME NEW t \in Threads, pc'[t] \in {"hold", "read", "write", "clear", "up"}
        PROVE  lk'[t] = "idle"
    <3>1. Alone(status', Elems(sleep_list'), WaitSets', pc', lk', page', idle_thread)
      BY ZenonT(60), <2>1, <2>3, <2>4, <1>4 DEF Alone
    <3> QED BY ZenonT(60), <3>1, <2>5, IdleAlone
  <2> QED BY ZenonT(60), <2>5 DEF Unlocked
<1> QED BY ZenonT(60), <1>2, <1>5, <1>6

(* thread_block, called by a thread that has put itself on a list or is the *)
(* idle thread, and has moved on inside its function.                       *)
LEMMA BlockPlace ==
    ASSUME IInv, PlaceInv, Running, NEW me \in Threads, me = current, OthersSame(me),
           pc[me] \notin {"boot", "idle_init"},
           NEW req, schedule([status EXCEPT ![current] = "BLOCKED"], ready_list, req),
           idle_thread' = idle_thread,
           pc'[me] \in {"run", "wake", "reap", "idle_hlt"},
           Building(pc', lk', page', me) => Building(pc, lk, page, me),
           Building(pc, lk, page, me) =>
              Building(pc', lk', page', me) /\ page'[me] = page[me],
           Idling(pc', lk', me) <=> me = idle_thread,
           \/ Elems(sleep_list') = Elems(sleep_list)
           \/ Elems(sleep_list') = Elems(sleep_list) \cup {me} /\ pc'[me] = "run",
           \A s \in Semas :
              \/ Elems(waiters'[s]) = Elems(waiters[s])
              \/ /\ Elems(waiters'[s]) = Elems(waiters[s]) \cup {me}
                 /\ WaitsFor(pc', lk', me, s),
           \/ me \in Elems(sleep_list')
           \/ \E s \in Semas : me \in Elems(waiters'[s])
           \/ me = idle_thread
    PROVE  /\ Placed' /\ OneRuns' /\ NoDup(ready_list')
           /\ current' = idle_thread' => Unlocked'
<1>1. Placed /\ OneRuns /\ Linked
  BY PlaceParts
<1>2. TypeOK /\ BootInv
  BY ZenonT(60) DEF IInv
<1>3. ready_list # <<>> \/ idle_thread # NULL
  <2> SUFFICES ASSUME idle_thread = NULL, ready_list = <<>> PROVE FALSE
    BY ZenonT(60)
  <2>1. Elems(ready_list) = {}
    BY ZenonT(60), ElemsEmpty
  <2>2. pc[Main] # "boot"
    BY ZenonT(60), <1>2 DEF BootInv
  <2>3. PICK i \in Pool : pc[i] = "idle_init" /\ i \in {current} \cup Elems(ready_list)
    BY ZenonT(60), <2>2, <1>2 DEF BootInv
  <2> QED BY ZenonT(60), <2>1, <2>3
<1>4. status[me] = "RUNNING"
  BY ZenonT(60), <1>1 DEF OneRuns
<1> DEFINE st == [status EXCEPT ![current] = "BLOCKED"]
<1>5. /\ st \in [Threads -> Statuses]
      /\ \A t \in Threads : st[t] = IF t = me THEN "BLOCKED" ELSE status[t]
  BY <1>2 DEF TypeOK, Statuses
<1>6. \A t \in Threads : st[t] # "RUNNING"
  BY ZenonT(60), <1>1, <1>5 DEF OneRuns
<1>7. schedule(st, ready_list, req)
  OBVIOUS
<1> HIDE DEF st
<1>8. Arranged(status, Elems(ready_list), Elems(sleep_list), WaitSets, pc', lk', page',
               idle_thread)
  <2>1. Arranged(status, Elems(ready_list), Elems(sleep_list), WaitSets, pc, lk, page,
                 idle_thread)
    BY <1>1 DEF Placed
  <2>2. \A t \in Threads : t # me =>
           pc'[t] = pc[t] /\ lk'[t] = lk[t] /\ page'[t] = page[t]
    BY ZenonT(60) DEF OthersSame
  <2>3. /\ pc'[me] \notin {"none", "dead"}
        /\ pc'[me] \in {"hold", "read", "write", "clear"} => lk'[me] # "idle"
    BY ZenonT(60)
  <2>4. Moving(status, Elems(ready_list), Elems(sleep_list), WaitSets, pc, lk, page,
               idle_thread, me, pc', lk', page')
    BY ZenonT(60), <2>1, <2>2, <2>3, <1>4 DEF Moving
  <2> QED BY ZenonT(60), <2>4, Moves
<1>9. Arranged(st, Elems(ready_list), Elems(sleep_list'), WaitSets', pc', lk', page',
               idle_thread)
  <2>1. \A s \in Semas : WaitSets[s] = Elems(waiters[s]) /\ WaitSets'[s] = Elems(waiters'[s])
    BY DEF WaitSets
  <2>2. \A s \in Semas : \/ WaitSets'[s] = WaitSets[s]
                         \/ /\ WaitSets'[s] = WaitSets[s] \cup {me}
                            /\ WaitsFor(pc', lk', me, s)
    BY ZenonT(60), <2>1
  <2>3. \/ me \in Elems(sleep_list')
        \/ \E s \in Semas : me \in WaitSets'[s]
        \/ me = idle_thread
    BY ZenonT(60), <2>1
  <2>4. /\ JoinsSleep(Elems(sleep_list), Elems(sleep_list'), pc', me)
        /\ JoinsWait(WaitSets, WaitSets', pc', lk', me)
        /\ OnSomeList(Elems(sleep_list'), WaitSets', me, idle_thread)
    BY ZenonT(60), <2>2, <2>3 DEF JoinsSleep, JoinsWait, OnSomeList
  <2>5. Parking(status, Elems(ready_list), Elems(sleep_list), WaitSets, pc', lk', page',
                idle_thread, me, st, Elems(sleep_list'), WaitSets')
    BY ZenonT(60), <2>4, <1>4, <1>5, <1>8 DEF Parking
  <2> QED BY ZenonT(60), <2>5, Parks
<1>10. ready_list \in Seq(Threads) /\ NoDup(ready_list)
  BY ZenonT(60), <1>1, <1>2 DEF TypeOK, Linked
<1> QED BY ZenonT(60), <1>2, <1>3, <1>5, <1>6, <1>7, <1>9, <1>10, SchedulePlace

(* The running thread is linked into no list, the idle thread into none but *)
(* through its status.                                                      *)
LEMMA CurrentIsNowhere ==
    ASSUME PlaceInv, Running, NEW me \in Threads, me = current
    PROVE  /\ me \notin Elems(ready_list) /\ me \notin Elems(sleep_list)
           /\ \A s \in Semas : me \notin Elems(waiters[s])
           /\ Idling(pc, lk, me) <=> me = idle_thread
<1>1. Placed /\ OneRuns
  BY PlaceParts
<1>2. Arranged(status, Elems(ready_list), Elems(sleep_list), WaitSets, pc, lk, page,
               idle_thread)
  BY <1>1 DEF Placed
<1>3. status[me] = "RUNNING"
  BY ZenonT(60), <1>1 DEF OneRuns
<1>4. /\ me \notin Elems(ready_list) /\ me \notin Elems(sleep_list)
      /\ \A s \in Semas : me \notin WaitSets[s]
  BY ZenonT(60), <1>2, <1>3, RunnerIsNowhere
<1>5. \A s \in Semas : WaitSets[s] = Elems(waiters[s])
  BY DEF WaitSets
<1>6. Idling(pc, lk, me) <=> me = idle_thread
  BY ZenonT(60), <1>2 DEF Arranged, Idles
<1> QED BY ZenonT(60), <1>4, <1>5, <1>6

(* A step in which nobody dies and no victim changes hands.                 *)
LEMMA VictimsFrame ==
    ASSUME Victims(Elems(destruction_req), pc, page), destruction_req' = destruction_req,
           \A t \in Threads : pc'[t] = "dead" => pc[t] = "dead",
           \A c \in Threads : pc[c] = "reap" => pc'[c] = "reap" /\ page'[c] = page[c]
    PROVE  Victims(Elems(destruction_req'), pc', page')
<1> SUFFICES ASSUME NEW t \in Pool, pc'[t] = "dead"
             PROVE  \/ t \in Elems(destruction_req)
                    \/ \E c \in Threads : pc'[c] = "reap" /\ page'[c] = t
  BY ZenonT(60) DEF Victims
<1>1. t \in Threads /\ pc[t] = "dead"
  BY ZenonT(60), PoolFacts
<1>2. t \in Elems(destruction_req) \/ \E c \in Threads : pc[c] = "reap" /\ page[c] = t
  BY ZenonT(60), <1>1 DEF Victims
<1> QED BY ZenonT(60), <1>2

(* A step of a thread that has left early boot behind leaves no boot.       *)
LEMMA NotBooting ==
    ASSUME PlaceInv, Running, NEW t \in Threads,
           pc[t] \notin {"boot", "down", "wake", "none", "idle_init"}
    PROVE  idle_thread # NULL
BY ZenonT(60), PlaceParts, BootLabels

-----------------------------------------------------------------------------
(* Steps that wake threads.                                                 *)

(* The first n threads leave q, the wait list of semaphore s.               *)
PopsWaiters(ready, q, n, s, st, st2, S, W, W2, p, l, pg, idler) ==
    /\ NoDup(ready) /\ NoDup(q)
    /\ Arranged(st, Elems(ready), S, W, p, l, pg, idler)
    /\ W[s] = Elems(q) /\ W2[s] = Elems(Rest(q, n))
    /\ \A r \in Semas : r # s => W2[r] = W[r]
    /\ \A t \in Threads : st2[t] = IF t \in Elems(Popped(q, n)) THEN "READY" ELSE st[t]

(* They are at the end of the run queue.                                    *)
WaitersPopped(ready, q, n, st, st2, S, W2, p, l, pg, idler) ==
    /\ Arranged(st2, Elems(ready \o Popped(q, n)), S, W2, p, l, pg, idler)
    /\ NoDup(ready \o Popped(q, n)) /\ NoDup(Rest(q, n))
    /\ ready \o Popped(q, n) \in Seq(Threads)
    /\ \A t \in Elems(Popped(q, n)) : t \in Elems(q) /\ st[t] = "BLOCKED"

(* The first n threads of a semaphore's wait list become ready.             *)
LEMMA WakeWaiters ==
    ASSUME NEW st, NEW S, NEW W, NEW p, NEW l, NEW pg, NEW idler, NEW st2, NEW W2,
           NEW ready \in Seq(Threads), NEW q \in Seq(Threads), NEW n \in 0..Len(q),
           NEW s \in Semas,
           PopsWaiters(ready, q, n, s, st, st2, S, W, W2, p, l, pg, idler)
    PROVE  WaitersPopped(ready, q, n, st, st2, S, W2, p, l, pg, idler)
<1>0. /\ NoDup(ready) /\ NoDup(q)
      /\ Arranged(st, Elems(ready), S, W, p, l, pg, idler)
      /\ W[s] = Elems(q) /\ W2[s] = Elems(Rest(q, n))
      /\ \A r \in Semas : r # s => W2[r] = W[r]
      /\ \A t \in Threads : st2[t] = IF t \in Elems(Popped(q, n)) THEN "READY" ELSE st[t]
  BY ZenonT(60) DEF PopsWaiters
<1> USE <1>0
<1> DEFINE woken == Popped(q, n)
           K == Elems(woken)
<1>1. woken \in Seq(Threads) /\ K \subseteq Elems(q)
  BY ZenonT(60), PoppedElems
<1>2. NoDup(woken) /\ NoDup(Rest(q, n)) /\ Elems(Rest(q, n)) = Elems(q) \ K
  BY ZenonT(60), NoDupPopped
<1> HIDE DEF woken
<1>3. K \subseteq Threads
  BY <1>1, ElemsSubset
<1> HIDE DEF K
<1>4. /\ ready \o woken \in Seq(Threads)
      /\ Elems(ready \o woken) = Elems(ready) \cup K
  <2>1. /\ ready \o woken \in Seq(Threads)
        /\ \A e : e \in Elems(ready \o woken) <=> e \in Elems(ready) \/ e \in Elems(woken)
    BY ZenonT(60), <1>1, ConcatElems
  <2> QED BY ZenonT(60), <2>1 DEF K
<1>5. \A t \in K : /\ t \in W[s] /\ t \in Elems(q)
                   /\ st[t] = "BLOCKED" /\ WaitsFor(p, l, t, s)
  BY ZenonT(60), <1>0, <1>1 DEF Arranged, InWait
<1>6. S = S \ K
  <2>1. \A t \in S : p[t] = "run"
    BY ZenonT(60) DEF Arranged, InSleep
  <2>2. \A t \in S : t \notin K
    BY ZenonT(60), <2>1, <1>5 DEF WaitsFor
  <2> QED BY ZenonT(60), <2>2
<1>7. \A r \in Semas : W2[r] = W[r] \ K
  <2> SUFFICES ASSUME NEW r \in Semas, r # s PROVE W2[r] = W[r] \ K
    BY ZenonT(60), <1>0, <1>2
  <2>1. \A t \in W[r] : WaitsFor(p, l, t, r)
    BY ZenonT(60) DEF Arranged, InWait
  <2>2. \A t \in W[r] : t \notin K
    BY ZenonT(60), <2>1, <1>5 DEF WaitsFor
  <2> QED BY ZenonT(60), <2>2, <1>0
<1>8. Elems(ready) \cap Elems(woken) = {}
  <2>1. \A t \in Elems(ready) : st[t] = "READY"
    BY ZenonT(60) DEF Arranged, InQueue
  <2>2. \A t \in Elems(ready) : t \notin K
    BY ZenonT(60), <2>1, <1>5
  <2> QED BY ZenonT(60), <2>2 DEF K
<1>9. NoDup(ready \o woken)
  BY ZenonT(60), <1>1, <1>2, <1>8, NoDupConcat
<1>10. Arranged(st2, Elems(ready \o woken), S, W2, p, l, pg, idler)
  <2>1. \A t \in K : t \in S \/ \E r \in Semas : t \in W[r]
    BY ZenonT(60), <1>5
  <2>2. \A t \in Threads : st2[t] = IF t \in K THEN "READY" ELSE st[t]
    BY ZenonT(60), <1>0 DEF K, woken
  <2>3. Chosen(K, S, W)
    BY ZenonT(60), <2>1, <1>3 DEF Chosen
  <2>4. MadeReady(K, st, Elems(ready), S, W, st2, Elems(ready \o woken), S, W2)
    BY ZenonT(60), <2>2, <1>4, <1>6, <1>7 DEF MadeReady
  <2>5. Waking(st, Elems(ready), S, W, p, l, pg, idler, K, st2, Elems(ready \o woken), S, W2)
    BY ZenonT(60), <2>3, <2>4 DEF Waking
  <2> QED BY ZenonT(60), <2>5, Wakes
<1> QED BY ZenonT(60), <1>2, <1>4, <1>5, <1>9, <1>10 DEF K, woken, WaitersPopped

(* The first n threads of the sleep list q are to go to the run queue.      *)
PopsSleepers(ready, q, n, st, st2, W, p, l, pg, idler) ==
    /\ NoDup(ready) /\ NoDup(q)
    /\ Arranged(st, Elems(ready), Elems(q), W, p, l, pg, idler)
    /\ \A t \in Threads : st2[t] = IF t \in Elems(Popped(q, n)) THEN "READY" ELSE st[t]

(* They are there.                                                          *)
SleepersPopped(ready, q, n, st, st2, W, p, l, pg, idler) ==
    /\ Arranged(st2, Elems(ready \o Popped(q, n)), Elems(Rest(q, n)), W, p, l, pg, idler)
    /\ NoDup(ready \o Popped(q, n)) /\ NoDup(Rest(q, n))
    /\ ready \o Popped(q, n) \in Seq(Threads)
    /\ \A t \in Elems(Popped(q, n)) : st[t] = "BLOCKED"

(* What sema_up does to the lists, and the statuses st it leaves.           *)
Upped(s, st) ==
    /\ st = [t \in Threads |-> IF t \in Elems(Unblocked(s)) THEN "READY" ELSE status[t]]
    /\ waiters' = [waiters EXCEPT ![s] = Rest(waiters[s], Len(Unblocked(s)))]
    /\ ready_list' = ready_list \o Unblocked(s)

(* The calls of a running thread that do not go through do_schedule keep     *)
(* the threads in place.                                                     *)
LEMMA CallsPlace ==
    HaveMinima /\ IInv /\ PlaceInv
      /\ \/ thread_create \/ thread_sleep \/ sema_down \/ lock_acquire
         \/ CriticalRead \/ CriticalWrite \/ lock_release \/ sema_up \/ idle
         \/ thread_unblock \/ \E d \in Durations : timer_sleep(d)
      => PlaceInv'
(* A step of the running thread that moves it on inside its function.       *)
<1>LocalPlace.
    ASSUME IInv, PlaceInv, Running, NEW me \in Threads, me = current, OthersSame(me),
           UNCHANGED <<current, status, ready_list, sleep_list, destruction_req, waiters,
                       idle_thread>>,
           pc[me] \in {"run", "down", "wake", "hold", "read", "write", "clear"},
           pc[me] \in {"down", "wake"} => value[lk[me]] # 0,
           pc'[me] \in {"run", "sleep", "down", "hold", "read", "write", "clear", "up"},
           pc'[me] \in {"hold", "read", "write", "clear", "up"} => lk'[me] # "idle",
           Building(pc', lk', page', me) => Building(pc, lk, page, me),
           Building(pc, lk, page, me) =>
              Building(pc', lk', page', me) /\ page'[me] = page[me]
    PROVE  PlaceInv'
  <2> USE <1>LocalPlace
  <2>1. /\ Placed /\ OneRuns /\ Linked
        /\ Victims(Elems(destruction_req), pc, page)
        /\ idle_thread = NULL => Booting
    BY PlaceParts
  <2>2. idle_thread # NULL
    BY ZenonT(60), <2>1, BootLabels
  <2>3. me # idle_thread
    <3>1. Idling(pc, lk, me) <=> me = idle_thread
      BY ZenonT(60), <2>1 DEF Placed, Arranged, Idles
    <3> QED BY ZenonT(60), <3>1 DEF Idling
  <2>4. WaitSets' = WaitSets
    BY DEF WaitSets
  <2>5. Placed'
    <3>1. Arranged(status, Elems(ready_list), Elems(sleep_list), WaitSets, pc, lk, page,
                   idle_thread)
      BY <2>1 DEF Placed
    <3>2. status[me] = "RUNNING"
      BY ZenonT(60), <2>1 DEF OneRuns
    <3>3. \A t \in Threads : t # me =>
             pc'[t] = pc[t] /\ lk'[t] = lk[t] /\ page'[t] = page[t]
      BY ZenonT(60) DEF OthersSame
    <3>4. pc'[me] \notin {"none", "dead"}
      BY ZenonT(60)
    <3>5. Idling(pc', lk', me) <=> me = idle_thread
      BY ZenonT(60), <2>3 DEF Idling
    <3>6. pc'[me] \in {"hold", "read", "write", "clear"} => lk'[me] # "idle"
      BY ZenonT(60)
    <3>7. Arranged(status, Elems(ready_list), Elems(sleep_list), WaitSets, pc', lk', page',
                   idle_thread)
      <4>1. Moving(status, Elems(ready_list), Elems(sleep_list), WaitSets, pc, lk, page,
                   idle_thread, me, pc', lk', page')
        BY ZenonT(60), <3>1, <3>2, <3>3, <3>4, <3>5, <3>6 DEF Moving
      <4> QED BY ZenonT(60), <4>1, Moves
    <3> QED BY ZenonT(60), <3>7, <2>4 DEF Placed
  <2>6. Victims(Elems(destruction_req'), pc', page')
    <3> SUFFICES ASSUME NEW t \in Pool, pc'[t] = "dead"
                 PROVE  \/ t \in Elems(destruction_req)
                        \/ \E c \in Threads : pc'[c] = "reap" /\ page'[c] = t
      BY ZenonT(60) DEF Victims
    <3>1. t \in Threads /\ t # me /\ pc[t] = "dead"
      BY ZenonT(60), PoolFacts DEF OthersSame
    <3>2. \A c \in Threads : pc[c] = "reap" => pc'[c] = "reap" /\ page'[c] = page[c]
      BY ZenonT(60) DEF OthersSame
    <3> QED BY ZenonT(60), <3>1, <3>2, <2>1 DEF Victims
  <2>7. OneRuns' /\ Linked'
    BY ZenonT(60), <2>1 DEF OneRuns, Linked
  <2>8. current' # idle_thread' /\ idle_thread' # NULL
    BY ZenonT(60), <2>2, <2>3
  <2> QED BY ZenonT(60), <2>5, <2>6, <2>7, <2>8, PlaceWhole
(* timer_sleep reads the clock.                                            *)
<1>TimerSleepPlace.
    ASSUME IInv, PlaceInv, NEW d \in Durations, timer_sleep(d)
    PROVE  PlaceInv'
  <2> USE <1>TimerSleepPlace
  <2>0. /\ Running /\ pc[current] = "run" /\ pc' = [pc EXCEPT ![current] = "sleep"]
        /\ val' = [val EXCEPT ![current] = ticks + d]
        /\ UNCHANGED <<current, status, ready_list, sleep_list, destruction_req, waiters,
                       idle_thread, lk, page>>
    BY ZenonT(60) DEF timer_sleep, At, Goto, Running, schedVars, alarmVars, lockVars
  <2>1. TypeOK
    BY DEF IInv
  <2>2. PICK me \in Threads : me = current
    BY ZenonT(60), <2>1 DEF TypeOK
  <2>3. pc'[me] = "sleep" /\ OthersSame(me)
    BY <2>0, <2>1, <2>2 DEF TypeOK, OthersSame
  <2>4. ~ Building(pc, lk, page, me) /\ ~ Building(pc', lk', page', me)
    BY ZenonT(60), <2>0, <2>2, <2>3 DEF Building
  <2> QED BY ZenonT(60), <2>0, <2>2, <2>3, <2>4, <1>LocalPlace
(* thread_create starts by taking the pool lock.                           *)
<1>ThreadCreatePlace.
    ASSUME IInv, PlaceInv, thread_create
    PROVE  PlaceInv'
  <2> USE <1>ThreadCreatePlace
  <2>0. /\ Running /\ pc[current] = "run" /\ pc' = [pc EXCEPT ![current] = "down"]
        /\ lk' = [lk EXCEPT ![current] = "pool"]
        /\ UNCHANGED <<current, status, ready_list, sleep_list, destruction_req, waiters,
                       idle_thread, page, val>>
    BY ZenonT(60) DEF thread_create, At, Goto, Running, schedVars, alarmVars, lockVars
  <2>1. TypeOK
    BY DEF IInv
  <2>2. PICK me \in Threads : me = current
    BY ZenonT(60), <2>1 DEF TypeOK
  <2>3. pc'[me] = "down" /\ lk'[me] = "pool" /\ OthersSame(me)
    BY <2>0, <2>1, <2>2 DEF TypeOK, OthersSame
  <2>4. ~ Building(pc, lk, page, me) /\ ~ Building(pc', lk', page', me)
    BY ZenonT(60), <2>0, <2>2, <2>3 DEF Building
  <2> QED BY ZenonT(60), <2>0, <2>2, <2>3, <2>4, <1>LocalPlace
(* lock_acquire, the two critical sections and lock_release.                *)
<1>CriticalPlace.
    ASSUME IInv, PlaceInv, lock_acquire \/ CriticalRead \/ CriticalWrite \/ lock_release
    PROVE  PlaceInv'
  (* The steps inside a critical section keep lock and page, except for the   *)
  (* page that bitmap_scan finds.                                             *)
  <2>InsidePlace.
      ASSUME IInv, PlaceInv, Running, NEW me \in Threads, me = current,
             pc[me] \in {"hold", "read", "write", "clear"},
             NEW label \in {"read", "write", "clear", "up"},
             pc' = [pc EXCEPT ![me] = label],
             lk' = lk, page' = page \/ lk[me] = "pool",
             \A t \in Threads : t # me => page'[t] = page[t] /\ val'[t] = val[t],
             UNCHANGED <<current, status, ready_list, sleep_list, destruction_req, waiters,
                         idle_thread>>
      PROVE  PlaceInv'
    (* A thread inside a lock operation is not at idle_started's semaphore.      *)
    <3>InsideIsLock.
        ASSUME PlaceInv, Running, NEW t \in Threads,
               pc[t] \in {"hold", "read", "write", "clear"}
        PROVE  lk[t] # "idle"
      <4> USE <3>InsideIsLock
      <4>1. Placed
        BY PlaceParts
      <4> QED BY ZenonT(60), <4>1 DEF Placed, Arranged, Idles
    <3> USE <2>InsidePlace
    <3>1. TypeOK
      BY DEF IInv
    <3>2. pc'[me] = label /\ OthersSame(me) /\ lk'[me] = lk[me]
      BY <3>1 DEF TypeOK, OthersSame
    <3>3. lk[me] # "idle"
      BY <3>InsideIsLock
    <3>4. /\ Building(pc', lk', page', me) => Building(pc, lk, page, me)
          /\ Building(pc, lk, page, me) =>
                Building(pc', lk', page', me) /\ page'[me] = page[me]
      BY <3>2 DEF Building
    <3> QED BY ZenonT(60), <3>2, <3>3, <3>4, <1>LocalPlace
  <2> USE <1>CriticalPlace
  <2>1. TypeOK
    BY DEF IInv
  <2>2. PICK me \in Threads : me = current
    BY ZenonT(60), <2>1 DEF TypeOK
  <2>3. CASE lock_acquire
    <3>1. /\ Running /\ pc[current] = "hold" /\ pc' = [pc EXCEPT ![current] = "read"]
          /\ UNCHANGED <<current, status, ready_list, sleep_list, destruction_req, waiters,
                         idle_thread, lk, page, val>>
      BY ZenonT(60), <2>3 DEF lock_acquire, At, Goto, Running, schedVars, alarmVars, locVars
    <3>2. PICK label \in {"read", "write", "clear", "up"} : label = "read"
      OBVIOUS
    <3> QED BY ZenonT(60), <3>1, <3>2, <2>2, <2>InsidePlace
  <2>4. CASE CriticalRead
    <3>1. /\ Running /\ pc[current] = "read" /\ pc' = [pc EXCEPT ![current] = "write"]
          /\ UNCHANGED <<current, status, ready_list, sleep_list, destruction_req, waiters,
                         idle_thread, lk>>
          /\ \/ lk[current] = "pool" /\ val' = val
                /\ page' = [page EXCEPT ![current] = LowestFree]
             \/ page' = page /\ val' = [val EXCEPT ![current] = next_tid]
      BY ZenonT(60), <2>4 DEF CriticalRead, At, Goto, Running, schedVars, alarmVars, lockVars
    <3>2. \A t \in Threads : t # me => page'[t] = page[t] /\ val'[t] = val[t]
      BY ZenonT(60), <3>1, <2>1, <2>2 DEF TypeOK
    <3>3. PICK label \in {"read", "write", "clear", "up"} : label = "write"
      OBVIOUS
    <3> QED BY ZenonT(60), <3>1, <3>2, <3>3, <2>2, <2>InsidePlace
  <2>5. CASE CriticalWrite
    <3>1. /\ Running /\ pc[current] = "write" /\ pc' = [pc EXCEPT ![current] = "clear"]
          /\ UNCHANGED <<current, status, ready_list, sleep_list, destruction_req, waiters,
                         idle_thread, lk, page>>
          /\ val' = val \/ val' = [val EXCEPT ![current] = 0]
      BY ZenonT(60), <2>5 DEF CriticalWrite, At, Goto, Running, schedVars, alarmVars, lockVars
    <3>2. \A t \in Threads : t # me => page'[t] = page[t] /\ val'[t] = val[t]
      BY ZenonT(60), <3>1, <2>1, <2>2 DEF TypeOK
    <3>3. PICK label \in {"read", "write", "clear", "up"} : label = "clear"
      OBVIOUS
    <3> QED BY ZenonT(60), <3>1, <3>2, <3>3, <2>2, <2>InsidePlace
  <2>6. CASE lock_release
    <3>1. /\ Running /\ pc[current] = "clear" /\ pc' = [pc EXCEPT ![current] = "up"]
          /\ UNCHANGED <<current, status, ready_list, sleep_list, destruction_req, waiters,
                         idle_thread, lk, page, val>>
      BY ZenonT(60), <2>6 DEF lock_release, At, Goto, Running, schedVars, alarmVars, locVars
    <3>2. PICK label \in {"read", "write", "clear", "up"} : label = "up"
      OBVIOUS
    <3> QED BY ZenonT(60), <3>1, <3>2, <2>2, <2>InsidePlace
  <2> QED BY <2>3, <2>4, <2>5, <2>6
(* sema_down, both ways.                                                   *)
<1>SemaDownPlace.
    ASSUME IInv, PlaceInv, sema_down
    PROVE  PlaceInv'
  (* sema_down takes a unit.                                                 *)
  <2>SemaTakePlace.
      ASSUME IInv, PlaceInv, Running, NEW me \in Threads, me = current,
             pc[me] \in {"down", "wake"}, value[lk[me]] > 0,
             pc' = [pc EXCEPT ![me] = IF lk[me] = "idle" THEN "run" ELSE "hold"],
             UNCHANGED <<current, status, ready_list, sleep_list, destruction_req, waiters,
                         idle_thread, lk, page, val>>
      PROVE  PlaceInv'
    <3> USE <2>SemaTakePlace
    <3>1. TypeOK
      BY DEF IInv
    <3>2. /\ pc'[me] = IF lk[me] = "idle" THEN "run" ELSE "hold"
          /\ OthersSame(me) /\ lk'[me] = lk[me] /\ page'[me] = page[me]
      BY <3>1 DEF TypeOK, OthersSame
    <3>3. pc'[me] \in {"run", "hold"} /\ (pc'[me] = "hold" => lk'[me] # "idle")
      BY <3>2
    <3>4. Building(pc', lk', page', me) <=> Building(pc, lk, page, me)
      BY <3>2 DEF Building
    <3>5. value[lk[me]] # 0
      OBVIOUS
    <3> QED BY ZenonT(60), <3>2, <3>3, <3>4, <3>5, <1>LocalPlace
  (* sema_down finds the semaphore at zero, and blocks.                      *)
  <2>SemaWaitPlace.
      ASSUME IInv, PlaceInv, Running, NEW me \in Threads, me = current,
             pc[me] \in {"down", "wake"},
             waiters' = [waiters EXCEPT ![lk[me]] = Append(waiters[lk[me]], me)],
             pc' = [pc EXCEPT ![me] = "wake"], thread_block,
             UNCHANGED <<sleep_list, value, idle_thread, lk, page, val>>
      PROVE  PlaceInv'
    <3> USE <2>SemaWaitPlace
    <3>1. /\ Placed /\ OneRuns /\ Linked
          /\ Victims(Elems(destruction_req), pc, page)
          /\ idle_thread = NULL => Booting
      BY PlaceParts
    <3>2. TypeOK
      BY DEF IInv
    <3>3. PICK s \in Semas : s = lk[me]
      BY ZenonT(60), <3>2 DEF TypeOK
    <3>4. waiters[s] \in Seq(Threads) /\ waiters \in [Semas -> Seq(Threads)]
      BY <3>2 DEF TypeOK
    <3>5. /\ waiters'[s] = Append(waiters[s], me)
          /\ \A r \in Semas : r # s => waiters'[r] = waiters[r]
      BY <3>3, <3>4
    <3>6. Elems(waiters'[s]) = Elems(waiters[s]) \cup {me}
      <4>1. Elems(Append(waiters[s], me)) = Elems(waiters[s]) \cup {me}
        BY <3>4, ElemsAppend
      <4> QED BY ZenonT(60), <4>1, <3>5
    <3>7. /\ me \notin Elems(waiters[s])
          /\ Idling(pc, lk, me) <=> me = idle_thread
      BY ZenonT(60), CurrentIsNowhere
    <3>8. Linked' \/ ~ NoDup(ready_list')
      <4>1. NoDup(waiters[s]) /\ \A r \in Semas : NoDup(waiters[r])
        BY ZenonT(60), <3>1 DEF Linked
      <4>2. NoDup(waiters'[s])
        BY ZenonT(60), <4>1, <3>4, <3>5, <3>7, NoDupAppend
      <4>3. \A r \in Semas : NoDup(waiters'[r])
        BY ZenonT(60), <4>1, <4>2, <3>5
      <4> QED BY ZenonT(60), <4>3, <3>1 DEF Linked
    <3>9. pc'[me] = "wake" /\ OthersSame(me) /\ lk'[me] = lk[me]
      BY <3>2 DEF TypeOK, OthersSame
    <3>10. me # idle_thread
      BY ZenonT(60), <3>7 DEF Idling
    <3>11. /\ Building(pc', lk', page', me) <=> Building(pc, lk, page, me)
           /\ WaitsFor(pc', lk', me, s)
           /\ ~ Idling(pc', lk', me)
      <4>1. Building(pc', lk', page', me) <=> Building(pc, lk, page, me)
        BY <3>9 DEF Building
      <4> QED BY ZenonT(60), <4>1, <3>3, <3>9 DEF WaitsFor, Idling
    <3>12. /\ Placed' /\ OneRuns' /\ NoDup(ready_list')
           /\ current' = idle_thread' => Unlocked'
      <4>1. \A r \in Semas :
               \/ Elems(waiters'[r]) = Elems(waiters[r])
               \/ /\ Elems(waiters'[r]) = Elems(waiters[r]) \cup {me}
                  /\ WaitsFor(pc', lk', me, r)
        BY ZenonT(60), <3>5, <3>6, <3>11
      <4>2. \E r \in Semas : me \in Elems(waiters'[r])
        BY ZenonT(60), <3>6
      <4>3. schedule([status EXCEPT ![current] = "BLOCKED"], ready_list, destruction_req)
        BY DEF thread_block
      <4> QED BY ZenonT(60), <4>1, <4>2, <4>3, <3>9, <3>10, <3>11, BlockPlace
    <3>13. Victims(Elems(destruction_req'), pc', page')
      <4>1. destruction_req' = destruction_req
        BY BlockFacts
      <4>2. \A t \in Threads : pc'[t] = "dead" => pc[t] = "dead"
        BY ZenonT(60), <3>9 DEF OthersSame
      <4>3. \A c \in Threads : pc[c] = "reap" => pc'[c] = "reap" /\ page'[c] = page[c]
        BY ZenonT(60), <3>9 DEF OthersSame
      <4> QED BY ZenonT(60), <4>1, <4>2, <4>3, <3>1, VictimsFrame
    <3>14. ASSUME idle_thread' = NULL PROVE Booting'
      <4>1. Booting /\ me = Main /\ lk[me] = "idle"
        BY ZenonT(60), <3>1, <3>14, BootLabels
      <4>2. \A t \in Pool : pc'[t] = pc[t]
        BY ZenonT(60), <4>1, <3>9, PoolFacts DEF OthersSame
      <4> QED BY ZenonT(60), <4>1, <4>2, <3>9 DEF Booting
    <3> QED BY ZenonT(60), <3>8, <3>12, <3>13, <3>14, PlaceWhole
  <2> USE <1>SemaDownPlace
  <2>1. TypeOK
    BY DEF IInv
  <2>2. PICK me \in Threads : me = current
    BY ZenonT(60), <2>1 DEF TypeOK
  <2>3. /\ Running /\ pc[me] \in {"down", "wake"}
        /\ UNCHANGED <<sleep_list, idle_thread, lk, page, val>>
    BY ZenonT(60), <2>2 DEF sema_down, At, Running, alarmVars, locVars
  <2>4. \/ /\ waiters' = [waiters EXCEPT ![lk[me]] = Append(waiters[lk[me]], me)]
           /\ pc' = [pc EXCEPT ![me] = "wake"] /\ thread_block /\ value' = value
        \/ /\ value[lk[me]] > 0
           /\ pc' = [pc EXCEPT ![me] = IF lk[me] = "idle" THEN "run" ELSE "hold"]
           /\ UNCHANGED <<current, status, ready_list, destruction_req, waiters>>
    BY ZenonT(60), <2>2 DEF sema_down, Goto, schedVars
  <2> QED BY ZenonT(60), <2>2, <2>3, <2>4, <2>SemaWaitPlace, <2>SemaTakePlace
(* thread_sleep.                                                           *)
<1>ThreadSleepPlace.
    ASSUME HaveMinima, IInv, PlaceInv, thread_sleep
    PROVE  PlaceInv'
  <2> USE <1>ThreadSleepPlace
  <2>0. /\ Running /\ pc[current] = "sleep" /\ pc' = [pc EXCEPT ![current] = "run"]
        /\ val' = [val EXCEPT ![current] = 0]
        /\ thread_block
        /\ UNCHANGED <<value, waiters, idle_thread, lk, page>>
    BY ZenonT(60) DEF thread_sleep, At, Goto, Running, lockVars
  <2>1. /\ Placed /\ OneRuns /\ Linked
        /\ Victims(Elems(destruction_req), pc, page)
    BY <2>0, PlaceParts
  <2>2. TypeOK
    BY DEF IInv
  <2>3. PICK me \in Threads : me = current
    BY ZenonT(60), <2>2 DEF TypeOK
  <2>4. pc'[me] = "run" /\ OthersSame(me)
    BY <2>0, <2>2, <2>3 DEF TypeOK, OthersSame
  <2>5. /\ me \notin Elems(sleep_list)
        /\ Idling(pc, lk, me) <=> me = idle_thread
    BY ZenonT(60), <2>0, <2>3, CurrentIsNowhere
  <2>6. me # idle_thread /\ idle_thread # NULL
    <3>1. me # idle_thread
      BY ZenonT(60), <2>0, <2>3, <2>5 DEF Idling
    <3> QED BY ZenonT(60), <3>1, <2>0, <2>3, NotBooting
  <2>7. Elems(sleep_list') = Elems(sleep_list) \cup {me} /\ NoDup(sleep_list')
    <3> DEFINE a == val[current]
               p == InsertPos(sleep_list, {t \in Threads : a <= alarm[t]})
    <3>1. a \in Int /\ sleep_list \in Seq(Threads) /\ NoDup(sleep_list)
      BY ZenonT(60), <2>1, <2>2 DEF TypeOK, Linked
    <3>2. p \in 1..(Len(sleep_list) + 1)
      BY ZenonT(60), <2>2, <3>1, SleepInsert
    <3>3. sleep_list' = Popped(sleep_list, p - 1) \o <<current>> \o Rest(sleep_list, p - 1)
      BY DEF thread_sleep, list_insert_ordered
    <3> HIDE DEF p
    <3>4. Elems(Popped(sleep_list, p - 1) \o <<me>> \o Rest(sleep_list, p - 1))
            = Elems(sleep_list) \cup {me}
      BY <3>1, <3>2, ElemsInsert
    <3>5. NoDup(Popped(sleep_list, p - 1) \o <<me>> \o Rest(sleep_list, p - 1))
      BY ZenonT(60), <3>1, <3>2, <2>5, NoDupInsert
    <3> QED BY ZenonT(60), <3>3, <3>4, <3>5, <2>3
  <2>8. /\ ~ Building(pc', lk', page', me) /\ ~ Building(pc, lk, page, me)
        /\ ~ Idling(pc', lk', me)
    BY ZenonT(60), <2>0, <2>3, <2>4 DEF Building, Idling
  <2>9. /\ Placed' /\ OneRuns' /\ NoDup(ready_list')
        /\ current' = idle_thread' => Unlocked'
    <3>1. me \in Elems(sleep_list')
      BY ZenonT(60), <2>7
    <3>2. schedule([status EXCEPT ![current] = "BLOCKED"], ready_list, destruction_req)
      BY <2>0 DEF thread_block
    <3>3. \A s \in Semas : Elems(waiters'[s]) = Elems(waiters[s])
      BY ZenonT(60), <2>0
    <3> QED BY ZenonT(60), <3>1, <3>2, <3>3, <2>0, <2>3, <2>4, <2>6, <2>7, <2>8, BlockPlace
  <2>10. Victims(Elems(destruction_req'), pc', page')
    <3>1. destruction_req' = destruction_req
      BY <2>0, BlockFacts
    <3>2. \A t \in Threads : pc'[t] = "dead" => pc[t] = "dead"
      BY ZenonT(60), <2>4 DEF OthersSame
    <3>3. \A c \in Threads : pc[c] = "reap" => pc'[c] = "reap" /\ page'[c] = page[c]
      BY ZenonT(60), <2>0, <2>3, <2>4 DEF OthersSame
    <3> QED BY ZenonT(60), <3>1, <3>2, <3>3, <2>1, VictimsFrame
  <2>11. Linked'
    BY ZenonT(60), <2>0, <2>1, <2>7, <2>9 DEF Linked
  <2>12. idle_thread' # NULL
    BY ZenonT(60), <2>0, <2>6
  <2> QED BY ZenonT(60), <2>9, <2>10, <2>11, <2>12, PlaceWhole
(* The idle thread blocks.                                                 *)
<1>IdlePlace.
    ASSUME IInv, PlaceInv, idle
    PROVE  PlaceInv'
  <2> USE <1>IdlePlace
  <2>0. /\ Running /\ pc[current] = "idle_block" /\ pc' = [pc EXCEPT ![current] = "idle_hlt"]
        /\ thread_block
        /\ UNCHANGED <<sleep_list, value, waiters, idle_thread, lk, page, val>>
    BY ZenonT(60) DEF idle, At, Goto, Running, alarmVars, lockVars, locVars
  <2>1. /\ Placed /\ OneRuns /\ Linked
        /\ Victims(Elems(destruction_req), pc, page)
    BY <2>0, PlaceParts
  <2>2. TypeOK
    BY DEF IInv
  <2>3. PICK me \in Threads : me = current
    BY ZenonT(60), <2>2 DEF TypeOK
  <2>4. pc'[me] = "idle_hlt" /\ OthersSame(me)
    BY <2>0, <2>2, <2>3 DEF TypeOK, OthersSame
  <2>5. me = idle_thread /\ idle_thread # NULL
    <3>1. Idling(pc, lk, me) <=> me = idle_thread
      BY ZenonT(60), <2>0, <2>3, CurrentIsNowhere
    <3> QED BY ZenonT(60), <3>1, <2>0, <2>3, NullIsNoThread DEF Idling
  <2>6. /\ ~ Building(pc', lk', page', me) /\ ~ Building(pc, lk, page, me)
        /\ Idling(pc', lk', me)
    BY ZenonT(60), <2>0, <2>3, <2>4 DEF Building, Idling
  <2>7. /\ Placed' /\ OneRuns' /\ NoDup(ready_list')
        /\ current' = idle_thread' => Unlocked'
    <3>1. schedule([status EXCEPT ![current] = "BLOCKED"], ready_list, destruction_req)
      BY <2>0 DEF thread_block
    <3>2. \A s \in Semas : Elems(waiters'[s]) = Elems(waiters[s])
      BY ZenonT(60), <2>0
    <3>3. Elems(sleep_list') = Elems(sleep_list)
      BY ZenonT(60), <2>0
    <3> QED BY ZenonT(60), <3>1, <3>2, <3>3, <2>0, <2>3, <2>4, <2>5, <2>6, BlockPlace
  <2>8. Victims(Elems(destruction_req'), pc', page')
    <3>1. destruction_req' = destruction_req
      BY <2>0, BlockFacts
    <3>2. \A t \in Threads : pc'[t] = "dead" => pc[t] = "dead"
      BY ZenonT(60), <2>4 DEF OthersSame
    <3>3. \A c \in Threads : pc[c] = "reap" => pc'[c] = "reap" /\ page'[c] = page[c]
      BY ZenonT(60), <2>0, <2>3, <2>4 DEF OthersSame
    <3> QED BY ZenonT(60), <3>1, <3>2, <3>3, <2>1, VictimsFrame
  <2>9. Linked'
    BY ZenonT(60), <2>0, <2>1, <2>7 DEF Linked
  <2>10. idle_thread' # NULL
    BY ZenonT(60), <2>0, <2>5
  <2> QED BY ZenonT(60), <2>7, <2>8, <2>9, <2>10, PlaceWhole
(* sema_up.                                                                 *)
<1>SemaUpPlace.
    ASSUME IInv, PlaceInv, sema_up
    PROVE  PlaceInv'
  (* The running thread initialises the thread it creates (init_thread).      *)
  <2>Inits.
      ASSUME NEW st, NEW R, NEW S, NEW W, NEW p, NEW l, NEW pg, NEW idler, NEW me,
             NEW new, NEW st2, NEW p2, NEW l2,
             Initing(st, R, S, W, p, l, pg, idler, me, new, st2, p2, l2)
      PROVE  Arranged(st2, R, S, W, p2, l2, pg, idler)
    <3> USE <2>Inits
    <3>0. /\ Arranged(st, R, S, W, p, l, pg, idler)
          /\ me \in Threads
          /\ st[me] = "RUNNING"
          /\ me # idler
          /\ new \in Threads
          /\ p[new] = "none"
          /\ new # NULL
          /\ pg[me] = new
          /\ \A t \in Threads : st2[t] = IF t = new THEN "BLOCKED" ELSE st[t]
          /\ \A t \in Threads : p2[t] = IF t = me THEN "down" ELSE p[t]
          /\ \A t \in Threads : l2[t] = IF t = me THEN "tid" ELSE l[t]
      BY ZenonT(60) DEF Initing
    <3> USE <3>0
    <3>1. /\ me \notin R /\ me \notin S /\ \A s \in Semas : me \notin W[s]
          /\ \A c \in Threads : Building(p, l, pg, c) => pg[c] # me
          /\ p[me] \notin {"none", "dead"}
      BY ZenonT(60), RunnerIsNowhere
    <3>2. /\ new # me /\ new \notin R /\ new # idler
          /\ new \notin S /\ \A s \in Semas : new \notin W[s]
      <4>1. st[new] \in {"NONE", "BLOCKED"}
        BY ZenonT(60) DEF Arranged, Lives
      <4>2. new # idler
        BY ZenonT(60) DEF Arranged, Idles, Idling
      <4>3. new \notin R
        BY ZenonT(60), <4>1, <4>2 DEF Arranged, InQueue
      <4>4. new \notin S /\ \A s \in Semas : new \notin W[s]
        BY ZenonT(60) DEF Arranged, InSleep, InWait, WaitsFor
      <4> QED BY ZenonT(60), <4>2, <4>3, <4>4, <3>1
    <3>3. /\ st2[new] = "BLOCKED" /\ \A t \in Threads : t # new => st2[t] = st[t]
          /\ p2[me] = "down" /\ \A t \in Threads : t # me => p2[t] = p[t]
          /\ l2[me] = "tid" /\ \A t \in Threads : t # me => l2[t] = l[t]
      BY ZenonT(60)
    <3>4. \A c \in Threads : c # me => (Building(p2, l2, pg, c) <=> Building(p, l, pg, c))
      BY ZenonT(60), <3>3 DEF Building
    <3>5. Building(p2, l2, pg, me)
      BY ZenonT(60), <3>3 DEF Building
    <3>6. InQueue(st2, R, idler)
      <4>1. st[new] # "READY"
        BY ZenonT(60) DEF Arranged, Lives
      <4> QED BY ZenonT(60), <4>1, <3>2, <3>3 DEF Arranged, InQueue
    <3>7. InSleep(st2, S, p2)
      <4>1. InSleep(st, S, p) /\ S \subseteq Threads
        BY ZenonT(60) DEF Arranged, InSleep
      <4>2. \A t \in S : st2[t] = st[t] /\ p2[t] = p[t]
        BY ZenonT(60), <4>1, <3>1, <3>2, <3>3
      <4>9. SleepStays(st, S, p, st2, S, p2)
        BY ZenonT(60), <4>1, <4>2 DEF SleepStays
      <4> QED BY ZenonT(60), <4>9, SleepFrame
    <3>8. InWait(st2, W, p2, l2)
      <4>1. InWait(st, W, p, l) /\ \A s \in Semas : W[s] \subseteq Threads
        BY ZenonT(60) DEF Arranged, InWait
      <4>2. \A s \in Semas : \A t \in W[s] : st2[t] = st[t] /\ p2[t] = p[t] /\ l2[t] = l[t]
        BY ZenonT(60), <4>1, <3>1, <3>2, <3>3
      <4>9. WaitStays(st, W, p, l, st2, W, p2, l2)
        BY ZenonT(60), <4>1, <4>2 DEF WaitStays
      <4> QED BY ZenonT(60), <4>9, WaitFrame
    <3>9. InBuild(st2, p2, l2, pg)
      <4> SUFFICES ASSUME NEW c \in Threads, Building(p2, l2, pg, c)
                   PROVE  pg[c] \in Threads /\ st2[pg[c]] = "BLOCKED" /\ p2[pg[c]] = "none"
        BY ZenonT(60) DEF InBuild
      <4>1. CASE c = me
        BY ZenonT(60), <4>1, <3>2, <3>3
      <4>2. CASE c # me
        <5>1. pg[c] \in Threads /\ st[pg[c]] = "BLOCKED" /\ p[pg[c]] = "none" /\ pg[c] # me
          BY ZenonT(60), <4>2, <3>1, <3>4 DEF Arranged, InBuild
        <5> QED BY ZenonT(60), <5>1, <3>3
      <4> QED BY ZenonT(60), <4>1, <4>2
    <3>10. Found(st2, S, W, p2, l2, pg, idler)
      <4> SUFFICES ASSUME NEW t \in Threads, st2[t] = "BLOCKED", t # idler
                   PROVE  \/ t \in S
                          \/ \E s \in Semas : t \in W[s]
                          \/ \E c \in Threads : Building(p2, l2, pg, c) /\ pg[c] = t
        BY ZenonT(60) DEF Found
      <4>1. CASE t = new
        BY ZenonT(60), <4>1, <3>5
      <4>2. CASE t # new
        <5>1. \/ t \in S
              \/ \E s \in Semas : t \in W[s]
              \/ \E c \in Threads : Building(p, l, pg, c) /\ pg[c] = t
          BY ZenonT(60), <4>2, <3>3 DEF Arranged, Found
        <5> QED BY ZenonT(60), <5>1, <3>4, <3>5
      <4> QED BY ZenonT(60), <4>1, <4>2
    <3>11. Lives(st2, p2)
      <4>1. ASSUME NEW t \in Threads
            PROVE  /\ st2[t] = "DYING" <=> p2[t] = "dead"
                   /\ p2[t] = "none" => st2[t] \in {"NONE", "BLOCKED"}
                   /\ st2[t] = "NONE" => p2[t] = "none"
        <5>1. CASE t = new
          BY ZenonT(60), <5>1, <3>2, <3>3
        <5>2. CASE t = me
          BY ZenonT(60), <5>2, <3>2, <3>3
        <5>3. CASE t # new /\ t # me
          <6>1. st2[t] = st[t] /\ p2[t] = p[t]
            BY ZenonT(60), <5>3, <3>3
          <6> QED BY ZenonT(60), <6>1 DEF Arranged, Lives
        <5> QED BY ZenonT(60), <5>1, <5>2, <5>3
      <4> QED BY ZenonT(60), <4>1 DEF Lives
    <3>12. Idles(p2, l2, idler)
      <4>1. ASSUME NEW t \in Threads
            PROVE  /\ Idling(p2, l2, t) <=> t = idler
                   /\ p2[t] \in {"hold", "read", "write", "clear"} => l2[t] # "idle"
        <5>1. CASE t = me
          BY ZenonT(60), <5>1, <3>3 DEF Idling
        <5>2. CASE t # me
          BY ZenonT(60), <5>2, <3>3 DEF Arranged, Idles, Idling
        <5> QED BY ZenonT(60), <5>1, <5>2
      <4> QED BY ZenonT(60), <4>1 DEF Idles
    <3> QED BY ZenonT(60), <3>6, <3>7, <3>8, <3>9, <3>10, <3>11, <3>12 DEF Arranged
  (* sema_up pops the thread at the front, if there is one.                   *)
  <2>UnblockedIsPopped.
      ASSUME TypeOK, NEW s \in Semas
      PROVE  /\ Len(Unblocked(s)) \in 0..Len(waiters[s])
             /\ Unblocked(s) = Popped(waiters[s], Len(Unblocked(s)))
    <3> USE <2>UnblockedIsPopped
    <3>1. waiters[s] \in Seq(Threads)
      BY DEF TypeOK
    <3>2. CASE waiters[s] = <<>>
      BY <3>2 DEF Unblocked, Popped
    <3>3. CASE waiters[s] # <<>>
      <4>1. Unblocked(s) = <<Head(waiters[s])>> /\ Len(Unblocked(s)) = 1
        BY <3>3 DEF Unblocked
      <4>2. Len(waiters[s]) \in Nat \ {0} /\ Head(waiters[s]) = waiters[s][1]
        BY <3>1, <3>3, SeqEmpty
      <4>3. Popped(waiters[s], 1) = <<Head(waiters[s])>>
        <5>1. PICK q \in Seq(Threads) : q = waiters[s]
          BY <3>1
        <5>2. PICK n \in 0..Len(q) : n = 1
          BY <5>1, <4>2
        <5>3. /\ Popped(q, n) \in Seq(Threads) /\ Len(Popped(q, n)) = n
              /\ \A i \in 1..n : Popped(q, n)[i] = q[i]
          BY ElemsPopped
        <5>4. Popped(q, n)[1] = q[1]
          BY <5>2, <5>3
        <5> QED BY <5>1, <5>2, <5>3, <5>4, <4>2
      <4> QED BY <4>1, <4>2, <4>3
    <3> QED BY <3>2, <3>3
  (* sema_up, before the releasing thread goes on: the thread that has waited *)
  (* longest is ready.                                                        *)
  <2>SemaUpWakes.
      ASSUME IInv, PlaceInv, Running, NEW me \in Threads, me = current,
             NEW s \in Semas, NEW st, Upped(s, st), sleep_list' = sleep_list
      PROVE  /\ Arranged(st, Elems(ready_list'), Elems(sleep_list'), WaitSets', pc, lk,
                         page, idle_thread)
             /\ Linked'
             /\ \A t \in Threads : st[t] = "RUNNING" <=> t = me
    <3> USE <2>SemaUpWakes
    <3>1. Placed /\ OneRuns /\ Linked
      BY PlaceParts
    <3>2. TypeOK
      BY DEF IInv
    <3>3. PICK q \in Seq(Threads) : q = waiters[s]
      BY ZenonT(60), <3>2 DEF TypeOK
    <3>4. PICK n \in 0..Len(q) : n = Len(Unblocked(s)) /\ Unblocked(s) = Popped(q, n)
      BY ZenonT(60), <3>2, <3>3, <2>UnblockedIsPopped
    <3>5. /\ waiters'[s] = Rest(q, n)
          /\ \A r \in Semas : r # s => waiters'[r] = waiters[r]
      BY <3>2, <3>3, <3>4 DEF TypeOK, Upped
    <3>6. /\ WaitSets[s] = Elems(q) /\ WaitSets'[s] = Elems(Rest(q, n))
          /\ \A r \in Semas : r # s => WaitSets'[r] = WaitSets[r]
      BY ZenonT(60), <3>3, <3>5 DEF WaitSets
    <3>7. \A t \in Threads : st[t] = IF t \in Elems(Popped(q, n)) THEN "READY" ELSE status[t]
      BY ZenonT(60), <3>3, <3>4 DEF Upped
    <3>8. /\ ready_list \in Seq(Threads) /\ NoDup(ready_list) /\ NoDup(q)
          /\ Arranged(status, Elems(ready_list), Elems(sleep_list), WaitSets, pc, lk, page,
                      idle_thread)
      BY ZenonT(60), <3>1, <3>2, <3>3, <3>4 DEF TypeOK, Linked, Placed
    <3>9. /\ Arranged(st, Elems(ready_list \o Popped(q, n)), Elems(sleep_list), WaitSets', pc,
                      lk, page, idle_thread)
          /\ NoDup(ready_list \o Popped(q, n)) /\ NoDup(Rest(q, n))
          /\ ready_list \o Popped(q, n) \in Seq(Threads)
          /\ \A t \in Elems(Popped(q, n)) : t \in Elems(q) /\ status[t] = "BLOCKED"
      <4>1. PopsWaiters(ready_list, q, n, s, status, st, Elems(sleep_list), WaitSets, WaitSets',
                        pc, lk, page, idle_thread)
        BY ZenonT(60), <3>6, <3>7, <3>8 DEF PopsWaiters
      <4>2. WaitersPopped(ready_list, q, n, status, st, Elems(sleep_list), WaitSets', pc, lk,
                          page, idle_thread)
        BY ZenonT(60), <4>1, <3>8, WakeWaiters
      <4> QED BY ZenonT(60), <4>2 DEF WaitersPopped
    <3>10. Linked'
      BY ZenonT(60), <3>1, <3>3, <3>4, <3>5, <3>9 DEF Linked, Upped
    <3>11. \A t \in Threads : st[t] = "RUNNING" <=> t = me
      BY ZenonT(60), <3>1, <3>7, <3>9 DEF OneRuns
    <3> QED BY ZenonT(60), <3>3, <3>4, <3>9, <3>10, <3>11 DEF Upped
  <2> USE <1>SemaUpPlace
  <2>st. PICK st : st = [t \in Threads |->
                          IF t \in Elems(Unblocked(lk[current])) THEN "READY" ELSE status[t]]
    BY ZenonT(60)
  <2>0. /\ Running /\ pc[current] = "up"
        /\ waiters' = [waiters EXCEPT ![lk[current]]
                         = Rest(waiters[lk[current]], Len(Unblocked(lk[current])))]
        /\ ready_list' = ready_list \o Unblocked(lk[current])
        /\ UNCHANGED <<current, destruction_req, sleep_list, idle_thread, page, val>>
    BY DEF sema_up, At, Running
  <2>1. /\ Placed /\ OneRuns /\ Linked
        /\ Victims(Elems(destruction_req), pc, page)
        /\ current = idle_thread => Unlocked
    BY ZenonT(60), <2>0, PlaceParts
  <2>2. TypeOK /\ PageInv
    BY ZenonT(60), <2>0 DEF IInv
  <2>3. PICK me \in Threads : me = current
    BY ZenonT(60), <2>2 DEF TypeOK
  <2>4. PICK s \in Semas : s = lk[me]
    BY ZenonT(60), <2>2 DEF TypeOK
  <2>5. /\ Arranged(st, Elems(ready_list'), Elems(sleep_list'), WaitSets', pc, lk, page,
                    idle_thread)
        /\ Linked'
        /\ \A t \in Threads : st[t] = "RUNNING" <=> t = me
    <3>1. Upped(s, st)
      BY ZenonT(60), <2>st, <2>0, <2>3, <2>4 DEF Upped
    <3>2. Running /\ sleep_list' = sleep_list
      BY ZenonT(60), <2>0
    <3> QED BY SMTT(60), <3>1, <3>2, <2>3, <2>SemaUpWakes
  <2>6. \/ /\ s = "pool" /\ page[me] # NULL
           /\ status' = [st EXCEPT ![page[me]] = "BLOCKED"]
           /\ pc' = [pc EXCEPT ![me] = "down"] /\ lk' = [lk EXCEPT ![me] = "tid"]
        \/ /\ ~ (s = "pool" /\ page[me] # NULL) /\ status' = st /\ lk' = lk
           /\ pc' = [pc EXCEPT ![me] = CASE s = "pool" -> "run" [] s = "tid" -> "insert"
                                          [] OTHER -> "idle_block"]
    BY <2>st, <2>3, <2>4 DEF sema_up, Goto, init_thread
  <2>7. Idling(pc, lk, me) <=> me = idle_thread
    BY ZenonT(60), <2>0, <2>3, CurrentIsNowhere
  <2>8. idle_thread # NULL /\ pc[me] = "up"
    BY ZenonT(60), <2>0, <2>3, NotBooting
  <2>9. /\ OthersSame(me) /\ pc'[me] \in {"down", "run", "insert", "idle_block"}
        /\ me = idle_thread => pc'[me] = "idle_block"
    <3>1. pc \in [Threads -> Labels] /\ lk \in [Threads -> Semas]
      BY ZenonT(60), <2>2 DEF TypeOK
    <3>2. me = idle_thread => s = "idle"
      BY ZenonT(60), <2>4, <2>7, <2>8 DEF Idling
    <3>3. CASE /\ s = "pool" /\ page[me] # NULL
               /\ status' = [st EXCEPT ![page[me]] = "BLOCKED"]
               /\ pc' = [pc EXCEPT ![me] = "down"] /\ lk' = [lk EXCEPT ![me] = "tid"]
      BY <3>1, <3>2, <3>3, <2>0 DEF OthersSame
    <3>4. CASE /\ ~ (s = "pool" /\ page[me] # NULL) /\ status' = st /\ lk' = lk
               /\ pc' = [pc EXCEPT ![me] = CASE s = "pool" -> "run" [] s = "tid" -> "insert"
                                             [] OTHER -> "idle_block"]
      BY <3>1, <3>2, <3>4, <2>0 DEF OthersSame
    <3> QED BY <3>3, <3>4, <2>6
  <2>10. Placed' /\ OneRuns'
    <3>1. CASE /\ s = "pool" /\ page[me] # NULL
               /\ status' = [st EXCEPT ![page[me]] = "BLOCKED"]
               /\ pc' = [pc EXCEPT ![me] = "down"] /\ lk' = [lk EXCEPT ![me] = "tid"]
      <4>1. PICK new \in Pool : new = page[me]
        BY ZenonT(60), <3>1, <2>2 DEF TypeOK
      <4>2. new \in Threads /\ new # NULL /\ pc[new] = "none"
        <5>1. HasPage(me)
          BY ZenonT(60), <3>1, <2>4, <2>8 DEF HasPage
        <5> QED BY ZenonT(60), <5>1, <4>1, <3>1, <2>2, PoolFacts DEF PageInv
      <4>3. me # idle_thread /\ st[me] = "RUNNING" /\ new # me
        BY ZenonT(60), <4>2, <3>1, <2>4, <2>5, <2>7, <2>8 DEF Idling
      <4>4. /\ \A t \in Threads : status'[t] = IF t = new THEN "BLOCKED" ELSE st[t]
            /\ \A t \in Threads : pc'[t] = IF t = me THEN "down" ELSE pc[t]
            /\ \A t \in Threads : lk'[t] = IF t = me THEN "tid" ELSE lk[t]
        <5>1. DOMAIN st = Threads /\ pc \in [Threads -> Labels] /\ lk \in [Threads -> Semas]
          BY ZenonT(60), <2>st, <2>2 DEF TypeOK
        <5> QED BY <5>1, <4>1, <4>2, <3>1
      <4>5. Arranged(status', Elems(ready_list'), Elems(sleep_list'), WaitSets', pc', lk',
                     page, idle_thread)
        <5>1. Initing(st, Elems(ready_list'), Elems(sleep_list'), WaitSets', pc, lk, page,
                      idle_thread, me, new, status', pc', lk')
          BY ZenonT(60), <4>1, <4>2, <4>3, <4>4, <2>5 DEF Initing
        <5> QED BY ZenonT(60), <5>1, <2>Inits
      <4>6. \A t \in Threads : status'[t] = "RUNNING" <=> t = me
        BY ZenonT(60), <4>3, <4>4, <2>5
      <4> QED BY ZenonT(60), <4>5, <4>6, <2>0, <2>3 DEF Placed, OneRuns
    <3>2. CASE /\ ~ (s = "pool" /\ page[me] # NULL) /\ status' = st /\ lk' = lk
               /\ pc' = [pc EXCEPT ![me] = CASE s = "pool" -> "run" [] s = "tid" -> "insert"
                                             [] OTHER -> "idle_block"]
      <4>1. pc'[me] = IF s = "pool" THEN "run" ELSE IF s = "tid" THEN "insert" ELSE "idle_block"
        <5>1. pc \in [Threads -> Labels]
          BY ZenonT(60), <2>2 DEF TypeOK
        <5> QED BY <5>1, <3>2
      <4>2. st[me] = "RUNNING" /\ pc'[me] \notin {"none", "dead", "hold", "read", "write", "clear"}
        BY ZenonT(60), <4>1, <2>5
      <4>3. \A t \in Threads : t # me =>
               pc'[t] = pc[t] /\ lk'[t] = lk[t] /\ page[t] = page[t]
        BY ZenonT(60), <2>9 DEF OthersSame
      <4>4. /\ Building(pc', lk', page, me) => Building(pc, lk, page, me)
            /\ Building(pc, lk, page, me) =>
                 Building(pc', lk', page, me) /\ page[me] = page[me]
        <5>1. CASE s = "tid"
          BY ZenonT(60), <5>1, <4>1, <2>4, <2>8 DEF Building
        <5>2. CASE s # "tid"
          BY ZenonT(60), <5>2, <4>1, <2>4, <2>8 DEF Building
        <5> QED BY <5>1, <5>2
      <4>5. Idling(pc', lk', me) <=> me = idle_thread
        <5>1. s \in {"pool", "tid", "idle"}
          BY DEF Semas, Locks
        <5> QED BY ZenonT(60), <5>1, <4>1, <2>4, <2>7, <2>8 DEF Idling
      <4>6. Arranged(st, Elems(ready_list'), Elems(sleep_list'), WaitSets', pc', lk',
                     page, idle_thread)
        <5>1. Moving(st, Elems(ready_list'), Elems(sleep_list'), WaitSets', pc, lk, page,
                     idle_thread, me, pc', lk', page)
          BY ZenonT(60), <4>2, <4>3, <4>4, <4>5, <2>5 DEF Moving
        <5> QED BY ZenonT(60), <5>1, Moves
      <4> QED BY ZenonT(60), <4>6, <3>2, <2>0, <2>3, <2>5 DEF Placed, OneRuns
    <3> QED BY <3>1, <3>2, <2>6
  <2>11. Victims(Elems(destruction_req'), pc', page')
    <3>1. \A t \in Threads : pc'[t] = "dead" => pc[t] = "dead"
      BY ZenonT(60), <2>9 DEF OthersSame
    <3>2. \A c \in Threads : pc[c] = "reap" => pc'[c] = "reap" /\ page'[c] = page[c]
      BY ZenonT(60), <2>0, <2>8, <2>9 DEF OthersSame
    <3> QED BY ZenonT(60), <3>1, <3>2, <2>0, <2>1, VictimsFrame
  <2>12. ASSUME current' = idle_thread' PROVE Unlocked'
    <3>1. Unlocked /\ pc'[me] = "idle_block"
      BY ZenonT(60), <2>0, <2>1, <2>3, <2>9, <2>12
    <3>2. \A t \in Threads : t # me => pc'[t] = pc[t] /\ lk'[t] = lk[t]
      BY ZenonT(60), <2>9 DEF OthersSame
    <3> QED BY ZenonT(60), <3>1, <3>2 DEF Unlocked
  <2> QED BY ZenonT(60), <2>0, <2>5, <2>8, <2>10, <2>11, <2>12, PlaceWhole
(* thread_create's thread_unblock makes the new thread ready.               *)
<1>ThreadUnblockPlace.
    ASSUME IInv, PlaceInv, thread_unblock
    PROVE  PlaceInv'
  <2> USE <1>ThreadUnblockPlace
  <2>0. /\ Running /\ pc[current] = "insert"
        /\ ready_list' = Append(ready_list, page[current])
        /\ status' = [status EXCEPT ![page[current]] = "READY"]
        /\ pc' = [pc EXCEPT ![current] = "run", ![page[current]] = "run"]
        /\ page' = [page EXCEPT ![current] = NULL, ![page[current]] = NULL]
        /\ lk' = [lk EXCEPT ![current] = "pool", ![page[current]] = "pool"]
        /\ UNCHANGED <<current, destruction_req, sleep_list, waiters, idle_thread>>
    BY ZenonT(60) DEF thread_unblock, At, Running, alarmVars, lockVars
  <2>1. /\ Placed /\ OneRuns /\ Linked
        /\ Victims(Elems(destruction_req), pc, page)
    BY <2>0, PlaceParts
  <2>2. TypeOK /\ PageInv
    BY ZenonT(60), <2>0 DEF IInv
  <2>3. PICK me \in Threads : me = current
    BY ZenonT(60), <2>2 DEF TypeOK
  <2>4. HasPage(me)
    BY ZenonT(60), <2>0, <2>2, <2>3 DEF PageInv, HasPage
  <2>5. PICK new \in Pool : new = page[me] /\ new # NULL
    BY ZenonT(60), <2>2, <2>4 DEF TypeOK, HasPage
  <2>6. new \in Threads /\ pc[new] = "none" /\ new # me
    BY ZenonT(60), <2>0, <2>2, <2>3, <2>4, <2>5, PoolFacts DEF PageInv
  <2>7. /\ pc'[me] = "run" /\ pc'[new] = "run" /\ page'[me] = NULL
        /\ \A t \in Threads : t \notin {me, new} =>
             pc'[t] = pc[t] /\ lk'[t] = lk[t] /\ page'[t] = page[t]
        /\ \A t \in Threads : status'[t] = IF t = new THEN "READY" ELSE status[t]
    BY <2>0, <2>2, <2>3, <2>5, <2>6 DEF TypeOK
  <2>8. me # idle_thread /\ idle_thread # NULL /\ status[me] = "RUNNING"
    <3>1. Idling(pc, lk, me) <=> me = idle_thread
      BY ZenonT(60), <2>0, <2>3, CurrentIsNowhere
    <3>2. me # idle_thread
      BY ZenonT(60), <3>1, <2>0, <2>3 DEF Idling
    <3> QED BY ZenonT(60), <3>2, <2>0, <2>1, <2>3, NotBooting DEF OneRuns
  <2>9. new \notin Elems(ready_list)
    <3>1. status[new] \in {"NONE", "BLOCKED"}
      BY ZenonT(60), <2>1, <2>6 DEF Placed, Arranged, Lives
    <3> QED BY ZenonT(60), <3>1, <2>1, <2>6 DEF Placed, Arranged, InQueue
  <2>10. Elems(ready_list') = Elems(ready_list) \cup {new} /\ NoDup(ready_list')
    <3>1. ready_list \in Seq(Threads) /\ NoDup(ready_list)
      BY ZenonT(60), <2>1, <2>2 DEF TypeOK, Linked
    <3>2. Elems(Append(ready_list, new)) = Elems(ready_list) \cup {new}
      BY <3>1, <2>6, ElemsAppend
    <3>3. NoDup(Append(ready_list, new))
      BY <3>1, <2>6, <2>9, NoDupAppend
    <3> QED BY ZenonT(60), <3>2, <3>3, <2>0, <2>3, <2>5
  <2>11. Placed' /\ OneRuns'
    <3>1. Arranged(status, Elems(ready_list), Elems(sleep_list), WaitSets, pc, lk, page,
                   idle_thread)
      BY <2>1 DEF Placed
    <3>2. \A c \in Threads : c # me /\ Building(pc, lk, page, c) => page[c] # new
      <4>1. \A c \in Threads : Building(pc, lk, page, c) => HasPage(c)
        BY ZenonT(60) DEF Building, HasPage
      <4> QED BY ZenonT(60), <4>1, <2>2, <2>4, <2>5 DEF PageInv
    <3>3. ~ Building(pc', lk', page', me)
      BY ZenonT(60), <2>7 DEF Building
    <3>4. pc'[me] \in {"run", "down"} /\ pc'[new] \in {"run", "idle_init"}
      BY ZenonT(60), <2>7
    <3>5. Building(pc, lk, page, me) => page[me] = new
      BY ZenonT(60), <2>5
    <3>6. Arranged(status', Elems(ready_list'), Elems(sleep_list), WaitSets, pc', lk',
                   page', idle_thread)
      <4>1. SoleBuilder(pc, lk, page, me, new)
        BY ZenonT(60), <3>2, <3>5, <2>6 DEF SoleBuilder
      <4>2. Newborn(status, Elems(ready_list), status', Elems(ready_list'), new)
        BY ZenonT(60), <2>7, <2>10 DEF Newborn
      <4>3. Leaves(pc, lk, page, pc', lk', page', me, new)
        BY ZenonT(60), <3>3, <3>4, <2>7 DEF Leaves
      <4>4. Bearing(status, Elems(ready_list), Elems(sleep_list), WaitSets, pc, lk, page,
                    idle_thread, me, new, status', Elems(ready_list'), pc', lk', page')
        BY ZenonT(60), <4>1, <4>2, <4>3, <3>1, <2>6, <2>8 DEF Bearing
      <4> QED BY ZenonT(60), <4>4, Births
    <3>7. WaitSets' = WaitSets
      BY <2>0 DEF WaitSets
    <3>8. \A t \in Threads : status'[t] = "RUNNING" <=> t = me
      <4>1. status[new] # "RUNNING"
        BY ZenonT(60), <2>1, <2>3, <2>6 DEF OneRuns
      <4> QED BY ZenonT(60), <4>1, <2>1, <2>3, <2>7 DEF OneRuns
    <3> QED BY ZenonT(60), <3>6, <3>7, <3>8, <2>0, <2>3 DEF Placed, OneRuns
  <2>12. Victims(Elems(destruction_req'), pc', page')
    <3>1. \A t \in Threads : pc'[t] = "dead" => pc[t] = "dead"
      BY ZenonT(60), <2>7
    <3>2. \A c \in Threads : pc[c] = "reap" => pc'[c] = "reap" /\ page'[c] = page[c]
      BY ZenonT(60), <2>0, <2>3, <2>6, <2>7
    <3> QED BY ZenonT(60), <3>1, <3>2, <2>0, <2>1, VictimsFrame
  <2>13. Linked'
    BY ZenonT(60), <2>0, <2>1, <2>10 DEF Linked
  <2>14. current' # idle_thread' /\ idle_thread' # NULL
    BY ZenonT(60), <2>0, <2>3, <2>8
  <2> QED BY ZenonT(60), <2>11, <2>12, <2>13, <2>14, PlaceWhole
<1> SUFFICES ASSUME HaveMinima, IInv, PlaceInv,
                    \/ thread_create \/ thread_sleep \/ sema_down \/ lock_acquire
                    \/ CriticalRead \/ CriticalWrite \/ lock_release \/ sema_up \/ idle
                    \/ thread_unblock \/ \E d \in Durations : timer_sleep(d)
             PROVE  PlaceInv'
  OBVIOUS
<1>1. CASE lock_acquire \/ CriticalRead \/ CriticalWrite \/ lock_release
  BY ZenonT(60), <1>1, <1>CriticalPlace
<1>2. CASE thread_create \/ thread_sleep \/ \E d \in Durations : timer_sleep(d)
  BY ZenonT(60), <1>2, <1>ThreadCreatePlace, <1>ThreadSleepPlace, <1>TimerSleepPlace
<1>3. CASE sema_down \/ sema_up \/ idle
  BY ZenonT(60), <1>3, <1>SemaDownPlace, <1>SemaUpPlace, <1>IdlePlace
<1>4. CASE thread_unblock
  BY ZenonT(60), <1>4, <1>ThreadUnblockPlace
<1> QED BY ZenonT(60), <1>1, <1>2, <1>3, <1>4

-----------------------------------------------------------------------------
(* Booting.                                                                 *)

(* The two steps of the boot sequence keep the threads in place.             *)
LEMMA BootsPlace ==
    HaveMinima /\ IInv /\ PlaceInv /\ BootOnce /\ (thread_start \/ idle_init)
      => PlaceInv' /\ BootOnce'
(* thread_start puts the idle thread on the run queue.                      *)
<1>ThreadStartPlace.
    ASSUME IInv, PlaceInv, BootOnce, thread_start
    PROVE  PlaceInv' /\ BootOnce'
  <2> USE <1>ThreadStartPlace
  <2>p. PICK new : new = Least(Pool \ used_map)
    OBVIOUS
  <2>0. /\ Running /\ pc[current] = "boot"
        /\ status' = [status EXCEPT ![new] = "READY"]
        /\ ready_list' = Append(ready_list, new)
        /\ pc' = [pc EXCEPT ![Main] = "down", ![new] = "idle_init"]
        /\ lk' = [lk EXCEPT ![Main] = "idle"]
        /\ UNCHANGED <<current, destruction_req, sleep_list, value, waiters, idle_thread, page>>
    BY <2>p DEF thread_start, At, Running, alarmVars, lockVars
  <2>1. /\ Placed /\ OneRuns /\ Linked
        /\ idle_thread = NULL => Booting
    BY <2>0, PlaceParts
  <2>2. TypeOK /\ BootInv
    BY ZenonT(60), <2>0 DEF IInv
  <2>3. /\ current = Main /\ pc[Main] = "boot" /\ used_map = {} /\ destruction_req = <<>>
        /\ \A t \in Pool : pc[t] = "none"
    BY ZenonT(60), <2>0, <2>2 DEF BootInv, TypeOK
  <2>4. new \in Pool
    <3>1. Pool \ used_map = Pool /\ 1 \in Pool /\ \A t \in Pool : 1 <= t
      BY <2>3, PoolFacts DEF Pool
    <3> QED BY ZenonT(60), <3>1, <2>p, MinIsLeast
  <2>5. new \in Threads /\ new # Main /\ Main \in Threads /\ pc[new] = "none"
    BY ZenonT(60), <2>3, <2>4, PoolFacts
  <2>6. /\ pc'[Main] = "down" /\ pc'[new] = "idle_init" /\ lk'[Main] = "idle"
        /\ \A t \in Threads : t \notin {Main, new} => pc'[t] = pc[t] /\ lk'[t] = lk[t]
        /\ \A t \in Threads : status'[t] = IF t = new THEN "READY" ELSE status[t]
    BY <2>0, <2>2, <2>5 DEF TypeOK
  <2>7. idle_thread = NULL /\ Booting /\ status[Main] = "RUNNING"
    BY ZenonT(60), <2>0, <2>1, <2>3, <2>5 DEF BootOnce, OneRuns
  <2>8. new \notin Elems(ready_list)
    <3>1. status[new] \in {"NONE", "BLOCKED"}
      BY ZenonT(60), <2>1, <2>5 DEF Placed, Arranged, Lives
    <3> QED BY ZenonT(60), <3>1, <2>1, <2>5 DEF Placed, Arranged, InQueue
  <2>9. Elems(ready_list') = Elems(ready_list) \cup {new} /\ NoDup(ready_list')
    <3>1. ready_list \in Seq(Threads) /\ NoDup(ready_list)
      BY ZenonT(60), <2>1, <2>2 DEF TypeOK, Linked
    <3>2. Elems(Append(ready_list, new)) = Elems(ready_list) \cup {new}
      BY <3>1, <2>5, ElemsAppend
    <3>3. NoDup(Append(ready_list, new))
      BY <3>1, <2>5, <2>8, NoDupAppend
    <3> QED BY ZenonT(60), <3>2, <3>3, <2>0
  <2>10. Placed' /\ OneRuns'
    <3>1. Arranged(status, Elems(ready_list), Elems(sleep_list), WaitSets, pc, lk, page,
                   idle_thread)
      BY <2>1 DEF Placed
    <3>2. \A c \in Threads : ~ Building(pc, lk, page, c)
      <4>1. \A c \in Threads : pc[c] \in {"boot", "none"}
        BY ZenonT(60), <2>3, PoolFacts
      <4> QED BY ZenonT(60), <4>1 DEF Building
    <3>3. ~ Building(pc', lk', page', Main)
      BY ZenonT(60), <2>6 DEF Building
    <3>4. SoleBuilder(pc, lk, page, Main, new)
      BY ZenonT(60), <3>2, <2>5 DEF SoleBuilder
    <3>5. Newborn(status, Elems(ready_list), status', Elems(ready_list'), new)
      BY ZenonT(60), <2>6, <2>9 DEF Newborn
    <3>6. Leaves(pc, lk, page, pc', lk', page', Main, new)
      BY ZenonT(60), <3>3, <2>0, <2>6 DEF Leaves
    <3>7. Main # idle_thread
      BY ZenonT(60), <2>5, <2>7, NullIsNoThread
    <3>8. Arranged(status', Elems(ready_list'), Elems(sleep_list), WaitSets, pc', lk',
                   page', idle_thread)
      <4>1. Bearing(status, Elems(ready_list), Elems(sleep_list), WaitSets, pc, lk, page,
                    idle_thread, Main, new, status', Elems(ready_list'), pc', lk', page')
        BY ZenonT(60), <3>1, <3>4, <3>5, <3>6, <3>7, <2>5, <2>7 DEF Bearing
      <4> QED BY ZenonT(60), <4>1, Births
    <3>9. WaitSets' = WaitSets
      BY <2>0 DEF WaitSets
    <3>10. \A t \in Threads : status'[t] = "RUNNING" <=> t = Main
      <4>1. status[new] # "RUNNING"
        BY ZenonT(60), <2>1, <2>3, <2>5 DEF OneRuns
      <4> QED BY ZenonT(60), <4>1, <2>1, <2>3, <2>6 DEF OneRuns
    <3> QED BY ZenonT(60), <3>8, <3>9, <3>10, <2>0, <2>3 DEF Placed, OneRuns
  <2>11. \A t \in Threads : pc'[t] \in {"down", "idle_init", "none"}
    BY ZenonT(60), <2>3, <2>6, PoolFacts
  <2>12. Victims(Elems(destruction_req'), pc', page')
    BY ZenonT(60), <2>11, PoolFacts DEF Victims
  <2>13. Linked'
    BY ZenonT(60), <2>0, <2>1, <2>9 DEF Linked
  <2>14. current' # idle_thread'
    BY ZenonT(60), <2>0, <2>3, <2>5, <2>7, NullIsNoThread
  <2>15. Booting'
    <3>1. \A t \in Pool : pc'[t] \in {"none", "idle_init"}
      BY ZenonT(60), <2>3, <2>4, <2>6, PoolFacts
    <3>2. value'["idle"] = 0
      BY ZenonT(60), <2>0, <2>7 DEF Booting
    <3> QED BY ZenonT(60), <3>1, <3>2, <2>6 DEF Booting
  <2>16. BootOnce'
    <3>1. \A t \in Threads : pc'[t] = "idle_init" => t = new
      BY ZenonT(60), <2>3, <2>6, PoolFacts
    <3> QED BY ZenonT(60), <3>1, <2>0, <2>7 DEF BootOnce
  <2> QED BY ZenonT(60), <2>10, <2>12, <2>13, <2>14, <2>15, <2>16, PlaceWhole
(* The idle thread registers itself.                                        *)
<1>IdleInitPlace.
    ASSUME IInv, PlaceInv, BootOnce, idle_init
    PROVE  PlaceInv' /\ BootOnce'
  (* The idle thread registers itself (idle).                                *)
  <2>Registers.
      ASSUME NEW st, NEW R, NEW S, NEW W, NEW p, NEW l, NEW pg, NEW me, NEW p2, NEW l2,
             Registering(st, R, S, W, p, l, pg, me, p2, l2)
      PROVE  Arranged(st, R, S, W, p2, l2, pg, me)
    <3> USE <2>Registers
    <3>0. /\ Arranged(st, R, S, W, p, l, pg, NULL)
          /\ me \in Threads
          /\ st[me] = "RUNNING"
          /\ p[me] = "idle_init"
          /\ \A t \in Threads : p2[t] = IF t = me THEN "up" ELSE p[t]
          /\ \A t \in Threads : l2[t] = IF t = me THEN "idle" ELSE l[t]
      BY ZenonT(60) DEF Registering
    <3> USE <3>0
    <3>1. /\ me \notin R /\ me \notin S /\ \A s \in Semas : me \notin W[s]
          /\ \A c \in Threads : Building(p, l, pg, c) => pg[c] # me
          /\ p[me] \notin {"none", "dead"}
      BY ZenonT(60), RunnerIsNowhere
    <3>2. /\ p2[me] = "up" /\ l2[me] = "idle"
          /\ \A t \in Threads : t # me => p2[t] = p[t] /\ l2[t] = l[t]
      BY ZenonT(60)
    <3>3. \A c \in Threads : Building(p2, l2, pg, c) <=> Building(p, l, pg, c)
      <4>1. ~ Building(p, l, pg, me) /\ ~ Building(p2, l2, pg, me)
        BY ZenonT(60), <3>2 DEF Building
      <4>2. ASSUME NEW c \in Threads, c # me
            PROVE  Building(p2, l2, pg, c) <=> Building(p, l, pg, c)
        BY ZenonT(60), <4>2, <3>2 DEF Building
      <4> QED BY ZenonT(60), <4>1, <4>2
    <3>4. InQueue(st, R, me)
      <4>1. \A t \in Threads : t # NULL
        BY ZenonT(60), NullIsNoThread
      <4> QED BY ZenonT(60), <4>1, <3>1 DEF Arranged, InQueue
    <3>5. InSleep(st, S, p2)
      BY ZenonT(60), <3>1, <3>2 DEF Arranged, InSleep
    <3>6. InWait(st, W, p2, l2)
      <4>1. InWait(st, W, p, l) /\ \A s \in Semas : W[s] \subseteq Threads
        BY ZenonT(60) DEF Arranged, InWait
      <4>2. \A s \in Semas : \A t \in W[s] : p2[t] = p[t] /\ l2[t] = l[t]
        BY ZenonT(60), <4>1, <3>1, <3>2
      <4>9. WaitStays(st, W, p, l, st, W, p2, l2)
        BY ZenonT(60), <4>1, <4>2 DEF WaitStays
      <4> QED BY ZenonT(60), <4>9, WaitFrame
    <3>7. InBuild(st, p2, l2, pg)
      <4>1. InBuild(st, p, l, pg)
        BY ZenonT(60) DEF Arranged
      <4>2. \A c \in Threads : Building(p2, l2, pg, c) => p2[pg[c]] = p[pg[c]]
        BY ZenonT(60), <4>1, <3>1, <3>2, <3>3 DEF InBuild
      <4>9. BuildStays(st, p, l, pg, st, p2, l2, pg)
        BY ZenonT(60), <4>1, <4>2, <3>3 DEF BuildStays
      <4> QED BY ZenonT(60), <4>9, BuildFrame
    <3>8. Found(st, S, W, p2, l2, pg, me)
      <4> SUFFICES ASSUME NEW t \in Threads, st[t] = "BLOCKED"
                   PROVE  \/ t \in S
                          \/ \E s \in Semas : t \in W[s]
                          \/ \E c \in Threads : Building(p2, l2, pg, c) /\ pg[c] = t
        BY ZenonT(60) DEF Found
      <4>1. t # NULL
        BY ZenonT(60), NullIsNoThread
      <4>2. \/ t \in S
            \/ \E s \in Semas : t \in W[s]
            \/ \E c \in Threads : Building(p, l, pg, c) /\ pg[c] = t
        BY ZenonT(60), <4>1 DEF Arranged, Found
      <4> QED BY ZenonT(60), <4>2, <3>3
    <3>9. Lives(st, p2)
      BY ZenonT(60), <3>1, <3>2 DEF Arranged, Lives
    <3>10. Idles(p2, l2, me)
      <4>1. ASSUME NEW t \in Threads
            PROVE  /\ Idling(p2, l2, t) <=> t = me
                   /\ p2[t] \in {"hold", "read", "write", "clear"} => l2[t] # "idle"
        <5>1. CASE t = me
          BY ZenonT(60), <5>1, <3>2 DEF Idling
        <5>2. CASE t # me
          <6>1. t # NULL
            BY ZenonT(60), NullIsNoThread
          <6> QED BY ZenonT(60), <6>1, <5>2, <3>2 DEF Arranged, Idles, Idling
        <5> QED BY ZenonT(60), <5>1, <5>2
      <4> QED BY ZenonT(60), <4>1 DEF Idles
    <3> QED BY ZenonT(60), <3>4, <3>5, <3>6, <3>7, <3>8, <3>9, <3>10 DEF Arranged
  <2> USE <1>IdleInitPlace
  <2>0. /\ Running /\ pc[current] = "idle_init" /\ idle_thread' = current
        /\ pc' = [pc EXCEPT ![current] = "up"] /\ lk' = [lk EXCEPT ![current] = "idle"]
        /\ UNCHANGED <<current, status, ready_list, destruction_req, sleep_list, waiters, page>>
    BY ZenonT(60) DEF idle_init, At, Goto, Running, alarmVars, lockVars, schedVars
  <2>1. /\ Placed /\ OneRuns /\ Linked
        /\ idle_thread = NULL => Booting
        /\ Victims(Elems(destruction_req), pc, page)
    BY <2>0, PlaceParts
  <2>2. TypeOK
    BY DEF IInv
  <2>3. PICK me \in Threads : me = current
    BY ZenonT(60), <2>2 DEF TypeOK
  <2>4. idle_thread = NULL /\ Booting /\ status[me] = "RUNNING"
    BY ZenonT(60), <2>0, <2>1, <2>3 DEF BootOnce, OneRuns
  <2>5. /\ \A t \in Threads : pc'[t] = IF t = me THEN "up" ELSE pc[t]
        /\ \A t \in Threads : lk'[t] = IF t = me THEN "idle" ELSE lk[t]
    BY ZenonT(60), <2>0, <2>2, <2>3 DEF TypeOK
  <2>6. Placed' /\ OneRuns'
    <3>1. Arranged(status, Elems(ready_list), Elems(sleep_list), WaitSets, pc, lk, page, NULL)
      BY ZenonT(60), <2>1, <2>4 DEF Placed
    <3>2. Arranged(status, Elems(ready_list), Elems(sleep_list), WaitSets, pc', lk', page, me)
      <4>1. pc[me] = "idle_init"
        BY ZenonT(60), <2>0, <2>3
      <4>2. Registering(status, Elems(ready_list), Elems(sleep_list), WaitSets, pc, lk, page,
                        me, pc', lk')
        BY ZenonT(60), <4>1, <3>1, <2>4, <2>5 DEF Registering
      <4> QED BY ZenonT(60), <4>2, <2>Registers
    <3>3. WaitSets' = WaitSets
      BY <2>0 DEF WaitSets
    <3> QED BY ZenonT(60), <3>2, <3>3, <2>0, <2>1, <2>3 DEF Placed, OneRuns
  <2>7. Victims(Elems(destruction_req'), pc', page')
    <3>1. \A t \in Threads : pc'[t] = "dead" => pc[t] = "dead"
      BY ZenonT(60), <2>5
    <3>2. \A c \in Threads : pc[c] = "reap" => pc'[c] = "reap" /\ page'[c] = page[c]
      BY ZenonT(60), <2>0, <2>3, <2>5
    <3> QED BY ZenonT(60), <3>1, <3>2, <2>0, <2>1, VictimsFrame
  <2>8. Linked'
    BY ZenonT(60), <2>0, <2>1 DEF Linked
  <2>9. Unlocked'
    <3>1. \A t \in Threads : pc[t] \in {"boot", "down", "wake", "none", "idle_init"}
      BY ZenonT(60), <2>4, BootLabels
    <3> QED BY ZenonT(60), <3>1, <2>5 DEF Unlocked
  <2>10. idle_thread' # NULL
    BY ZenonT(60), <2>0, <2>3, NullIsNoThread
  <2>11. BootOnce'
    <3>1. \A t \in Threads : pc[t] = "idle_init" => t = me
      BY ZenonT(60), <2>0, <2>3 DEF BootOnce
    <3>2. \A t \in Threads : pc'[t] # "idle_init"
      BY ZenonT(60), <3>1, <2>5
    <3>3. pc[Main] # "boot" /\ pc'[Main] # "boot"
      <4>1. BootInv
        BY ZenonT(60), <2>0 DEF IInv
      <4>2. pc[Main] # "boot"
        BY ZenonT(60), <4>1, <2>0 DEF BootInv
      <4> QED BY ZenonT(60), <4>2, <2>5, PoolFacts
    <3> QED BY ZenonT(60), <3>2, <3>3 DEF BootOnce
  <2> QED BY ZenonT(60), <2>6, <2>7, <2>8, <2>9, <2>10, <2>11, PlaceWhole
<1> SUFFICES ASSUME HaveMinima, IInv, PlaceInv, BootOnce, thread_start \/ idle_init
             PROVE  PlaceInv' /\ BootOnce'
  OBVIOUS
<1>1. CASE thread_start
  BY ZenonT(60), <1>1, <1>ThreadStartPlace
<1>2. CASE idle_init
  BY ZenonT(60), <1>2, <1>IdleInitPlace
<1> QED BY ZenonT(60), <1>1, <1>2

-----------------------------------------------------------------------------
(* Steps that go through do_schedule.                                       *)

(* What do_schedule is called with: the current thread me is on the run     *)
(* queue or dead (st2), and every page to free belongs to another, dead     *)
(* thread.                                                                  *)
Leaving(new, req, st, ready, pcs, me, st2) ==
    /\ do_schedule(new, req, st, ready, pcs) /\ NoDup(ready)
    /\ \A s \in Semas : NoDup(waiters[s])
    /\ ready # <<>> \/ idle_thread # NULL
    /\ idle_thread' = idle_thread
    /\ me = current
    /\ \A t \in Threads : st2[t] = IF t = me THEN new ELSE st[t]
    /\ \A t \in Threads : st2[t] # "RUNNING"
    /\ Arranged(st2, Elems(ready), Elems(sleep_list'), WaitSets, pcs, lk, page, idle_thread)
    /\ me \notin Elems(req)
    /\ \A t \in Elems(req) : pcs[t] = "dead"

(* What it leaves behind.                                                   *)
Dispatched ==
    /\ Placed' /\ OneRuns' /\ NoDup(ready_list')
    /\ \A s \in Semas : NoDup(waiters'[s])
    /\ current' = idle_thread' => Unlocked'

(* The timer interrupt has woken sleepers (st and ready) and ended the idle *)
(* thread's hlt (pcs), or nothing of that has happened.                     *)
Ticking(me, st, ready, pcs) ==
    /\ me = current /\ pc[me] \notin {"boot", "wake", "reap"}
    /\ NoDup(ready) /\ NoDup(sleep_list')
    /\ Arranged(st, Elems(ready), Elems(sleep_list'), WaitSets, pc, lk, page, idle_thread)
    /\ \A t \in Threads : st[t] = "RUNNING" <=> t = me
    /\ \A t \in Threads : t # me => pcs[t] = pc[t]
    /\ \/ pcs[me] = pc[me]
       \/ pc[me] = "idle_hlt" /\ pcs[me] = "idle_block"
    /\ idle_thread' = idle_thread

(* The end of thread_exit, called by me: pcs marks it dead, and the pages   *)
(* to free are those of dead threads.                                       *)
Exiting(me, req, pcs) ==
    /\ me = current /\ pc[me] \in {"run", "reap"}
    /\ \A t \in Threads : pcs[t] = IF t = me THEN "dead" ELSE pc[t]
    /\ do_schedule("DYING", req, status, ready_list, pcs)
    /\ Elems(destruction_req) \subseteq Elems(req)
    /\ pc[me] = "reap" => page[me] \in Elems(req)
    /\ \A t \in Elems(req) : pc[t] = "dead"
    /\ sleep_list' = sleep_list /\ idle_thread' = idle_thread

-----------------------------------------------------------------------------
(* All steps together.                                                      *)

(* A step through do_schedule keeps the threads in place.                   *)
LEMMA SwitchesPlace ==
    HaveMinima /\ IInv /\ PlaceInv /\ BootOnce
      /\ (TimerInterrupt \/ Yield \/ thread_exit \/ Reap)
      => PlaceInv'
(* The running thread is put on the run queue, the idle thread is not       *)
(* (thread_yield).                                                          *)
<1>Queues.
    ASSUME NEW st, NEW R, NEW S, NEW W, NEW p, NEW l, NEW pg, NEW idler, NEW me,
           NEW st2, NEW R2,
           Queueing(st, R, S, W, p, l, pg, idler, me, st2, R2)
    PROVE  Arranged(st2, R2, S, W, p, l, pg, idler)
  <2> USE <1>Queues
  <2>0. /\ Arranged(st, R, S, W, p, l, pg, idler)
        /\ me \in Threads
        /\ st[me] = "RUNNING"
        /\ \A t \in Threads : st2[t] = IF t = me THEN "READY" ELSE st[t]
        /\ R2 = IF me = idler THEN R ELSE R \cup {me}
    BY ZenonT(60) DEF Queueing
  <2> USE <2>0
  <2>1. /\ me \notin R /\ me \notin S /\ \A s \in Semas : me \notin W[s]
        /\ \A c \in Threads : Building(p, l, pg, c) => pg[c] # me
        /\ p[me] \notin {"none", "dead"}
    BY ZenonT(60), RunnerIsNowhere
  <2>2. st2[me] = "READY" /\ \A t \in Threads : t # me => st2[t] = st[t]
    BY ZenonT(60)
  <2>3. InQueue(st2, R2, idler)
    BY ZenonT(60), <2>1, <2>2 DEF Arranged, InQueue
  <2>4. InSleep(st2, S, p)
    BY ZenonT(60), <2>1, <2>2 DEF Arranged, InSleep
  <2>5. InWait(st2, W, p, l)
    BY ZenonT(60), <2>1, <2>2 DEF Arranged, InWait
  <2>6. InBuild(st2, p, l, pg)
    <3>1. InBuild(st, p, l, pg)
      BY ZenonT(60) DEF Arranged
    <3>2. \A c \in Threads : Building(p, l, pg, c) => st2[pg[c]] = st[pg[c]]
      BY ZenonT(60), <3>1, <2>1, <2>2 DEF InBuild
    <3>9. BuildStays(st, p, l, pg, st2, p, l, pg)
      BY ZenonT(60), <3>1, <3>2 DEF BuildStays
    <3> QED BY ZenonT(60), <3>9, BuildFrame
  <2>7. Found(st2, S, W, p, l, pg, idler)
    BY ZenonT(60), <2>2 DEF Arranged, Found
  <2>8. Lives(st2, p)
    BY ZenonT(60), <2>1, <2>2 DEF Arranged, Lives
  <2> QED BY ZenonT(60), <2>3, <2>4, <2>5, <2>6, <2>7, <2>8 DEF Arranged
(* The running thread, which is creating nobody, dies (thread_exit).        *)
<1>Dies.
    ASSUME NEW st, NEW R, NEW S, NEW W, NEW p, NEW l, NEW pg, NEW idler, NEW me,
           NEW st2, NEW p2,
           Dying(st, R, S, W, p, l, pg, idler, me, st2, p2)
    PROVE  Arranged(st2, R, S, W, p2, l, pg, idler)
  <2> USE <1>Dies
  <2>0. /\ Arranged(st, R, S, W, p, l, pg, idler)
        /\ me \in Threads
        /\ st[me] = "RUNNING"
        /\ me # idler
        /\ ~ Building(p, l, pg, me)
        /\ \A t \in Threads : st2[t] = IF t = me THEN "DYING" ELSE st[t]
        /\ \A t \in Threads : p2[t] = IF t = me THEN "dead" ELSE p[t]
    BY ZenonT(60) DEF Dying
  <2> USE <2>0
  <2>1. /\ me \notin R /\ me \notin S /\ \A s \in Semas : me \notin W[s]
        /\ \A c \in Threads : Building(p, l, pg, c) => pg[c] # me
        /\ p[me] \notin {"none", "dead"}
    BY ZenonT(60), RunnerIsNowhere
  <2>2. /\ st2[me] = "DYING" /\ \A t \in Threads : t # me => st2[t] = st[t]
        /\ p2[me] = "dead" /\ \A t \in Threads : t # me => p2[t] = p[t]
    BY ZenonT(60)
  <2>3. \A c \in Threads : Building(p2, l, pg, c) <=> Building(p, l, pg, c)
    BY ZenonT(60), <2>2 DEF Building
  <2>4. InQueue(st2, R, idler)
    BY ZenonT(60), <2>1, <2>2 DEF Arranged, InQueue
  <2>5. InSleep(st2, S, p2)
    BY ZenonT(60), <2>1, <2>2 DEF Arranged, InSleep
  <2>6. InWait(st2, W, p2, l)
    <3>1. InWait(st, W, p, l) /\ \A s \in Semas : W[s] \subseteq Threads
      BY ZenonT(60) DEF Arranged, InWait
    <3>2. \A s \in Semas : \A t \in W[s] : st2[t] = st[t] /\ p2[t] = p[t]
      BY ZenonT(60), <3>1, <2>1, <2>2
    <3>9. WaitStays(st, W, p, l, st2, W, p2, l)
      BY ZenonT(60), <3>1, <3>2 DEF WaitStays
    <3> QED BY ZenonT(60), <3>9, WaitFrame
  <2>7. InBuild(st2, p2, l, pg)
    <3>1. InBuild(st, p, l, pg)
      BY ZenonT(60) DEF Arranged
    <3>2. \A c \in Threads : Building(p2, l, pg, c) =>
             st2[pg[c]] = st[pg[c]] /\ p2[pg[c]] = p[pg[c]]
      BY ZenonT(60), <3>1, <2>1, <2>2, <2>3 DEF InBuild
    <3>9. BuildStays(st, p, l, pg, st2, p2, l, pg)
      BY ZenonT(60), <3>1, <3>2, <2>3 DEF BuildStays
    <3> QED BY ZenonT(60), <3>9, BuildFrame
  <2>8. Found(st2, S, W, p2, l, pg, idler)
    <3> SUFFICES ASSUME NEW t \in Threads, st2[t] = "BLOCKED", t # idler
                 PROVE  \/ t \in S
                        \/ \E s \in Semas : t \in W[s]
                        \/ \E c \in Threads : Building(p2, l, pg, c) /\ pg[c] = t
      BY ZenonT(60) DEF Found
    <3>1. st[t] = "BLOCKED"
      BY ZenonT(60), <2>2
    <3>2. \/ t \in S
          \/ \E s \in Semas : t \in W[s]
          \/ \E c \in Threads : Building(p, l, pg, c) /\ pg[c] = t
      BY ZenonT(60), <3>1 DEF Arranged, Found
    <3> QED BY ZenonT(60), <3>2, <2>3
  <2>9. Lives(st2, p2)
    BY ZenonT(60), <2>2 DEF Arranged, Lives
  <2>10. Idles(p2, l, idler)
    <3>1. ASSUME NEW t \in Threads
          PROVE  /\ Idling(p2, l, t) <=> t = idler
                 /\ p2[t] \in {"hold", "read", "write", "clear"} => l[t] # "idle"
      <4>1. CASE t = me
        BY ZenonT(60), <4>1, <2>2 DEF Idling
      <4>2. CASE t # me
        BY ZenonT(60), <4>2, <2>2 DEF Arranged, Idles, Idling
      <4> QED BY ZenonT(60), <4>1, <4>2
    <3> QED BY ZenonT(60), <3>1 DEF Idles
  <2> QED BY ZenonT(60), <2>4, <2>5, <2>6, <2>7, <2>8, <2>9, <2>10 DEF Arranged
(* The pages of dead threads go back to the pool (do_schedule).            *)
<1>Frees.
    ASSUME NEW st, NEW R, NEW S, NEW W, NEW p, NEW l, NEW pg, NEW idler, NEW F,
           NEW st2, NEW p2,
           Freeing(st, R, S, W, p, l, pg, idler, F, st2, p2)
    PROVE  Arranged(st2, R, S, W, p2, l, pg, idler)
  <2> USE <1>Frees
  <2>a. /\ Arranged(st, R, S, W, p, l, pg, idler)
        /\ Buries(F, st, p, st2, p2)
    BY ZenonT(60) DEF Freeing
  <2> USE <2>a
  <2>0. /\ F \subseteq Threads /\ \A t \in F : p[t] = "dead"
        /\ \A t \in Threads : st2[t] = IF t \in F THEN "NONE" ELSE st[t]
        /\ \A t \in Threads : p2[t] = IF t \in F THEN "none" ELSE p[t]
    BY ZenonT(60) DEF Buries
  <2>1. ASSUME NEW t \in F
        PROVE  /\ t \notin R /\ t \notin S /\ \A s \in Semas : t \notin W[s]
               /\ st[t] = "DYING" /\ t # idler /\ t \in Threads
               /\ st2[t] = "NONE" /\ p2[t] = "none"
    <3>1. st[t] = "DYING" /\ t \in Threads /\ p[t] = "dead"
      BY ZenonT(60), <2>0 DEF Arranged, Lives
    <3>2. t # idler
      BY ZenonT(60), <3>1 DEF Arranged, Idles, Idling
    <3>3. t \notin R
      BY ZenonT(60), <3>1, <3>2 DEF Arranged, InQueue
    <3>4. t \notin S
      BY ZenonT(60), <3>1 DEF Arranged, InSleep
    <3>5. \A s \in Semas : t \notin W[s]
      BY ZenonT(60), <3>1 DEF Arranged, InWait
    <3> QED BY ZenonT(60), <3>1, <3>2, <3>3, <3>4, <3>5, <2>0
  <2>2. \A t \in Threads : t \notin F => st2[t] = st[t] /\ p2[t] = p[t]
    BY ZenonT(60), <2>0
  <2>3. \A c \in Threads : Building(p2, l, pg, c) <=> Building(p, l, pg, c)
    BY ZenonT(60), <2>0, <2>1, <2>2 DEF Building
  <2>4. InQueue(st2, R, idler)
    BY ZenonT(60), <2>1, <2>2 DEF Arranged, InQueue
  <2>5. InSleep(st2, S, p2)
    BY ZenonT(60), <2>1, <2>2 DEF Arranged, InSleep
  <2>6. InWait(st2, W, p2, l)
    <3>1. InWait(st, W, p, l) /\ \A s \in Semas : W[s] \subseteq Threads
      BY ZenonT(60) DEF Arranged, InWait
    <3>2. \A s \in Semas : \A t \in W[s] : st2[t] = st[t] /\ p2[t] = p[t]
      BY ZenonT(60), <3>1, <2>1, <2>2
    <3>9. WaitStays(st, W, p, l, st2, W, p2, l)
      BY ZenonT(60), <3>1, <3>2 DEF WaitStays
    <3> QED BY ZenonT(60), <3>9, WaitFrame
  <2>7. InBuild(st2, p2, l, pg)
    <3>1. InBuild(st, p, l, pg)
      BY ZenonT(60) DEF Arranged
    <3>2. \A c \in Threads : Building(p2, l, pg, c) => pg[c] \in Threads /\ pg[c] \notin F
      BY ZenonT(60), <3>1, <2>1, <2>3 DEF InBuild
    <3>3. \A c \in Threads : Building(p2, l, pg, c) =>
             st2[pg[c]] = st[pg[c]] /\ p2[pg[c]] = p[pg[c]]
      BY ZenonT(60), <3>2, <2>2
    <3>9. BuildStays(st, p, l, pg, st2, p2, l, pg)
      BY ZenonT(60), <3>1, <3>3, <2>3 DEF BuildStays
    <3> QED BY ZenonT(60), <3>9, BuildFrame
  <2>8. Found(st2, S, W, p2, l, pg, idler)
    <3> SUFFICES ASSUME NEW t \in Threads, st2[t] = "BLOCKED", t # idler
                 PROVE  \/ t \in S
                        \/ \E s \in Semas : t \in W[s]
                        \/ \E c \in Threads : Building(p2, l, pg, c) /\ pg[c] = t
      BY ZenonT(60) DEF Found
    <3>1. st[t] = "BLOCKED"
      BY ZenonT(60), <2>1, <2>2
    <3>2. \/ t \in S
          \/ \E s \in Semas : t \in W[s]
          \/ \E c \in Threads : Building(p, l, pg, c) /\ pg[c] = t
      BY ZenonT(60), <3>1 DEF Arranged, Found
    <3> QED BY ZenonT(60), <3>2, <2>3
  <2>9. Lives(st2, p2)
    BY ZenonT(60), <2>1, <2>2 DEF Arranged, Lives
  <2>10. Idles(p2, l, idler)
    <3>1. ASSUME NEW t \in Threads
          PROVE  /\ Idling(p2, l, t) <=> t = idler
                 /\ p2[t] \in {"hold", "read", "write", "clear"} => l[t] # "idle"
      <4>1. CASE t \in F
        BY ZenonT(60), <4>1, <2>1 DEF Idling
      <4>2. CASE t \notin F
        BY ZenonT(60), <4>2, <2>2 DEF Arranged, Idles, Idling
      <4> QED BY ZenonT(60), <4>1, <4>2
    <3> QED BY ZenonT(60), <3>1 DEF Idles
  <2> QED BY ZenonT(60), <2>4, <2>5, <2>6, <2>7, <2>8, <2>9, <2>10 DEF Arranged
(* An exiting thread waits for the pool lock inside do_schedule, with the   *)
(* first page of req in its hands.                                          *)
<1>WaitsPlace.
    ASSUME IInv, PlaceInv, Running, NEW req \in Seq(Pool),
           pc[current] \in {"run", "reap"}, do_schedule_waits(req),
           Elems(destruction_req) \subseteq Elems(req),
           pc[current] = "reap" => page[current] \in Elems(req),
           UNCHANGED <<sleep_list, idle_thread>>
    PROVE  PlaceInv'
  <2> USE <1>WaitsPlace
  <2>1. /\ Placed /\ OneRuns /\ Linked
        /\ Victims(Elems(destruction_req), pc, page)
    BY PlaceParts
  <2>2. TypeOK
    BY DEF IInv
  <2>3. PICK me \in Threads : me = current
    BY ZenonT(60), <2>2 DEF TypeOK
  <2>4. /\ req # <<>>
        /\ waiters' = [waiters EXCEPT !["pool"] = Append(waiters["pool"], current)]
        /\ pc' = [pc EXCEPT ![current] = "reap"]
        /\ page' = [page EXCEPT ![current] = Head(req)]
        /\ schedule([status EXCEPT ![current] = "BLOCKED"], ready_list, Tail(req))
        /\ lk' = lk /\ val' = val
    BY ZenonT(60) DEF do_schedule_waits
  <2>5. /\ pc'[me] = "reap" /\ page'[me] = Head(req)
        /\ \A t \in Threads : t # me => pc'[t] = pc[t] /\ page'[t] = page[t]
    BY <2>2, <2>3, <2>4 DEF TypeOK
  <2>6. OthersSame(me)
    BY ZenonT(60), <2>4, <2>5 DEF OthersSame
  <2>7. Elems(req) = {Head(req)} \cup Elems(Tail(req))
    BY <2>4, ElemsNonempty
  <2>8. /\ "pool" \in Semas /\ waiters["pool"] \in Seq(Threads)
        /\ waiters'["pool"] = Append(waiters["pool"], me)
        /\ \A r \in Semas : r # "pool" => waiters'[r] = waiters[r]
    BY ZenonT(60), <2>2, <2>3, <2>4 DEF TypeOK, Semas, Locks
  <2>9. Elems(waiters'["pool"]) = Elems(waiters["pool"]) \cup {me}
    <3>1. Elems(Append(waiters["pool"], me)) = Elems(waiters["pool"]) \cup {me}
      BY <2>8, ElemsAppend
    <3> QED BY ZenonT(60), <3>1, <2>8
  <2>10. /\ me \notin Elems(waiters["pool"])
         /\ Idling(pc, lk, me) <=> me = idle_thread
    BY ZenonT(60), <2>3, <2>8, CurrentIsNowhere
  <2>11. me # idle_thread /\ idle_thread # NULL
    <3>1. me # idle_thread
      BY ZenonT(60), <2>3, <2>10 DEF Idling
    <3> QED BY ZenonT(60), <3>1, <2>3, NotBooting
  <2>12. /\ ~ Building(pc', lk', page', me) /\ ~ Building(pc, lk, page, me)
         /\ ~ Idling(pc', lk', me) /\ WaitsFor(pc', lk', me, "pool")
    BY ZenonT(60), <2>3, <2>5 DEF Building, Idling, WaitsFor
  <2>13. /\ Placed' /\ OneRuns' /\ NoDup(ready_list')
         /\ current' = idle_thread' => Unlocked'
    <3>1. \A r \in Semas :
             \/ Elems(waiters'[r]) = Elems(waiters[r])
             \/ /\ Elems(waiters'[r]) = Elems(waiters[r]) \cup {me}
                /\ WaitsFor(pc', lk', me, r)
      BY ZenonT(60), <2>8, <2>9, <2>12
    <3>2. \E r \in Semas : me \in Elems(waiters'[r])
      BY ZenonT(60), <2>8, <2>9
    <3>3. /\ pc[me] \notin {"boot", "idle_init"} /\ pc'[me] \in {"run", "wake", "reap", "idle_hlt"}
          /\ Idling(pc', lk', me) <=> me = idle_thread
          /\ Elems(sleep_list') = Elems(sleep_list)
      BY ZenonT(60), <2>3, <2>5, <2>11, <2>12
    <3>4. PICK rest : schedule([status EXCEPT ![current] = "BLOCKED"], ready_list, rest)
      BY <2>4
    <3> QED BY ZenonT(60), <3>1, <3>2, <3>3, <3>4, <2>3, <2>6, <2>12, BlockPlace
  <2>14. Linked'
    <3>1. NoDup(waiters'["pool"])
      <4>1. NoDup(waiters["pool"])
        BY ZenonT(60), <2>1, <2>8 DEF Linked
      <4>2. NoDup(Append(waiters["pool"], me))
        BY ZenonT(60), <4>1, <2>8, <2>10, NoDupAppend
      <4> QED BY ZenonT(60), <4>2, <2>8
    <3>2. \A r \in Semas : NoDup(waiters'[r])
      BY ZenonT(60), <3>1, <2>1, <2>8 DEF Linked
    <3> QED BY ZenonT(60), <3>2, <2>1, <2>13 DEF Linked
  <2>15. Victims(Elems(destruction_req'), pc', page')
    <3> SUFFICES ASSUME NEW t \in Pool, pc'[t] = "dead"
                 PROVE  \/ t \in Elems(destruction_req')
                        \/ \E c \in Threads : pc'[c] = "reap" /\ page'[c] = t
      BY ZenonT(60) DEF Victims
    <3>1. t \in Threads /\ t # me /\ pc[t] = "dead"
      BY ZenonT(60), <2>5, PoolFacts
    <3>2. destruction_req' = Tail(req)
      <4>1. [status EXCEPT ![current] = "BLOCKED"][current] = "BLOCKED"
        BY <2>2 DEF TypeOK
      <4> QED BY <4>1, <2>4 DEF schedule
    <3>3. t \in Elems(destruction_req) \/ \E c \in Threads : pc[c] = "reap" /\ page[c] = t
      BY ZenonT(60), <3>1, <2>1 DEF Victims
    <3>4. CASE t \in Elems(req)
      BY ZenonT(60), <3>2, <3>4, <2>5, <2>7
    <3>5. ASSUME NEW c \in Threads, pc[c] = "reap", page[c] = t, t \notin Elems(req)
          PROVE  pc'[c] = "reap" /\ page'[c] = t
      BY ZenonT(60), <3>5, <2>3, <2>5
    <3> QED BY ZenonT(60), <3>3, <3>4, <3>5
  <2>16. idle_thread' # NULL
    BY ZenonT(60), <2>11
  <2> QED BY ZenonT(60), <2>13, <2>14, <2>15, <2>16, PlaceWhole
(* do_schedule wakes as many waiters of the pool lock as there are pages to *)
(* free, if there are that many.                                            *)
<1>PoolWoken.
    ASSUME TypeOK, NEW req \in Seq(Pool)
    PROVE  Least({Len(req), Len(waiters["pool"])}) \in 0..Len(waiters["pool"])
  <2> USE <1>PoolWoken
  <2>1. PICK q \in Seq(Threads) : q = waiters["pool"]
    BY ZenonT(60) DEF TypeOK, Semas, Locks
  <2>2. PICK n \in Nat, m \in Nat : n = Len(req) /\ m = Len(q)
    BY SeqLen
  <2>3. Least({n, m}) \in 0..m
    BY ZenonT(60), <2>2, MinOfTwo
  <2> QED BY ZenonT(60), <2>1, <2>2, <2>3
(* do_schedule, once the current thread is on the run queue or dead (st2):  *)
(* pages are freed, waiters woken, and a thread dispatched.                 *)
<1>DoSchedulePlace.
    ASSUME TypeOK, NEW new \in {"READY", "DYING"}, NEW req \in Seq(Pool),
           NEW st \in [Threads -> Statuses], NEW ready \in Seq(Threads), NEW pcs,
           NEW me \in Threads, NEW st2, Leaving(new, req, st, ready, pcs, me, st2)
    PROVE  Dispatched
  <2> USE <1>DoSchedulePlace
  <2>0. /\ do_schedule(new, req, st, ready, pcs) /\ NoDup(ready)
        /\ \A s \in Semas : NoDup(waiters[s])
        /\ ready # <<>> \/ idle_thread # NULL
        /\ idle_thread' = idle_thread
        /\ me = current
        /\ \A t \in Threads : st2[t] = IF t = me THEN new ELSE st[t]
        /\ \A t \in Threads : st2[t] # "RUNNING"
        /\ Arranged(st2, Elems(ready), Elems(sleep_list'), WaitSets, pcs, lk, page, idle_thread)
        /\ me \notin Elems(req)
        /\ \A t \in Elems(req) : pcs[t] = "dead"
    BY ZenonT(60) DEF Leaving
  <2> USE <2>0
  <2>1. PICK q \in Seq(Threads) : q = waiters["pool"]
    BY ZenonT(60) DEF TypeOK, Semas, Locks
  <2>2. PICK k \in 0..Len(q) : k = Least({Len(req), Len(waiters["pool"])})
    BY ZenonT(60), <2>1, <1>PoolWoken
  <2>3. PICK sts : sts = [t \in Threads |->
                           IF t = current THEN new
                           ELSE IF t \in Elems(req) THEN "NONE"
                           ELSE IF t \in Elems(Popped(q, k)) THEN "READY" ELSE st[t]]
    BY ZenonT(60)
  <2>4. /\ waiters' = [waiters EXCEPT !["pool"] = Rest(q, k)]
        /\ pc' = [t \in Threads |-> IF t \in Elems(req) THEN "none" ELSE pcs[t]]
        /\ schedule(sts, ready \o Popped(q, k), <<>>)
        /\ lk' = lk /\ page' = page
    BY ZenonT(60), <2>1, <2>2, <2>3 DEF do_schedule, locVars
  <2>5. Elems(req) \subseteq Threads
    BY ZenonT(60), ElemsSubset, PoolFacts
  <2>6. PICK st3 : \A t \in Threads : st3[t] = IF t \in Elems(req) THEN "NONE" ELSE st2[t]
    <3>1. \A t \in Threads : [u \in Threads |-> IF u \in Elems(req) THEN "NONE" ELSE st2[u]][t]
                             = IF t \in Elems(req) THEN "NONE" ELSE st2[t]
      BY ZenonT(60)
    <3> QED BY ZenonT(60), <3>1
  <2>7. \A t \in Threads : pc'[t] = IF t \in Elems(req) THEN "none" ELSE pcs[t]
    BY ZenonT(60), <2>4
  <2>8. Arranged(st3, Elems(ready), Elems(sleep_list'), WaitSets, pc', lk, page, idle_thread)
    <3>1. Buries(Elems(req), st2, pcs, st3, pc')
      BY ZenonT(60), <2>5, <2>6, <2>7 DEF Buries
    <3>2. Freeing(st2, Elems(ready), Elems(sleep_list'), WaitSets, pcs, lk, page,
                  idle_thread, Elems(req), st3, pc')
      BY ZenonT(60), <3>1 DEF Freeing
    <3> QED BY ZenonT(60), <3>2, <1>Frees
  <2>9. "pool" \in Semas /\ WaitSets["pool"] = Elems(q)
    BY ZenonT(60), <2>1 DEF WaitSets, Semas, Locks
  <2>10. Elems(Popped(q, k)) \subseteq Elems(q)
    BY ZenonT(60), PoppedElems
  <2>11. \A t \in Elems(Popped(q, k)) : t # me /\ t \notin Elems(req)
    <3>1. \A t \in Elems(q) : t \in Threads /\ st3[t] = "BLOCKED"
      BY ZenonT(60), <2>8, <2>9 DEF Arranged, InWait
    <3>2. st3[me] \in {"READY", "DYING"}
      BY ZenonT(60), <2>6
    <3> QED BY ZenonT(60), <3>1, <3>2, <2>6, <2>10
  <2>12. \A t \in Threads : sts[t] = IF t \in Elems(Popped(q, k)) THEN "READY" ELSE st3[t]
    <3> SUFFICES ASSUME NEW t \in Threads
                 PROVE  sts[t] = IF t \in Elems(Popped(q, k)) THEN "READY" ELSE st3[t]
      BY ZenonT(60)
    <3>1. sts[t] = IF t = me THEN new
                   ELSE IF t \in Elems(req) THEN "NONE"
                   ELSE IF t \in Elems(Popped(q, k)) THEN "READY" ELSE st[t]
      BY ZenonT(60), <2>3
    <3> QED BY ZenonT(60), <3>1, <2>6, <2>11
  <2>13. /\ waiters'["pool"] = Rest(q, k)
         /\ \A r \in Semas : r # "pool" => waiters'[r] = waiters[r]
    BY ZenonT(60), <2>4, <2>9 DEF TypeOK
  <2>14. NoDup(q)
    BY ZenonT(60), <2>1, <2>9
  <2>15. /\ Arranged(sts, Elems(ready \o Popped(q, k)), Elems(sleep_list'), WaitSets', pc', lk,
                     page, idle_thread)
         /\ NoDup(ready \o Popped(q, k)) /\ NoDup(Rest(q, k))
         /\ ready \o Popped(q, k) \in Seq(Threads)
    <3>1. /\ WaitSets'["pool"] = Elems(Rest(q, k))
          /\ \A r \in Semas : r # "pool" => WaitSets'[r] = WaitSets[r]
      BY ZenonT(60), <2>9, <2>13 DEF WaitSets
    <3>2. PopsWaiters(ready, q, k, "pool", st3, sts, Elems(sleep_list'), WaitSets, WaitSets',
                      pc', lk, page, idle_thread)
      BY ZenonT(60), <3>1, <2>8, <2>9, <2>12, <2>14 DEF PopsWaiters
    <3>3. WaitersPopped(ready, q, k, st3, sts, Elems(sleep_list'), WaitSets', pc', lk, page,
                        idle_thread)
      BY ZenonT(60), <3>2, <2>9, WakeWaiters
    <3> QED BY ZenonT(60), <3>3 DEF WaitersPopped
  <2>16. sts \in [Threads -> Statuses] /\ \A t \in Threads : sts[t] # "RUNNING"
    <3>1. \A t \in Threads : sts[t] # "RUNNING"
      BY ZenonT(60), <2>6, <2>12
    <3> QED BY ZenonT(60), <3>1, <2>3 DEF Statuses
  <2>17. PICK all \in Seq(Threads) : all = ready \o Popped(q, k)
    BY ZenonT(60), <2>15
  <2>18. all # <<>> \/ idle_thread # NULL
    <3>1. Popped(q, k) \in Seq(Threads)
      BY ZenonT(60), ElemsPopped
    <3>2. ready # <<>> => ready \o Popped(q, k) # <<>>
      BY ZenonT(60), <3>1, ElemsConcat
    <3> QED BY ZenonT(60), <3>2, <2>17
  <2>19. /\ Placed' /\ OneRuns' /\ NoDup(ready_list')
         /\ current' = idle_thread' => Unlocked'
    <3>1. /\ schedule(sts, all, <<>>) /\ NoDup(all)
          /\ Arranged(sts, Elems(all), Elems(sleep_list'), WaitSets', pc', lk', page',
                      idle_thread)
      BY ZenonT(60), <2>4, <2>15, <2>17
    <3>2. PICK none : schedule(sts, all, none)
      BY ZenonT(60), <3>1
    <3> QED BY ZenonT(60), <3>1, <3>2, <2>16, <2>18, SchedulePlace
  <2>20. \A s \in Semas : NoDup(waiters'[s])
    BY ZenonT(60), <2>13, <2>15
  <2> QED BY ZenonT(60), <2>19, <2>20 DEF Dispatched
(* The running thread's new label leaves everybody in place.                *)
<1>TickArranged.
    ASSUME NEW me \in Threads, NEW st, NEW ready, NEW pcs, Ticking(me, st, ready, pcs)
    PROVE  /\ Arranged(st, Elems(ready), Elems(sleep_list'), WaitSets, pcs, lk, page,
                       idle_thread)
           /\ pc[me] \notin {"none", "dead"} /\ me \notin Elems(ready)
  <2> USE <1>TickArranged
  <2>1. /\ pc[me] \notin {"boot", "wake", "reap"}
        /\ Arranged(st, Elems(ready), Elems(sleep_list'), WaitSets, pc, lk, page, idle_thread)
        /\ st[me] = "RUNNING"
        /\ \A t \in Threads : t # me => pcs[t] = pc[t]
        /\ \/ pcs[me] = pc[me]
           \/ pc[me] = "idle_hlt" /\ pcs[me] = "idle_block"
    BY ZenonT(60) DEF Ticking
  <2> USE <2>1
  <2>2. pc[me] \notin {"none", "dead"} /\ me \notin Elems(ready)
    BY ZenonT(60), RunnerIsNowhere
  <2>3. /\ Building(pcs, lk, page, me) => Building(pc, lk, page, me)
        /\ Building(pc, lk, page, me) => Building(pcs, lk, page, me)
    BY ZenonT(60) DEF Building
  <2>4. Idling(pcs, lk, me) <=> me = idle_thread
    <3>1. Idling(pc, lk, me) <=> me = idle_thread
      BY ZenonT(60) DEF Arranged, Idles
    <3> QED BY ZenonT(60), <3>1 DEF Idling
  <2>5. pcs[me] \in {"hold", "read", "write", "clear"} => lk[me] # "idle"
    BY ZenonT(60) DEF Arranged, Idles
  <2>6. pcs[me] \notin {"none", "dead"}
    BY ZenonT(60), <2>2
  <2>7. Moving(st, Elems(ready), Elems(sleep_list'), WaitSets, pc, lk, page,
               idle_thread, me, pcs, lk, page)
    BY ZenonT(60), <2>3, <2>4, <2>5, <2>6 DEF Moving
  <2>8. Arranged(st, Elems(ready), Elems(sleep_list'), WaitSets, pcs, lk, page, idle_thread)
    BY ZenonT(60), <2>7, Moves
  <2> QED BY ZenonT(60), <2>2, <2>8
(* thread_yield, called by the thread or on return from the timer interrupt. *)
<1>YieldsPlace.
    ASSUME IInv, PlaceInv, Running, NEW me \in Threads,
           NEW st \in [Threads -> Statuses], NEW ready \in Seq(Threads), NEW pcs,
           Ticking(me, st, ready, pcs),
           do_schedule("READY", destruction_req, st, Requeued(ready), pcs)
    PROVE  PlaceInv'
  <2> USE <1>YieldsPlace
  <2>0. /\ me = current /\ pc[me] \notin {"boot", "wake", "reap"}
        /\ NoDup(ready) /\ NoDup(sleep_list')
        /\ \A t \in Threads : st[t] = "RUNNING" <=> t = me
        /\ \A t \in Threads : t # me => pcs[t] = pc[t]
        /\ \/ pcs[me] = pc[me]
           \/ pc[me] = "idle_hlt" /\ pcs[me] = "idle_block"
        /\ idle_thread' = idle_thread
    BY ZenonT(60) DEF Ticking
  <2>00. pc[me] \notin {"none", "dead"} /\ me \notin Elems(ready)
    BY ZenonT(60), <1>TickArranged
  <2> USE <2>0
  <2>1. /\ Linked /\ Victims(Elems(destruction_req), pc, page)
        /\ idle_thread = NULL => Booting
    BY ZenonT(60), PlaceParts
  <2>2. TypeOK /\ VictimInv
    BY ZenonT(60) DEF IInv
  <2>3. PICK req \in Seq(Pool) : req = destruction_req
    BY ZenonT(60), <2>2 DEF TypeOK
  <2>4. /\ \A t \in Elems(req) : t \in Threads /\ pc[t] = "dead"
        /\ me \notin Elems(req)
    <3>1. Elems(req) \subseteq Threads
      BY ZenonT(60), ElemsSubset, PoolFacts
    <3>2. \A t \in Elems(req) : pc[t] = "dead"
      BY ZenonT(60), <2>2, <2>3 DEF VictimInv
    <3> QED BY ZenonT(60), <3>1, <3>2, <2>00
  <2>6. Arranged(st, Elems(ready), Elems(sleep_list'), WaitSets, pcs, lk, page, idle_thread)
    BY ZenonT(60), <1>TickArranged
  <2>7. PICK queue \in Seq(Threads) :
           /\ queue = Requeued(ready) /\ NoDup(queue)
           /\ Elems(queue) = IF me = idle_thread THEN Elems(ready) ELSE Elems(ready) \cup {me}
           /\ queue # <<>> \/ idle_thread # NULL
    <3>1. CASE me = idle_thread
      BY ZenonT(60), <3>1, NullIsNoThread DEF Requeued
    <3>2. CASE me # idle_thread
      <4>1. Requeued(ready) = Append(ready, me)
        BY ZenonT(60), <3>2 DEF Requeued
      <4>2. Append(ready, me) \in Seq(Threads) /\ Append(ready, me) # <<>>
        <5>1. Append(ready, me) \in Seq(Threads)
          BY ZenonT(60), AppendElems
        <5>2. Append(ready, me) # <<>>
          BY ZenonT(60), LinkedIsNonempty
        <5> QED BY ZenonT(60), <5>1, <5>2
      <4>3. Elems(Append(ready, me)) = Elems(ready) \cup {me}
        <5>1. \A x : x \in Elems(Append(ready, me)) <=> x \in Elems(ready) \/ x = me
          BY ZenonT(60), AppendElems
        <5> QED BY ZenonT(60), <5>1
      <4>4. NoDup(Append(ready, me))
        BY ZenonT(60), <2>00, NoDupAppend
      <4> QED BY ZenonT(60), <4>1, <4>2, <4>3, <4>4, <3>2
    <3> QED BY ZenonT(60), <3>1, <3>2
  <2>8. PICK st2 : \A t \in Threads : st2[t] = IF t = me THEN "READY" ELSE st[t]
    <3>1. \A t \in Threads : [u \in Threads |-> IF u = me THEN "READY" ELSE st[u]][t]
                             = IF t = me THEN "READY" ELSE st[t]
      BY ZenonT(60)
    <3> QED BY ZenonT(60), <3>1
  <2>9. Arranged(st2, Elems(queue), Elems(sleep_list'), WaitSets, pcs, lk, page, idle_thread)
    <3>1. st[me] = "RUNNING"
      BY ZenonT(60)
    <3>2. Queueing(st, Elems(ready), Elems(sleep_list'), WaitSets, pcs, lk, page,
                   idle_thread, me, st2, Elems(queue))
      BY ZenonT(60), <3>1, <2>6, <2>7, <2>8 DEF Queueing
    <3> QED BY ZenonT(60), <3>2, <1>Queues
  <2>10. \A t \in Threads : st2[t] # "RUNNING"
    BY ZenonT(60), <2>8
  <2>11. \A t \in Elems(req) : pcs[t] = "dead"
    BY ZenonT(60), <2>4
  <2>12. /\ Placed' /\ OneRuns' /\ NoDup(ready_list')
         /\ \A s \in Semas : NoDup(waiters'[s])
         /\ current' = idle_thread' => Unlocked'
    <3>1. PICK new \in {"READY", "DYING"} : new = "READY"
      BY ZenonT(60)
    <3>2. do_schedule(new, req, st, queue, pcs)
      BY ZenonT(60), <3>1, <2>3, <2>7
    <3>3. \A s \in Semas : NoDup(waiters[s])
      BY ZenonT(60), <2>1 DEF Linked
    <3>4. \A t \in Threads : st2[t] = IF t = me THEN new ELSE st[t]
      BY ZenonT(60), <3>1, <2>8
    <3>5. Leaving(new, req, st, queue, pcs, me, st2)
      BY ZenonT(60), <3>2, <3>3, <3>4, <2>4, <2>7, <2>9, <2>10, <2>11 DEF Leaving
    <3>6. Dispatched
      BY ZenonT(60), <3>5, <2>2, <1>DoSchedulePlace
    <3> QED BY ZenonT(60), <3>6 DEF Dispatched
  <2>13. Linked'
    BY ZenonT(60), <2>12 DEF Linked
  <2>14. /\ \A t \in Threads : pc'[t] = IF t \in Elems(req) THEN "none" ELSE pcs[t]
         /\ lk' = lk /\ page' = page /\ value' = value
    BY ZenonT(60), <2>3 DEF do_schedule, locVars
  <2>15. Victims(Elems(destruction_req'), pc', page')
    <3> SUFFICES ASSUME NEW t \in Pool, pc'[t] = "dead"
                 PROVE  \E c \in Threads : pc'[c] = "reap" /\ page'[c] = t
      BY ZenonT(60) DEF Victims
    <3>1. t \in Threads /\ t \notin Elems(req) /\ pcs[t] = "dead"
      BY ZenonT(60), <2>14, PoolFacts
    <3>2. pc[t] = "dead"
      BY ZenonT(60), <3>1, <2>00
    <3>3. PICK c \in Threads : pc[c] = "reap" /\ page[c] = t
      BY ZenonT(60), <3>1, <3>2, <2>1, <2>3 DEF Victims
    <3>4. pc'[c] = "reap"
      BY ZenonT(60), <3>3, <2>4, <2>14
    <3> QED BY ZenonT(60), <3>3, <3>4, <2>14
  <2>16. ASSUME idle_thread' = NULL PROVE Booting'
    <3>1. Booting
      BY ZenonT(60), <2>1, <2>16
    <3>2. \A t \in Threads : pc[t] \in {"boot", "down", "wake", "none", "idle_init"}
      BY ZenonT(60), <3>1, BootLabels
    <3>3. \A t \in Threads : pc'[t] = pc[t]
      BY ZenonT(60), <3>2, <2>4, <2>14
    <3> QED BY ZenonT(60), <3>1, <3>3, <2>14, PoolFacts DEF Booting
  <2> QED BY ZenonT(60), <2>12, <2>13, <2>15, <2>16, PlaceWhole
(* What do_schedule leaves of the destruction queue when the caller dies    *)
(* and another thread is dispatched: the caller, unless it is Main.         *)
<1>DeathIsQueued.
    ASSUME TypeOK, NEW req, NEW st, NEW ready, NEW pcs,
           do_schedule("DYING", req, st, ready, pcs), current' # current, current \in Pool
    PROVE  current \in Elems(destruction_req')
  <2> USE <1>DeathIsQueued
  <2>1. PICK sts, all : schedule(sts, all, <<>>) /\ sts[current] = "DYING"
    <3> DEFINE k == Least({Len(req), Len(waiters["pool"])})
               woken == Popped(waiters["pool"], k)
               now == [t \in Threads |->
                         IF t = current THEN "DYING"
                         ELSE IF t \in Elems(req) THEN "NONE"
                         ELSE IF t \in Elems(woken) THEN "READY" ELSE st[t]]
    <3>1. schedule(now, ready \o woken, <<>>)
      BY ZenonT(60) DEF do_schedule
    <3>2. now[current] = "DYING"
      BY ZenonT(60) DEF TypeOK
    <3> HIDE DEF now
    <3> QED BY ZenonT(60), <3>1, <3>2
  <2>2. destruction_req' = Append(<<>>, current)
    <3>1. current # Main
      BY ZenonT(60), PoolFacts
    <3> QED BY ZenonT(60), <3>1, <2>1 DEF schedule
  <2>3. PICK none \in Seq(Pool) : none = <<>>
    BY ZenonT(60), SeqEmpty
  <2>4. Elems(Append(none, current)) = Elems(none) \cup {current}
    BY ElemsAppend
  <2> QED BY ZenonT(60), <2>2, <2>3, <2>4
(* thread_exit, or its end once the pool lock was free: the thread dies,    *)
(* and the pages of req, the dead thread before it, are freed.              *)
<1>ExitPlace.
    ASSUME IInv, PlaceInv, Running, NEW me \in Threads, NEW req \in Seq(Pool), NEW pcs,
           Exiting(me, req, pcs)
    PROVE  PlaceInv'
  <2> USE <1>ExitPlace
  <2>0. /\ me = current /\ pc[me] \in {"run", "reap"}
        /\ \A t \in Threads : pcs[t] = IF t = me THEN "dead" ELSE pc[t]
        /\ do_schedule("DYING", req, status, ready_list, pcs)
        /\ Elems(destruction_req) \subseteq Elems(req)
        /\ pc[me] = "reap" => page[me] \in Elems(req)
        /\ \A t \in Elems(req) : pc[t] = "dead"
        /\ sleep_list' = sleep_list /\ idle_thread' = idle_thread
    BY ZenonT(60) DEF Exiting
  <2> USE <2>0
  <2>1. /\ Placed /\ OneRuns /\ Linked /\ Victims(Elems(destruction_req), pc, page)
    BY ZenonT(60), PlaceParts
  <2>2. TypeOK
    BY ZenonT(60) DEF IInv
  <2>3. idle_thread # NULL
    BY ZenonT(60), NotBooting
  <2>4. status[me] = "RUNNING" /\ me # idle_thread /\ ~ Building(pc, lk, page, me)
    <3>1. status[me] = "RUNNING"
      BY ZenonT(60), <2>1 DEF OneRuns
    <3>2. me # idle_thread
      BY ZenonT(60), CurrentIsNowhere DEF Idling
    <3> QED BY ZenonT(60), <3>1, <3>2 DEF Building
  <2>5. me \notin Elems(req) /\ Elems(req) \subseteq Threads
    <3>1. pc[me] # "dead"
      BY ZenonT(60)
    <3> QED BY ZenonT(60), <3>1, ElemsSubset, PoolFacts
  <2>6. PICK st2 : \A t \in Threads : st2[t] = IF t = me THEN "DYING" ELSE status[t]
    <3>1. \A t \in Threads : [u \in Threads |-> IF u = me THEN "DYING" ELSE status[u]][t]
                             = IF t = me THEN "DYING" ELSE status[t]
      BY ZenonT(60)
    <3> QED BY ZenonT(60), <3>1
  <2>7. Arranged(st2, Elems(ready_list), Elems(sleep_list'), WaitSets, pcs, lk, page,
                 idle_thread)
    <3>1. Dying(status, Elems(ready_list), Elems(sleep_list'), WaitSets, pc, lk, page,
                idle_thread, me, st2, pcs)
      BY ZenonT(60), <2>1, <2>4, <2>6 DEF Dying, Placed
    <3> QED BY ZenonT(60), <3>1, <1>Dies
  <2>8. Dispatched
    <3>1. PICK new \in {"READY", "DYING"} : new = "DYING"
      BY ZenonT(60)
    <3>2. status \in [Threads -> Statuses] /\ ready_list \in Seq(Threads)
      BY ZenonT(60), <2>2 DEF TypeOK
    <3>3. \A t \in Threads : st2[t] = IF t = me THEN new ELSE status[t]
      BY ZenonT(60), <3>1, <2>6
    <3>4. \A t \in Threads : st2[t] # "RUNNING"
      BY ZenonT(60), <2>1, <2>6 DEF OneRuns
    <3>5. \A t \in Elems(req) : pcs[t] = "dead"
      BY ZenonT(60), <2>5
    <3>6. NoDup(ready_list) /\ \A s \in Semas : NoDup(waiters[s])
      BY ZenonT(60), <2>1 DEF Linked
    <3>7. do_schedule(new, req, status, ready_list, pcs)
      BY ZenonT(60), <3>1
    <3>8. Leaving(new, req, status, ready_list, pcs, me, st2)
      BY ZenonT(60), <3>3, <3>4, <3>5, <3>6, <3>7, <2>3, <2>5, <2>7 DEF Leaving
    <3> QED BY ZenonT(60), <3>2, <3>8, <2>2, <1>DoSchedulePlace
  <2>9. /\ Placed' /\ OneRuns' /\ NoDup(ready_list')
        /\ \A s \in Semas : NoDup(waiters'[s])
        /\ current' = idle_thread' => Unlocked'
    BY ZenonT(60), <2>8 DEF Dispatched
  <2>10. Linked'
    BY ZenonT(60), <2>1, <2>9 DEF Linked
  <2>11. /\ \A t \in Threads : pc'[t] = IF t \in Elems(req) THEN "none" ELSE pcs[t]
         /\ page' = page
    BY ZenonT(60) DEF do_schedule, locVars
  <2>12. Victims(Elems(destruction_req'), pc', page')
    <3> SUFFICES ASSUME NEW t \in Pool, pc'[t] = "dead"
                 PROVE  \/ t \in Elems(destruction_req')
                        \/ \E c \in Threads : pc'[c] = "reap" /\ page'[c] = t
      BY ZenonT(60) DEF Victims
    <3>1. t \in Threads /\ t \notin Elems(req) /\ pcs[t] = "dead"
      BY ZenonT(60), <2>11, PoolFacts
    <3>2. CASE t = me
      <4>1. status'[me] = "DYING"
        BY ZenonT(60), <3>2, <2>9 DEF Placed, Arranged, Lives
      <4>2. current' # me
        BY ZenonT(60), <4>1, <2>9 DEF OneRuns
      <4> QED BY ZenonT(60), <4>2, <3>2, <2>2, <1>DeathIsQueued
    <3>3. CASE t # me
      <4>1. pc[t] = "dead" /\ t \notin Elems(destruction_req)
        BY ZenonT(60), <3>1, <3>3
      <4>2. PICK c \in Threads : pc[c] = "reap" /\ page[c] = t
        BY ZenonT(60), <4>1, <2>1 DEF Victims
      <4>3. c # me
        BY ZenonT(60), <4>2, <3>1
      <4>4. c \notin Elems(req)
        BY ZenonT(60), <4>2
      <4> QED BY ZenonT(60), <4>2, <4>3, <4>4, <2>11
    <3> QED BY ZenonT(60), <3>2, <3>3
  <2>13. idle_thread' # NULL
    BY ZenonT(60), <2>3
  <2> QED BY ZenonT(60), <2>9, <2>10, <2>12, <2>13, PlaceWhole
(* thread_exit, whether the pool lock is free or not.                       *)
<1>ThreadExitPlace.
    ASSUME IInv, PlaceInv, thread_exit
    PROVE  PlaceInv'
  <2> USE <1>ThreadExitPlace
  <2>1. /\ Running /\ pc[current] = "run"
        /\ \/ do_schedule("DYING", destruction_req, status, ready_list,
                          [pc EXCEPT ![current] = "dead"])
           \/ do_schedule_waits(destruction_req)
        /\ sleep_list' = sleep_list /\ idle_thread' = idle_thread
    BY ZenonT(60) DEF thread_exit, At, Running, alarmVars
  <2>2. TypeOK /\ VictimInv
    BY ZenonT(60), <2>1 DEF IInv
  <2>3. PICK req \in Seq(Pool) : req = destruction_req
    BY ZenonT(60), <2>2 DEF TypeOK
  <2>4. /\ Elems(destruction_req) \subseteq Elems(req)
        /\ pc[current] # "reap"
        /\ \A t \in Elems(req) : pc[t] = "dead"
    BY ZenonT(60), <2>1, <2>2, <2>3 DEF VictimInv
  <2>5. PICK pcs : /\ pcs = [pc EXCEPT ![current] = "dead"]
                   /\ \A t \in Threads : pcs[t] = IF t = current THEN "dead" ELSE pc[t]
    <3>1. \A t \in Threads : [pc EXCEPT ![current] = "dead"][t]
                             = IF t = current THEN "dead" ELSE pc[t]
      BY <2>2 DEF TypeOK
    <3> QED BY ZenonT(60), <3>1
  <2>6. CASE do_schedule("DYING", destruction_req, status, ready_list,
                         [pc EXCEPT ![current] = "dead"])
    <3>1. PICK me \in Threads : me = current
      BY ZenonT(60), <2>2 DEF TypeOK
    <3>2. Exiting(me, req, pcs)
      BY ZenonT(60), <3>1, <2>1, <2>3, <2>4, <2>5, <2>6 DEF Exiting
    <3> QED BY ZenonT(60), <3>2, <2>1, <1>ExitPlace
  <2>7. CASE do_schedule_waits(destruction_req)
    BY ZenonT(60), <2>1, <2>3, <2>4, <2>7, <1>WaitsPlace
  <2> QED BY ZenonT(60), <2>1, <2>6, <2>7
(* The end of thread_exit after the wait for the pool lock: the page in     *)
(* hand and those queued meanwhile are freed.                               *)
<1>ReapPlace.
    ASSUME IInv, PlaceInv, Reap
    PROVE  PlaceInv'
  <2> USE <1>ReapPlace
  <2>1. /\ Running /\ pc[current] = "reap"
        /\ \/ do_schedule("DYING", <<page[current]>> \o destruction_req, status, ready_list,
                          [pc EXCEPT ![current] = "dead"])
           \/ do_schedule_waits(<<page[current]>> \o destruction_req)
        /\ sleep_list' = sleep_list /\ idle_thread' = idle_thread
    BY ZenonT(60) DEF Reap, At, Running, alarmVars
  <2>2. TypeOK /\ VictimInv
    BY ZenonT(60), <2>1 DEF IInv
  <2>3. PICK me \in Threads : me = current
    BY ZenonT(60), <2>2 DEF TypeOK
  <2>4. /\ page[me] \in Pool /\ pc[page[me]] = "dead" /\ destruction_req \in Seq(Pool)
        /\ \A t \in Elems(destruction_req) : pc[t] = "dead"
    BY ZenonT(60), <2>1, <2>2, <2>3 DEF VictimInv, TypeOK
  <2>5. PICK req \in Seq(Pool) : /\ req = <<page[me]>> \o destruction_req
                                /\ Elems(req) = {page[me]} \cup Elems(destruction_req)
    BY ZenonT(60), <2>4, ConsFacts
  <2>6. /\ Elems(destruction_req) \subseteq Elems(req)
        /\ page[me] \in Elems(req)
        /\ \A t \in Elems(req) : pc[t] = "dead"
    BY ZenonT(60), <2>4, <2>5
  <2>7. PICK pcs : /\ pcs = [pc EXCEPT ![me] = "dead"]
                   /\ \A t \in Threads : pcs[t] = IF t = me THEN "dead" ELSE pc[t]
    <3>1. \A t \in Threads : [pc EXCEPT ![me] = "dead"][t]
                             = IF t = me THEN "dead" ELSE pc[t]
      BY <2>2 DEF TypeOK
    <3> QED BY ZenonT(60), <3>1
  <2>8. CASE do_schedule("DYING", <<page[current]>> \o destruction_req, status, ready_list,
                         [pc EXCEPT ![current] = "dead"])
    <3>1. do_schedule("DYING", req, status, ready_list, pcs)
      BY ZenonT(60), <2>3, <2>5, <2>7, <2>8
    <3>2. Exiting(me, req, pcs)
      BY ZenonT(60), <3>1, <2>1, <2>3, <2>6, <2>7 DEF Exiting
    <3> QED BY ZenonT(60), <3>2, <2>1, <1>ExitPlace
  <2>9. CASE do_schedule_waits(<<page[current]>> \o destruction_req)
    <3>1. do_schedule_waits(req)
      BY ZenonT(60), <2>3, <2>5, <2>9
    <3> QED BY ZenonT(60), <3>1, <2>1, <2>3, <2>6, <1>WaitsPlace
  <2> QED BY ZenonT(60), <2>1, <2>8, <2>9
(* A kernel that has stopped promises nothing.                              *)
<1>StoppedPlace.
    ASSUME fault' # "none"
    PROVE  PlaceInv' /\ BootOnce'
  BY ZenonT(60), <1>StoppedPlace DEF PlaceInv, BootOnce, Running
(* thread_yield called by the thread.                                       *)
<1>YieldPlace.
    ASSUME IInv, PlaceInv, Yield
    PROVE  PlaceInv'
  <2> USE <1>YieldPlace
  <2>1. /\ Running /\ pc[current] = "run"
        /\ \/ do_schedule("READY", destruction_req, status, Requeued(ready_list), pc)
           \/ yield_relinks(status, Requeued(ready_list), pc)
        /\ sleep_list' = sleep_list /\ idle_thread' = idle_thread
    BY ZenonT(60) DEF Yield, At, Running, alarmVars, thread_yield
  <2>2. TypeOK /\ Placed /\ OneRuns /\ Linked
    BY ZenonT(60), <2>1, PlaceParts DEF IInv
  <2>3. PICK me \in Threads : me = current
    BY ZenonT(60), <2>2 DEF TypeOK
  <2>4. status \in [Threads -> Statuses] /\ ready_list \in Seq(Threads)
    BY ZenonT(60), <2>2 DEF TypeOK
  <2>5. CASE do_schedule("READY", destruction_req, status, Requeued(ready_list), pc)
    <3>1. Ticking(me, status, ready_list, pc)
      BY ZenonT(60), <2>1, <2>2, <2>3 DEF Ticking, Placed, OneRuns, Linked
    <3> QED BY ZenonT(60), <3>1, <2>1, <2>4, <2>5, <1>YieldsPlace
  <2>6. CASE yield_relinks(status, Requeued(ready_list), pc)
    BY ZenonT(60), <2>6, <1>StoppedPlace DEF yield_relinks
  <2> QED BY ZenonT(60), <2>1, <2>5, <2>6
(* The timer interrupt: sleepers are woken, and the running thread may have *)
(* to yield.                                                                *)
<1>TimerPlace.
    ASSUME HaveMinima, IInv, PlaceInv, TimerInterrupt
    PROVE  PlaceInv'
  (* The first n sleepers become ready.                                       *)
  <2>WakeSleepers.
      ASSUME NEW st, NEW W, NEW p, NEW l, NEW pg, NEW idler, NEW st2,
             NEW ready \in Seq(Threads), NEW q \in Seq(Threads), NEW n \in 0..Len(q),
             PopsSleepers(ready, q, n, st, st2, W, p, l, pg, idler)
      PROVE  SleepersPopped(ready, q, n, st, st2, W, p, l, pg, idler)
    <3> USE <2>WakeSleepers
    <3>0. /\ NoDup(ready) /\ NoDup(q)
          /\ Arranged(st, Elems(ready), Elems(q), W, p, l, pg, idler)
          /\ \A t \in Threads : st2[t] = IF t \in Elems(Popped(q, n)) THEN "READY" ELSE st[t]
      BY ZenonT(60) DEF PopsSleepers
    <3> USE <3>0
    <3> DEFINE woken == Popped(q, n)
               K == Elems(woken)
    <3>1. woken \in Seq(Threads) /\ K \subseteq Elems(q)
      BY ZenonT(60), PoppedElems
    <3>2. NoDup(woken) /\ NoDup(Rest(q, n)) /\ Elems(Rest(q, n)) = Elems(q) \ K
      BY ZenonT(60), NoDupPopped
    <3> HIDE DEF woken
    <3>3. K \subseteq Threads
      BY ZenonT(60), <3>1, ElemsSubset
    <3> HIDE DEF K
    <3>4. /\ ready \o woken \in Seq(Threads)
          /\ Elems(ready \o woken) = Elems(ready) \cup K
      <4>1. /\ ready \o woken \in Seq(Threads)
            /\ \A e : e \in Elems(ready \o woken) <=> e \in Elems(ready) \/ e \in Elems(woken)
        BY ZenonT(60), <3>1, ConcatElems
      <4> QED BY ZenonT(60), <4>1 DEF K
    <3>5. \A t \in K : t \in Elems(q) /\ st[t] = "BLOCKED" /\ p[t] = "run"
      BY ZenonT(60), <3>1 DEF Arranged, InSleep
    <3>6. \A r \in Semas : W[r] = W[r] \ K
      <4> SUFFICES ASSUME NEW r \in Semas PROVE W[r] = W[r] \ K
        BY ZenonT(60)
      <4>1. \A t \in W[r] : WaitsFor(p, l, t, r)
        BY ZenonT(60) DEF Arranged, InWait
      <4>2. \A t \in W[r] : t \notin K
        BY ZenonT(60), <4>1, <3>5 DEF WaitsFor
      <4> QED BY ZenonT(60), <4>2
    <3>7. Elems(ready) \cap Elems(woken) = {}
      <4>1. \A t \in Elems(ready) : st[t] = "READY"
        BY ZenonT(60) DEF Arranged, InQueue
      <4>2. \A t \in Elems(ready) : t \notin K
        BY ZenonT(60), <4>1, <3>5
      <4> QED BY ZenonT(60), <4>2 DEF K
    <3>8. NoDup(ready \o woken)
      BY ZenonT(60), <3>1, <3>2, <3>7, NoDupConcat
    <3>9. Arranged(st2, Elems(ready \o woken), Elems(Rest(q, n)), W, p, l, pg, idler)
      <4>1. \A t \in K : t \in Elems(q) \/ \E r \in Semas : t \in W[r]
        BY ZenonT(60), <3>5
      <4>2. \A t \in Threads : st2[t] = IF t \in K THEN "READY" ELSE st[t]
        BY ZenonT(60) DEF K, woken
      <4>3. Chosen(K, Elems(q), W)
        BY ZenonT(60), <4>1, <3>3 DEF Chosen
      <4>4. MadeReady(K, st, Elems(ready), Elems(q), W, st2, Elems(ready \o woken),
                      Elems(Rest(q, n)), W)
        BY ZenonT(60), <4>2, <3>2, <3>4, <3>6 DEF MadeReady
      <4>5. Waking(st, Elems(ready), Elems(q), W, p, l, pg, idler, K, st2,
                   Elems(ready \o woken), Elems(Rest(q, n)), W)
        BY ZenonT(60), <4>3, <4>4 DEF Waking
      <4> QED BY ZenonT(60), <4>5, Wakes
    <3> QED BY ZenonT(60), <3>2, <3>4, <3>5, <3>8, <3>9 DEF K, woken, SleepersPopped
  <2> USE <1>TimerPlace
  <2>1. PICK n : n = WakeCount(ticks + 1)
    BY ZenonT(60)
  <2>2. PICK woken : woken = Popped(sleep_list, n)
    BY ZenonT(60)
  <2>3. PICK st : st = [t \in Threads |-> IF t \in Elems(woken) THEN "READY" ELSE status[t]]
    BY ZenonT(60)
  <2>4. PICK ready : ready = ready_list \o woken
    BY ZenonT(60)
  <2>5. PICK pcs : pcs = IF pc[current] = "idle_hlt"
                         THEN [pc EXCEPT ![current] = "idle_block"] ELSE pc
    BY ZenonT(60)
  <2>6. /\ Running /\ pc[current] \notin {"boot", "wake", "reap"}
        /\ sleep_list' = Rest(sleep_list, n) /\ idle_thread' = idle_thread
    BY ZenonT(60), <2>1 DEF TimerInterrupt, timer_interrupt, InterruptsOn, Running
  <2>7. \/ do_schedule("READY", destruction_req, st, Requeued(ready), pcs)
        \/ yield_relinks(st, Requeued(ready), pcs) \/ yield_asserts(st, Requeued(ready), pcs)
        \/ /\ status' = st /\ ready_list' = ready /\ pc' = pcs
           /\ UNCHANGED <<current, destruction_req, value, waiters, lk, page>>
    BY ZenonT(60), <2>1, <2>2, <2>3, <2>4, <2>5
       DEF TimerInterrupt, thread_yield, lockVars, locVars
  <2>8. /\ TypeOK /\ Placed /\ OneRuns /\ Linked
        /\ Victims(Elems(destruction_req), pc, page)
        /\ current = idle_thread => Unlocked
        /\ idle_thread = NULL => Booting
    BY ZenonT(60), <2>6, PlaceParts DEF IInv
  <2>9. PICK me \in Threads : me = current
    BY ZenonT(60), <2>8 DEF TypeOK
  <2>10. sleep_list \in Seq(Threads) /\ ready_list \in Seq(Threads)
    BY ZenonT(60), <2>8 DEF TypeOK
  <2>11. n \in 0..Len(sleep_list)
    <3>1. ticks + 1 \in Int
      BY <2>8 DEF TypeOK
    <3> QED BY ZenonT(60), <3>1, <2>1, <2>8, WakeFacts
  <2>12. \A t \in Threads : st[t] = IF t \in Elems(woken) THEN "READY" ELSE status[t]
    BY ZenonT(60), <2>3
  <2>13. /\ Arranged(st, Elems(ready), Elems(sleep_list'), WaitSets, pc, lk, page, idle_thread)
         /\ NoDup(ready) /\ NoDup(sleep_list') /\ ready \in Seq(Threads)
         /\ \A t \in Elems(woken) : status[t] = "BLOCKED"
    <3>1. /\ Arranged(status, Elems(ready_list), Elems(sleep_list), WaitSets, pc, lk, page,
                      idle_thread)
          /\ NoDup(ready_list) /\ NoDup(sleep_list)
      BY ZenonT(60), <2>8 DEF Placed, Linked
    <3>2. \A t \in Threads :
             st[t] = IF t \in Elems(Popped(sleep_list, n)) THEN "READY" ELSE status[t]
      BY ZenonT(60), <2>2, <2>12
    <3>3. /\ Arranged(st, Elems(ready_list \o Popped(sleep_list, n)),
                      Elems(Rest(sleep_list, n)), WaitSets, pc, lk, page, idle_thread)
          /\ NoDup(ready_list \o Popped(sleep_list, n)) /\ NoDup(Rest(sleep_list, n))
          /\ ready_list \o Popped(sleep_list, n) \in Seq(Threads)
          /\ \A t \in Elems(Popped(sleep_list, n)) : status[t] = "BLOCKED"
      <4>1. PopsSleepers(ready_list, sleep_list, n, status, st, WaitSets, pc, lk, page,
                         idle_thread)
        BY ZenonT(60), <3>1, <3>2 DEF PopsSleepers
      <4>2. SleepersPopped(ready_list, sleep_list, n, status, st, WaitSets, pc, lk, page,
                           idle_thread)
        BY ZenonT(60), <4>1, <2>10, <2>11, <2>WakeSleepers
      <4> QED BY ZenonT(60), <4>2 DEF SleepersPopped
    <3> QED BY ZenonT(60), <3>3, <2>2, <2>4, <2>6
  <2>14. \A t \in Threads : st[t] = "RUNNING" <=> t = me
    BY ZenonT(60), <2>8, <2>9, <2>12, <2>13 DEF OneRuns
  <2>15. st \in [Threads -> Statuses]
    BY ZenonT(60), <2>3, <2>8 DEF TypeOK, Statuses
  <2>16. /\ \A t \in Threads : t # me => pcs[t] = pc[t]
         /\ \/ pcs[me] = pc[me]
            \/ pc[me] = "idle_hlt" /\ pcs[me] = "idle_block"
    BY <2>5, <2>8, <2>9 DEF TypeOK
  <2>17. Ticking(me, st, ready, pcs)
    BY ZenonT(60), <2>6, <2>9, <2>13, <2>14, <2>16 DEF Ticking
  <2>18. CASE do_schedule("READY", destruction_req, st, Requeued(ready), pcs)
    BY ZenonT(60), <2>6, <2>13, <2>15, <2>17, <2>18, <1>YieldsPlace
  <2>19. CASE yield_relinks(st, Requeued(ready), pcs) \/ yield_asserts(st, Requeued(ready), pcs)
    BY ZenonT(60), <2>19, <1>StoppedPlace DEF yield_relinks, yield_asserts
  <2>20. CASE /\ status' = st /\ ready_list' = ready /\ pc' = pcs
              /\ UNCHANGED <<current, destruction_req, value, waiters, lk, page>>
    <3>1. WaitSets' = WaitSets
      BY ZenonT(60), <2>20 DEF WaitSets
    <3>2. /\ pc[me] \notin {"none", "dead"}
          /\ Arranged(st, Elems(ready), Elems(sleep_list'), WaitSets, pcs, lk, page,
                      idle_thread)
      BY ZenonT(60), <2>17, <1>TickArranged
    <3>3. Placed'
      BY ZenonT(60), <3>1, <3>2, <2>6, <2>20 DEF Placed
    <3>4. OneRuns' /\ Linked'
      BY ZenonT(60), <2>8, <2>9, <2>13, <2>14, <2>20 DEF OneRuns, Linked
    <3>5. \A t \in Threads : pc'[t] = pc[t] \/ (pc[t] = "idle_hlt" /\ pc'[t] = "idle_block")
      BY ZenonT(60), <2>16, <2>20
    <3>6. Victims(Elems(destruction_req'), pc', page')
      BY ZenonT(60), <3>5, <2>8, <2>20, VictimsFrame
    <3>7. current' = idle_thread' => Unlocked'
      BY ZenonT(60), <3>5, <2>6, <2>8, <2>20 DEF Unlocked
    <3>8. ASSUME idle_thread' = NULL PROVE Booting'
      <4>1. Booting
        BY ZenonT(60), <3>8, <2>6, <2>8
      <4>2. \A t \in Threads : pc[t] \in {"boot", "down", "wake", "none", "idle_init"}
        BY ZenonT(60), <4>1, BootLabels
      <4>3. \A t \in Threads : pc'[t] = pc[t]
        BY ZenonT(60), <4>2, <3>5
      <4> QED BY ZenonT(60), <4>1, <4>3, <2>20, PoolFacts DEF Booting
    <3> QED BY ZenonT(60), <3>3, <3>4, <3>6, <3>7, <3>8, PlaceWhole
  <2> QED BY ZenonT(60), <2>7, <2>18, <2>19, <2>20
<1> SUFFICES ASSUME HaveMinima, IInv, PlaceInv, BootOnce,
                    TimerInterrupt \/ Yield \/ thread_exit \/ Reap
             PROVE  PlaceInv'
  OBVIOUS
<1>1. CASE TimerInterrupt
  BY ZenonT(60), <1>1, <1>TimerPlace
<1>2. CASE Yield
  BY ZenonT(60), <1>2, <1>YieldPlace
<1>3. CASE thread_exit
  BY ZenonT(60), <1>3, <1>ThreadExitPlace
<1>4. CASE Reap
  BY ZenonT(60), <1>4, <1>ReapPlace
<1> QED BY ZenonT(60), <1>1, <1>2, <1>3, <1>4

(* Every step keeps the threads in place.                                   *)
LEMMA NextPlace ==
    ASSUME HaveMinima, IInv, PlaceInv, BootOnce, [Next]_vars
    PROVE  PlaceInv' /\ BootOnce'
<1>1. CASE thread_start \/ idle_init
  BY ZenonT(60), <1>1, BootsPlace
<1>2. PlaceInv'
  <2>1. CASE TimerInterrupt \/ Yield \/ thread_exit \/ Reap
    BY ZenonT(60), <2>1, SwitchesPlace
  <2>2. CASE \/ thread_create \/ thread_sleep \/ sema_down \/ lock_acquire
             \/ CriticalRead \/ CriticalWrite \/ lock_release \/ sema_up \/ idle
             \/ thread_unblock \/ \E d \in Durations : timer_sleep(d)
    BY ZenonT(60), <2>2, CallsPlace
  <2>3. CASE UNCHANGED vars
    <3>1. UNCHANGED <<current, status, ready_list, destruction_req, sleep_list, value,
                      waiters, idle_thread, pc, lk, page, fault>>
      BY ZenonT(60), <2>3 DEF vars, schedVars, alarmVars, lockVars, locVars
    <3>2. Running' <=> Running
      BY ZenonT(60), <3>1 DEF Running
    <3>3. WaitSets' = WaitSets /\ (Unlocked' <=> Unlocked) /\ (Booting' <=> Booting)
      BY ZenonT(60), <3>1 DEF WaitSets, Unlocked, Booting
    <3> QED BY ZenonT(60), <3>1, <3>2, <3>3 DEF PlaceInv
  <2> QED BY ZenonT(60), <1>1, <2>1, <2>2, <2>3 DEF Next, Call, Step
<1>3. TypeOK
  BY ZenonT(60) DEF IInv
<1>4. BootOnce'
  BY ZenonT(60), <1>1, <1>3, NextBootOnce
<1> QED BY ZenonT(60), <1>2, <1>4
=============================================================================
