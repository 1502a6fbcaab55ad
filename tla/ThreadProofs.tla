---------------------------- MODULE ThreadProofs ----------------------------
(***************************************************************************)
(* Theorems about module Thread, for any number of pages of the kernel     *)
(* pool, any time slice, durations and bounds.                             *)
(*                                                                         *)
(* First what the threads get from the kernel: ServiceInv, which rests on  *)
(* IInv and PlaceInv, is preserved by each action (the sleep list in alarm *)
(* order, no lost wake-up, no lost page), and each action maps to a step   *)
(* of AlarmClock or to none.  Then IInv (locks, pages, tids, boot),        *)
(* PlaceInv (where every thread is) and ServiceInv are invariants, by the  *)
(* lemmas about the single steps; the safety properties and the refinement *)
(* of AlarmClock follow from them.                                         *)
(***************************************************************************)
EXTENDS PlaceProofs

-----------------------------------------------------------------------------
(* The alarm clock.                                                         *)

(* What the alarm clock may see of a step (module AlarmClock).              *)
ClockStep == [Clock!Next]_<<ticks, Asleep>>

-----------------------------------------------------------------------------
(* Pages and wake-ups.                                                      *)

(* t is about to take semaphore s (sema_down, or do_schedule's loop).       *)
Taker(t, s) ==
    /\ t \notin Elems(waiters[s])
    /\ \/ lk[t] = s /\ pc[t] \in {"down", "wake"}
       \/ s = "pool" /\ pc[t] = "reap"

(* What a step must leave for the semaphores: where one is free and waited  *)
(* for, it was so before and who was about to take it still is, or somebody *)
(* is now.                                                                  *)
Served(s) ==
    value'[s] > 0 /\ waiters'[s] # <<>> =>
      \/ /\ value[s] > 0 /\ waiters[s] # <<>>
         /\ \A t \in Threads : Taker(t, s) => Taker(t, s)'
      \/ \E t \in Threads : Taker(t, s)'

(* A step of one thread that keeps the page it has in hand, or marks one.   *)
Holds(me) ==
    /\ OthersSame(me) /\ pc'[me] # "none"
    /\ \A t \in used_map' : t \in used_map \/ (HasPage(me)' /\ page'[me] = t)
    /\ HasPage(me) => HasPage(me)' /\ page'[me] = page[me]
    /\ pc'[me] = "sleep" => val'[me] \in AlarmTimes
    /\ pc'[me] \in {"down", "wake"} /\ lk'[me] = "idle" => me = Main

(* The other steps of the running thread alone: thread_create begins,       *)
(* lock_acquire and lock_release write the holder, the critical sections    *)
(* read and write, the idle thread registers itself and halts.              *)
LocalSteps == thread_create \/ lock_acquire \/ CriticalRead \/ CriticalWrite
              \/ lock_release \/ idle_init \/ idle

(* Where the threads on the sleep list and on the wait lists are.           *)
Parked ==
    /\ \A t \in Elems(sleep_list) : t # current /\ pc[t] = "run"
    /\ \A s \in Semas : /\ NoDup(waiters[s])
                        /\ \A t \in Elems(waiters[s]) :
                             t \in Threads /\ t # current /\ WaitsFor(pc, lk, t, s)

(* A context switch that frees the dead threads on req: pcs are the control *)
(* points as the caller has left them, the running thread's own included.   *)
Switches(req, pcs) ==
    /\ req \in Seq(Pool) /\ \A t \in Elems(req) : pc[t] = "dead"
    /\ \A t \in Threads : t # current => pcs[t] = pc[t]
    /\ \/ pcs[current] = pc[current]
       \/ pc[current] = "idle_hlt" /\ pcs[current] = "idle_block"
       \/ pc[current] \in {"run", "reap"} /\ pcs[current] = "dead"
    /\ pc[current] = "reap" => req # <<>>

(* Every step: one lemma per action of Next.                                *)
LEMMA NextServes ==
    HaveMinima /\ IInv /\ PlaceInv /\ ServiceInv /\ [Next]_vars => ServiceInv' /\ ClockStep
(* A step that leaves the clock, the alarms and the sleep list alone.       *)
<1>ClockSame.
    ASSUME SleepListOrdered, Running,
           UNCHANGED <<sleep_list, alarm, earliest, ticks>>
    PROVE  SleepListOrdered' /\ ClockStep
  <2> USE <1>ClockSame
  <2>1. SleepListOrdered'
    BY ZenonT(60) DEF SleepListOrdered
  <2>2. Asleep' = Asleep
    BY ZenonT(60) DEF Asleep
  <2> QED BY ZenonT(60), <2>1, <2>2 DEF ClockStep
(* thread_wakeup's loop pops the sleepers whose time has come, all of them  *)
(* and nobody else: the cached earliest_wake_up_tick and the alarm of the   *)
(* new front decide as a search of the whole list would.                    *)
<1>WakesTheDue.
    ASSUME HaveMinima, TypeOK, Running, SleepListOrdered, NEW now \in Int,
           NEW i \in 1..Len(sleep_list)
    PROVE  /\ i <= WakeCount(now) => alarm[sleep_list[i]] <= now
           /\ i > WakeCount(now) => now < alarm[sleep_list[i]]
  <2> USE <1>WakesTheDue
  <2> DEFINE len == Len(sleep_list)
             at(n) == alarm[sleep_list[n]]
             S == {n \in 1..len : n < len => now < alarm[sleep_list[n + 1]]}
  <2>1. sleep_list \in Seq(Threads) /\ alarm \in [Threads -> Int] /\ earliest \in Int
    BY DEF TypeOK
  <2>2. len \in Nat /\ \A n \in 1..len : at(n) \in Int
    BY <2>1, SeqLen, SeqElem
  <2>3. sleep_list # <<>> /\ earliest = at(1) /\ 1 \in 1..len
    <3>1. len # 0
      BY <2>2
    <3>2. sleep_list # <<>>
      BY <3>1, SeqEmpty
    <3>3. Head(sleep_list) = sleep_list[1]
      BY <3>2, <2>1
    <3> QED BY <3>1, <3>2, <3>3, <2>2 DEF SleepListOrdered
  <2>4. \A n, m \in 1..len : n < m => at(n) <= at(m)
    BY ZenonT(60) DEF SleepListOrdered
  <2>5. at(1) <= at(i)
    BY <2>2, <2>3, <2>4
  <2>6. CASE now < earliest
    <3>1. WakeCount(now) = 0
      BY <2>6 DEF WakeCount
    <3> HIDE DEF at
    <3> QED BY <3>1, <2>2, <2>3, <2>5, <2>6 DEF at
  <2>7. CASE ~ (now < earliest)
    <3>1. WakeCount(now) = Least(S)
      BY ZenonT(60), <2>3, <2>7 DEF WakeCount
    <3>2. len \in S
      <4>1. len \in 1..len /\ ~ (len < len)
        BY <2>2, <2>3
      <4> QED BY ZenonT(60), <4>1
    <3>3. S \subseteq Nat /\ S # {}
      BY <3>2, <2>2
    <3>4. PICK w \in S : w = WakeCount(now) /\ \A n \in S : w <= n
      <4> HIDE DEF S
      <4> QED BY ZenonT(60), <3>1, <3>3, MinExists
    <3>5. w \in 1..len /\ (w < len => now < at(w + 1))
      BY ZenonT(60), <3>4
    <3>6. ASSUME i <= w PROVE at(i) <= now
      <4>1. CASE i = 1
        BY <4>1, <2>1, <2>2, <2>3, <2>7
      <4>2. CASE i # 1
        <5>1. PICK h \in 1..len : h = i - 1 /\ h < w /\ i = h + 1 /\ h < len
          BY <4>2, <3>5, <3>6, <2>2
        <5>2. h \notin S
          BY <5>1, <3>4, <3>5, <2>2
        <5>3. ~ (now < at(h + 1))
          BY ZenonT(60), <5>1, <5>2
        <5>4. ~ (now < at(i)) /\ at(i) \in Int
          BY ZenonT(60), <5>1, <5>3, <2>2
        <5> QED BY <5>4
      <4> QED BY <4>1, <4>2
    <3>7. ASSUME i > w PROVE now < at(i)
      <4>1. PICK h \in 1..len : h = w + 1 /\ (h = i \/ h < i) /\ w < len
        BY <3>5, <3>7, <2>2
      <4>2. now < at(h)
        BY ZenonT(60), <4>1, <3>5
      <4>3. h = i \/ at(h) <= at(i)
        BY ZenonT(60), <4>1, <2>4
      <4>4. at(h) \in Int /\ at(i) \in Int
        BY ZenonT(60), <2>2
      <4> QED BY <4>2, <4>3, <4>4
    <3> QED BY ZenonT(60), <3>4, <3>6, <3>7
  <2> QED BY ZenonT(60), <2>6, <2>7
(* The sleepers left behind by a tick are those whose time is still to      *)
(* come.                                                                    *)
<1>TickLeaves.
    ASSUME HaveMinima, TypeOK, Running, SleepListOrdered, NEW now \in Int,
           NEW t \in Elems(sleep_list)
    PROVE  t \in Elems(Rest(sleep_list, WakeCount(now))) <=> now < alarm[t]
  <2> USE <1>TickLeaves
  <2>1. PICK n \in 0..Len(sleep_list) : n = WakeCount(now)
    BY ZenonT(60), WakeFacts
  <2>2. sleep_list \in Seq(Threads) /\ alarm \in [Threads -> Int]
    BY ZenonT(60) DEF TypeOK
  <2> DEFINE rest == Rest(sleep_list, n)
  <2>3. /\ Len(rest) = Len(sleep_list) - n /\ Len(sleep_list) \in Nat
        /\ \A i \in 1..(Len(sleep_list) - n) : rest[i] = sleep_list[n + i]
    BY <2>2, ElemsPopped, SeqLen
  <2> HIDE DEF rest
  <2>4. PICK i \in 1..Len(sleep_list) : t = sleep_list[i]
    BY ZenonT(60), ElemsPosition
  <2>5. alarm[t] \in Int
    BY <2>2, <2>4, SeqElem
  <2>6. ASSUME now < alarm[t] PROVE t \in Elems(rest)
    <3>1. ~ (i <= n)
      <4>1. i <= n => alarm[t] <= now
        BY ZenonT(60), <2>1, <2>4, <1>WakesTheDue
      <4> QED BY <4>1, <2>5, <2>6
    <3>2. PICK j \in 1..(Len(sleep_list) - n) : n + j = i
      <4>1. i - n \in 1..(Len(sleep_list) - n) /\ n + (i - n) = i
        BY <3>1, <2>3
      <4> QED BY <4>1
    <3>3. j \in 1..Len(rest) /\ t = rest[j]
      BY ZenonT(60), <3>2, <2>3, <2>4
    <3> QED BY ZenonT(60), <3>3, ElemsPosition
  <2>7. ASSUME t \in Elems(rest) PROVE now < alarm[t]
    <3>1. PICK j \in 1..(Len(sleep_list) - n) : t = rest[j]
      <4>1. PICK j \in 1..Len(rest) : t = rest[j]
        BY ZenonT(60), <2>7, ElemsPosition
      <4> QED BY ZenonT(60), <4>1, <2>3
    <3>2. PICK h \in 1..Len(sleep_list) : h = n + j /\ h > n
      BY <2>3
    <3>3. t = sleep_list[h]
      BY ZenonT(60), <3>1, <3>2, <2>3
    <3> QED BY ZenonT(60), <3>2, <3>3, <2>1, <1>WakesTheDue
  <2> QED BY ZenonT(60), <2>1, <2>6, <2>7 DEF rest
(* timer_interrupt is a tick of the alarm clock.                            *)
<1>ClockTick.
    ASSUME HaveMinima, TypeOK, Running, SleepListOrdered,
           timer_interrupt(WakeCount(ticks + 1)), alarm' = alarm
    PROVE  SleepListOrdered' /\ ClockStep
  <2> USE <1>ClockTick
  <2>1. PICK now \in Int : now = ticks + 1
    BY DEF TypeOK
  <2>2. PICK n \in 0..Len(sleep_list) : n = WakeCount(now)
    BY ZenonT(60), WakeFacts
  <2>3. /\ ticks' = now /\ sleep_list' = Rest(sleep_list, n)
        /\ earliest' = NextEarliest(n)
    BY ZenonT(60), <2>1, <2>2 DEF timer_interrupt
  <2>4. sleep_list \in Seq(Threads) /\ alarm \in [Threads -> Int] /\ earliest \in Int
    BY ZenonT(60) DEF TypeOK
  <2>5. PICK len \in Nat : len = Len(sleep_list)
    BY <2>4, SeqLen
  <2> DEFINE rest == Rest(sleep_list, n)
  <2>6. /\ rest \in Seq(Threads) /\ Len(rest) = len - n
        /\ \A i \in 1..(len - n) : rest[i] = sleep_list[n + i]
        /\ Elems(rest) \subseteq Elems(sleep_list)
    <3>1. Elems(sleep_list) = Elems(Popped(sleep_list, n)) \cup Elems(rest)
      BY <2>4, ElemsPopped
    <3>2. /\ rest \in Seq(Threads) /\ Len(rest) = len - n
          /\ \A i \in 1..(len - n) : rest[i] = sleep_list[n + i]
      <4>1. /\ rest \in Seq(Threads) /\ Len(rest) = Len(sleep_list) - n
            /\ \A i \in 1..(Len(sleep_list) - n) : rest[i] = sleep_list[n + i]
        BY ZenonT(60), <2>4, ElemsPopped
      <4> QED BY ZenonT(60), <4>1, <2>5
    <3> QED BY ZenonT(60), <3>1, <3>2
  <2> HIDE DEF rest
  <2>7. \A t \in Elems(sleep_list) : t \in Elems(rest) <=> now < alarm[t]
    BY ZenonT(60), <2>2, <1>TickLeaves DEF rest
  <2>8. SleepListOrdered'
    <3>1. ASSUME NEW i \in 1..(len - n), NEW j \in 1..(len - n), i < j
          PROVE  alarm[rest[i]] <= alarm[rest[j]]
      <4>1. n + i \in 1..len /\ n + j \in 1..len /\ n + i < n + j
        BY <3>1, <2>5
      <4>2. alarm[sleep_list[n + i]] <= alarm[sleep_list[n + j]]
        BY ZenonT(60), <4>1, <2>5 DEF SleepListOrdered
      <4> QED BY ZenonT(60), <4>2, <2>6
    <3>2. ASSUME rest = <<>> PROVE NextEarliest(n) >= ListTail
      <4>1. n = len
        BY <3>2, <2>5, <2>6, SeqEmpty
      <4>2. CASE sleep_list = <<>>
        BY <4>2, ThreadAssumption DEF NextEarliest
      <4>3. CASE sleep_list # <<>>
        <5>1. n # 0
          BY <4>1, <4>3, <2>4, <2>5, SeqEmpty
        <5>2. NextEarliest(n) = ListTail
          BY ZenonT(60), <4>1, <4>3, <5>1, <2>5 DEF NextEarliest
        <5> QED BY <5>2, ThreadAssumption
      <4> QED BY <4>2, <4>3
    <3>3. ASSUME rest # <<>> PROVE NextEarliest(n) = alarm[Head(rest)]
      <4>1. Len(rest) # 0 /\ Head(rest) = rest[1]
        BY <3>3, <2>6, SeqEmpty
      <4>2. n # len /\ 1 \in 1..(len - n)
        BY <4>1, <2>5, <2>6
      <4>3. Head(rest) = sleep_list[n + 1]
        BY ZenonT(60), <4>1, <4>2, <2>6
      <4>4. sleep_list # <<>>
        BY <4>2, <2>5, SeqEmpty
      <4>5. CASE n = 0
        <5>1. NextEarliest(n) = earliest /\ earliest = alarm[Head(sleep_list)]
          BY ZenonT(60), <4>4, <4>5 DEF NextEarliest, SleepListOrdered
        <5>2. Head(sleep_list) = sleep_list[1] /\ n + 1 = 1
          BY <4>4, <4>5, <2>4
        <5> QED BY ZenonT(60), <4>3, <5>1, <5>2
      <4>6. CASE n # 0
        BY ZenonT(60), <4>2, <4>3, <4>4, <4>6, <2>5 DEF NextEarliest
      <4> QED BY <4>5, <4>6
    <3>4. sleep_list' = rest
      BY ZenonT(60), <2>3 DEF rest
    <3> QED BY ZenonT(60), <3>1, <3>2, <3>3, <3>4, <2>3, <2>6 DEF SleepListOrdered
  <2>9. Asleep' = {<<t, alarm[t]>> : t \in Elems(rest)}
    BY ZenonT(60), <2>3 DEF Asleep, rest
  <2>10. ASSUME NEW p PROVE p \in Asleep' <=> p \in Asleep /\ p[2] > now
    <3>1. ASSUME NEW t \in Elems(sleep_list), p = <<t, alarm[t]>>
          PROVE  p[2] > now <=> t \in Elems(rest)
      <4>1. p[2] = alarm[t] /\ alarm[t] \in Int
        BY <3>1, <2>4, ElemsSubset
      <4>2. p[2] > now <=> now < alarm[t]
        BY <4>1
      <4> QED BY ZenonT(60), <4>2, <2>7
    <3> QED BY ZenonT(60), <3>1, <2>6, <2>9 DEF Asleep
  <2>11. Clock!Tick
    <3>1. Asleep' = {p \in Asleep : p[2] > ticks'}
      BY ZenonT(60), <2>3, <2>10
    <3> QED BY ZenonT(60), <3>1, <2>1, <2>3 DEF Clock!Tick
  <2> QED BY ZenonT(60), <2>8, <2>11 DEF ClockStep, Clock!Next
(* thread_sleep keeps the list in alarm order and the cached earliest alarm *)
(* at its front, and is a call of the alarm clock.                          *)
<1>ClockSleep.
    ASSUME HaveMinima, TypeOK, Running, SleepListOrdered, thread_sleep,
           current \notin Elems(sleep_list), val[current] \in AlarmTimes
    PROVE  SleepListOrdered' /\ ClockStep
  <2> USE <1>ClockSleep
  <2>1. /\ current \in Threads /\ alarm \in [Threads -> Int] /\ earliest \in Int
        /\ sleep_list \in Seq(Threads) /\ val[current] \in Int
    BY DEF TypeOK
  <2>2. PICK a \in Int : a = val[current]
    BY ZenonT(60), <2>1
  <2>3. a < ListTail
    <3>1. PICK n \in 0..MaxTicks, d \in Durations : a = n + d
      BY <2>2 DEF AlarmTimes
    <3> QED BY <3>1, ThreadAssumption
  <2>4. PICK p \in 1..(Len(sleep_list) + 1) :
           /\ sleep_list' = Popped(sleep_list, p - 1) \o <<current>> \o Rest(sleep_list, p - 1)
           /\ \A i \in 1..Len(sleep_list) : /\ i < p => alarm[sleep_list[i]] < a
                                            /\ i = p => a <= alarm[sleep_list[i]]
    <3> DEFINE q == InsertPos(sleep_list, {t \in Threads : a <= alarm[t]})
    <3>1. /\ q \in 1..(Len(sleep_list) + 1)
          /\ \A i \in 1..Len(sleep_list) : /\ i < q => alarm[sleep_list[i]] < a
                                           /\ i = q => a <= alarm[sleep_list[i]]
      BY ZenonT(60), SleepInsert
    <3>2. sleep_list' = Popped(sleep_list, q - 1) \o <<current>> \o Rest(sleep_list, q - 1)
      BY ZenonT(60), <2>2 DEF thread_sleep, list_insert_ordered
    <3> HIDE DEF q
    <3> QED BY ZenonT(60), <3>1, <3>2
  <2>5. /\ earliest' = IF earliest > a THEN a ELSE earliest
        /\ ticks' = ticks /\ alarm' = [alarm EXCEPT ![current] = a]
    BY ZenonT(60), <2>2 DEF thread_sleep
  <2>6. PICK len \in Nat : len = Len(sleep_list)
    BY <2>1, SeqLen
  <2>7. PICK q \in Seq(Threads) :
           /\ q = sleep_list' /\ Len(q) = len + 1
           /\ Elems(q) = Elems(sleep_list) \cup {current}
           /\ \A i \in 1..(len + 1) : q[i] = IF i < p THEN sleep_list[i]
                                             ELSE IF i = p THEN current ELSE sleep_list[i - 1]
    <3>1. /\ sleep_list' \in Seq(Threads)
          /\ Elems(sleep_list') = Elems(sleep_list) \cup {current}
      BY <2>1, <2>4, ElemsInsert
    <3>2. InsertedAt(sleep_list', sleep_list, current, p)
      BY ZenonT(60), <2>1, <2>4, InsertAt
    <3> QED BY ZenonT(60), <3>1, <3>2, <2>6 DEF InsertedAt
  <2>8. /\ alarm'[current] = a
        /\ \A t \in Elems(sleep_list) : t \in Threads /\ alarm'[t] = alarm[t]
    BY <2>1, <2>5, ElemsSubset
  <2>9. \A i \in 1..len : sleep_list[i] \in Elems(sleep_list) /\ alarm[sleep_list[i]] \in Int
    BY <2>1, <2>6, SeqElem DEF Elems
  <2>10. p \in 1..(len + 1)
    BY ZenonT(60), <2>6
  <2> DEFINE at(i) == alarm[sleep_list[i]]
             new(i) == alarm'[q[i]]
  <2>11. \A i \in 1..(len + 1) : new(i) = IF i < p THEN at(i) ELSE IF i = p THEN a ELSE at(i - 1)
    <3> SUFFICES ASSUME NEW i \in 1..(len + 1)
                 PROVE  new(i) = IF i < p THEN at(i) ELSE IF i = p THEN a ELSE at(i - 1)
      OBVIOUS
    <3>1. CASE i < p
      <4>1. i \in 1..len
        BY <3>1, <2>10
      <4> QED BY ZenonT(60), <4>1, <3>1, <2>7, <2>8, <2>9
    <3>2. CASE i = p
      <4>1. ~ (i < p)
        BY <3>2, <2>10
      <4> QED BY ZenonT(60), <4>1, <3>2, <2>7, <2>8
    <3>3. CASE ~ (i < p) /\ i # p
      <4>1. i - 1 \in 1..len
        BY <3>3, <2>10
      <4> QED BY ZenonT(60), <4>1, <3>3, <2>7, <2>8, <2>9
    <3> QED BY ZenonT(60), <3>1, <3>2, <3>3
  <2>12. /\ \A i, j \in 1..len : i < j => at(i) <= at(j)
         /\ \A i \in 1..len : at(i) \in Int /\ (i < p => at(i) < a) /\ (i = p => a <= at(i))
    BY ZenonT(60), <2>4, <2>6, <2>9 DEF SleepListOrdered
  <2> HIDE DEF at, new
  <2>13. ASSUME NEW i \in 1..(len + 1), NEW j \in 1..(len + 1), i < j
         PROVE  new(i) <= new(j)
    <3>1. \A k \in 1..len : k >= p => a <= at(k)
      BY <2>10, <2>12
    <3>2. CASE j < p
      BY <3>2, <2>10, <2>11, <2>12, <2>13
    <3>3. CASE j = p
      BY <3>3, <2>10, <2>11, <2>12, <2>13
    <3>4. CASE j > p /\ i < p
      <4>1. i \in 1..len /\ j - 1 \in 1..len /\ j - 1 >= p
        BY <3>4, <2>10
      <4>2. new(i) = at(i) /\ new(j) = at(j - 1)
        BY <3>4, <2>10, <2>11
      <4> QED BY <4>1, <4>2, <3>1, <3>4, <2>12
    <3>5. CASE j > p /\ i = p
      <4>1. j - 1 \in 1..len /\ j - 1 >= p
        BY <3>5, <2>10
      <4> QED BY <4>1, <3>1, <3>5, <2>10, <2>11
    <3>6. CASE j > p /\ i > p
      <4>1. i - 1 \in 1..len /\ j - 1 \in 1..len /\ i - 1 < j - 1
        BY <3>6, <2>10, <2>13
      <4> QED BY <4>1, <3>6, <2>10, <2>11, <2>12
    <3> QED BY <3>2, <3>3, <3>4, <3>5, <3>6, <2>10
  <2>14. earliest' = new(1)
    <3>1. CASE p = 1
      <4>1. new(1) = a
        BY <3>1, <2>11
      <4>2. earliest >= a
        <5>1. CASE sleep_list = <<>>
          <6>1. earliest >= ListTail
            BY ZenonT(60), <5>1 DEF SleepListOrdered
          <6> QED BY <6>1, <2>1, <2>3, ThreadAssumption
        <5>2. CASE sleep_list # <<>>
          <6>1. Head(sleep_list) = sleep_list[1] /\ 1 \in 1..len
            BY <5>2, <2>1, <2>6, SeqEmpty
          <6>2. earliest = at(1)
            BY ZenonT(60), <5>2, <6>1 DEF SleepListOrdered, at
          <6> QED BY <6>1, <6>2, <3>1, <2>12
        <5> QED BY <5>1, <5>2
      <4> QED BY <4>1, <4>2, <2>1, <2>5
    <3>2. CASE p # 1
      <4>1. 1 \in 1..len /\ 1 < p
        BY <3>2, <2>10
      <4>2. sleep_list # <<>>
        BY <4>1, <2>6, SeqEmpty
      <4>3. Head(sleep_list) = sleep_list[1]
        BY <4>2, <2>1
      <4>4. earliest = at(1)
        BY ZenonT(60), <4>2, <4>3 DEF SleepListOrdered, at
      <4>5. new(1) = at(1) /\ at(1) < a /\ at(1) \in Int
        BY <4>1, <2>11, <2>12
      <4> QED BY <4>4, <4>5, <2>5
    <3> QED BY <3>1, <3>2
  <2>15. SleepListOrdered'
    <3>1. q # <<>> /\ Head(q) = q[1]
      BY <2>7, SeqEmpty
    <3>2. \A i, j \in 1..Len(q) : i < j => alarm'[q[i]] <= alarm'[q[j]]
      BY ZenonT(60), <2>7, <2>13 DEF new
    <3>3. earliest' = alarm'[Head(q)]
      BY ZenonT(60), <3>1, <2>14 DEF new
    <3> QED BY ZenonT(60), <3>1, <3>2, <3>3, <2>7 DEF SleepListOrdered
  <2>16. Clock!FallAsleep(current, a)
    <3>1. Asleep' = Asleep \cup {<<current, a>>}
      <4>1. Asleep' = {<<t, alarm'[t]>> : t \in Elems(sleep_list) \cup {current}}
        BY ZenonT(60), <2>7 DEF Asleep
      <4> QED BY ZenonT(60), <4>1, <2>8 DEF Asleep
    <3>2. \A x \in Asleep : x[1] # current
      <4> SUFFICES ASSUME NEW x \in Asleep PROVE x[1] # current
        OBVIOUS
      <4>1. PICK t \in Elems(sleep_list) : x = <<t, alarm[t]>>
        BY ZenonT(60) DEF Asleep
      <4>2. x[1] = t
        BY <4>1
      <4> QED BY ZenonT(60), <4>2
    <3> QED BY ZenonT(60), <3>1, <3>2, <2>5 DEF Clock!FallAsleep
  <2>17. a > ticks \/ a <= ticks
    <3>1. ticks \in 0..MaxTicks
      BY ZenonT(60) DEF TypeOK
    <3> QED BY <3>1
  <2>18. Clock!Sleep(current, a) \/ Clock!SleepLate(current, a)
    BY ZenonT(60), <2>16, <2>17 DEF Clock!Sleep, Clock!SleepLate
  <2> QED BY ZenonT(60), <2>1, <2>2, <2>15, <2>18 DEF ClockStep, Clock!Next
(* init_thread clears the alarm of a page that does not sleep.              *)
<1>ClockClears.
    ASSUME TypeOK, Running, SleepListOrdered, NEW p \in Threads \ Elems(sleep_list),
           alarm' = [alarm EXCEPT ![p] = 0],
           UNCHANGED <<sleep_list, earliest, ticks>>
    PROVE  SleepListOrdered' /\ ClockStep
  <2> USE <1>ClockClears
  <2>1. sleep_list \in Seq(Threads) /\ alarm \in [Threads -> Int]
    BY DEF TypeOK
  <2>2. \A t \in Elems(sleep_list) : alarm'[t] = alarm[t]
    BY <2>1, ElemsSubset
  <2>3. \A i \in 1..Len(sleep_list) : alarm'[sleep_list[i]] = alarm[sleep_list[i]]
    BY ZenonT(60), <2>2, ElemsPosition
  <2>4. sleep_list # <<>> => alarm'[Head(sleep_list)] = alarm[Head(sleep_list)]
    BY ZenonT(60), <2>1, <2>2, ElemsNonempty
  <2>5. SleepListOrdered'
    <3>1. \A i, j \in 1..Len(sleep_list) :
             i < j => alarm'[sleep_list[i]] <= alarm'[sleep_list[j]]
      <4>1. \A i, j \in 1..Len(sleep_list) :
               i < j => alarm[sleep_list[i]] <= alarm[sleep_list[j]]
        BY ZenonT(60) DEF SleepListOrdered
      <4> QED BY ZenonT(60), <4>1, <2>3
    <3>2. IF sleep_list = <<>> THEN earliest >= ListTail
          ELSE earliest = alarm'[Head(sleep_list)]
      BY ZenonT(60), <2>4 DEF SleepListOrdered
    <3> QED BY ZenonT(60), <3>1, <3>2 DEF SleepListOrdered
  <2>6. Asleep' = Asleep
    BY ZenonT(60), <2>2 DEF Asleep
  <2> QED BY ZenonT(60), <2>5, <2>6 DEF ClockStep
(* NoLostWakeup says there is one when one is needed.                       *)
<1>TakersFound.
    NoLostWakeup <=> (Running => \A s \in Semas :
      value[s] > 0 /\ waiters[s] # <<>> => \E t \in Threads : Taker(t, s))
  <2>1. ASSUME NEW s \in Semas
        PROVE  (\E t \in Threads : Taker(t, s)) <=>
               \/ \E t \in Threads : /\ lk[t] = s /\ pc[t] \in {"down", "wake"}
                                     /\ t \notin Elems(waiters[s])
               \/ s = "pool" /\ \E t \in Threads : /\ pc[t] = "reap"
                                                   /\ t \notin Elems(waiters[s])
    BY ZenonT(60) DEF Taker
  <2> QED BY ZenonT(60), <2>1 DEF NoLostWakeup
(* NoLostWakeup from that.                                                  *)
<1>ServedWakes.
    ASSUME NoLostWakeup, Running, \A s \in Semas : Served(s)
    PROVE  NoLostWakeup'
  <2> USE <1>ServedWakes
  <2>1. \A s \in Semas :
           value[s] > 0 /\ waiters[s] # <<>> => \E t \in Threads : Taker(t, s)
    BY ZenonT(60), <1>TakersFound
  <2>2. \A s \in Semas :
           value'[s] > 0 /\ waiters'[s] # <<>> => \E t \in Threads : Taker(t, s)'
    BY ZenonT(60), <2>1 DEF Served
  <2> QED BY ZenonT(60), <2>2 DEF NoLostWakeup, Taker
(* A step of one thread that takes nothing and does not give up taking.     *)
<1>LocalWakes.
    ASSUME NoLostWakeup, Running, NEW me \in Threads, OthersSame(me),
           value' = value, waiters' = waiters,
           pc[me] \in {"down", "wake", "reap"} => pc'[me] = pc[me] /\ lk'[me] = lk[me]
    PROVE  NoLostWakeup'
  <2> USE <1>LocalWakes
  <2>1. ASSUME NEW s \in Semas PROVE Served(s)
    <3>1. \A t \in Threads : Taker(t, s) => Taker(t, s)'
      BY ZenonT(60) DEF Taker, OthersSame
    <3> QED BY ZenonT(60), <3>1 DEF Served
  <2> QED BY ZenonT(60), <2>1, <1>ServedWakes
(* Such a step leaks no page, and keeps the alarm times and who may wait    *)
(* for idle_started.                                                        *)
<1>HoldsPages.
    ASSUME TypeOK, NoLeak, AlarmsKnown, OnlyMainStarts, NEW me \in Threads, Holds(me)
    PROVE  NoLeak' /\ AlarmsKnown' /\ OnlyMainStarts'
  <2> USE <1>HoldsPages
  <2>1. ASSUME NEW t \in used_map'
        PROVE  pc'[t] # "none" \/ \E c \in Threads : HasPage(c)' /\ page'[c] = t
    <3>1. CASE t \in used_map
      <4>0. t \in Threads
        BY ZenonT(60), <3>1, PoolFacts DEF TypeOK
      <4>1. CASE pc[t] # "none"
        BY ZenonT(60), <4>0, <4>1 DEF Holds, OthersSame
      <4>2. CASE \E c \in Threads : HasPage(c) /\ page[c] = t
        <5>1. PICK c \in Threads : HasPage(c) /\ page[c] = t
          BY ZenonT(60), <4>2
        <5>2. HasPage(c)' /\ page'[c] = page[c]
          BY ZenonT(60), <5>1 DEF Holds, OthersSame, HasPage
        <5> QED BY ZenonT(60), <5>1, <5>2
      <4> QED BY ZenonT(60), <3>1, <4>1, <4>2 DEF NoLeak
    <3> QED BY ZenonT(60), <3>1 DEF Holds
  <2>2. NoLeak'
    BY ZenonT(60), <2>1 DEF NoLeak
  <2>3. AlarmsKnown'
    BY ZenonT(60) DEF AlarmsKnown, Holds, OthersSame
  <2>4. OnlyMainStarts'
    BY ZenonT(60) DEF OnlyMainStarts, Holds, OthersSame
  <2> QED BY ZenonT(60), <2>2, <2>3, <2>4
(* A step of the running thread alone that touches neither the clock nor a  *)
(* semaphore.                                                               *)
<1>LocalServes.
    ASSUME IInv, ServiceInv, Running, NEW me \in Threads, Holds(me),
           pc[me] \notin {"down", "wake", "reap"},
           UNCHANGED <<sleep_list, alarm, earliest, ticks, value, waiters>>
    PROVE  ServiceInv' /\ ClockStep
  <2> USE <1>LocalServes
  <2>1. /\ TypeOK /\ SleepListOrdered /\ NoLostWakeup
        /\ NoLeak /\ AlarmsKnown /\ OnlyMainStarts
    BY ZenonT(60) DEF IInv, ServiceInv
  <2>2. SleepListOrdered' /\ ClockStep
    BY ZenonT(60), <2>1, <1>ClockSame
  <2>3. OthersSame(me)
    BY ZenonT(60) DEF Holds
  <2>4. NoLostWakeup'
    BY ZenonT(60), <2>1, <2>3, <1>LocalWakes
  <2>5. NoLeak' /\ AlarmsKnown' /\ OnlyMainStarts'
    BY ZenonT(60), <2>1, <1>HoldsPages
  <2> QED BY ZenonT(60), <2>2, <2>4, <2>5 DEF ServiceInv
(* timer_sleep adds the duration to a tick.                                 *)
<1>TimerSleepServes.
    ASSUME IInv, ServiceInv, NEW d \in Durations, timer_sleep(d)
    PROVE  ServiceInv' /\ ClockStep
  <2> USE <1>TimerSleepServes
  <2>1. /\ Running /\ pc[current] = "run"
        /\ pc' = [pc EXCEPT ![current] = "sleep"]
        /\ val' = [val EXCEPT ![current] = ticks + d]
        /\ UNCHANGED <<sleep_list, alarm, earliest, ticks, used_map, value, waiters, lk, page>>
    BY DEF timer_sleep, At, Goto, Running, schedVars, alarmVars, lockVars, tidVars
  <2>2. PICK me \in Threads : me = current
    BY DEF IInv, TypeOK
  <2>3. /\ pc'[me] = "sleep" /\ val'[me] = ticks + d /\ OthersSame(me)
    BY ZenonT(60), <2>1, <2>2 DEF IInv, TypeOK, OthersSame
  <2>4. ticks + d \in AlarmTimes
    BY DEF IInv, TypeOK, AlarmTimes
  <2>5. Holds(me)
    BY ZenonT(60), <2>1, <2>2, <2>3, <2>4 DEF Holds, HasPage
  <2> QED BY ZenonT(60), <2>1, <2>2, <2>5, <1>LocalServes
(* They keep the invariant. *)
<1>LocalStepsServe.
    ASSUME IInv, ServiceInv, LocalSteps
    PROVE  ServiceInv' /\ ClockStep
  <2> USE <1>LocalStepsServe
  <2>1. PICK me \in Threads : me = current
    BY DEF IInv, TypeOK
  <2>2. /\ pc \in [Threads -> Labels] /\ lk \in [Threads -> Semas]
        /\ page \in [Threads -> Pool \cup {NULL}] /\ val \in [Threads -> Int]
    BY ZenonT(60) DEF IInv, TypeOK
  <2>3. /\ Running
        /\ UNCHANGED <<sleep_list, alarm, earliest, ticks, value, waiters>>
    <3>1. /\ Running /\ UNCHANGED alarmVars
          /\ UNCHANGED <<ticks, value, waiters>>
      BY ZenonT(60) DEF LocalSteps, thread_create, lock_acquire, CriticalRead,
         CriticalWrite, lock_release, idle_init, idle, At, Running, lockVars
    <3> QED BY ZenonT(60), <3>1 DEF alarmVars
  <2>4. CASE thread_create
    <3>1. /\ pc[me] = "run" /\ pc' = [pc EXCEPT ![me] = "down"]
          /\ lk' = [lk EXCEPT ![me] = "pool"] /\ UNCHANGED <<page, val, used_map>>
      BY ZenonT(60), <2>1, <2>4 DEF thread_create, At, Goto
    <3>2. pc'[me] = "down" /\ lk'[me] = "pool" /\ OthersSame(me)
      BY ZenonT(60), <3>1, <2>2 DEF OthersSame
    <3>3. Holds(me)
      BY ZenonT(60), <3>1, <3>2 DEF Holds, HasPage
    <3> QED BY ZenonT(60), <3>1, <3>3, <2>3, <1>LocalServes
  <2>5. CASE lock_acquire
    <3>1. /\ pc[me] = "hold" /\ pc' = [pc EXCEPT ![me] = "read"]
          /\ UNCHANGED <<lk, page, val, used_map>>
      BY ZenonT(60), <2>1, <2>5 DEF lock_acquire, At, Goto, locVars
    <3>2. pc'[me] = "read" /\ OthersSame(me)
      BY ZenonT(60), <3>1, <2>2 DEF OthersSame
    <3>3. Holds(me)
      BY ZenonT(60), <3>1, <3>2 DEF Holds, HasPage
    <3> QED BY ZenonT(60), <3>1, <3>3, <2>3, <1>LocalServes
  <2>6. CASE CriticalRead
    <3>1. /\ pc[me] = "read" /\ pc' = [pc EXCEPT ![me] = "write"]
          /\ lk' = lk /\ used_map' = used_map
          /\ \/ lk[me] = "pool" /\ page' = [page EXCEPT ![me] = LowestFree] /\ val' = val
             \/ lk[me] = "tid" /\ val' = [val EXCEPT ![me] = next_tid] /\ page' = page
      BY ZenonT(60), <2>1, <2>6 DEF CriticalRead, At, Goto
    <3>2. pc'[me] = "write" /\ OthersSame(me)
      BY ZenonT(60), <3>1, <2>2 DEF OthersSame
    <3>3. Holds(me)
      BY ZenonT(60), <3>1, <3>2 DEF Holds, HasPage
    <3> QED BY ZenonT(60), <3>1, <3>3, <2>3, <1>LocalServes
  <2>7. CASE CriticalWrite
    <3>1. /\ pc[me] = "write" /\ pc' = [pc EXCEPT ![me] = "clear"]
          /\ UNCHANGED <<lk, page>>
          /\ \/ /\ lk[me] = "pool" /\ val' = val
                /\ used_map' = used_map \cup ({page[me]} \ {NULL})
             \/ /\ lk[me] = "tid" /\ val' = [val EXCEPT ![me] = 0]
                /\ used_map' = used_map
      BY ZenonT(60), <2>1, <2>7 DEF CriticalWrite, At, Goto
    <3>2. pc'[me] = "clear" /\ OthersSame(me)
      BY ZenonT(60), <3>1, <2>2 DEF OthersSame
    <3>3. Holds(me)
      BY ZenonT(60), <3>1, <3>2 DEF Holds, HasPage
    <3> QED BY ZenonT(60), <3>1, <3>3, <2>3, <1>LocalServes
  <2>8. CASE lock_release
    <3>1. /\ pc[me] = "clear" /\ pc' = [pc EXCEPT ![me] = "up"]
          /\ UNCHANGED <<lk, page, val, used_map>>
      BY ZenonT(60), <2>1, <2>8 DEF lock_release, At, Goto, locVars
    <3>2. pc'[me] = "up" /\ OthersSame(me)
      BY ZenonT(60), <3>1, <2>2 DEF OthersSame
    <3>3. Holds(me)
      BY ZenonT(60), <3>1, <3>2 DEF Holds, HasPage
    <3> QED BY ZenonT(60), <3>1, <3>3, <2>3, <1>LocalServes
  <2>9. CASE idle_init
    <3>1. /\ pc[me] = "idle_init" /\ pc' = [pc EXCEPT ![me] = "up"]
          /\ lk' = [lk EXCEPT ![me] = "idle"] /\ UNCHANGED <<page, val, used_map>>
      BY ZenonT(60), <2>1, <2>9 DEF idle_init, At, Goto
    <3>2. pc'[me] = "up" /\ OthersSame(me)
      BY ZenonT(60), <3>1, <2>2 DEF OthersSame
    <3>3. Holds(me)
      BY ZenonT(60), <3>1, <3>2 DEF Holds, HasPage
    <3> QED BY ZenonT(60), <3>1, <3>3, <2>3, <1>LocalServes
  <2>10. CASE idle
    <3>1. /\ pc[me] = "idle_block" /\ pc' = [pc EXCEPT ![me] = "idle_hlt"]
          /\ UNCHANGED <<lk, page, val, used_map>>
      BY ZenonT(60), <2>1, <2>10 DEF idle, At, Goto, locVars
    <3>2. pc'[me] = "idle_hlt" /\ OthersSame(me)
      BY ZenonT(60), <3>1, <2>2 DEF OthersSame
    <3>3. Holds(me)
      BY ZenonT(60), <3>1, <3>2 DEF Holds, HasPage
    <3> QED BY ZenonT(60), <3>1, <3>3, <2>3, <1>LocalServes
  <2> QED BY ZenonT(60), <2>4, <2>5, <2>6, <2>7, <2>8, <2>9, <2>10 DEF LocalSteps
(* PlaceInv says so.                                                        *)
<1>ParkedThreads.
    ASSUME PlaceInv, Running PROVE Parked
  <2> USE <1>ParkedThreads
  <2>1. /\ InSleep(status, Elems(sleep_list), pc) /\ InWait(status, WaitSets, pc, lk)
        /\ \A t \in Threads : status[t] = "RUNNING" <=> t = current
        /\ \A s \in Semas : NoDup(waiters[s])
    BY ZenonT(60) DEF PlaceInv, Arranged
  <2>2. \A s \in Semas : WaitSets[s] = Elems(waiters[s])
    BY ZenonT(60) DEF WaitSets
  <2>3. \A t \in Elems(sleep_list) : t # current /\ pc[t] = "run"
    BY ZenonT(60), <2>1 DEF InSleep
  <2>4. ASSUME NEW s \in Semas, NEW t \in Elems(waiters[s])
        PROVE  t \in Threads /\ t # current /\ WaitsFor(pc, lk, t, s)
    BY ZenonT(60), <2>1, <2>2 DEF InWait
  <2> QED BY ZenonT(60), <2>1, <2>3, <2>4 DEF Parked
(* list_pop_front, k times: the first element is gone.                      *)
<1>FirstPopped.
    ASSUME NEW S, NEW w \in Seq(S), NoDup(w), NEW k \in 1..Len(w)
    PROVE  Head(w) \notin Elems(Rest(w, k))
  <2> USE <1>FirstPopped
  <2>1. k \in 0..Len(w) /\ Len(w) \in Nat
    BY SeqLen
  <2>2. Elems(Rest(w, k)) = Elems(w) \ Elems(Popped(w, k))
    BY ZenonT(60), <2>1, NoDupPopped
  <2>3. Len(Popped(w, k)) = k /\ Popped(w, k)[1] = w[1]
    BY <2>1, ElemsPopped
  <2>4. Head(w) = w[1]
    BY <2>1
  <2>5. 1 \in 1..Len(Popped(w, k)) /\ Head(w) = Popped(w, k)[1]
    BY <2>3, <2>4
  <2>6. Head(w) \in Elems(Popped(w, k))
    BY ZenonT(60), <2>5, ElemsPosition
  <2> QED BY ZenonT(60), <2>2, <2>6
(* Popping nothing.                                                         *)
<1>NonePopped.
    ASSUME NEW S, NEW w \in Seq(S), NoDup(w)
    PROVE  /\ Elems(Rest(w, 0)) = Elems(w)
           /\ w = <<>> => Rest(w, 0) = <<>>
  <2> USE <1>NonePopped
  <2>1. 0 \in 0..Len(w)
    BY SeqLen
  <2>2. /\ Elems(Rest(w, 0)) = Elems(w) \ Elems(Popped(w, 0))
    BY ZenonT(60), <2>1, NoDupPopped
  <2>3. Len(Popped(w, 0)) = 0 /\ Len(Rest(w, 0)) = Len(w) /\ Rest(w, 0) \in Seq(S)
    BY <2>1, ElemsPopped, SeqLen
  <2>4. Elems(Popped(w, 0)) = {}
    BY <2>3 DEF Elems
  <2>5. w = <<>> => Rest(w, 0) = <<>>
    BY <2>3, SeqEmpty
  <2> QED BY ZenonT(60), <2>2, <2>4, <2>5
(* The first of the threads that wait for s, once it is off the list, is    *)
(* about to take s.                                                         *)
<1>WokenTakes.
    ASSUME TypeOK, Parked, NEW s \in Semas, waiters[s] # <<>>,
           NEW k \in 1..Len(waiters[s]), waiters'[s] = Rest(waiters[s], k),
           \A t \in Threads : t # current /\ pc[t] \in {"wake", "reap"} =>
              pc'[t] = pc[t] /\ lk'[t] = lk[t]
    PROVE  \E t \in Threads : Taker(t, s)'
  <2> USE <1>WokenTakes
  <2>1. waiters[s] \in Seq(Threads) /\ NoDup(waiters[s])
    BY ZenonT(60) DEF TypeOK, Parked
  <2>2. Head(waiters[s]) \in Elems(waiters[s])
    BY ZenonT(60), <2>1, ElemsNonempty
  <2>3. PICK t \in Elems(waiters[s]) : t = Head(waiters[s])
    BY ZenonT(60), <2>2
  <2>4. t \in Threads /\ t # current /\ WaitsFor(pc, lk, t, s)
    BY ZenonT(60) DEF Parked
  <2>5. t \notin Elems(waiters'[s])
    BY ZenonT(60), <2>1, <2>3, <1>FirstPopped
  <2>6. pc'[t] = pc[t] /\ lk'[t] = lk[t]
    BY ZenonT(60), <2>4 DEF WaitsFor
  <2> QED BY ZenonT(60), <2>4, <2>5, <2>6 DEF Taker, WaitsFor
(* thread_sleep.                                                            *)
<1>ThreadSleepServes.
    ASSUME HaveMinima, IInv, PlaceInv, ServiceInv, thread_sleep
    PROVE  ServiceInv' /\ ClockStep
  <2> USE <1>ThreadSleepServes
  <2>1. /\ Running /\ pc[current] = "sleep" /\ pc' = [pc EXCEPT ![current] = "run"]
        /\ val' = [val EXCEPT ![current] = 0]
        /\ UNCHANGED <<used_map, value, waiters, lk, page>>
    BY ZenonT(60) DEF thread_sleep, At, Goto, Running, lockVars
  <2>2. /\ TypeOK /\ current \in Threads /\ SleepListOrdered /\ NoLostWakeup
        /\ NoLeak /\ AlarmsKnown /\ OnlyMainStarts
    BY ZenonT(60), <2>1 DEF IInv, TypeOK, ServiceInv
  <2>3. current \notin Elems(sleep_list)
    BY ZenonT(60), <2>1, <1>ParkedThreads DEF Parked
  <2>4. val[current] \in AlarmTimes
    BY ZenonT(60), <2>1, <2>2 DEF AlarmsKnown
  <2>5. SleepListOrdered' /\ ClockStep
    BY ZenonT(60), <2>1, <2>2, <2>3, <2>4, <1>ClockSleep
  <2>6. PICK me \in Threads : me = current
    BY ZenonT(60), <2>2
  <2>7. pc'[me] = "run" /\ OthersSame(me)
    BY ZenonT(60), <2>1, <2>2, <2>6 DEF TypeOK, OthersSame
  <2>8. Holds(me)
    BY ZenonT(60), <2>1, <2>6, <2>7 DEF Holds, HasPage
  <2>9. NoLeak' /\ AlarmsKnown' /\ OnlyMainStarts'
    BY ZenonT(60), <2>2, <2>8, <1>HoldsPages
  <2>10. NoLostWakeup'
    BY ZenonT(60), <2>1, <2>2, <2>6, <2>7, <1>LocalWakes
  <2> QED BY ZenonT(60), <2>5, <2>9, <2>10 DEF ServiceInv
(* sema_down: waits when the semaphore is zero, and takes it when it is     *)
(* positive, which leaves a lock's semaphore at zero and finds nobody else  *)
(* waiting for idle_started.                                                *)
<1>SemaDownServes.
    ASSUME IInv, PlaceInv, ServiceInv, sema_down
    PROVE  ServiceInv' /\ ClockStep
  <2> USE <1>SemaDownServes
  <2>1. PICK me \in Threads : me = current
    BY DEF IInv, TypeOK
  <2>2. PICK s \in Semas : s = lk[me]
    BY DEF IInv, TypeOK
  <2>3. /\ Running /\ pc[me] \in {"down", "wake"}
        /\ UNCHANGED <<sleep_list, alarm, earliest, ticks, used_map, lk, page, val>>
        /\ \/ /\ value[s] = 0 /\ value' = value
              /\ waiters' = [waiters EXCEPT ![s] = Append(waiters[s], current)]
              /\ pc' = [pc EXCEPT ![me] = "wake"]
           \/ /\ value[s] > 0 /\ value' = [value EXCEPT ![s] = value[s] - 1]
              /\ waiters' = waiters
              /\ pc' = [pc EXCEPT ![me] = IF s = "idle" THEN "run" ELSE "hold"]
    BY ZenonT(60), <2>1, <2>2 DEF sema_down, At, Goto, Running, alarmVars, locVars
  <2>4. /\ TypeOK /\ SleepListOrdered /\ NoLostWakeup /\ LockExclusion
        /\ NoLeak /\ AlarmsKnown /\ OnlyMainStarts /\ Parked
    BY ZenonT(60), <2>3, <1>ParkedThreads DEF IInv, ServiceInv
  <2>5. /\ waiters \in [Semas -> Seq(Threads)] /\ value \in [Semas -> Nat]
        /\ pc \in [Threads -> Labels]
    BY ZenonT(60), <2>4 DEF TypeOK
  <2>6. /\ OthersSame(me)
        /\ pc'[me] = "wake" \/ pc'[me] = (IF s = "idle" THEN "run" ELSE "hold")
    BY ZenonT(60), <2>3, <2>5 DEF OthersSame
  <2>7. Holds(me)
    BY ZenonT(60), <2>2, <2>3, <2>4, <2>6 DEF Holds, HasPage, OnlyMainStarts
  <2>8. NoLeak' /\ AlarmsKnown' /\ OnlyMainStarts'
    BY ZenonT(60), <2>4, <2>7, <1>HoldsPages
  <2>9. SleepListOrdered' /\ ClockStep
    BY ZenonT(60), <2>3, <2>4, <1>ClockSame
  <2>10. ASSUME NEW r \in Semas, r # s PROVE Served(r)
    <3>1. value'[r] = value[r] /\ waiters'[r] = waiters[r]
      BY ZenonT(60), <2>3, <2>5, <2>10
    <3>2. ASSUME NEW t \in Threads, Taker(t, r) PROVE Taker(t, r)'
      <4>1. t # me
        BY ZenonT(60), <3>2, <2>2, <2>3, <2>10 DEF Taker
      <4> QED BY ZenonT(60), <3>1, <3>2, <4>1, <2>6 DEF Taker, OthersSame
    <3> QED BY ZenonT(60), <3>1, <3>2 DEF Served
  <2>11. Served(s)
    <3>1. CASE value[s] = 0 /\ value' = value
      <4>1. ~ (value'[s] > 0)
        BY <3>1
      <4> QED BY ZenonT(60), <4>1 DEF Served
    <3>2. CASE value[s] > 0 /\ value' = [value EXCEPT ![s] = value[s] - 1] /\ waiters' = waiters
      <4>1. CASE s \in Locks
        <5>1. value[s] = 0 \/ value[s] = 1
          BY ZenonT(60), <4>1, <2>3, <2>4 DEF LockExclusion
        <5>2. ~ (value'[s] > 0)
          BY <5>1, <3>2, <2>5
        <5> QED BY ZenonT(60), <5>2 DEF Served
      <4>2. CASE s = "idle"
        <5>1. me = Main
          BY ZenonT(60), <4>2, <2>2, <2>3, <2>4 DEF OnlyMainStarts
        <5>2. Elems(waiters[s]) = {}
          <6>1. ASSUME NEW t \in Elems(waiters[s]) PROVE FALSE
            <7>1. t \in Threads /\ t # me /\ pc[t] = "wake" /\ lk[t] = "idle"
              BY ZenonT(60), <4>2, <2>1, <2>4 DEF Parked, WaitsFor
            <7> QED BY ZenonT(60), <7>1, <5>1, <2>4 DEF OnlyMainStarts
          <6> QED BY ZenonT(60), <6>1
        <5>3. waiters[s] = <<>>
          BY ZenonT(60), <5>2, <2>5, ElemsNonempty
        <5> QED BY ZenonT(60), <5>3, <3>2 DEF Served
      <4> QED BY ZenonT(60), <4>1, <4>2 DEF Semas
    <3> QED BY ZenonT(60), <3>1, <3>2, <2>3
  <2>12. NoLostWakeup'
    BY ZenonT(60), <2>3, <2>4, <2>10, <2>11, <1>ServedWakes
  <2> QED BY ZenonT(60), <2>8, <2>9, <2>12 DEF ServiceInv
(* sema_up, with what thread_create does next: the thread it wakes will     *)
(* take the semaphore.                                                      *)
<1>SemaUpServes.
    ASSUME IInv, PlaceInv, ServiceInv, sema_up
    PROVE  ServiceInv' /\ ClockStep
  <2> USE <1>SemaUpServes
  <2>1. PICK me \in Threads : me = current
    BY DEF IInv, TypeOK
  <2>2. PICK s \in Semas : s = lk[me]
    BY DEF IInv, TypeOK
  <2>3. /\ Running /\ pc[me] = "up"
        /\ value' = [value EXCEPT ![s] = value[s] + 1]
        /\ waiters' = [waiters EXCEPT ![s] = Rest(waiters[s], Len(Unblocked(s)))]
        /\ UNCHANGED <<sleep_list, earliest, ticks, used_map, page, val>>
        /\ \/ /\ s = "pool" /\ page[me] # NULL
              /\ alarm' = [alarm EXCEPT ![page[me]] = 0]
              /\ pc' = [pc EXCEPT ![me] = "down"] /\ lk' = [lk EXCEPT ![me] = "tid"]
           \/ /\ ~ (s = "pool" /\ page[me] # NULL)
              /\ pc' = [pc EXCEPT ![me] = CASE s = "pool" -> "run"
                                            [] s = "tid" -> "insert"
                                            [] OTHER -> "idle_block"]
              /\ UNCHANGED <<alarm, lk>>
    BY ZenonT(60), <2>1, <2>2 DEF sema_up, init_thread, At, Goto, Running
  <2>4. /\ TypeOK /\ SleepListOrdered /\ NoLostWakeup /\ PageInv
        /\ NoLeak /\ AlarmsKnown /\ OnlyMainStarts /\ Parked
    BY ZenonT(60), <2>3, <1>ParkedThreads DEF IInv, ServiceInv
  <2>5. /\ waiters \in [Semas -> Seq(Threads)] /\ value \in [Semas -> Nat]
        /\ pc \in [Threads -> Labels] /\ lk \in [Threads -> Semas]
        /\ page[me] \in Pool \cup {NULL}
    BY ZenonT(60), <2>4 DEF TypeOK
  <2>6. OthersSame(me)
    BY ZenonT(60), <2>3, <2>5 DEF OthersSame
  <2>7. \/ s = "pool" /\ page[me] # NULL /\ pc'[me] = "down" /\ lk'[me] = "tid"
        \/ s = "pool" /\ page[me] = NULL /\ pc'[me] = "run" /\ lk'[me] = lk[me]
        \/ s = "tid" /\ pc'[me] = "insert" /\ lk'[me] = lk[me]
        \/ s = "idle" /\ pc'[me] = "idle_block" /\ lk'[me] = lk[me]
    <3>1. CASE s = "pool" /\ page[me] # NULL
      BY ZenonT(60), <3>1, <2>3, <2>5
    <3>2. CASE ~ (s = "pool" /\ page[me] # NULL)
      <4>1. /\ pc'[me] = CASE s = "pool" -> "run" [] s = "tid" -> "insert"
                           [] OTHER -> "idle_block"
            /\ lk'[me] = lk[me]
        BY ZenonT(60), <3>2, <2>3, <2>5
      <4>2. s = "pool" \/ s = "tid" \/ s = "idle"
        BY ZenonT(60) DEF Semas, Locks
      <4> QED BY <3>2, <4>1, <4>2
    <3> QED BY ZenonT(60), <3>1, <3>2
  <2>8. Holds(me)
    BY ZenonT(60), <2>2, <2>3, <2>6, <2>7 DEF Holds, HasPage
  <2>9. NoLeak' /\ AlarmsKnown' /\ OnlyMainStarts'
    BY ZenonT(60), <2>4, <2>8, <1>HoldsPages
  <2>10. SleepListOrdered' /\ ClockStep
    <3>1. CASE s = "pool" /\ page[me] # NULL
      <4>1. HasPage(me)
        BY ZenonT(60), <3>1, <2>2, <2>3 DEF HasPage
      <4>2. PICK p \in Threads : p = page[me] /\ pc[p] = "none"
        BY ZenonT(60), <3>1, <4>1, <2>4, <2>5, PoolFacts DEF PageInv
      <4>3. p \in Threads \ Elems(sleep_list)
        BY ZenonT(60), <4>2, <2>4 DEF Parked
      <4>4. alarm' = [alarm EXCEPT ![p] = 0]
        BY ZenonT(60), <3>1, <4>2, <2>3
      <4> QED BY ZenonT(60), <4>3, <4>4, <2>3, <2>4, <1>ClockClears
    <3>2. CASE ~ (s = "pool" /\ page[me] # NULL)
      <4>1. alarm' = alarm
        BY ZenonT(60), <3>2, <2>3
      <4> QED BY ZenonT(60), <4>1, <2>3, <2>4, <1>ClockSame
    <3> QED BY ZenonT(60), <3>1, <3>2
  <2>11. ASSUME NEW r \in Semas, r # s PROVE Served(r)
    <3>1. value'[r] = value[r] /\ waiters'[r] = waiters[r]
      BY ZenonT(60), <2>3, <2>5, <2>11
    <3>2. ASSUME NEW t \in Threads, Taker(t, r) PROVE Taker(t, r)'
      <4>1. t # me
        BY ZenonT(60), <3>2, <2>3 DEF Taker
      <4> QED BY ZenonT(60), <3>1, <3>2, <4>1, <2>6 DEF Taker, OthersSame
    <3> QED BY ZenonT(60), <3>1, <3>2 DEF Served
  <2>12. Served(s)
    <3>0. waiters'[s] = Rest(waiters[s], Len(Unblocked(s))) /\ waiters[s] \in Seq(Threads)
          /\ NoDup(waiters[s])
      BY ZenonT(60), <2>3, <2>4, <2>5 DEF Parked
    <3>1. CASE waiters[s] = <<>>
      <4>1. Len(Unblocked(s)) = 0
        BY <3>1 DEF Unblocked
      <4>2. waiters'[s] = <<>>
        BY ZenonT(60), <3>0, <3>1, <4>1, <1>NonePopped
      <4> QED BY ZenonT(60), <4>2 DEF Served
    <3>2. CASE waiters[s] # <<>>
      <4>1. Len(Unblocked(s)) = 1
        BY <3>2 DEF Unblocked
      <4>2. PICK k \in 1..Len(waiters[s]) : k = 1
        BY <3>0, <3>2, SeqEmpty
      <4>3. waiters'[s] = Rest(waiters[s], k)
        BY ZenonT(60), <3>0, <4>1, <4>2
      <4>4. \A t \in Threads : t # current /\ pc[t] \in {"wake", "reap"} =>
               pc'[t] = pc[t] /\ lk'[t] = lk[t]
        BY ZenonT(60), <2>1, <2>6 DEF OthersSame
      <4>5. \E t \in Threads : Taker(t, s)'
        BY ZenonT(60), <3>2, <4>3, <4>4, <2>4, <1>WokenTakes
      <4> QED BY ZenonT(60), <4>5 DEF Served
    <3> QED BY ZenonT(60), <3>1, <3>2
  <2>13. NoLostWakeup'
    BY ZenonT(60), <2>3, <2>4, <2>11, <2>12, <1>ServedWakes
  <2> QED BY ZenonT(60), <2>9, <2>10, <2>13 DEF ServiceInv
(* thread_unblock of the thread that has been created: its page is the      *)
(* thread's own from now on.                                                *)
<1>ThreadUnblockServes.
    ASSUME IInv, ServiceInv, thread_unblock
    PROVE  ServiceInv' /\ ClockStep
  <2> USE <1>ThreadUnblockServes
  <2>1. PICK me \in Threads : me = current
    BY DEF IInv, TypeOK
  <2>2. /\ Running /\ pc[me] = "insert"
        /\ pc' = [pc EXCEPT ![me] = "run", ![page[me]] = "run"]
        /\ page' = [page EXCEPT ![me] = NULL, ![page[me]] = NULL]
        /\ val' = [val EXCEPT ![page[me]] = 0]
        /\ lk' = [lk EXCEPT ![me] = "pool", ![page[me]] = "pool"]
        /\ UNCHANGED <<sleep_list, alarm, earliest, ticks, used_map, value, waiters>>
    BY ZenonT(60), <2>1 DEF thread_unblock, At, Running, alarmVars, lockVars
  <2>3. /\ TypeOK /\ SleepListOrdered /\ NoLostWakeup /\ PageInv
        /\ NoLeak /\ AlarmsKnown /\ OnlyMainStarts
    BY ZenonT(60), <2>2 DEF IInv, ServiceInv
  <2>4. PICK p \in Threads : p = page[me] /\ pc[p] = "none"
    <3>1. page[me] # NULL /\ page[me] \in Pool \cup {NULL}
      BY ZenonT(60), <2>2, <2>3 DEF PageInv, TypeOK
    <3>2. HasPage(me)
      BY ZenonT(60), <3>1, <2>2 DEF HasPage
    <3> QED BY ZenonT(60), <3>1, <3>2, <2>3, PoolFacts DEF PageInv
  <2>5. /\ pc \in [Threads -> Labels] /\ lk \in [Threads -> Semas]
        /\ page \in [Threads -> Pool \cup {NULL}] /\ val \in [Threads -> Int]
    BY ZenonT(60), <2>3 DEF TypeOK
  <2>6. /\ pc'[me] = "run" /\ pc'[p] = "run"
        /\ \A t \in Threads : t # me /\ t # p =>
             pc'[t] = pc[t] /\ lk'[t] = lk[t] /\ page'[t] = page[t] /\ val'[t] = val[t]
    BY <2>2, <2>4, <2>5
  <2>7. NoLeak'
    <3>1. ASSUME NEW t \in used_map
          PROVE  pc'[t] # "none" \/ \E c \in Threads : HasPage(c)' /\ page'[c] = t
      <4>0. t \in Threads
        BY ZenonT(60), <2>3, PoolFacts DEF TypeOK
      <4>1. CASE pc[t] # "none" \/ t = p
        BY ZenonT(60), <4>0, <4>1, <2>6
      <4>2. CASE t # p /\ \E c \in Threads : HasPage(c) /\ page[c] = t
        <5>1. PICK c \in Threads : HasPage(c) /\ page[c] = t
          BY ZenonT(60), <4>2
        <5>2. c # me /\ c # p
          BY ZenonT(60), <4>2, <5>1, <2>4 DEF HasPage
        <5>3. HasPage(c)' /\ page'[c] = t
          BY ZenonT(60), <5>1, <5>2, <2>6 DEF HasPage
        <5> QED BY ZenonT(60), <5>3
      <4> QED BY ZenonT(60), <4>1, <4>2, <2>3 DEF NoLeak
    <3> QED BY ZenonT(60), <3>1, <2>2 DEF NoLeak
  <2>8. AlarmsKnown'
    BY ZenonT(60), <2>3, <2>6 DEF AlarmsKnown
  <2>9. OnlyMainStarts'
    BY ZenonT(60), <2>3, <2>6 DEF OnlyMainStarts
  <2>10. ASSUME NEW s \in Semas PROVE Served(s)
    <3>1. ASSUME NEW t \in Threads, Taker(t, s) PROVE Taker(t, s)'
      <4>1. t # me /\ t # p
        BY ZenonT(60), <3>1, <2>2, <2>4 DEF Taker
      <4> QED BY ZenonT(60), <3>1, <4>1, <2>2, <2>6 DEF Taker
    <3> QED BY ZenonT(60), <3>1, <2>2 DEF Served
  <2>11. NoLostWakeup'
    BY ZenonT(60), <2>2, <2>3, <2>10, <1>ServedWakes
  <2>12. SleepListOrdered' /\ ClockStep
    BY ZenonT(60), <2>2, <2>3, <1>ClockSame
  <2> QED BY ZenonT(60), <2>7, <2>8, <2>9, <2>11, <2>12 DEF ServiceInv
(* thread_start marks a page and gives it to the idle thread.               *)
<1>ThreadStartServes.
    ASSUME IInv, ServiceInv, thread_start
    PROVE  ServiceInv' /\ ClockStep
  <2> USE <1>ThreadStartServes
  <2>1. PICK p : p = Least(Pool \ used_map)
    BY ZenonT(60)
  <2>2. /\ Running /\ pc[current] = "boot"
        /\ used_map' = used_map \cup {p}
        /\ pc' = [pc EXCEPT ![Main] = "down", ![p] = "idle_init"]
        /\ lk' = [lk EXCEPT ![Main] = "idle"]
        /\ UNCHANGED <<sleep_list, alarm, earliest, ticks, value, waiters>>
    BY ZenonT(60), <2>1 DEF thread_start, At, Running, alarmVars, lockVars
  <2>3. /\ TypeOK /\ SleepListOrdered /\ NoLostWakeup /\ BootInv
    BY ZenonT(60), <2>2 DEF IInv, ServiceInv
  <2>4. /\ used_map = {} /\ \A t \in Pool : pc[t] = "none"
        /\ pc[Main] = "boot"
    BY ZenonT(60), <2>2, <2>3 DEF BootInv, TypeOK
  <2>5. p \in Pool
    <3>1. Pool \ used_map = Pool /\ 1 \in Pool /\ \A t \in Pool : 1 <= t
      BY <2>4, PoolFacts DEF Pool
    <3> QED BY ZenonT(60), <3>1, <2>1, MinIsLeast
  <2>6. /\ pc'[p] = "idle_init" /\ pc'[Main] = "down"
        /\ \A t \in Pool : t # p => pc'[t] = "none"
    <3>1. pc \in [Threads -> Labels]
      BY ZenonT(60), <2>3 DEF TypeOK
    <3> QED BY <3>1, <2>2, <2>4, <2>5, PoolFacts
  <2>7. NoLeak'
    BY ZenonT(60), <2>2, <2>4, <2>6 DEF NoLeak
  <2>8. AlarmsKnown' /\ OnlyMainStarts'
    <3>1. \A t \in Threads : t = Main \/ pc'[t] \in {"idle_init", "none"}
      BY ZenonT(60), <2>6, PoolFacts
    <3> QED BY ZenonT(60), <3>1, <2>6 DEF AlarmsKnown, OnlyMainStarts
  <2>9. ASSUME NEW s \in Semas PROVE Served(s)
    <3>1. \A t \in Threads : pc[t] \in {"boot", "none"}
      BY ZenonT(60), <2>4, PoolFacts
    <3>2. \A t \in Threads : ~ Taker(t, s)
      BY ZenonT(60), <3>1 DEF Taker
    <3> QED BY ZenonT(60), <3>2, <2>2 DEF Served
  <2>10. NoLostWakeup'
    BY ZenonT(60), <2>2, <2>3, <2>9, <1>ServedWakes
  <2>11. SleepListOrdered' /\ ClockStep
    BY ZenonT(60), <2>2, <2>3, <1>ClockSame
  <2> QED BY ZenonT(60), <2>7, <2>8, <2>10, <2>11 DEF ServiceInv
(* do_schedule: the pages it frees are no longer marked, and when it leaves *)
(* the pool lock free with threads waiting for it, one of the threads it    *)
(* has woken will take the lock.                                            *)
<1>DoScheduleServes.
    ASSUME IInv, PlaceInv, ServiceInv, Running, SleepListOrdered',
           NEW new, NEW req, NEW st, NEW ready, NEW pcs,
           Switches(req, pcs), do_schedule(new, req, st, ready, pcs)
    PROVE  ServiceInv'
  <2> USE <1>DoScheduleServes
  <2>1. /\ TypeOK /\ NoLostWakeup /\ NoLeak /\ AlarmsKnown /\ OnlyMainStarts /\ Parked
    BY ZenonT(60), <1>ParkedThreads DEF IInv, ServiceInv
  <2>2. PICK w \in Seq(Threads) : w = waiters["pool"]
    BY <2>1 DEF TypeOK, Semas, Locks
  <2>3. PICK k : k = Least({Len(req), Len(w)})
    BY ZenonT(60)
  <2>4. /\ used_map' = used_map \ Elems(req)
        /\ waiters' = [waiters EXCEPT !["pool"] = Rest(w, k)]
        /\ pc' = [t \in Threads |-> IF t \in Elems(req) THEN "none" ELSE pcs[t]]
        /\ UNCHANGED <<value, lk, page, val>>
    BY ZenonT(60), <2>2, <2>3 DEF do_schedule, locVars
  <2>5. \A t \in Threads : pc'[t] = IF t \in Elems(req) THEN "none" ELSE pcs[t]
    BY ZenonT(60), <2>4
  <2>6. /\ \A t \in Threads :
             \/ pc'[t] = pc[t]
             \/ /\ pc[t] \in {"dead", "run", "reap", "idle_hlt"}
                /\ pc'[t] \in {"none", "dead", "idle_block"}
        /\ \A t \in Threads : pc'[t] = "none" => pc[t] = "none" \/ t \in Elems(req)
        /\ \A t \in Threads : pc[t] \in {"wake", "reap"} /\ t # current => pc'[t] = pc[t]
    <3>1. ASSUME NEW t \in Threads, t # current
          PROVE  /\ \/ pc'[t] = pc[t]
                    \/ /\ pc[t] \in {"dead", "run", "reap", "idle_hlt"}
                       /\ pc'[t] \in {"none", "dead", "idle_block"}
                 /\ pc'[t] = "none" => pc[t] = "none" \/ t \in Elems(req)
                 /\ pc[t] \in {"wake", "reap"} => pc'[t] = pc[t]
      BY ZenonT(60), <3>1, <2>5 DEF Switches
    <3>2. ASSUME NEW t \in Threads, t = current
          PROVE  /\ \/ pc'[t] = pc[t]
                    \/ /\ pc[t] \in {"dead", "run", "reap", "idle_hlt"}
                       /\ pc'[t] \in {"none", "dead", "idle_block"}
                 /\ pc'[t] = "none" => pc[t] = "none" \/ t \in Elems(req)
      BY ZenonT(60), <3>2, <2>5 DEF Switches
    <3> QED BY ZenonT(60), <3>1, <3>2
  <2>7. NoLeak'
    <3>1. ASSUME NEW t \in used_map'
          PROVE  pc'[t] # "none" \/ \E c \in Threads : HasPage(c)' /\ page'[c] = t
      <4>1. t \in used_map /\ t \in Threads /\ t \notin Elems(req)
        BY ZenonT(60), <2>1, <2>4, PoolFacts DEF TypeOK
      <4>2. CASE pc[t] # "none"
        BY ZenonT(60), <4>1, <4>2, <2>6
      <4>3. CASE \E c \in Threads : HasPage(c) /\ page[c] = t
        <5>1. PICK c \in Threads : HasPage(c) /\ page[c] = t
          BY ZenonT(60), <4>3
        <5>2. pc'[c] = pc[c]
          BY ZenonT(60), <5>1, <2>6 DEF HasPage
        <5>3. HasPage(c)' /\ page'[c] = t
          BY ZenonT(60), <5>1, <5>2, <2>4 DEF HasPage
        <5> QED BY ZenonT(60), <5>3
      <4> QED BY ZenonT(60), <4>1, <4>2, <4>3, <2>1 DEF NoLeak
    <3> QED BY ZenonT(60), <3>1 DEF NoLeak
  <2>8. AlarmsKnown'
    BY ZenonT(60), <2>1, <2>4, <2>6 DEF AlarmsKnown
  <2>9. OnlyMainStarts'
    BY ZenonT(60), <2>1, <2>4, <2>6 DEF OnlyMainStarts
  <2>10. waiters \in [Semas -> Seq(Threads)] /\ "pool" \in Semas
    BY ZenonT(60), <2>1 DEF TypeOK, Semas, Locks
  <2>11. ASSUME NEW s \in Semas, s # "pool" PROVE Served(s)
    <3>1. waiters'[s] = waiters[s]
      BY ZenonT(60), <2>4, <2>10, <2>11
    <3>2. ASSUME NEW t \in Threads, Taker(t, s) PROVE Taker(t, s)'
      <4>1. pc'[t] = pc[t]
        BY ZenonT(60), <3>2, <2>6, <2>11 DEF Taker
      <4> QED BY ZenonT(60), <3>1, <3>2, <4>1, <2>4 DEF Taker
    <3> QED BY ZenonT(60), <3>1, <3>2, <2>4 DEF Served
  <2>12. waiters'["pool"] = Rest(w, k) /\ NoDup(w)
    BY ZenonT(60), <2>1, <2>2, <2>4, <2>10 DEF Parked
  <2>13. Len(req) \in Nat /\ Len(w) \in Nat
    BY ZenonT(60), SeqLen DEF Switches
  <2>14. k \in {Len(req), Len(w)} /\ k \in 0..Len(w)
    <3>1. PICK x \in {Len(req), Len(w)} : \A y \in {Len(req), Len(w)} : x <= y
      BY <2>13, Len(req) <= Len(w) \/ Len(w) <= Len(req)
    <3>2. k \in {Len(req), Len(w)}
      BY ZenonT(60), <3>1, <2>3, MinIsLeast
    <3> QED BY ZenonT(60), <3>2, <2>3, <2>13, MinOfTwo
  <2>15. Served("pool")
    <3>1. CASE w = <<>>
      <4>1. k = 0
        BY <3>1, <2>14
      <4>2. waiters'["pool"] = <<>>
        BY ZenonT(60), <3>1, <4>1, <2>12, <1>NonePopped
      <4> QED BY ZenonT(60), <4>2 DEF Served
    <3>2. CASE w # <<>> /\ k = 0
      <4>1. req = <<>>
        <5>1. Len(w) # 0
          BY <3>2, SeqEmpty
        <5>2. Len(req) = 0
          BY <3>2, <5>1, <2>14
        <5> QED BY <5>2, SeqEmpty DEF Switches
      <4>2. Elems(waiters'["pool"]) = Elems(w)
        BY ZenonT(60), <3>2, <2>12, <1>NonePopped
      <4>3. ASSUME NEW t \in Threads, Taker(t, "pool") PROVE Taker(t, "pool")'
        <5>1. t = current => pc[t] # "reap"
          BY ZenonT(60), <4>1 DEF Switches
        <5>2. pc'[t] = pc[t]
          BY ZenonT(60), <4>3, <5>1, <2>6 DEF Taker
        <5> QED BY ZenonT(60), <4>2, <4>3, <5>2, <2>2, <2>4 DEF Taker
      <4> QED BY ZenonT(60), <4>3, <3>2, <2>2, <2>4 DEF Served
    <3>3. CASE w # <<>> /\ k # 0
      <4>1. k \in 1..Len(waiters["pool"])
        BY <3>3, <2>2, <2>13, <2>14
      <4>2. \A t \in Threads : t # current /\ pc[t] \in {"wake", "reap"} =>
               pc'[t] = pc[t] /\ lk'[t] = lk[t]
        BY ZenonT(60), <2>4, <2>6
      <4>3. \E t \in Threads : Taker(t, "pool")'
        BY ZenonT(60), <3>3, <4>1, <4>2, <2>1, <2>2, <2>10, <2>12, <1>WokenTakes
      <4> QED BY ZenonT(60), <4>3 DEF Served
    <3> QED BY ZenonT(60), <3>1, <3>2, <3>3
  <2>16. NoLostWakeup'
    BY ZenonT(60), <2>1, <2>11, <2>15, <1>ServedWakes
  <2> QED BY ZenonT(60), <2>7, <2>8, <2>9, <2>16 DEF ServiceInv
(* do_schedule at a held pool lock: the exiting thread waits, with one page *)
(* to free in its hands.                                                    *)
<1>WaitsServes.
    ASSUME IInv, ServiceInv, Running, SleepListOrdered',
           pc[current] \in {"run", "reap"}, NEW req, do_schedule_waits(req)
    PROVE  ServiceInv'
  <2> USE <1>WaitsServes
  <2>1. /\ TypeOK /\ NoLostWakeup /\ NoLeak /\ AlarmsKnown /\ OnlyMainStarts
    BY ZenonT(60) DEF IInv, ServiceInv
  <2>2. PICK me \in Threads : me = current
    BY <2>1 DEF TypeOK
  <2>3. /\ value["pool"] = 0
        /\ waiters' = [waiters EXCEPT !["pool"] = Append(waiters["pool"], me)]
        /\ pc' = [pc EXCEPT ![me] = "reap"] /\ page' = [page EXCEPT ![me] = Head(req)]
        /\ UNCHANGED <<value, used_map, lk, val>>
    BY ZenonT(60), <2>2 DEF do_schedule_waits
  <2>4. /\ pc \in [Threads -> Labels] /\ page \in [Threads -> Pool \cup {NULL}]
        /\ waiters \in [Semas -> Seq(Threads)]
    BY ZenonT(60), <2>1 DEF TypeOK
  <2>5. pc'[me] = "reap" /\ OthersSame(me)
    BY ZenonT(60), <2>3, <2>4 DEF OthersSame
  <2>6. Holds(me)
    BY ZenonT(60), <2>2, <2>3, <2>5 DEF Holds, HasPage
  <2>7. NoLeak' /\ AlarmsKnown' /\ OnlyMainStarts'
    BY ZenonT(60), <2>1, <2>6, <1>HoldsPages
  <2>8. ASSUME NEW s \in Semas PROVE Served(s)
    <3>1. CASE s = "pool"
      <4>1. ~ (value'["pool"] > 0)
        BY <2>3
      <4> QED BY ZenonT(60), <3>1, <4>1 DEF Served
    <3>2. CASE s # "pool"
      <4>1. waiters'[s] = waiters[s]
        BY ZenonT(60), <3>2, <2>3, <2>4
      <4>2. ASSUME NEW t \in Threads, Taker(t, s) PROVE Taker(t, s)'
        <5>1. t # me
          BY ZenonT(60), <3>2, <4>2, <2>2 DEF Taker
        <5> QED BY ZenonT(60), <4>1, <4>2, <5>1, <2>5 DEF Taker, OthersSame
      <4> QED BY ZenonT(60), <4>1, <4>2, <2>3 DEF Served
    <3> QED BY ZenonT(60), <3>1, <3>2
  <2>9. NoLostWakeup'
    BY ZenonT(60), <2>1, <2>8, <1>ServedWakes
  <2> QED BY ZenonT(60), <2>7, <2>9 DEF ServiceInv
(* thread_yield, called by the thread or at the end of an interrupt.        *)
<1>YieldServes.
    ASSUME IInv, PlaceInv, ServiceInv, Running, SleepListOrdered',
           NEW st, NEW ready, NEW pcs, Switches(destruction_req, pcs),
           \/ thread_yield(st, ready, pcs)
           \/ yield_asserts(st, Requeued(ready), pcs)
    PROVE  ServiceInv'
  <2> USE <1>YieldServes
  <2>1. CASE do_schedule("READY", destruction_req, st, Requeued(ready), pcs)
    BY ZenonT(60), <2>1, <1>DoScheduleServes
  <2>2. CASE yield_relinks(st, Requeued(ready), pcs) \/ yield_asserts(st, Requeued(ready), pcs)
    <3>1. fault' = "double_link" \/ fault' = "lock_assert"
      BY ZenonT(60), <2>2 DEF yield_relinks, yield_asserts
    <3>2. ~ Running'
      BY ZenonT(60), <3>1 DEF Running
    <3> QED BY ZenonT(60), <3>2 DEF ServiceInv, NoLostWakeup
  <2> QED BY ZenonT(60), <2>1, <2>2 DEF thread_yield
(* The dead threads on the destruction queue, as VictimInv has them.        *)
<1>QueueIsDead.
    ASSUME IInv, Running
    PROVE  /\ destruction_req \in Seq(Pool)
           /\ \A t \in Elems(destruction_req) : pc[t] = "dead"
  BY ZenonT(60), <1>QueueIsDead DEF IInv, TypeOK, VictimInv
(* thread_yield in a thread's function.                                     *)
<1>YieldCallServes.
    ASSUME IInv, PlaceInv, ServiceInv, Yield
    PROVE  ServiceInv' /\ ClockStep
  <2> USE <1>YieldCallServes
  <2>1. /\ Running /\ pc[current] = "run" /\ thread_yield(status, ready_list, pc)
        /\ UNCHANGED <<sleep_list, alarm, earliest, ticks>>
    BY ZenonT(60) DEF Yield, At, Running, alarmVars
  <2>2. SleepListOrdered' /\ ClockStep
    BY ZenonT(60), <2>1, <1>ClockSame DEF ServiceInv
  <2>3. Switches(destruction_req, pc)
    BY ZenonT(60), <2>1, <1>QueueIsDead DEF Switches
  <2> QED BY ZenonT(60), <2>1, <2>2, <2>3, <1>YieldServes
(* thread_exit, and the end of its wait for the pool lock.                  *)
<1>ExitServes.
    ASSUME IInv, PlaceInv, ServiceInv, thread_exit \/ Reap
    PROVE  ServiceInv' /\ ClockStep
  <2> USE <1>ExitServes
  <2> DEFINE pcs == [pc EXCEPT ![current] = "dead"]
  <2>1. /\ Running /\ pc[current] \in {"run", "reap"}
        /\ UNCHANGED <<sleep_list, alarm, earliest, ticks>>
    BY ZenonT(60) DEF thread_exit, Reap, At, Running, alarmVars
  <2>2. SleepListOrdered' /\ ClockStep
    BY ZenonT(60), <2>1, <1>ClockSame DEF ServiceInv
  <2>3. /\ TypeOK /\ VictimInv /\ current \in Threads
        /\ destruction_req \in Seq(Pool)
        /\ \A t \in Elems(destruction_req) : pc[t] = "dead"
    BY ZenonT(60), <2>1, <1>QueueIsDead DEF IInv, TypeOK
  <2>4. pcs[current] = "dead" /\ \A t \in Threads : t # current => pcs[t] = pc[t]
    BY <2>3 DEF TypeOK
  <2> HIDE DEF pcs
  <2>5. CASE thread_exit
    <3>1. /\ pc[current] = "run"
          /\ \/ do_schedule("DYING", destruction_req, status, ready_list, pcs)
             \/ do_schedule_waits(destruction_req)
      BY ZenonT(60), <2>5 DEF thread_exit, At, pcs
    <3>2. Switches(destruction_req, pcs)
      BY ZenonT(60), <3>1, <2>3, <2>4 DEF Switches
    <3> QED BY ZenonT(60), <3>1, <3>2, <2>1, <2>2, <1>DoScheduleServes, <1>WaitsServes
  <2>6. CASE Reap
    <3> DEFINE req == <<page[current]>> \o destruction_req
    <3>1. /\ pc[current] = "reap"
          /\ \/ do_schedule("DYING", req, status, ready_list, pcs)
             \/ do_schedule_waits(req)
      BY ZenonT(60), <2>6 DEF Reap, At, pcs
    <3>2. page[current] \in Pool /\ pc[page[current]] = "dead"
      BY ZenonT(60), <3>1, <2>3 DEF VictimInv
    <3>3. /\ req \in Seq(Pool)
          /\ Elems(req) = {page[current]} \cup Elems(destruction_req)
      BY ZenonT(60), <3>2, <2>3, ConsFacts
    <3>4. req # <<>>
      BY ZenonT(60), <3>3, ElemsEmpty
    <3> HIDE DEF req
    <3>5. Switches(req, pcs)
      BY ZenonT(60), <3>1, <3>2, <3>3, <3>4, <2>3, <2>4 DEF Switches
    <3> QED BY ZenonT(60), <3>1, <3>5, <2>1, <2>2, <1>DoScheduleServes, <1>WaitsServes
  <2> QED BY ZenonT(60), <2>5, <2>6
(* The running thread has a control point.                                  *)
<1>RunningIsSome.
    ASSUME PlaceInv, IInv, Running PROVE pc[current] # "none"
  <2> USE <1>RunningIsSome
  <2>1. current \in Threads /\ status[current] = "RUNNING" /\ Lives(status, pc)
    BY ZenonT(60) DEF PlaceInv, Arranged, IInv, TypeOK
  <2> QED BY ZenonT(60), <2>1 DEF Lives
(* The timer interrupt: a tick of the clock, and perhaps a yield.           *)
<1>TimerServes.
    ASSUME HaveMinima, IInv, PlaceInv, ServiceInv, TimerInterrupt
    PROVE  ServiceInv' /\ ClockStep
  <2> USE <1>TimerServes
  <2> DEFINE woken == Popped(sleep_list, WakeCount(ticks + 1))
             st == [t \in Threads |-> IF t \in Elems(woken) THEN "READY" ELSE status[t]]
             ready == ready_list \o woken
             pcs == IF pc[current] = "idle_hlt"
                    THEN [pc EXCEPT ![current] = "idle_block"] ELSE pc
  <2>1. /\ Running /\ pc[current] \notin {"boot", "wake", "reap"}
        /\ timer_interrupt(WakeCount(ticks + 1)) /\ alarm' = alarm
    BY ZenonT(60) DEF TimerInterrupt, InterruptsOn, Running
  <2>2. \/ thread_yield(st, ready, pcs)
        \/ yield_asserts(st, Requeued(ready), pcs)
        \/ pc' = pcs /\ UNCHANGED <<used_map, value, waiters, lk, page, val>>
    BY ZenonT(60) DEF TimerInterrupt, lockVars, locVars
  <2>3. /\ TypeOK /\ SleepListOrdered /\ NoLostWakeup /\ current \in Threads
        /\ NoLeak /\ AlarmsKnown /\ OnlyMainStarts
    BY ZenonT(60), <2>1 DEF IInv, TypeOK, ServiceInv
  <2>4. SleepListOrdered' /\ ClockStep
    BY ZenonT(60), <2>1, <2>3, <1>ClockTick
  <2>5. /\ \A t \in Threads : t # current => pcs[t] = pc[t]
        /\ \/ pcs[current] = pc[current]
           \/ pc[current] = "idle_hlt" /\ pcs[current] = "idle_block"
    BY ZenonT(60), <2>3 DEF TypeOK
  <2> HIDE DEF st, ready, pcs
  <2>6. CASE thread_yield(st, ready, pcs) \/ yield_asserts(st, Requeued(ready), pcs)
    <3>1. Switches(destruction_req, pcs)
      BY ZenonT(60), <2>1, <2>5, <1>QueueIsDead DEF Switches
    <3>2. ServiceInv'
      BY ZenonT(60), <3>1, <2>1, <2>4, <2>6, <1>YieldServes
    <3> QED BY ZenonT(60), <3>2, <2>4
  <2>7. CASE pc' = pcs /\ UNCHANGED <<used_map, value, waiters, lk, page, val>>
    <3>0. PICK me \in Threads : me = current
      BY ZenonT(60), <2>3
    <3>1. /\ OthersSame(me) /\ UNCHANGED <<used_map, value, waiters, lk, page, val>>
          /\ pc'[me] = pc[me] \/ (pc[me] = "idle_hlt" /\ pc'[me] = "idle_block")
      BY ZenonT(60), <3>0, <2>5, <2>7 DEF OthersSame
    <3>2. pc'[me] # "none"
      <4>1. pc[me] # "none"
        BY ZenonT(60), <3>0, <2>1, <1>RunningIsSome
      <4> QED BY ZenonT(60), <4>1, <3>1
    <3>3. Holds(me)
      BY ZenonT(60), <3>1, <3>2, <2>3 DEF Holds, HasPage, AlarmsKnown, OnlyMainStarts
    <3>4. NoLeak' /\ AlarmsKnown' /\ OnlyMainStarts'
      BY ZenonT(60), <3>3, <2>3, <1>HoldsPages
    <3>5. NoLostWakeup'
      BY ZenonT(60), <3>1, <2>1, <2>3, <1>LocalWakes
    <3> QED BY ZenonT(60), <3>4, <3>5, <2>4 DEF ServiceInv
  <2> QED BY ZenonT(60), <2>2, <2>6, <2>7
<1> SUFFICES ASSUME HaveMinima, IInv, PlaceInv, ServiceInv, [Next]_vars
             PROVE  ServiceInv' /\ ClockStep
  OBVIOUS
<1>1. CASE Call
  BY ZenonT(60), <1>1, <1>YieldCallServes, <1>ExitServes, <1>LocalStepsServe, <1>TimerSleepServes
     DEF Call, LocalSteps
<1>2. CASE Step
  BY ZenonT(60), <1>2, <1>ThreadStartServes, <1>ExitServes, <1>ThreadSleepServes, <1>SemaDownServes,
     <1>LocalStepsServe, <1>SemaUpServes, <1>ThreadUnblockServes DEF Step, LocalSteps
<1>3. CASE UNCHANGED vars
  <2>1. UNCHANGED <<sleep_list, alarm, earliest, ticks, used_map, value, waiters,
                    pc, lk, page, val, fault>>
    BY ZenonT(60), <1>3 DEF vars, alarmVars, lockVars, locVars
  <2>2. Asleep' = Asleep
    BY ZenonT(60), <2>1 DEF Asleep
  <2>3. ClockStep
    BY ZenonT(60), <2>1, <2>2 DEF ClockStep
  <2>4. /\ SleepListOrdered' /\ (Running' <=> Running)
    BY ZenonT(60), <2>1 DEF SleepListOrdered, ServiceInv, Running
  <2>5. NoLostWakeup'
    BY ZenonT(60), <2>1, <2>4 DEF NoLostWakeup, ServiceInv
  <2>6. \A c \in Threads : HasPage(c)' <=> HasPage(c)
    BY ZenonT(60), <2>1 DEF HasPage
  <2>7. Running' => NoLeak' /\ AlarmsKnown' /\ OnlyMainStarts'
    BY ZenonT(60), <2>1, <2>4, <2>6 DEF ServiceInv, NoLeak, AlarmsKnown, OnlyMainStarts
  <2> QED BY ZenonT(60), <2>3, <2>4, <2>5, <2>7 DEF ServiceInv
<1> QED BY ZenonT(60), <1>1, <1>2, <1>3, <1>TimerServes DEF Next

(* The initial state.                                                       *)
LEMMA InitServes == Init => ServiceInv /\ Clock!Init
<1> SUFFICES ASSUME Init PROVE ServiceInv /\ Clock!Init
  OBVIOUS
<1>1. PICK none \in Seq(Threads) : none = <<>>
  BY ZenonT(60), SeqEmpty
<1>2. /\ sleep_list = none /\ Len(none) = 0 /\ earliest = INT64_MAX /\ used_map = {}
      /\ ticks = 0 /\ waiters = [s \in Semas |-> none]
      /\ pc = [t \in Threads |-> IF t = Main THEN "boot" ELSE "none"]
  BY <1>1, SeqEmpty DEF Init
<1>3. SleepListOrdered
  BY <1>1, <1>2, ThreadAssumption DEF SleepListOrdered
<1>4. NoLostWakeup
  BY ZenonT(60), <1>1, <1>2 DEF NoLostWakeup
<1>5. \A t \in Threads : pc[t] \in {"boot", "none"}
  BY ZenonT(60), <1>2
<1>6. NoLeak /\ AlarmsKnown /\ OnlyMainStarts
  BY ZenonT(60), <1>2, <1>5 DEF NoLeak, AlarmsKnown, OnlyMainStarts
<1>7. Clock!Init
  BY ZenonT(60), <1>1, <1>2, ElemsEmpty DEF Clock!Init, Asleep
<1> QED BY ZenonT(60), <1>3, <1>4, <1>6, <1>7 DEF ServiceInv

-----------------------------------------------------------------------------
INSTANCE WellFoundedInduction

(* Every set of natural numbers has a least element, because < is           *)
(* well-founded (see HaveMinima for where the code takes a minimum).        *)
LEMMA Minima == HaveMinima
<1> SUFFICES ASSUME NEW S, S \subseteq Nat, S # {} PROVE \E x \in S : \A y \in S : x <= y
  BY ZenonT(60) DEF HaveMinima
<1> DEFINE R == {p \in Nat \X Nat : p[1] < p[2]}
<1>1. OpToRel(<, Nat) = R
  BY DEF OpToRel
<1>2. IsWellFoundedOn(R, Nat)
  BY ZenonT(60), <1>1, NatLessThanWellFounded
<1>3. PICK x \in S : \A y \in S : ~ (<<y, x>> \in R)
  <2> HIDE DEF R
  <2> QED BY ZenonT(60), <1>2, WFMin
<1>4. ASSUME NEW y \in S PROVE x <= y
  <2>1. ~ (y < x)
    BY ZenonT(60), <1>3
  <2> QED BY <2>1
<1> QED BY ZenonT(60), <1>4

(* The inductive invariant holds of the scheduler with any number of pages   *)
(* and threads: who is inside kernel_pool.lock and tid_lock, who has each    *)
(* page of the pool, which dead pages are still to be freed and by whom.     *)
THEOREM InductiveInvariant == Spec => []IInv
<1>1. IInv /\ [Next]_vars => IInv'
  BY ZenonT(60), Minima, NextIInv
<1> QED BY <1>1, InitIInv, PTL DEF Spec

(* Type correctness: in particular the running thread always exists, so      *)
(* next_thread_to_run never falls back on an idle_thread that is still null. *)
THEOREM TypeCorrectness == Spec => []TypeOK
<1>1. IInv => TypeOK
  BY ZenonT(60) DEF IInv
<1> QED BY <1>1, InductiveInvariant, PTL

(* kernel_pool.lock and tid_lock exclude: from sema_down's decrement to        *)
(* sema_up's increment at most one thread is inside, and lock->holder names it *)
(* whenever it is set.                                                         *)
THEOREM LocksExclude == Spec => []LockExclusion
<1>1. IInv => LockExclusion
  BY ZenonT(60) DEF IInv, LockExclusion
<1> QED BY <1>1, InductiveInvariant, PTL

(* allocate_tid never hands out a tid twice.                               *)
THEOREM TidsAreUnique == Spec => []TidsUnique
<1>1. IInv => TidsUnique
  BY ZenonT(60) DEF IInv, TidInv, TidsUnique
<1> QED BY <1>1, InductiveInvariant, PTL

(* do_schedule keeps up with thread_exit: the destruction queue never holds  *)
(* more than one page.                                                       *)
THEOREM DestructionQueueBounded == Spec => []OneDeadPage
<1>1. IInv => OneDeadPage
  BY DEF IInv, VictimInv, OneDeadPage
<1> QED BY <1>1, InductiveInvariant, PTL

-----------------------------------------------------------------------------
(* Every thread is where its status says.                                   *)

(* IInv and PlaceInv together, with the order of the boot sequence, hold    *)
(* of the scheduler with any number of pages and threads.                   *)
THEOREM PlacesAreInvariant == Spec => [](IInv /\ PlaceInv /\ BootOnce)
<1>1. Init => BootOnce
  BY ZenonT(60) DEF Init, BootOnce, Running
<1>2. IInv /\ PlaceInv /\ BootOnce /\ [Next]_vars => (IInv /\ PlaceInv /\ BootOnce)'
  BY ZenonT(60), Minima, NextIInv, NextPlace
<1> QED BY <1>1, <1>2, InitIInv, InitPlace, PTL DEF Spec

(* The blocked thread on page[c] is the one c builds.                       *)
LEMMA BuildingIsHasThread ==
    \A c \in Threads : HasThread(c) <=> Building(pc, lk, page, c)
BY ZenonT(60) DEF HasThread, HasPage, Building

(* A thread that sleeps or waits is not the idle thread, and is at the      *)
(* point of its function that says so.                                      *)
LEMMA BlockedPlaces ==
    ASSUME Placed
    PROVE  /\ \A t \in Elems(sleep_list) :
                t \in Threads /\ status[t] = "BLOCKED" /\ pc[t] = "run" /\ t # idle_thread
           /\ \A s \in Semas : \A t \in Elems(waiters[s]) :
                /\ t \in Threads /\ status[t] = "BLOCKED" /\ t # idle_thread
                /\ WaitsFor(pc, lk, t, s)
           /\ \A c \in Threads : HasThread(c) =>
                /\ page[c] \in Threads /\ status[page[c]] = "BLOCKED"
                /\ page[c] # idle_thread
<1>1. \A t \in Threads : Idling(pc, lk, t) <=> t = idle_thread
  BY ZenonT(60) DEF Placed, Arranged, Idles
<1>2. \A t \in Elems(sleep_list) : t \in Threads /\ status[t] = "BLOCKED" /\ pc[t] = "run"
  BY ZenonT(60) DEF Placed, Arranged, InSleep
<1>3. \A s \in Semas : WaitSets[s] = Elems(waiters[s])
  BY ZenonT(60) DEF WaitSets
<1>4. \A s \in Semas : \A t \in Elems(waiters[s]) :
         t \in Threads /\ status[t] = "BLOCKED" /\ WaitsFor(pc, lk, t, s)
  <2>1. InWait(status, WaitSets, pc, lk)
    BY ZenonT(60) DEF Placed, Arranged
  <2> QED BY ZenonT(60), <2>1, <1>3 DEF InWait
<1>5. \A c \in Threads : HasThread(c) =>
         page[c] \in Threads /\ status[page[c]] = "BLOCKED" /\ pc[page[c]] = "none"
  BY ZenonT(60), BuildingIsHasThread DEF Placed, Arranged, InBuild
<1>6. \A t \in Elems(sleep_list) : t # idle_thread
  BY ZenonT(60), <1>1, <1>2 DEF Idling
<1>7. \A s \in Semas : \A t \in Elems(waiters[s]) : t # idle_thread
  BY ZenonT(60), <1>1, <1>4 DEF Idling, WaitsFor
<1>8. \A c \in Threads : HasThread(c) => page[c] # idle_thread
  BY ZenonT(60), <1>1, <1>5 DEF Idling
<1> QED BY ZenonT(60), <1>2, <1>4, <1>5, <1>6, <1>7, <1>8

(* What the invariants say of one thread.                                   *)
LEMMA EachInPlace ==
    ASSUME IInv, PlaceInv, Running, NEW t \in Threads
    PROVE  /\ status[t] = "RUNNING" <=> t = current
           /\ t # idle_thread => (status[t] = "READY" <=> t \in Elems(ready_list))
           /\ (status[t] = "BLOCKED" /\ t # idle_thread) <=>
                (t \in Elems(sleep_list) \cup Waiting
                 \/ \E c \in Threads : HasThread(c) /\ page[c] = t)
           /\ (status[t] = "DYING" /\ t # Main) <=>
                (t \in Elems(destruction_req)
                 \/ \E c \in Threads : pc[c] = "reap" /\ page[c] = t)
<1>1. /\ TypeOK /\ VictimInv /\ Placed /\ OneRuns
      /\ Victims(Elems(destruction_req), pc, page)
  BY ZenonT(60), PlaceParts DEF IInv
<1>2. status[t] = "RUNNING" <=> t = current
  BY ZenonT(60), <1>1 DEF OneRuns
<1>3. t # idle_thread => (status[t] = "READY" <=> t \in Elems(ready_list))
  BY ZenonT(60), <1>1 DEF Placed, Arranged, InQueue
<1>4. ASSUME status[t] = "BLOCKED", t # idle_thread
      PROVE  \/ t \in Elems(sleep_list) \cup Waiting
             \/ \E c \in Threads : HasThread(c) /\ page[c] = t
  <2>1. \/ t \in Elems(sleep_list)
        \/ \E s \in Semas : t \in WaitSets[s]
        \/ \E c \in Threads : Building(pc, lk, page, c) /\ page[c] = t
    BY ZenonT(60), <1>1, <1>4 DEF Placed, Arranged, Found
  <2>2. \A s \in Semas : WaitSets[s] = Elems(waiters[s])
    BY ZenonT(60) DEF WaitSets
  <2>3. ASSUME NEW s \in Semas, t \in WaitSets[s] PROVE t \in Waiting
    BY ZenonT(60), <2>2, <2>3 DEF Waiting
  <2> QED BY ZenonT(60), <2>1, <2>3, BuildingIsHasThread
<1>5. ASSUME \/ t \in Elems(sleep_list) \cup Waiting
             \/ \E c \in Threads : HasThread(c) /\ page[c] = t
      PROVE  status[t] = "BLOCKED" /\ t # idle_thread
  <2>1. CASE t \in Waiting
    <3>1. PICK s \in Semas : t \in Elems(waiters[s])
      BY ZenonT(60), <2>1 DEF Waiting
    <3> QED BY ZenonT(60), <3>1, <1>1, BlockedPlaces
  <2> QED BY ZenonT(60), <2>1, <1>1, <1>5, BlockedPlaces
<1>6. status[t] = "DYING" <=> pc[t] = "dead"
  BY ZenonT(60), <1>1 DEF Placed, Arranged, Lives
<1>7. ASSUME status[t] = "DYING", t # Main
      PROVE  \/ t \in Elems(destruction_req)
             \/ \E c \in Threads : pc[c] = "reap" /\ page[c] = t
  BY ZenonT(60), <1>1, <1>6, <1>7, PoolFacts DEF Victims
<1>8. ASSUME \/ t \in Elems(destruction_req)
             \/ \E c \in Threads : pc[c] = "reap" /\ page[c] = t
      PROVE  status[t] = "DYING" /\ t # Main
  <2>1. Elems(destruction_req) \subseteq Pool
    BY ZenonT(60), <1>1, ElemsSubset DEF TypeOK
  <2>2. pc[t] = "dead" /\ t \in Pool
    BY ZenonT(60), <2>1, <1>1, <1>8 DEF VictimInv
  <2> QED BY ZenonT(60), <2>2, <1>6, PoolFacts
<1> QED BY ZenonT(60), <1>2, <1>3, <1>4, <1>5, <1>7, <1>8

(* What they say of the lists.                                              *)
LEMMA ListsApart ==
    ASSUME Placed
    PROVE  /\ Elems(sleep_list) \cap Waiting = {}
           /\ \A s \in Semas : \A r \in Semas \ {s} :
                Elems(waiters[s]) \cap Elems(waiters[r]) = {}
<1>1. ASSUME NEW t \in Elems(sleep_list), t \in Waiting PROVE FALSE
  <2>1. PICK s \in Semas : t \in Elems(waiters[s])
    BY ZenonT(60), <1>1 DEF Waiting
  <2>2. pc[t] = "run" /\ WaitsFor(pc, lk, t, s)
    BY ZenonT(60), <2>1, BlockedPlaces
  <2> QED BY ZenonT(60), <2>2 DEF WaitsFor
<1>2. ASSUME NEW s \in Semas, NEW r \in Semas \ {s}, NEW t \in Elems(waiters[s]),
             t \in Elems(waiters[r])
      PROVE  FALSE
  <2>1. WaitsFor(pc, lk, t, s) /\ WaitsFor(pc, lk, t, r)
    BY ZenonT(60), <1>2, BlockedPlaces
  <2> QED BY ZenonT(60), <2>1 DEF WaitsFor
<1> QED BY ZenonT(60), <1>1, <1>2

(* While the idle thread runs both locks are free.                          *)
LEMMA IdleFindsLocksFree ==
    ASSUME IInv, PlaceInv, Running, current = idle_thread, NEW l \in Locks
    PROVE  value[l] = 1
<1>1. Unlocked /\ LockExclusion
  BY ZenonT(60), PlaceParts DEF IInv
<1>2. l # "idle"
  BY DEF Locks
<1>3. ~ \E t \in Threads : Owns(t, l)
  BY ZenonT(60), <1>1, <1>2 DEF Owns, Unlocked
<1>4. value[l] = IF \E t \in Threads : Owns(t, l) THEN 0 ELSE 1
  BY ZenonT(60), <1>1 DEF LockExclusion
<1> QED BY ZenonT(60), <1>3, <1>4

(* Every struct thread is on the list its status calls for and on no other,  *)
(* nobody is blocked where nothing could wake it, the idle thread is on no   *)
(* list, and it never finds a lock taken (thread_block, thread_unblock,      *)
(* do_schedule, sema_down, sema_up, thread_sleep, timer_interrupt).          *)
THEOREM ThreadsStayInPlace == Spec => []ThreadsInPlace
<1>1. IInv /\ PlaceInv => NoLostThread
  <2> SUFFICES ASSUME IInv, PlaceInv, Running PROVE NoLostThread
    BY ZenonT(60) DEF NoLostThread
  <2>1. Placed /\ Linked
    BY ZenonT(60), PlaceParts
  <2>2. /\ Elems(sleep_list) \cap Waiting = {}
        /\ \A s \in Semas : \A r \in Semas \ {s} :
             Elems(waiters[s]) \cap Elems(waiters[r]) = {}
    BY ZenonT(60), <2>1, ListsApart
  <2> QED BY ZenonT(60), <2>1, <2>2, EachInPlace DEF NoLostThread, Linked
<1>2. IInv /\ PlaceInv => IdleNeverQueued
  <2> SUFFICES ASSUME IInv, PlaceInv, Running, idle_thread # NULL PROVE IdleNeverQueued
    BY ZenonT(60) DEF IdleNeverQueued
  <2>1. Placed
    BY ZenonT(60), PlaceParts
  <2>2. idle_thread \notin Elems(ready_list)
    BY ZenonT(60), <2>1 DEF Placed, Arranged, InQueue
  <2>3. idle_thread \notin Elems(sleep_list) /\ idle_thread \notin Waiting
    BY ZenonT(60), <2>1, BlockedPlaces DEF Waiting
  <2> QED BY ZenonT(60), <2>2, <2>3, IdleFindsLocksFree DEF IdleNeverQueued
<1>3. IInv /\ PlaceInv => ThreadsInPlace
  BY ZenonT(60), <1>1, <1>2 DEF ThreadsInPlace
<1> QED BY <1>3, PlacesAreInvariant, PTL

-----------------------------------------------------------------------------
(* The alarm clock, wake-ups and pages.                                     *)

(* The three invariants together hold of the scheduler with any number of   *)
(* pages and threads.                                                       *)
THEOREM ServicesAreInvariant == Spec => [](IInv /\ PlaceInv /\ ServiceInv)
<1>1. Init => ServiceInv
  BY InitServes
<1>2. IInv /\ PlaceInv /\ ServiceInv /\ [Next]_vars => ServiceInv'
  BY ZenonT(60), Minima, NextServes
<1>3. Spec => []ServiceInv
  BY <1>1, <1>2, PlacesAreInvariant, PTL DEF Spec
<1> QED BY <1>3, PlacesAreInvariant, PTL

(* The sleep list is in alarm order and earliest_wake_up_tick is the alarm   *)
(* at its front, after any interleaving of thread_sleep with timer           *)
(* interrupts, and although thread_wakeup reads past the end of the list it  *)
(* empties.                                                                  *)
THEOREM SleepListStaysOrdered == Spec => []SleepListOrdered
<1>1. ServiceInv => SleepListOrdered
  BY ZenonT(60) DEF ServiceInv
<1> QED BY <1>1, ServicesAreInvariant, PTL

(* sema_up, and do_schedule when it gives back the pool lock, lose no        *)
(* wake-up: a free semaphore that is waited for has a taker on the way.      *)
THEOREM WakeupsAreKept == Spec => []NoLostWakeup
<1>1. ServiceInv => NoLostWakeup
  BY ZenonT(60) DEF ServiceInv
<1> QED BY <1>1, ServicesAreInvariant, PTL

(* thread_sleep and the timer interrupt implement the alarm clock, for any   *)
(* durations and any number of threads: nobody is woken before the alarm,    *)
(* and nobody sleeps beyond the tick that reaches it.                        *)
THEOREM AlarmClockIsImplemented == Spec => ImplementsAlarmClock
<1>1. Init => Clock!Init
  BY InitServes
<1>2. IInv /\ PlaceInv /\ ServiceInv /\ [Next]_vars => [Clock!Next]_<<ticks, Asleep>>
  BY ZenonT(60), Minima, NextServes DEF ClockStep
<1> QED BY <1>1, <1>2, ServicesAreInvariant, PTL DEF Spec, Clock!Spec, ImplementsAlarmClock

(* A page without a control point that is not free is the struct thread of  *)
(* a thread that is being created.                                          *)
LEMMA BlockedPage ==
    ASSUME IInv, PlaceInv, Running, NEW t \in Threads, pc[t] = "none", status[t] # "NONE"
    PROVE  \E c \in Threads : HasThread(c) /\ page[c] = t
<1>1. Placed
  BY ZenonT(60), PlaceParts
<1>2. status[t] = "BLOCKED"
  BY ZenonT(60), <1>1 DEF Placed, Arranged, Lives
<1>3. t # idle_thread
  BY ZenonT(60), <1>1 DEF Placed, Arranged, Idles, Idling
<1>4. \/ t \in Elems(sleep_list) \cup Waiting
      \/ \E c \in Threads : HasThread(c) /\ page[c] = t
  BY ZenonT(60), <1>2, <1>3, EachInPlace
<1>5. t \notin Elems(sleep_list)
  BY ZenonT(60), <1>1, BlockedPlaces
<1>6. ASSUME t \in Waiting PROVE FALSE
  <2>1. PICK s \in Semas : t \in Elems(waiters[s])
    BY ZenonT(60), <1>6 DEF Waiting
  <2>2. WaitsFor(pc, lk, t, s)
    BY ZenonT(60), <2>1, <1>1, BlockedPlaces
  <2> QED BY ZenonT(60), <2>2 DEF WaitsFor
<1> QED BY ZenonT(60), <1>4, <1>5, <1>6

(* Pages of the kernel pool are neither leaked nor handed out twice, for    *)
(* any number of pages: the used ones are exactly those of threads that are *)
(* alive, dead but not yet freed, or being created.                         *)
THEOREM PagesAreAccounted == Spec => []PageAccounting
<1>1. IInv /\ PlaceInv /\ ServiceInv => PageAccounting
  <2> SUFFICES ASSUME IInv, PlaceInv, ServiceInv, Running PROVE PageAccounting
    BY ZenonT(60) DEF PageAccounting
  <2>1. TypeOK /\ PageInv /\ NoLeak /\ Placed
    BY ZenonT(60), PlaceParts DEF IInv, ServiceInv
  <2>2. \A t \in Threads : status[t] = "NONE" => pc[t] = "none"
    BY ZenonT(60), <2>1 DEF Placed, Arranged, Lives
  <2>3. \A c \in Threads : HasPage(c) => page[c] \in used_map /\ pc[page[c]] = "none"
    BY ZenonT(60), <2>1 DEF PageInv
  <2>4. \A c, d \in Threads : (HasPage(c) /\ HasPage(d) /\ page[c] = page[d]) => c = d
    BY ZenonT(60), <2>1 DEF PageInv
  <2>5. used_map \subseteq Pool /\ Pool \subseteq Threads
    BY ZenonT(60), <2>1, PoolFacts DEF TypeOK
  <2>6. ASSUME NEW t \in used_map
        PROVE  t \in {u \in Pool : status[u] # "NONE"}
                       \cup {page[c] : c \in {d \in Threads : HasPage(d)}}
    BY ZenonT(60), <2>1, <2>2, <2>5 DEF NoLeak
  <2>7. ASSUME NEW t \in Pool, status[t] # "NONE" PROVE t \in used_map
    <3>1. CASE pc[t] # "none"
      BY ZenonT(60), <3>1, <2>1 DEF PageInv
    <3>2. CASE pc[t] = "none"
      <4>1. PICK c \in Threads : HasThread(c) /\ page[c] = t
        BY ZenonT(60), <3>2, <2>5, <2>7, BlockedPage
      <4> QED BY ZenonT(60), <4>1, <2>3 DEF HasThread
    <3> QED BY ZenonT(60), <3>1, <3>2
  <2>8. used_map = {t \in Pool : status[t] # "NONE"}
                   \cup {page[c] : c \in {d \in Threads : HasPage(d)}}
    BY ZenonT(60), <2>3, <2>6, <2>7
  <2>9. ASSUME NEW c \in Threads, HasPage(c)
        PROVE  status[page[c]] = (IF HasThread(c) THEN "BLOCKED" ELSE "NONE")
    <3>1. CASE HasThread(c)
      <4>1. status[page[c]] = "BLOCKED"
        BY ZenonT(60), <3>1, <2>1, BlockedPlaces
      <4> QED BY ZenonT(60), <3>1, <4>1
    <3>2. CASE ~ HasThread(c)
      <4>1. page[c] \in Threads /\ pc[page[c]] = "none"
        BY ZenonT(60), <2>3, <2>5, <2>9
      <4>2. ASSUME status[page[c]] # "NONE" PROVE FALSE
        <5>1. PICK d \in Threads : HasThread(d) /\ page[d] = page[c]
          BY ZenonT(60), <4>1, <4>2, BlockedPage
        <5>2. HasPage(d)
          BY ZenonT(60), <5>1 DEF HasThread
        <5>3. c = d
          BY ZenonT(60), <5>1, <5>2, <2>4, <2>9
        <5> QED BY ZenonT(60), <5>1, <5>3, <3>2
      <4> QED BY ZenonT(60), <3>2, <4>2
    <3> QED BY ZenonT(60), <3>1, <3>2
  <2> QED BY ZenonT(60), <2>4, <2>8, <2>9 DEF PageAccounting
<1> QED BY <1>1, ServicesAreInvariant, PTL

=============================================================================
