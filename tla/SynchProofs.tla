----------------------------- MODULE SynchProofs -----------------------------
(***************************************************************************)
(* For any number of threads, semaphores, locks and condition variables,   *)
(* under preemption at any moment: the locks of synch.c exclude (SInv), no *)
(* thread is lost between the run queue and the wait lists (NoLostThread), *)
(* neither a semaphore's unit nor a condition's signal is lost             *)
(* (NoLostWakeup, SigInv), and locks and conditions implement a Mesa       *)
(* monitor (MonInv).                                                       *)
(***************************************************************************)
EXTENDS Synch, TLAPS

(* What the control point of a thread says about its operand, its condition *)
(* and the holder of the lock it works on.                                  *)
CallFits(t) ==
    /\ pc[t] \in {"hold", "clear"} => obj[t] \in Locks
    /\ pc[t] \in {"down", "wake", "up"} => obj[t] # None
    /\ pc[t] \in {"down", "wake"} /\ obj[t] \in Threads => obj[t] = t /\ cv[t] # None
    /\ pc[t] = "bup" => obj[t] \in Threads
    /\ pc[t] \in {"clear", "bcast", "bup"} => cv[t] # None
    /\ pc[t] = "clear" => holder[obj[t]] = t
    /\ pc[t] \in {"hold", "up"} /\ obj[t] \in Locks => holder[obj[t]] = None

CallInv == \A t \in Threads : CallFits(t)

SInv == TypeOK /\ CallInv /\ LockExclusion

(* Thread t goes to label p with operand o and condition c; the others stay *)
(* where they are.                                                          *)
Moves(t, p, o, c) ==
    /\ pc' \in [Threads -> Labels] /\ pc'[t] = p
    /\ obj' \in [Threads -> AllSemas \cup {None}] /\ obj'[t] = o
    /\ cv' \in [Threads -> Conds \cup {None}] /\ cv'[t] = c
    /\ \A u \in Threads \ {t} : pc'[u] = pc[u] /\ obj'[u] = obj[u] /\ cv'[u] = cv[u]

-----------------------------------------------------------------------------
(* The kinds of objects are disjoint.                                       *)
LEMMA Kinds ==
    /\ Threads \subseteq AllSemas /\ Locks \subseteq AllSemas /\ Semas \subseteq AllSemas
    /\ \A l \in Locks : l \notin Semas /\ l \notin Threads /\ l # None
    /\ \A t \in Threads : t # None /\ t # Idle /\ t \notin Semas
    /\ \A s \in Semas : s # None
BY SynchAssumption DEF AllSemas

(* Counting units: the order of the values of a semaphore.                  *)
LEMMA Units ==
    /\ \A i, j, k \in Nat : i <= j /\ j <= k => i <= k
    /\ \A i \in Nat : 0 <= i /\ (i <= 1 => i - 1 <= 1 /\ ~ (i - 1 > 0))
OBVIOUS

(* sema_up changes the value of its semaphore only, and keeps the queues    *)
(* queues of threads.                                                       *)
LEMMA UpType ==
    ASSUME TypeOK, NEW s \in AllSemas, Up(s)
    PROVE  /\ value' \in [AllSemas -> Nat] /\ waiters' \in [AllSemas -> Seq(Threads)]
           /\ ready_list' \in Seq(Threads)
           /\ value'[s] = value[s] + 1 /\ \A r \in AllSemas \ {s} : value'[r] = value[r]
<1>1. /\ value \in [AllSemas -> Nat] /\ waiters \in [AllSemas -> Seq(Threads)]
      /\ ready_list \in Seq(Threads)
  BY DEF TypeOK
<1>2. /\ value' \in [AllSemas -> Nat] /\ value'[s] = value[s] + 1
      /\ \A r \in AllSemas \ {s} : value'[r] = value[r]
  BY <1>1 DEF Up
<1>3. waiters' \in [AllSemas -> Seq(Threads)] /\ ready_list' \in Seq(Threads)
  <2>1. CASE waiters[s] = <<>>
    BY <1>1, <2>1 DEF Up
  <2>2. CASE waiters[s] # <<>>
    <3>1. waiters[s] \in Seq(Threads)
      BY <1>1
    <3>2. Tail(waiters[s]) \in Seq(Threads) /\ Head(waiters[s]) \in Threads
      BY <2>2, <3>1
    <3>3. /\ waiters' = [waiters EXCEPT ![s] = Tail(waiters[s])]
          /\ ready_list' = Append(ready_list, Head(waiters[s]))
      BY <2>2 DEF Up
    <3> QED BY <1>1, <3>2, <3>3
  <2> QED BY <2>1, <2>2
<1> QED BY <1>2, <1>3

-----------------------------------------------------------------------------
(* Every step keeps the invariant.                                          *)
LEMMA NextSInv == SInv /\ [Next]_vars => SInv'
(* schedule takes a thread off the run queue.                               *)
<1>ScheduleType.
    ASSUME NEW q \in Seq(Threads), schedule(q)
    PROVE  current' \in Threads \cup {Idle} /\ ready_list' \in Seq(Threads)
  BY <1>ScheduleType DEF schedule
(* A step that changes neither who is inside nor the locks' semaphores.     *)
<1>SameOwners.
    ASSUME LockExclusion,
           \A l \in Locks : value'[l] = value[l] /\ \A u \in Threads : Owns(u, l)' <=> Owns(u, l)
    PROVE  LockExclusion'
  BY <1>SameOwners DEF LockExclusion
(* sema_down's decrement lets one thread in.                                *)
<1>EntersLock.
    ASSUME LockExclusion, NEW t \in Threads, NEW l \in Locks,
           value[l] # 0, value'[l] = 0, Owns(t, l)',
           \A m \in Locks \ {l} : value'[m] = value[m],
           \A m \in Locks, u \in Threads : (u # t \/ m # l) => (Owns(u, m)' <=> Owns(u, m))
    PROVE  LockExclusion'
  BY <1>EntersLock DEF LockExclusion
(* sema_up's increment lets it out.                                         *)
<1>LeavesLock.
    ASSUME LockExclusion, NEW t \in Threads, NEW l \in Locks,
           Owns(t, l), ~Owns(t, l)', value'[l] = 1,
           \A m \in Locks \ {l} : value'[m] = value[m],
           \A m \in Locks, u \in Threads : (u # t \/ m # l) => (Owns(u, m)' <=> Owns(u, m))
    PROVE  LockExclusion'
  BY <1>LeavesLock DEF LockExclusion
(* A call that neither enters nor leaves a lock: the locals of one thread   *)
(* change, to a point where it is not between a lock's down and its up.     *)
<1>PlainMove.
    ASSUME SInv, NEW t \in Threads, NEW p, NEW o, NEW c, Moves(t, p, o, c),
           holder' = holder, \A l \in Locks : value'[l] = value[l],
           pc[t] \in {"hold", "clear", "up"} => obj[t] \notin Locks,
           p \in {"hold", "clear", "up"} => o \notin Locks,
           CallFits(t)'
    PROVE  CallInv' /\ LockExclusion'
  <2> USE <1>PlainMove
  <2>1. ASSUME NEW u \in Threads, u # t
        PROVE  pc'[u] = pc[u] /\ obj'[u] = obj[u] /\ cv'[u] = cv[u]
    BY <2>1 DEF Moves
  <2>2. CallInv'
    BY <2>1 DEF SInv, CallInv, CallFits
  <2>3. ASSUME NEW l \in Locks, NEW u \in Threads
        PROVE  Owns(u, l)' <=> Owns(u, l)
    <3>1. CASE u = t
      <4>1. ~(obj[t] = l /\ pc[t] \in {"hold", "clear", "up"})
        OBVIOUS
      <4>2. ~(obj'[t] = l /\ pc'[t] \in {"hold", "clear", "up"})
        BY DEF Moves
      <4> QED BY <3>1, <4>1, <4>2 DEF Owns
    <3>2. CASE u # t
      BY <2>1, <3>2 DEF Owns
    <3> QED BY <3>1, <3>2
  <2>4. LockExclusion'
    BY <2>3, <1>SameOwners DEF SInv
  <2> QED BY <2>2, <2>4
(* Preemption and the idle thread change the run queue only.                *)
<1>SwitchStep.
    ASSUME SInv, Preempt \/ IdleBlocks
    PROVE  SInv'
  <2> USE <1>SwitchStep
  <2>1. UNCHANGED <<value, waiters, holder, cwait, pc, obj, cv>>
    BY DEF Preempt, IdleBlocks, semaVars, locVars
  <2>2. current \in Threads \cup {Idle} /\ ready_list \in Seq(Threads)
    BY DEF SInv, TypeOK
  <2>3. current' \in Threads \cup {Idle} /\ ready_list' \in Seq(Threads)
    <3>1. CASE Preempt
      <4>1. Append(ready_list, current) \in Seq(Threads)
        BY <2>2, <3>1 DEF Preempt
      <4> QED BY ZenonT(60), <3>1, <4>1, <1>ScheduleType DEF Preempt
    <3>2. CASE IdleBlocks
      BY <2>2, <3>2, <1>ScheduleType DEF IdleBlocks
    <3> QED BY <3>1, <3>2
  <2>4. TypeOK'
    BY <2>1, <2>3 DEF SInv, TypeOK
  <2>5. CallInv'
    BY <2>1 DEF SInv, CallInv, CallFits
  <2>6. LockExclusion'
    BY <2>1, <1>SameOwners DEF SInv, Owns
  <2> QED BY <2>4, <2>5, <2>6 DEF SInv
(* sema_up and sema_try_down on a plain semaphore do not touch a lock's.    *)
<1>PlainSemaStep.
    ASSUME SInv, NEW s \in Semas, sema_try_down(s) \/ sema_up(s)
    PROVE  SInv'
  <2> USE <1>PlainSemaStep
  <2>1. UNCHANGED <<current, holder, cwait, pc, obj, cv>>
    BY DEF sema_try_down, sema_up, schedVars, locVars
  <2>2. /\ value \in [AllSemas -> Nat] /\ waiters \in [AllSemas -> Seq(Threads)]
        /\ ready_list \in Seq(Threads) /\ s \in AllSemas
    BY Kinds DEF SInv, TypeOK
  <2>3. /\ value' \in [AllSemas -> Nat] /\ waiters' \in [AllSemas -> Seq(Threads)]
        /\ ready_list' \in Seq(Threads) /\ \A r \in AllSemas \ {s} : value'[r] = value[r]
    <3>1. CASE sema_try_down(s)
      BY <2>2, <3>1 DEF sema_try_down, schedVars
    <3>2. CASE sema_up(s)
      BY <2>2, <3>2, UpType DEF sema_up, SInv
    <3> QED BY <3>1, <3>2
  <2>4. TypeOK'
    BY <2>1, <2>3 DEF SInv, TypeOK
  <2>5. CallInv'
    BY <2>1 DEF SInv, CallInv, CallFits
  <2>6. \A l \in Locks : value'[l] = value[l]
    BY <2>3, Kinds
  <2>7. LockExclusion'
    BY <2>1, <2>6, <1>SameOwners DEF SInv, Owns
  <2> QED BY <2>4, <2>5, <2>7 DEF SInv
(* sema_down and lock_acquire are called.                                   *)
<1>CallDownStep.
    ASSUME SInv, NEW t \in Threads, NEW s \in Semas \cup Locks, CallDown(t, s)
    PROVE  SInv'
  <2> USE <1>CallDownStep
  <2>1. /\ pc[t] = "run" /\ UNCHANGED <<current, ready_list, value, waiters, holder, cwait>>
    BY DEF CallDown, At, schedVars, semaVars
  <2>2. Moves(t, "down", s, cv[t])
    <3>1. /\ pc \in [Threads -> Labels] /\ obj \in [Threads -> AllSemas \cup {None}]
          /\ cv \in [Threads -> Conds \cup {None}]
      BY DEF SInv, TypeOK
    <3>2. s \in AllSemas \cup {None} /\ "down" \in Labels
      BY Kinds DEF Labels
    <3> QED BY <3>1, <3>2 DEF CallDown, Goto, With, Moves
  <2>3. TypeOK'
    BY <2>1, <2>2 DEF SInv, TypeOK, Moves
  <2>4. CallFits(t)'
    BY <2>2, Kinds DEF Moves, CallFits
  <2>5. CallInv' /\ LockExclusion'
    BY <2>1, <2>2, <2>4, <1>PlainMove
  <2> QED BY <2>3, <2>5 DEF SInv
(* A thread that finds the value 0 waits, at the same point of its call.    *)
<1>BlockStep.
    ASSUME SInv, NEW t \in Threads, sema_down(t), value[obj[t]] = 0
    PROVE  SInv'
  <2> USE <1>BlockStep
  <2> DEFINE s == obj[t]
  <2>1. /\ pc[t] \in {"down", "wake"} /\ value' = value
        /\ waiters' = [waiters EXCEPT ![s] = Append(waiters[s], t)]
        /\ pc' = [pc EXCEPT ![t] = "wake"] /\ schedule(ready_list)
        /\ UNCHANGED <<obj, holder, cwait, cv>>
    BY DEF sema_down, At, Goto
  <2>2. /\ pc \in [Threads -> Labels] /\ obj \in [Threads -> AllSemas \cup {None}]
        /\ cv \in [Threads -> Conds \cup {None}]
        /\ waiters \in [AllSemas -> Seq(Threads)] /\ ready_list \in Seq(Threads)
    BY DEF SInv, TypeOK
  <2>3. CallFits(t)
    BY DEF SInv, CallInv
  <2>4. Moves(t, "wake", s, cv[t])
    BY <2>1, <2>2 DEF Moves, Labels
  <2>5. s \in AllSemas
    BY <2>1, <2>2, <2>3 DEF CallFits
  <2>6. waiters' \in [AllSemas -> Seq(Threads)]
    BY <2>1, <2>2, <2>5
  <2>7. current' \in Threads \cup {Idle} /\ ready_list' \in Seq(Threads)
    BY <2>1, <2>2, <1>ScheduleType
  <2>8. TypeOK'
    BY <2>1, <2>4, <2>6, <2>7 DEF SInv, TypeOK, Moves
  <2>9. CallFits(t)'
    BY <2>1, <2>3, <2>4 DEF Moves, CallFits
  <2>10. CallInv' /\ LockExclusion'
    BY <2>1, <2>4, <2>9, <1>PlainMove
  <2> QED BY <2>8, <2>10 DEF SInv
(* A thread that takes a lock's unit is the only one inside.                *)
<1>TakeLockStep.
    ASSUME SInv, NEW t \in Threads, NEW l \in Locks, value[l] > 0,
           value' = [value EXCEPT ![l] = value[l] - 1],
           pc[t] \in {"run", "down", "wake"}, Moves(t, "hold", l, cv[t]),
           UNCHANGED <<current, ready_list, waiters, holder, cwait>>
    PROVE  SInv'
  <2> USE <1>TakeLockStep
  <2>1. value \in [AllSemas -> Nat] /\ l \in AllSemas /\ holder \in [Locks -> Threads \cup {None}]
    BY Kinds DEF SInv, TypeOK
  <2>2. /\ value' \in [AllSemas -> Nat] /\ value'[l] = value[l] - 1
        /\ \A m \in AllSemas \ {l} : value'[m] = value[m]
    BY <2>1
  <2>3. value[l] = 1 /\ \A u \in Threads : ~Owns(u, l)
    BY DEF SInv, LockExclusion
  <2>4. holder[l] = None
    BY <2>1, <2>3 DEF Owns
  <2>5. TypeOK'
    BY <2>2 DEF SInv, TypeOK, Moves
  <2>6. CallInv'
    <3>1. CallFits(t)'
      BY <2>4, Kinds DEF Moves, CallFits
    <3>2. ASSUME NEW u \in Threads, u # t
          PROVE  CallFits(u)'
      <4>1. CallFits(u)
        BY DEF SInv, CallInv
      <4> QED BY <3>2, <4>1 DEF Moves, CallFits
    <3> QED BY <3>1, <3>2 DEF CallInv
  <2>7. Owns(t, l)'
    BY DEF Moves, Owns
  <2>8. ASSUME NEW m \in Locks, NEW u \in Threads, u # t \/ m # l
        PROVE  Owns(u, m)' <=> Owns(u, m)
    BY <2>8 DEF Moves, Owns
  <2>9. \A m \in Locks \ {l} : value'[m] = value[m]
    BY <2>2, Kinds
  <2>10. LockExclusion'
    BY <2>2, <2>3, <2>7, <2>8, <2>9, <1>EntersLock DEF SInv
  <2> QED BY <2>5, <2>6, <2>10 DEF SInv
(* sema_down returns from a plain semaphore or from the waiter's own, which *)
(* no lock is made of.                                                      *)
<1>TakePlainStep.
    ASSUME SInv, NEW t \in Threads, NEW s \in AllSemas \ Locks, value[s] > 0,
           value' = [value EXCEPT ![s] = value[s] - 1],
           pc[t] \in {"down", "wake"}, NEW p \in {"run", "down"}, NEW o, Moves(t, p, o, cv[t]),
           p = "down" => o \in Locks,
           UNCHANGED <<current, ready_list, waiters, holder, cwait>>
    PROVE  SInv'
  <2> USE <1>TakePlainStep
  <2>1. value \in [AllSemas -> Nat]
    BY DEF SInv, TypeOK
  <2>2. /\ value' \in [AllSemas -> Nat]
        /\ \A m \in AllSemas \ {s} : value'[m] = value[m]
    BY <2>1
  <2>3. TypeOK'
    BY <2>2 DEF SInv, TypeOK, Moves
  <2>4. CallFits(t)'
    BY Kinds DEF Moves, CallFits
  <2>5. \A l \in Locks : value'[l] = value[l]
    BY <2>2, Kinds
  <2>6. CallInv' /\ LockExclusion'
    BY <2>4, <2>5, <1>PlainMove
  <2> QED BY <2>3, <2>6 DEF SInv
(* sema_down, with what its caller does next.                               *)
<1>DownStep.
    ASSUME SInv, NEW t \in Threads, sema_down(t)
    PROVE  SInv'
  <2> USE <1>DownStep
  <2> DEFINE s == obj[t]
  <2>1. CASE value[s] = 0
    BY <2>1, <1>BlockStep
  <2>2. CASE value[s] > 0
    <3>1. /\ pc[t] \in {"down", "wake"} /\ AfterDown(t, s)
          /\ value' = [value EXCEPT ![s] = value[s] - 1]
          /\ UNCHANGED <<current, ready_list, waiters, holder, cwait, cv>>
      BY <2>2 DEF sema_down, At, schedVars
    <3>2. /\ pc \in [Threads -> Labels] /\ obj \in [Threads -> AllSemas \cup {None}]
          /\ cv \in [Threads -> Conds \cup {None}]
      BY DEF SInv, TypeOK
    <3>3. s \in AllSemas /\ (s \in Threads => s = t /\ cv[t] \in Conds)
      BY <3>1, <3>2 DEF SInv, CallInv, CallFits
    <3>4. CASE s \in Locks
      <4>1. pc' = [pc EXCEPT ![t] = "hold"] /\ obj' = obj
        BY <3>1, <3>4, Kinds DEF AfterDown, Goto
      <4>2. Moves(t, "hold", s, cv[t])
        BY <3>1, <3>2, <4>1 DEF Moves, Labels
      <4> QED BY ZenonT(60), <2>2, <3>1, <3>4, <4>2, <1>TakeLockStep
    <3>5. CASE s \in Semas
      <4>1. pc' = [pc EXCEPT ![t] = "run"] /\ obj' = [obj EXCEPT ![t] = None]
        BY <3>1, <3>5, Kinds DEF AfterDown, Goto, With
      <4>2. Moves(t, "run", None, cv[t])
        BY <3>1, <3>2, <4>1 DEF Moves, Labels
      <4>3. s \in AllSemas \ Locks
        BY <3>3, <3>5, Kinds
      <4> QED BY ZenonT(60), <2>2, <3>1, <4>2, <4>3, <1>TakePlainStep
    <3>6. CASE s \in Threads
      <4> DEFINE l == LockOf[cv[t]]
      <4>1. s = t /\ l \in Locks
        BY <3>3, <3>6, SynchAssumption
      <4>2. pc' = [pc EXCEPT ![t] = "down"] /\ obj' = [obj EXCEPT ![t] = l]
        BY <3>1, <4>1, Kinds DEF AfterDown, Goto, With
      <4>3. l \in AllSemas \cup {None}
        BY <4>1, Kinds
      <4>4. Moves(t, "down", l, cv[t])
        BY <3>1, <3>2, <4>2, <4>3 DEF Moves, Labels
      <4>5. s \in AllSemas \ Locks
        BY <3>3, <3>6, Kinds
      <4> QED BY ZenonT(60), <2>2, <3>1, <4>1, <4>4, <4>5, <1>TakePlainStep
    <3> QED BY <3>3, <3>4, <3>5, <3>6 DEF AllSemas
  <2>3. value[s] = 0 \/ value[s] > 0
    BY DEF sema_down
  <2> QED BY <2>1, <2>2, <2>3
(* lock_try_acquire succeeds.                                               *)
<1>TryAcquireStep.
    ASSUME SInv, NEW t \in Threads, NEW l \in Locks, lock_try_acquire(t, l)
    PROVE  SInv'
  <2> USE <1>TryAcquireStep
  <2>1. /\ pc[t] = "run" /\ value[l] > 0 /\ value' = [value EXCEPT ![l] = value[l] - 1]
        /\ UNCHANGED <<current, ready_list, waiters, holder, cwait, cv>>
    BY DEF lock_try_acquire, At, schedVars
  <2>2. /\ pc \in [Threads -> Labels] /\ obj \in [Threads -> AllSemas \cup {None}]
        /\ cv \in [Threads -> Conds \cup {None}] /\ l \in AllSemas
    BY Kinds DEF SInv, TypeOK
  <2>3. Moves(t, "hold", l, cv[t])
    BY <2>1, <2>2 DEF lock_try_acquire, Goto, With, Moves, Labels
  <2> QED BY ZenonT(60), <2>1, <2>3, <1>TakeLockStep
(* lock_acquire records the holder; nobody else was inside.                 *)
<1>AcquireStep.
    ASSUME SInv, NEW t \in Threads, lock_acquire(t)
    PROVE  SInv'
  <2> USE <1>AcquireStep
  <2> DEFINE l == obj[t]
  <2>1. /\ pc[t] = "hold" /\ holder' = [holder EXCEPT ![l] = t]
        /\ UNCHANGED <<current, ready_list, value, waiters, cwait>>
    BY DEF lock_acquire, At, schedVars, semaVars
  <2>2. /\ pc \in [Threads -> Labels] /\ obj \in [Threads -> AllSemas \cup {None}]
        /\ cv \in [Threads -> Conds \cup {None}] /\ holder \in [Locks -> Threads \cup {None}]
    BY DEF SInv, TypeOK
  <2>3. l \in Locks /\ Owns(t, l)
    BY <2>1 DEF SInv, CallInv, CallFits, Owns
  <2>4. \A u \in Threads \ {t} : ~Owns(u, l)
    BY <2>3 DEF SInv, LockExclusion
  <2>5. Moves(t, "run", None, None)
    BY <2>2 DEF lock_acquire, Goto, With, Moves, Labels
  <2>6. /\ holder' \in [Locks -> Threads \cup {None}] /\ holder'[l] = t
        /\ \A m \in Locks \ {l} : holder'[m] = holder[m]
    BY <2>1, <2>2, <2>3
  <2>7. TypeOK'
    BY <2>1, <2>5, <2>6 DEF SInv, TypeOK, Moves
  <2>8. ASSUME NEW u \in Threads, u # t
        PROVE  CallFits(u)'
    <3>1. CallFits(u) /\ ~Owns(u, l)
      BY <2>4, <2>8 DEF SInv, CallInv
    <3>2. pc'[u] = pc[u] /\ obj'[u] = obj[u] /\ cv'[u] = cv[u]
      BY <2>5, <2>8 DEF Moves
    <3>3. obj[u] = l => pc[u] \notin {"hold", "clear", "up"}
      BY <3>1 DEF Owns
    <3> QED BY ZenonT(60), <2>6, <3>1, <3>2, <3>3 DEF CallFits
  <2>9. CallFits(t)'
    BY <2>5 DEF Moves, CallFits
  <2>10. ASSUME NEW m \in Locks, NEW u \in Threads
         PROVE  Owns(u, m)' <=> Owns(u, m)
    <3>1. CASE u = t
      BY <2>1, <2>3, <2>5, <2>6, <3>1 DEF Moves, Owns
    <3>2. CASE u # t
      <4>1. pc'[u] = pc[u] /\ obj'[u] = obj[u]
        BY <2>5, <3>2 DEF Moves
      <4>2. m = l => holder[m] # u
        BY <2>4, <3>2 DEF Owns
      <4> QED BY <2>6, <3>2, <4>1, <4>2 DEF Owns
    <3> QED BY <3>1, <3>2
  <2>11. LockExclusion'
    BY <2>1, <2>10, <1>SameOwners DEF SInv
  <2> QED BY <2>7, <2>8, <2>9, <2>11 DEF SInv, CallInv
(* lock_release clears the holder; the thread is still the one inside.      *)
<1>ReleaseStep.
    ASSUME SInv, NEW t \in Threads, NEW l \in Locks, lock_release(t, l)
    PROVE  SInv'
  <2> USE <1>ReleaseStep
  <2>1. /\ pc[t] = "run" \/ (pc[t] = "clear" /\ obj[t] = l)
        /\ holder' = [holder EXCEPT ![l] = None]
        /\ UNCHANGED <<current, ready_list, value, waiters, cwait, cv>>
    BY DEF lock_release, At, schedVars, semaVars
  <2>2. /\ pc \in [Threads -> Labels] /\ obj \in [Threads -> AllSemas \cup {None}]
        /\ cv \in [Threads -> Conds \cup {None}] /\ holder \in [Locks -> Threads \cup {None}]
        /\ l \in AllSemas
    BY Kinds DEF SInv, TypeOK
  <2>3. holder[l] = t
    BY DEF lock_release, At, SInv, CallInv, CallFits
  <2>4. Owns(t, l) /\ \A u \in Threads \ {t} : ~Owns(u, l)
    <3>1. Owns(t, l)
      BY <2>3 DEF Owns
    <3> QED BY <3>1 DEF SInv, LockExclusion
  <2>5. Moves(t, "up", l, cv[t])
    BY <2>1, <2>2 DEF lock_release, Goto, With, Moves, Labels
  <2>6. /\ holder' \in [Locks -> Threads \cup {None}] /\ holder'[l] = None
        /\ \A m \in Locks \ {l} : holder'[m] = holder[m]
    BY <2>1, <2>2
  <2>7. TypeOK'
    BY <2>1, <2>5, <2>6 DEF SInv, TypeOK, Moves
  <2>8. ASSUME NEW u \in Threads, u # t
        PROVE  CallFits(u)'
    <3>1. CallFits(u) /\ ~Owns(u, l)
      BY <2>4, <2>8 DEF SInv, CallInv
    <3>2. pc'[u] = pc[u] /\ obj'[u] = obj[u] /\ cv'[u] = cv[u]
      BY <2>5, <2>8 DEF Moves
    <3>3. obj[u] = l => pc[u] \notin {"hold", "clear", "up"}
      BY <3>1 DEF Owns
    <3> QED BY ZenonT(60), <2>6, <3>1, <3>2, <3>3 DEF CallFits
  <2>9. CallFits(t)'
    BY <2>5, <2>6, Kinds DEF Moves, CallFits
  <2>10. ASSUME NEW m \in Locks, NEW u \in Threads
         PROVE  Owns(u, m)' <=> Owns(u, m)
    <3>1. CASE u = t
      <4>1. Owns(t, l)'
        BY ZenonT(60), <2>5 DEF Moves, Owns
      <4>2. m # l => (Owns(t, m)' <=> Owns(t, m))
        BY <2>1, <2>5, <2>6 DEF Moves, Owns
      <4> QED BY <2>4, <3>1, <4>1, <4>2
    <3>2. CASE u # t
      <4>1. pc'[u] = pc[u] /\ obj'[u] = obj[u]
        BY <2>5, <3>2 DEF Moves
      <4>2. m = l => holder[m] # u /\ holder'[m] # u
        BY <2>3, <2>6, <3>2, Kinds
      <4> QED BY <2>6, <4>1, <4>2 DEF Owns
    <3> QED BY <3>1, <3>2
  <2>11. LockExclusion'
    BY ZenonT(60), <2>1, <2>10, <1>SameOwners DEF SInv
  <2> QED BY <2>7, <2>8, <2>9, <2>11 DEF SInv, CallInv
(* sema_up at the end of lock_release lets the thread out of the lock; at   *)
(* the end of cond_signal it touches no lock.                               *)
<1>UpStepStep.
    ASSUME SInv, NEW t \in Threads, UpStep(t)
    PROVE  SInv'
  <2> USE <1>UpStepStep
  <2> DEFINE s == obj[t]
  <2>1. pc[t] = "up" /\ Up(s) /\ UNCHANGED <<current, holder, cwait, cv>>
    BY DEF UpStep, At
  <2>2. /\ pc \in [Threads -> Labels] /\ obj \in [Threads -> AllSemas \cup {None}]
        /\ cv \in [Threads -> Conds \cup {None}] /\ t \in AllSemas
    BY Kinds DEF SInv, TypeOK
  <2>3. CallFits(t)
    BY DEF SInv, CallInv
  <2>4. s \in AllSemas
    BY <2>1, <2>2, <2>3 DEF CallFits
  <2>5. /\ value' \in [AllSemas -> Nat] /\ waiters' \in [AllSemas -> Seq(Threads)]
        /\ ready_list' \in Seq(Threads)
        /\ value'[s] = value[s] + 1 /\ \A r \in AllSemas \ {s} : value'[r] = value[r]
    BY <2>1, <2>4, UpType DEF SInv
  <2>6. PICK p \in {"run", "down"}, o \in {None, t} :
          /\ Moves(t, p, o, cv[t])
          /\ p = "down" => o = t /\ cv[t] # None
    <3>1. CASE cv[t] = None
      <4>1. pc' = [pc EXCEPT ![t] = "run"] /\ obj' = [obj EXCEPT ![t] = None]
        BY <3>1 DEF UpStep, Goto, With
      <4>2. Moves(t, "run", None, cv[t])
        BY <2>1, <2>2, <4>1 DEF Moves, Labels
      <4> QED BY <4>2
    <3>2. CASE cv[t] # None
      <4>1. pc' = [pc EXCEPT ![t] = "down"] /\ obj' = [obj EXCEPT ![t] = t]
        BY <3>2 DEF UpStep, Goto, With
      <4>2. Moves(t, "down", t, cv[t])
        BY <2>1, <2>2, <4>1 DEF Moves, Labels
      <4> QED BY <3>2, <4>2
    <3> QED BY <3>1, <3>2
  <2>7. TypeOK'
    BY <2>1, <2>5, <2>6 DEF SInv, TypeOK, Moves
  <2>8. CallFits(t)'
    BY <2>6, Kinds DEF Moves, CallFits
  <2>9. CASE s \notin Locks
    <3>1. \A l \in Locks : value'[l] = value[l]
      BY ZenonT(60), <2>5, <2>9, Kinds
    <3>2. CallInv' /\ LockExclusion'
      BY <2>1, <2>6, <2>8, <2>9, <3>1, <1>PlainMove
    <3> QED BY <2>7, <3>2 DEF SInv
  <2>10. CASE s \in Locks
    <3> PICK l \in Locks : l = s
      BY <2>10
    <3>1. holder[l] = None /\ Owns(t, l)
      BY <2>1, <2>3 DEF CallFits, Owns
    <3>2. value[l] = 0
      BY <3>1 DEF SInv, LockExclusion
    <3>3. ~Owns(t, l)'
      BY <2>1, <2>6, <3>1, Kinds DEF Moves, Owns
    <3>4. ASSUME NEW m \in Locks, NEW u \in Threads, u # t \/ m # l
          PROVE  Owns(u, m)' <=> Owns(u, m)
      BY <2>1, <2>6, <3>4 DEF Moves, Owns
    <3>5. value'[l] = 1 /\ \A m \in Locks \ {l} : value'[m] = value[m]
      <4>1. value[l] + 1 = 1
        BY <3>2
      <4> QED BY ZenonT(60), <2>5, <4>1, Kinds
    <3>6. LockExclusion'
      BY ZenonT(60), <3>1, <3>3, <3>4, <3>5, <1>LeavesLock DEF SInv
    <3>7. ASSUME NEW u \in Threads, u # t
          PROVE  CallFits(u)'
      <4>1. CallFits(u)
        BY DEF SInv, CallInv
      <4> QED BY ZenonT(60), <2>1, <2>6, <3>7, <4>1 DEF Moves, CallFits
    <3> QED BY <2>7, <2>8, <3>6, <3>7 DEF SInv, CallInv
  <2> QED BY <2>9, <2>10
(* cond_wait queues the waiter and goes on to release the lock it holds.    *)
<1>WaitStep.
    ASSUME SInv, NEW t \in Threads, NEW c \in Conds, cond_wait(t, c)
    PROVE  SInv'
  <2> USE <1>WaitStep
  <2> DEFINE l == LockOf[c]
  <2>1. /\ pc[t] = "run" /\ holder[l] = t /\ value' = [value EXCEPT ![t] = 0]
        /\ cwait' = [cwait EXCEPT ![c] = Append(cwait[c], t)]
        /\ UNCHANGED <<current, ready_list, waiters, holder>>
    BY ZenonT(60) DEF cond_wait, At, schedVars
  <2>2. /\ pc \in [Threads -> Labels] /\ obj \in [Threads -> AllSemas \cup {None}]
        /\ cv \in [Threads -> Conds \cup {None}] /\ value \in [AllSemas -> Nat]
        /\ cwait \in [Conds -> Seq(Threads)]
    BY DEF SInv, TypeOK
  <2>3. l \in Locks /\ l \in AllSemas /\ t \in AllSemas /\ c # None
    BY SynchAssumption, Kinds
  <2>4. Moves(t, "clear", l, c)
    BY <2>2, <2>3 DEF cond_wait, Goto, With, Moves, Labels
  <2>5. value' \in [AllSemas -> Nat] /\ \A r \in AllSemas \ {t} : value'[r] = value[r]
    BY ZenonT(60), <2>1, <2>2
  <2>6. cwait' \in [Conds -> Seq(Threads)]
    BY <2>1, <2>2
  <2>7. TypeOK'
    BY ZenonT(60), <2>1, <2>4, <2>5, <2>6 DEF SInv, TypeOK, Moves
  <2>8. CallFits(t)'
    BY <2>1, <2>3, <2>4 DEF Moves, CallFits
  <2>9. ASSUME NEW u \in Threads, u # t
        PROVE  CallFits(u)'
    <3>1. CallFits(u)
      BY DEF SInv, CallInv
    <3> QED BY ZenonT(60), <2>1, <2>4, <2>9, <3>1 DEF Moves, CallFits
  <2>10. ASSUME NEW m \in Locks, NEW u \in Threads
         PROVE  Owns(u, m)' <=> Owns(u, m)
    <3>1. CASE u = t
      BY ZenonT(60), <3>1, <2>1, <2>4 DEF Moves, Owns
    <3>2. CASE u # t
      BY ZenonT(60), <3>2, <2>1, <2>4 DEF Moves, Owns
    <3> QED BY ZenonT(60), <3>1, <3>2
  <2>11. \A m \in Locks : value'[m] = value[m]
    BY <2>5, Kinds
  <2>12. LockExclusion'
    BY <2>10, <2>11, <1>SameOwners DEF SInv
  <2> QED BY <2>7, <2>8, <2>9, <2>12 DEF SInv, CallInv
(* cond_signal, and one turn of cond_broadcast, unlink a waiter.            *)
<1>UnlinkStep.
    ASSUME SInv, NEW t \in Threads, NEW c \in Conds, cwait[c] # <<>>,
           cwait' = [cwait EXCEPT ![c] = Tail(cwait[c])],
           NEW p \in {"up", "bup"}, p = "bup" => cv[t] # None, pc[t] \in {"run", "bcast"},
           pc' = [pc EXCEPT ![t] = p], obj' = [obj EXCEPT ![t] = Head(cwait[c])],
           UNCHANGED <<current, ready_list, value, waiters, holder, cv>>
    PROVE  SInv'
  <2> USE <1>UnlinkStep
  <2>1. /\ pc \in [Threads -> Labels] /\ obj \in [Threads -> AllSemas \cup {None}]
        /\ cv \in [Threads -> Conds \cup {None}] /\ cwait \in [Conds -> Seq(Threads)]
    BY DEF SInv, TypeOK
  <2>2. cwait[c] \in Seq(Threads)
    BY <2>1
  <2>3. PICK w \in Threads : w = Head(cwait[c])
    BY <2>2
  <2>4. Tail(cwait[c]) \in Seq(Threads)
    BY <2>2
  <2>5. cwait' \in [Conds -> Seq(Threads)]
    BY <2>1, <2>4
  <2>6. Moves(t, p, w, cv[t])
    BY <2>1, <2>3, Kinds DEF Moves, Labels
  <2>7. TypeOK'
    BY ZenonT(60), <2>5, <2>6 DEF SInv, TypeOK, Moves
  <2>8. CallFits(t)'
    BY <2>6, Kinds DEF Moves, CallFits
  <2>9. w \notin Locks
    BY ZenonT(60), Kinds
  <2>10. CallInv' /\ LockExclusion'
    BY ZenonT(60), <2>6, <2>8, <2>9, <1>PlainMove
  <2> QED BY <2>7, <2>10 DEF SInv
(* cond_signal.                                                             *)
<1>SignalStep.
    ASSUME SInv, NEW t \in Threads, NEW c \in Conds, cond_signal(t, c)
    PROVE  SInv'
  <2> USE <1>SignalStep
  <2>1. /\ pc[t] = "run" /\ cwait[c] # <<>>
        /\ cwait' = [cwait EXCEPT ![c] = Tail(cwait[c])]
        /\ pc' = [pc EXCEPT ![t] = "up"] /\ obj' = [obj EXCEPT ![t] = Head(cwait[c])]
        /\ UNCHANGED <<current, ready_list, value, waiters, holder, cv>>
    BY ZenonT(60) DEF cond_signal, At, Goto, With, schedVars, semaVars
  <2> QED BY ZenonT(60), <2>1, <1>UnlinkStep
(* cond_broadcast begins, unlinks a waiter, or finds nobody left.           *)
<1>BroadcastStep.
    ASSUME SInv, NEW t \in Threads,
           cond_broadcast(t) \/ \E c \in Conds : CallBroadcast(t, c)
    PROVE  SInv'
  <2> USE <1>BroadcastStep
  <2>1. /\ pc[t] \in {"run", "bcast"}
        /\ UNCHANGED <<current, ready_list, value, waiters, holder>>
    BY ZenonT(60) DEF cond_broadcast, CallBroadcast, At, schedVars, semaVars
  <2>2. /\ pc \in [Threads -> Labels] /\ obj \in [Threads -> AllSemas \cup {None}]
        /\ cv \in [Threads -> Conds \cup {None}]
    BY DEF SInv, TypeOK
  <2>3. CASE cond_broadcast(t) /\ cwait[cv[t]] # <<>>
    <3>0. cv[t] \in Conds \cup {None} /\ cv[t] # None
      <4>1. pc[t] = "bcast"
        BY ZenonT(60), <2>3 DEF cond_broadcast, At
      <4>2. CallFits(t)
        BY ZenonT(60) DEF SInv, CallInv
      <4> QED BY ZenonT(60), <4>1, <4>2, <2>2 DEF CallFits
    <3>1. PICK c \in Conds : c = cv[t]
      BY ZenonT(60), <3>0
    <3>2. /\ cwait[c] # <<>> /\ cv[t] # None
          /\ cwait' = [cwait EXCEPT ![c] = Tail(cwait[c])]
          /\ pc' = [pc EXCEPT ![t] = "bup"] /\ obj' = [obj EXCEPT ![t] = Head(cwait[c])]
          /\ cv' = cv
      BY ZenonT(60), <2>3, <3>1, SynchAssumption DEF cond_broadcast, Goto, With
    <3> QED BY ZenonT(60), <2>1, <3>2, <1>UnlinkStep
  <2>4. CASE cond_broadcast(t) /\ cwait[cv[t]] = <<>>
    <3>1. Moves(t, "run", None, None) /\ cwait' = cwait
      BY ZenonT(60), <2>2, <2>4 DEF cond_broadcast, Goto, With, Moves, Labels
    <3>2. TypeOK'
      BY <2>1, <3>1 DEF SInv, TypeOK, Moves
    <3>3. CallFits(t)'
      BY ZenonT(60), <3>1 DEF Moves, CallFits
    <3>4. CallInv' /\ LockExclusion'
      BY ZenonT(60), <2>1, <3>1, <3>3, <1>PlainMove
    <3> QED BY <3>2, <3>4 DEF SInv
  <2>5. ASSUME NEW c \in Conds, CallBroadcast(t, c)
        PROVE  SInv'
    <3>1. Moves(t, "bcast", obj[t], c) /\ cwait' = cwait
      BY ZenonT(60), <2>2, <2>5 DEF CallBroadcast, Goto, Moves, Labels
    <3>2. TypeOK'
      BY <2>1, <3>1 DEF SInv, TypeOK, Moves
    <3>3. CallFits(t)'
      BY ZenonT(60), <3>1, SynchAssumption DEF Moves, CallFits
    <3>4. CallInv' /\ LockExclusion'
      BY ZenonT(60), <2>1, <3>1, <3>3, <1>PlainMove
    <3> QED BY <3>2, <3>4 DEF SInv
  <2> QED BY <2>3, <2>4, <2>5
(* The sema_up inside cond_broadcast is of a waiter's semaphore.            *)
<1>BroadcastUpStep.
    ASSUME SInv, NEW t \in Threads, BroadcastUp(t)
    PROVE  SInv'
  <2> USE <1>BroadcastUpStep
  <2>1. /\ pc[t] = "bup" /\ Up(obj[t]) /\ pc' = [pc EXCEPT ![t] = "bcast"]
        /\ UNCHANGED <<current, holder, cwait, obj, cv>>
    BY DEF BroadcastUp, At, Goto
  <2>2. /\ pc \in [Threads -> Labels] /\ obj \in [Threads -> AllSemas \cup {None}]
        /\ cv \in [Threads -> Conds \cup {None}]
    BY DEF SInv, TypeOK
  <2>3. CallFits(t) /\ obj[t] \in Threads
    BY ZenonT(60), <2>1 DEF SInv, CallInv, CallFits
  <2>4. /\ value' \in [AllSemas -> Nat] /\ waiters' \in [AllSemas -> Seq(Threads)]
        /\ ready_list' \in Seq(Threads)
        /\ \A r \in AllSemas \ {obj[t]} : value'[r] = value[r]
    BY ZenonT(60), <2>1, <2>3, Kinds, UpType DEF SInv
  <2>5. Moves(t, "bcast", obj[t], cv[t])
    BY <2>1, <2>2 DEF Moves, Labels
  <2>6. TypeOK'
    BY ZenonT(60), <2>1, <2>4, <2>5 DEF SInv, TypeOK, Moves
  <2>7. CallFits(t)'
    BY ZenonT(60), <2>1, <2>3, <2>5 DEF Moves, CallFits
  <2>8. \A l \in Locks : value'[l] = value[l]
    BY <2>3, <2>4, Kinds
  <2>9. CallInv' /\ LockExclusion'
    BY ZenonT(60), <2>1, <2>5, <2>7, <2>8, <1>PlainMove
  <2> QED BY <2>6, <2>9 DEF SInv
<1> SUFFICES ASSUME SInv, [Next]_vars PROVE SInv'
  OBVIOUS
<1>1. CASE UNCHANGED vars
  <2>1. /\ UNCHANGED <<current, ready_list, value, waiters, holder, cwait, pc, obj, cv>>
    BY <1>1 DEF vars, schedVars, semaVars, locVars
  <2>2. TypeOK' /\ CallInv'
    BY <2>1 DEF SInv, TypeOK, CallInv, CallFits
  <2>3. LockExclusion'
    BY <2>1, <1>SameOwners DEF SInv, Owns
  <2> QED BY <2>2, <2>3 DEF SInv
<1>2. CASE Call
  BY ZenonT(60), <1>2, <1>PlainSemaStep, <1>CallDownStep, <1>TryAcquireStep, <1>ReleaseStep, <1>WaitStep, <1>SignalStep,
     <1>BroadcastStep DEF Call, CallAcquire
<1>3. ASSUME NEW t \in Threads, Step(t)
      PROVE  SInv'
  BY <1>3, <1>DownStep, <1>AcquireStep, <1>UpStepStep, <1>BroadcastStep, <1>BroadcastUpStep, <1>ReleaseStep DEF Step
<1> QED BY <1>1, <1>2, <1>3, <1>SwitchStep DEF Next

-----------------------------------------------------------------------------
(* Queues: list_push_back and list_pop_front.                               *)

(* list_push_back of an element that is not linked yet.                     *)
LEMMA PushBack ==
    ASSUME NEW q \in Seq(Threads), NEW e \in Threads
    PROVE  /\ Append(q, e) \in Seq(Threads) /\ Elems(Append(q, e)) = Elems(q) \cup {e}
           /\ Append(q, e) # <<>>
           /\ NoDup(q) /\ e \notin Elems(q) => NoDup(Append(q, e))
<1>1. PICK n \in Nat : n = Len(q)
  OBVIOUS
<1>2. /\ Append(q, e) \in Seq(Threads) /\ Len(Append(q, e)) = n + 1
      /\ Append(q, e)[n + 1] = e
  BY <1>1
<1>3. ASSUME NEW i \in 1..n PROVE Append(q, e)[i] = q[i]
  BY <1>1
<1>4. 1..(n + 1) = 1..n \cup {n + 1} /\ n + 1 \notin 1..n
  BY <1>1
<1>5. Elems(Append(q, e)) = Elems(q) \cup {e}
  BY <1>1, <1>2, <1>3, <1>4 DEF Elems
<1>6. ASSUME NoDup(q), e \notin Elems(q) PROVE NoDup(Append(q, e))
  <2>1. \A i \in 1..n : q[i] # e
    BY ZenonT(60), <1>1, <1>6 DEF Elems
  <2>2. \A i, j \in 1..n : q[i] = q[j] => i = j
    BY ZenonT(60), <1>1, <1>6 DEF NoDup
  <2>3. ASSUME NEW i \in 1..(n + 1), NEW j \in 1..(n + 1), Append(q, e)[i] = Append(q, e)[j]
        PROVE  i = j
    <3>1. (i \in 1..n \/ i = n + 1) /\ (j \in 1..n \/ j = n + 1)
      BY <1>4
    <3> QED BY ZenonT(60), <3>1, <2>1, <2>2, <2>3, <1>2, <1>3
  <2> QED BY ZenonT(60), <2>3, <1>2 DEF NoDup
<1>7. Append(q, e) # <<>>
  BY <1>2
<1> QED BY <1>2, <1>5, <1>6, <1>7

(* list_pop_front of a list in which nobody is linked twice.                *)
LEMMA PopFront ==
    ASSUME NEW q \in Seq(Threads), q # <<>>, NoDup(q)
    PROVE  /\ Head(q) \in Threads /\ Tail(q) \in Seq(Threads)
           /\ Head(q) \in Elems(q) /\ Elems(Tail(q)) = Elems(q) \ {Head(q)}
           /\ NoDup(Tail(q))
<1>1. PICK n \in Nat : n = Len(q) /\ n > 0
  OBVIOUS
<1>2. /\ Head(q) = q[1] /\ Head(q) \in Threads
      /\ Tail(q) \in Seq(Threads) /\ Len(Tail(q)) = n - 1
  BY <1>1
<1>3. ASSUME NEW i \in 1..(n - 1) PROVE Tail(q)[i] = q[i + 1]
  BY <1>1
<1>4. \A i, j \in 1..n : q[i] = q[j] => i = j
  BY <1>1 DEF NoDup
<1>5. Head(q) \in Elems(q)
  BY <1>1, <1>2 DEF Elems
<1>6. ASSUME NEW e \in Elems(Tail(q)) PROVE e \in Elems(q) \ {Head(q)}
  <2>1. PICK i \in 1..(n - 1) : e = Tail(q)[i]
    BY ZenonT(60), <1>2 DEF Elems
  <2>2. i + 1 \in 1..n /\ 1 \in 1..n /\ i + 1 # 1 /\ e = q[i + 1]
    BY <2>1, <1>1, <1>3
  <2>3. e # q[1]
    BY <2>2, <1>4
  <2> QED BY <2>2, <2>3, <1>1, <1>2 DEF Elems
<1>7. ASSUME NEW e \in Elems(q) \ {Head(q)} PROVE e \in Elems(Tail(q))
  <2>1. PICK i \in 1..n : e = q[i]
    BY <1>1 DEF Elems
  <2>2. i # 1
    BY <2>1, <1>2
  <2>3. i - 1 \in 1..(n - 1) /\ (i - 1) + 1 = i
    BY <2>2, <1>1
  <2>4. e = Tail(q)[i - 1]
    BY ZenonT(60), <2>1, <2>3, <1>3
  <2> QED BY <2>3, <2>4, <1>2 DEF Elems
<1>8. ASSUME NEW i \in 1..(n - 1), NEW j \in 1..(n - 1), Tail(q)[i] = Tail(q)[j] PROVE i = j
  <2>1. i + 1 \in 1..n /\ j + 1 \in 1..n /\ q[i + 1] = q[j + 1]
    BY <1>1, <1>3, <1>8
  <2>2. i + 1 = j + 1
    BY <2>1, <1>4
  <2> QED BY <2>2
<1>9. NoDup(Tail(q))
  BY ZenonT(60), <1>2, <1>8 DEF NoDup
<1> QED BY ZenonT(60), <1>2, <1>5, <1>6, <1>7, <1>9

(* An empty queue.                                                          *)
LEMMA EmptyQueue ==
    /\ <<>> \in Seq(Threads) /\ Elems(<<>>) = {} /\ NoDup(<<>>)
    /\ \A q \in Seq(Threads) : (Elems(q) = {} <=> q = <<>>) /\ Elems(q) \subseteq Threads
<1>1. <<>> \in Seq(Threads) /\ Elems(<<>>) = {} /\ NoDup(<<>>)
  BY DEF Elems, NoDup
<1>2. ASSUME NEW q \in Seq(Threads) PROVE (Elems(q) = {} <=> q = <<>>) /\ Elems(q) \subseteq Threads
  <2>1. q # <<>> => q[1] \in Elems(q)
    BY DEF Elems
  <2>2. Elems(q) \subseteq Threads
    BY DEF Elems
  <2> QED BY <2>1, <2>2, <1>1
<1> QED BY <1>1, <1>2

-----------------------------------------------------------------------------
(* Where every thread is.                                                   *)

(* A step of thread t that leaves the queues and the other threads alone.   *)
Local(t) ==
    /\ t = current /\ UNCHANGED <<current, ready_list, waiters>>
    /\ \A u \in Threads \ {t} : pc'[u] = pc[u] /\ obj'[u] = obj[u]

(* A thread on a wait list is not the running one.                          *)
LEMMA WaitersStopped ==
    ASSUME NoLostThread, NEW s \in AllSemas, NEW t \in Threads, t \in Elems(waiters[s])
    PROVE  t # current /\ t \notin Elems(ready_list) /\ obj[t] = s /\ pc[t] = "wake"
BY ZenonT(60) DEF NoLostThread

(* What sema_up does to the queues: the first waiter, if there is one, goes *)
(* to the run queue.                                                        *)
Wakes(s, h) ==
    /\ h \in Elems(waiters[s]) /\ h \in Threads
    /\ Elems(waiters'[s]) = Elems(waiters[s]) \ {h} /\ NoDup(waiters'[s])
    /\ Elems(ready_list') = Elems(ready_list) \cup {h} /\ NoDup(ready_list')
    /\ \A r \in AllSemas \ {s} : waiters'[r] = waiters[r]

(* sema_up as a step on sets of threads.                                    *)
LEMMA UpQueues ==
    ASSUME TypeOK, NoLostThread, NEW s \in AllSemas, Up(s)
    PROVE  \/ waiters[s] = <<>> /\ UNCHANGED <<waiters, ready_list>>
           \/ waiters[s] # <<>> /\ \E h \in Threads : Wakes(s, h)
<1>1. CASE waiters[s] = <<>>
  BY <1>1 DEF Up
<1>2. CASE waiters[s] # <<>>
  <2>1. /\ waiters \in [AllSemas -> Seq(Threads)] /\ waiters[s] \in Seq(Threads)
        /\ ready_list \in Seq(Threads)
    BY DEF TypeOK
  <2>2. /\ waiters' = [waiters EXCEPT ![s] = Tail(waiters[s])]
        /\ ready_list' = Append(ready_list, Head(waiters[s]))
    BY <1>2 DEF Up
  <2>3. NoDup(waiters[s]) /\ NoDup(ready_list)
    BY ZenonT(60) DEF NoLostThread
  <2>4. PICK h \in Threads :
          /\ h = Head(waiters[s]) /\ h \in Elems(waiters[s]) /\ NoDup(Tail(waiters[s]))
          /\ Elems(Tail(waiters[s])) = Elems(waiters[s]) \ {h}
    BY ZenonT(60), <1>2, <2>1, <2>3, PopFront
  <2>5. h \notin Elems(ready_list)
    BY ZenonT(60), <2>4, WaitersStopped
  <2>6. Elems(ready_list') = Elems(ready_list) \cup {h} /\ NoDup(ready_list')
    BY ZenonT(60), <2>1, <2>2, <2>3, <2>4, <2>5, PushBack
  <2>7. waiters'[s] = Tail(waiters[s]) /\ \A r \in AllSemas \ {s} : waiters'[r] = waiters[r]
    BY <2>1, <2>2
  <2> QED BY ZenonT(60), <1>2, <2>4, <2>6, <2>7 DEF Wakes
<1> QED BY <1>1, <1>2

(* The steps of a call by which no thread changes queues.                   *)
LocalStep(t) ==
    \/ \E s \in Semas \cup Locks : CallDown(t, s)
    \/ sema_down(t) /\ value[obj[t]] > 0
    \/ \E l \in Locks : lock_try_acquire(t, l) \/ lock_release(t, l)
    \/ lock_acquire(t)
    \/ \E c \in Conds : cond_wait(t, c) \/ cond_signal(t, c) \/ CallBroadcast(t, c)
    \/ cond_broadcast(t)

(* They are steps of the running thread.                                    *)
LEMMA LocalSteps ==
    ASSUME TypeOK, NEW t \in Threads, LocalStep(t)
    PROVE  Local(t)
<1>1. pc \in [Threads -> Labels] /\ obj \in [Threads -> AllSemas \cup {None}]
  BY DEF TypeOK
<1>2. ASSUME \/ \E p : pc' = [pc EXCEPT ![t] = p],
             \/ obj' = obj
             \/ \E o : obj' = [obj EXCEPT ![t] = o],
             t = current, UNCHANGED <<current, ready_list, waiters>>
      PROVE  Local(t)
  BY <1>1, <1>2 DEF Local
<1>3. ASSUME NEW s, CallDown(t, s) PROVE Local(t)
  BY ZenonT(60), <1>2, <1>3 DEF CallDown, At, Goto, With, schedVars, semaVars
<1>4. CASE sema_down(t) /\ value[obj[t]] > 0
  <2>1. t = current /\ UNCHANGED <<current, ready_list, waiters>> /\ AfterDown(t, obj[t])
    <3>1. value[obj[t]] # 0
      BY <1>4
    <3> QED BY ZenonT(60), <3>1, <1>4 DEF sema_down, At, schedVars
  <2> QED BY ZenonT(60), <2>1, <1>2 DEF AfterDown, Goto, With
<1>5. ASSUME NEW l, lock_try_acquire(t, l) \/ lock_release(t, l) PROVE Local(t)
  BY <1>2, <1>5 DEF lock_try_acquire, lock_release, At, Goto, With, schedVars, semaVars
<1>6. CASE lock_acquire(t)
  BY ZenonT(60), <1>2, <1>6 DEF lock_acquire, At, Goto, With, schedVars, semaVars
<1>7. ASSUME NEW c, cond_wait(t, c) \/ cond_signal(t, c) \/ CallBroadcast(t, c) PROVE Local(t)
  BY ZenonT(60), <1>2, <1>7 DEF cond_wait, cond_signal, CallBroadcast, At, Goto, With, schedVars, semaVars
<1>8. CASE cond_broadcast(t)
  BY <1>2, <1>8 DEF cond_broadcast, At, Goto, With, schedVars, semaVars
<1> QED BY ZenonT(60), <1>3, <1>4, <1>5, <1>6, <1>7, <1>8 DEF LocalStep

(* The steps of a call that up a semaphore, and sema_up by a handler.       *)
Ups(s) ==
    \/ s \in Semas /\ sema_up(s)
    \/ \E t \in Threads : s = obj[t] /\ (UpStep(t) \/ BroadcastUp(t))

(* What they leave alone.                                                   *)
LEMMA UpsFrame ==
    ASSUME SInv, NEW s, Ups(s)
    PROVE  /\ s \in AllSemas /\ Up(s) /\ current' = current
           /\ current # Idle => pc[current] # "wake"
           /\ \A u \in Threads : u # current => pc'[u] = pc[u] /\ obj'[u] = obj[u]
<1>1. /\ pc \in [Threads -> Labels] /\ obj \in [Threads -> AllSemas \cup {None}]
      /\ CallInv
  BY DEF SInv, TypeOK
<1>2. CASE s \in Semas /\ sema_up(s)
  BY <1>2, Kinds DEF sema_up, locVars
<1>3. ASSUME NEW t \in Threads, s = obj[t], UpStep(t) \/ BroadcastUp(t)
      PROVE  /\ s \in AllSemas /\ Up(s) /\ current' = current
             /\ current # Idle => pc[current] # "wake"
             /\ \A u \in Threads : u # current => pc'[u] = pc[u] /\ obj'[u] = obj[u]
  <2>1. /\ t = current /\ pc[t] \in {"up", "bup"} /\ Up(s) /\ current' = current
        /\ \E p : pc' = [pc EXCEPT ![t] = p]
        /\ obj' = obj \/ \E o : obj' = [obj EXCEPT ![t] = o]
    BY <1>3 DEF UpStep, BroadcastUp, At, Goto, With
  <2>2. s \in AllSemas
    <3>1. obj[t] \in AllSemas \cup {None} /\ CallFits(t)
      BY ZenonT(60), <1>1 DEF CallInv
    <3>2. CASE pc[t] = "up"
      BY ZenonT(60), <3>1, <3>2, <1>3 DEF CallFits
    <3>3. CASE pc[t] = "bup"
      BY ZenonT(60), <3>1, <3>3, <1>3, Kinds DEF CallFits
    <3> QED BY ZenonT(60), <3>2, <3>3, <2>1
  <2>3. \A u \in Threads : u # current => pc'[u] = pc[u] /\ obj'[u] = obj[u]
    BY <2>1, <1>1
  <2> QED BY <2>1, <2>2, <2>3
<1> QED BY ZenonT(60), <1>2, <1>3 DEF Ups

(* Every step is of one of these kinds.                                     *)
LEMMA StepKinds ==
    ASSUME SInv, [Next]_vars
    PROVE  \/ Preempt \/ IdleBlocks \/ UNCHANGED vars
           \/ \E s \in Semas : sema_try_down(s)
           \/ \E s \in AllSemas : Ups(s)
           \/ \E t \in Threads : LocalStep(t) \/ (sema_down(t) /\ value[obj[t]] = 0)
<1>1. ASSUME NEW t \in Threads, Step(t)
      PROVE  \/ \E s \in AllSemas : Ups(s)
             \/ LocalStep(t) \/ (sema_down(t) /\ value[obj[t]] = 0)
  <2>1. CASE UpStep(t) \/ BroadcastUp(t)
    <3>1. Ups(obj[t])
      BY ZenonT(60), <2>1 DEF Ups
    <3>2. obj[t] \in AllSemas
      BY ZenonT(60), <3>1, UpsFrame
    <3> QED BY ZenonT(60), <3>1, <3>2
  <2>2. CASE sema_down(t)
    <3>1. value[obj[t]] = 0 \/ value[obj[t]] > 0
      BY <2>2 DEF sema_down
    <3> QED BY ZenonT(60), <2>2, <3>1 DEF LocalStep
  <2> QED BY ZenonT(60), <1>1, <2>1, <2>2 DEF Step, LocalStep
<1>2. CASE Call
  <2>1. ASSUME NEW s \in Semas, sema_up(s) PROVE s \in AllSemas /\ Ups(s)
    BY ZenonT(60), <2>1, Kinds DEF Ups
  <2>2. Semas \subseteq Semas \cup Locks /\ Locks \subseteq Semas \cup Locks
    OBVIOUS
  <2> QED BY ZenonT(60), <1>2, <2>1, <2>2 DEF Call, CallAcquire, LocalStep
<1> QED BY ZenonT(60), <1>1, <1>2 DEF Next

(* No step loses a thread.                                                  *)
LEMMA NextPlaces == SInv /\ NoLostThread /\ [Next]_vars => NoLostThread'
(* What the running thread does by itself loses nobody.                     *)
<1>LocalPlaces.
    ASSUME TypeOK, NoLostThread, NEW t \in Threads, Local(t)
    PROVE  NoLostThread'
  <2> USE <1>LocalPlaces
  <2>1. UNCHANGED <<current, ready_list, waiters>> /\ t = current
    BY DEF Local
  <2>2. ASSUME NEW s \in AllSemas, NEW u \in Elems(waiters[s])
        PROVE  obj'[u] = s /\ pc'[u] = "wake"
    <3>1. u \in Threads
      <4>1. waiters[s] \in Seq(Threads)
        BY DEF TypeOK
      <4> QED BY ZenonT(60), <4>1, EmptyQueue
    <3>2. u # current /\ obj[u] = s /\ pc[u] = "wake"
      BY ZenonT(60), <3>1, WaitersStopped
    <3> QED BY ZenonT(60), <3>1, <3>2, <2>1 DEF Local
  <2> QED BY ZenonT(60), <2>1, <2>2 DEF NoLostThread
(* A thread that waits waits for one semaphore only.                        *)
<1>SwitchPlaces.
    ASSUME TypeOK, NoLostThread, Preempt \/ IdleBlocks
    PROVE  NoLostThread'
  <2> USE <1>SwitchPlaces
  <2>1. UNCHANGED <<waiters, pc, obj>>
    BY DEF Preempt, IdleBlocks, semaVars, locVars
  <2>2. PICK q \in Seq(Threads) :
          /\ schedule(q) /\ NoDup(q) /\ q # <<>>
          /\ Elems(q) = Elems(ready_list) \cup ({current} \cap Threads)
    <3>1. ready_list \in Seq(Threads) /\ current \in Threads \cup {Idle} /\ NoDup(ready_list)
      BY DEF TypeOK, NoLostThread
    <3>2. CASE Preempt
      <4>1. current \in Threads /\ current \notin Elems(ready_list)
        BY <3>1, <3>2 DEF Preempt, NoLostThread
      <4>2. /\ Append(ready_list, current) \in Seq(Threads)
            /\ Elems(Append(ready_list, current)) = Elems(ready_list) \cup {current}
            /\ NoDup(Append(ready_list, current)) /\ Append(ready_list, current) # <<>>
        BY ZenonT(60), <3>1, <4>1, PushBack
      <4>3. schedule(Append(ready_list, current))
        BY <3>2 DEF Preempt
      <4> QED BY ZenonT(60), <4>1, <4>2, <4>3
    <3>3. CASE IdleBlocks
      <4>1. current = Idle /\ Idle \notin Threads /\ ready_list # <<>> /\ schedule(ready_list)
        BY <3>3, SynchAssumption DEF IdleBlocks
      <4> QED BY ZenonT(60), <3>1, <4>1
    <3> QED BY <3>2, <3>3
  <2>3. current' = Head(q) /\ ready_list' = Tail(q)
    BY ZenonT(60), <2>2 DEF schedule
  <2>4. /\ current' \in Elems(q) /\ current' \in Threads /\ NoDup(ready_list')
        /\ Elems(ready_list') = Elems(q) \ {current'}
    BY ZenonT(60), <2>2, <2>3, PopFront
  <2>5. ASSUME NEW t \in Threads
        PROVE  (t \in {current} \cup Elems(ready_list)) <=> (t \in {current'} \cup Elems(ready_list'))
    BY ZenonT(60), <2>2, <2>4
  <2> QED BY ZenonT(60), <2>1, <2>4, <2>5 DEF NoLostThread
(* schedule in sema_down: the thread that blocks goes from the CPU to its   *)
(* wait list.                                                               *)
<1>BlockPlaces.
    ASSUME SInv, NoLostThread, NEW t \in Threads, sema_down(t), value[obj[t]] = 0
    PROVE  NoLostThread'
  <2> USE <1>BlockPlaces
  <2>1. PICK s \in AllSemas : s = obj[t]
    <3>1. pc[t] \in {"down", "wake"} /\ CallFits(t) /\ obj \in [Threads -> AllSemas \cup {None}]
      BY DEF sema_down, At, SInv, CallInv, TypeOK
    <3> QED BY ZenonT(60), <3>1 DEF CallFits
  <2>2. /\ t = current /\ schedule(ready_list) /\ obj' = obj
        /\ waiters' = [waiters EXCEPT ![s] = Append(waiters[s], t)]
        /\ pc' = [pc EXCEPT ![t] = "wake"]
    BY <2>1 DEF sema_down, At, Goto
  <2>3. /\ pc \in [Threads -> Labels] /\ waiters \in [AllSemas -> Seq(Threads)]
        /\ ready_list \in Seq(Threads) /\ waiters[s] \in Seq(Threads)
    BY DEF SInv, TypeOK
  <2>4. /\ NoDup(ready_list) /\ t \notin Elems(ready_list)
        /\ \A r \in AllSemas : t \notin Elems(waiters[r])
    BY ZenonT(60), <2>2 DEF NoLostThread
  <2>5. NoDup(waiters[s])
    BY ZenonT(60) DEF NoLostThread
  <2>6. /\ waiters'[s] = Append(waiters[s], t)
        /\ \A r \in AllSemas \ {s} : waiters'[r] = waiters[r]
        /\ pc'[t] = "wake" /\ \A u \in Threads \ {t} : pc'[u] = pc[u]
    BY ZenonT(60), <2>2, <2>3
  <2>7. Elems(waiters'[s]) = Elems(waiters[s]) \cup {t} /\ NoDup(waiters'[s])
    BY ZenonT(60), <2>3, <2>4, <2>5, <2>6, PushBack
  <2>8. /\ NoDup(ready_list')
        /\ \A u \in Threads : /\ u \in {current'} \cup Elems(ready_list') <=> u \in Elems(ready_list)
                              /\ u = current' => u \notin Elems(ready_list')
    <3>1. CASE ready_list = <<>>
      <4>1. current' = Idle /\ ready_list' = <<>> /\ Idle \notin Threads
        BY ZenonT(60), <3>1, <2>2, SynchAssumption DEF schedule
      <4> QED BY ZenonT(60), <3>1, <4>1, EmptyQueue
    <3>2. CASE ready_list # <<>>
      <4>1. current' = Head(ready_list) /\ ready_list' = Tail(ready_list)
        BY ZenonT(60), <3>2, <2>2 DEF schedule
      <4>2. /\ current' \in Elems(ready_list) /\ NoDup(ready_list')
            /\ Elems(ready_list') = Elems(ready_list) \ {current'}
        BY ZenonT(60), <3>2, <4>1, <2>3, <2>4, PopFront
      <4> QED BY ZenonT(60), <4>2
    <3> QED BY ZenonT(60), <3>1, <3>2
  <2>9. ASSUME NEW r \in AllSemas, NEW u \in Threads
        PROVE  u \in Elems(waiters'[r]) <=> u \in Elems(waiters[r]) \/ (r = s /\ u = t)
    BY ZenonT(60), <2>6, <2>7
  <2>10. ASSUME NEW u \in Threads
         PROVE  /\ u = current' => u \notin Elems(ready_list')
                /\ u \notin {current'} \cup Elems(ready_list') <=>
                     \E r \in AllSemas : u \in Elems(waiters'[r])
    <3>1. u \notin {current} \cup Elems(ready_list) <=> \E r \in AllSemas : u \in Elems(waiters[r])
      BY ZenonT(60) DEF NoLostThread
    <3>2. CASE u = t
      <4>1. u \in Elems(waiters'[s])
        BY ZenonT(60), <3>2, <2>7
      <4> QED BY ZenonT(60), <3>2, <4>1, <2>4, <2>8
    <3>3. CASE u # t
      <4>1. (\E r \in AllSemas : u \in Elems(waiters'[r])) <=> (\E r \in AllSemas : u \in Elems(waiters[r]))
        BY ZenonT(60), <3>3, <2>9
      <4> QED BY ZenonT(60), <3>1, <3>3, <4>1, <2>2, <2>8
    <3> QED BY <3>2, <3>3
  <2>11. ASSUME NEW r \in AllSemas
         PROVE  /\ NoDup(waiters'[r])
                /\ \A u \in Elems(waiters'[r]) : obj'[u] = r /\ pc'[u] = "wake"
    <3>1. NoDup(waiters[r]) /\ \A u \in Elems(waiters[r]) : obj[u] = r /\ pc[u] = "wake"
      BY ZenonT(60) DEF NoLostThread
    <3>2. waiters[r] \in Seq(Threads)
      BY ZenonT(60), <2>3
    <3>3. ASSUME NEW u \in Elems(waiters'[r]) PROVE obj'[u] = r /\ pc'[u] = "wake"
      <4>1. CASE u \in Elems(waiters[r])
        <5>1. u \in Threads
          BY ZenonT(60), <4>1, <3>2, EmptyQueue
        <5> QED BY ZenonT(60), <4>1, <5>1, <3>1, <2>2, <2>6
      <4>2. CASE u \notin Elems(waiters[r])
        <5>1. r = s /\ u = t
          BY ZenonT(60), <4>2, <3>3, <2>6, <2>7
        <5> QED BY ZenonT(60), <5>1, <2>1, <2>2, <2>6
      <4> QED BY ZenonT(60), <4>1, <4>2
    <3>4. NoDup(waiters'[r])
      BY ZenonT(60), <3>1, <2>6, <2>7
    <3> QED BY ZenonT(60), <3>3, <3>4
  <2> QED BY ZenonT(60), <2>8, <2>10, <2>11 DEF NoLostThread
(* The thread that sema_up wakes goes from its wait list to the run queue;  *)
(* the running thread goes on with its call.                                *)
<1>UpPlaces.
    ASSUME TypeOK, NoLostThread, NEW s \in AllSemas, Up(s), current' = current,
           \A u \in Threads : u # current => pc'[u] = pc[u] /\ obj'[u] = obj[u]
    PROVE  NoLostThread'
  <2> USE <1>UpPlaces
  <2>1. CASE waiters[s] = <<>>
    <3>1. UNCHANGED <<waiters, ready_list>>
      BY ZenonT(60), <2>1, UpQueues
    <3>2. ASSUME NEW r \in AllSemas, NEW u \in Elems(waiters[r])
          PROVE  obj'[u] = r /\ pc'[u] = "wake"
      <4>1. u \in Threads
        <5>1. waiters[r] \in Seq(Threads)
          BY ZenonT(60) DEF TypeOK
        <5> QED BY ZenonT(60), <5>1, EmptyQueue
      <4>2. u # current /\ obj[u] = r /\ pc[u] = "wake"
        BY ZenonT(60), <4>1, WaitersStopped
      <4> QED BY ZenonT(60), <4>1, <4>2
    <3> QED BY ZenonT(60), <3>1, <3>2 DEF NoLostThread
  <2>2. CASE waiters[s] # <<>>
    <3>1. PICK h \in Threads : Wakes(s, h)
      BY ZenonT(60), <2>2, UpQueues
    <3>2. h # current /\ h \notin Elems(ready_list) /\ obj[h] = s
      BY ZenonT(60), <3>1, WaitersStopped DEF Wakes
    <3>3. \A r \in AllSemas : h \notin Elems(waiters'[r])
      <4>1. ASSUME NEW r \in AllSemas \ {s}, h \in Elems(waiters[r]) PROVE FALSE
        BY ZenonT(60), <4>1, <3>2, WaitersStopped
      <4> QED BY ZenonT(60), <3>1, <4>1 DEF Wakes
    <3>4. ASSUME NEW u \in Threads \ {h}, NEW r \in AllSemas
          PROVE  u \in Elems(waiters'[r]) <=> u \in Elems(waiters[r])
      BY ZenonT(60), <3>1 DEF Wakes
    <3>5. ASSUME NEW u \in Threads
          PROVE  /\ u = current' => u \notin Elems(ready_list')
                 /\ u \notin {current'} \cup Elems(ready_list') <=>
                      \E r \in AllSemas : u \in Elems(waiters'[r])
      <4>1. /\ u = current => u \notin Elems(ready_list)
            /\ u \notin {current} \cup Elems(ready_list) <=> \E r \in AllSemas : u \in Elems(waiters[r])
        BY ZenonT(60) DEF NoLostThread
      <4>2. CASE u = h
        BY ZenonT(60), <4>2, <3>1, <3>2, <3>3 DEF Wakes
      <4>3. CASE u # h
        BY ZenonT(60), <4>1, <4>3, <3>1, <3>4 DEF Wakes
      <4> QED BY ZenonT(60), <4>2, <4>3
    <3>6. ASSUME NEW r \in AllSemas
          PROVE  /\ NoDup(waiters'[r])
                 /\ \A u \in Elems(waiters'[r]) : obj'[u] = r /\ pc'[u] = "wake"
      <4>1. NoDup(waiters'[r])
        BY ZenonT(60), <3>1 DEF Wakes, NoLostThread
      <4>2. Elems(waiters'[r]) \subseteq Elems(waiters[r])
        BY ZenonT(60), <3>1 DEF Wakes
      <4>3. Elems(waiters[r]) \subseteq Threads
        <5>1. waiters[r] \in Seq(Threads)
          BY DEF TypeOK
        <5> QED BY ZenonT(60), <5>1, EmptyQueue
      <4>4. ASSUME NEW u \in Elems(waiters'[r]) PROVE obj'[u] = r /\ pc'[u] = "wake"
        <5>1. u \in Threads /\ u \in Elems(waiters[r])
          BY ZenonT(60), <4>2, <4>3
        <5>2. u # current /\ obj[u] = r /\ pc[u] = "wake"
          BY ZenonT(60), <5>1, WaitersStopped
        <5> QED BY ZenonT(60), <5>1, <5>2
      <4> QED BY ZenonT(60), <4>1, <4>4
    <3>7. NoDup(ready_list')
      BY ZenonT(60), <3>1 DEF Wakes
    <3> QED BY ZenonT(60), <3>5, <3>6, <3>7 DEF NoLostThread
  <2> QED BY ZenonT(60), <2>1, <2>2
<1> SUFFICES ASSUME SInv, NoLostThread, [Next]_vars PROVE NoLostThread'
  OBVIOUS
<1>1. TypeOK
  BY DEF SInv
<1>2. CASE UNCHANGED vars
  BY ZenonT(60), <1>2 DEF vars, schedVars, semaVars, locVars, NoLostThread
<1>3. ASSUME NEW s \in Semas, sema_try_down(s) PROVE NoLostThread'
  BY ZenonT(60), <1>3 DEF sema_try_down, schedVars, locVars, NoLostThread
<1>4. ASSUME NEW s \in AllSemas, Ups(s) PROVE NoLostThread'
  <2>1. /\ Up(s) /\ current' = current
        /\ \A u \in Threads : u # current => pc'[u] = pc[u] /\ obj'[u] = obj[u]
    BY ZenonT(60), <1>4, UpsFrame
  <2> QED BY ZenonT(60), <2>1, <1>1, <1>UpPlaces
<1>5. ASSUME NEW t \in Threads, LocalStep(t) PROVE NoLostThread'
  <2>1. Local(t)
    BY ZenonT(60), <1>1, <1>5, LocalSteps
  <2> QED BY ZenonT(60), <2>1, <1>1, <1>LocalPlaces
<1>6. ASSUME NEW t \in Threads, sema_down(t), value[obj[t]] = 0 PROVE NoLostThread'
  BY ZenonT(60), <1>6, <1>BlockPlaces
<1>7. CASE Preempt \/ IdleBlocks
  BY ZenonT(60), <1>1, <1>7, <1>SwitchPlaces
<1> QED BY ZenonT(60), <1>2, <1>3, <1>4, <1>5, <1>6, <1>7, StepKinds

-----------------------------------------------------------------------------
(* Wake-ups of semaphores.                                                  *)

(* The threads sema_up has woken that have not yet looked again.            *)
Woken(s) == {t \in Threads : /\ obj[t] = s /\ pc[t] = "wake"
                             /\ t \notin Elems(waiters[s])}

(* Counting sets of threads: more threads are more, and one is one.         *)
ThreadsCount ==
    /\ \A A, B \in SUBSET Threads :
         A \subseteq B => /\ Cardinality(A) \in Nat /\ Cardinality(B) \in Nat
                         /\ Cardinality(A) <= Cardinality(B)
    /\ \A A \in SUBSET Threads, h \in Threads :
         /\ h \notin A => Cardinality(A \cup {h}) = Cardinality(A) + 1
         /\ h \in A => Cardinality(A \ {h}) = Cardinality(A) - 1

(* No step loses a wake-up.                                                 *)
LEMMA NextWakeups ==
    ThreadsCount /\ SInv /\ NoLostThread /\ NoLostWakeup /\ [Next]_vars => NoLostWakeup'
<1> SUFFICES ASSUME ThreadsCount, SInv, NoLostThread, NoLostWakeup, [Next]_vars
             PROVE  NoLostWakeup'
  OBVIOUS
(* Woken threads are threads; more of them are more.                        *)
<1>WokenCount.
    ASSUME NEW A \in SUBSET Threads, NEW B \in SUBSET Threads, A \subseteq B
    PROVE  /\ Cardinality(A) \in Nat /\ Cardinality(B) \in Nat
           /\ Cardinality(A) <= Cardinality(B)
  BY ZenonT(60), <1>WokenCount DEF ThreadsCount
(* One thread more, one thread less.                                        *)
<1>WokenOne.
    ASSUME NEW A \in SUBSET Threads, NEW h \in Threads
    PROVE  /\ h \notin A => Cardinality(A \cup {h}) = Cardinality(A) + 1
           /\ h \in A => Cardinality(A \ {h}) = Cardinality(A) - 1
  BY ZenonT(60) DEF ThreadsCount
(* NoLostWakeup in terms of Woken.                                          *)
<1>WakeupForm.
    /\ NoLostWakeup <=> \A s \in AllSemas : waiters[s] # <<>> => value[s] <= Cardinality(Woken(s))
    /\ NoLostWakeup' <=> \A s \in AllSemas : waiters'[s] # <<>> => value'[s] <= Cardinality(Woken(s)')
  <2>1. NoLostWakeup <=> \A s \in AllSemas : waiters[s] # <<>> => value[s] <= Cardinality(Woken(s))
    BY ZenonT(60) DEF NoLostWakeup, Woken
  <2>2. NoLostWakeup' <=> \A s \in AllSemas : waiters'[s] # <<>> => value'[s] <= Cardinality(Woken(s)')
    BY ZenonT(60) DEF NoLostWakeup, Woken
  <2> QED BY ZenonT(60), <2>1, <2>2
(* A step that takes no more units than woken threads.                      *)
<1>LocalWakeups.
    ASSUME SInv, NoLostThread, NoLostWakeup, NEW t \in Threads, Local(t),
           value' \in [AllSemas -> Nat],
           \A r \in AllSemas : value'[r] <= value[r],
           pc[t] = "wake" => obj[t] \in AllSemas /\ value'[obj[t]] < value[obj[t]]
    PROVE  NoLostWakeup'
  <2> USE <1>LocalWakeups
  <2>1. value \in [AllSemas -> Nat]
    BY ZenonT(60) DEF SInv, TypeOK
  <2> SUFFICES ASSUME NEW r \in AllSemas, waiters'[r] # <<>>
               PROVE  value'[r] <= Cardinality(Woken(r)')
    BY <1>WakeupForm
  <2>2. value[r] <= Cardinality(Woken(r)) /\ value[r] \in Nat /\ value'[r] \in Nat
    BY <2>1, <1>WakeupForm DEF Local
  <2>3. Woken(r) \in SUBSET Threads /\ Woken(r)' \in SUBSET Threads
    BY ZenonT(60) DEF Woken
  <2>4. Woken(r) \ {t} \subseteq Woken(r)'
    BY ZenonT(60) DEF Woken, Local
  <2>5. CASE t \in Woken(r)
    <3>1. value'[r] < value[r]
      BY ZenonT(60), <2>5 DEF Woken
    <3>2. Cardinality(Woken(r) \ {t}) = Cardinality(Woken(r)) - 1
      BY ZenonT(60), <2>3, <2>5, <1>WokenOne
    <3>3. Woken(r) \ {t} \in SUBSET Threads
      BY ZenonT(60), <2>3
    <3>4. /\ Cardinality(Woken(r) \ {t}) <= Cardinality(Woken(r)') /\ Cardinality(Woken(r)') \in Nat
          /\ Cardinality(Woken(r)) \in Nat
      BY ZenonT(60), <2>3, <2>4, <3>3, <1>WokenCount
    <3> QED BY <2>2, <3>1, <3>2, <3>4
  <2>6. CASE t \notin Woken(r)
    <3>1. Woken(r) \subseteq Woken(r)'
      BY ZenonT(60), <2>4, <2>6
    <3>2. /\ Cardinality(Woken(r)) <= Cardinality(Woken(r)') /\ Cardinality(Woken(r)') \in Nat
          /\ Cardinality(Woken(r)) \in Nat
      BY ZenonT(60), <2>3, <3>1, <1>WokenCount
    <3> QED BY <2>2, <3>2
  <2> QED BY <2>5, <2>6
(* sema_up wakes one thread for its one unit.                               *)
<1>UpWakeups.
    ASSUME SInv, NoLostThread, NoLostWakeup, NEW s \in AllSemas, Ups(s)
    PROVE  NoLostWakeup'
  <2> USE <1>UpWakeups
  <2>1. /\ Up(s) /\ current' = current /\ (current # Idle => pc[current] # "wake")
        /\ \A u \in Threads : u # current => pc'[u] = pc[u] /\ obj'[u] = obj[u]
    BY ZenonT(60), UpsFrame
  <2>2. TypeOK /\ value \in [AllSemas -> Nat]
    BY DEF SInv, TypeOK
  <2>3. /\ value' \in [AllSemas -> Nat] /\ value'[s] = value[s] + 1
        /\ \A r \in AllSemas \ {s} : value'[r] = value[r]
    BY ZenonT(60), <2>1, <2>2, UpType
  <2> SUFFICES ASSUME NEW r \in AllSemas, waiters'[r] # <<>>
               PROVE  value'[r] <= Cardinality(Woken(r)')
    BY ZenonT(60), <1>WakeupForm
  <2>4. \A u \in Threads : pc[u] = "wake" => u # current
    BY <2>1, SynchAssumption
  <2>5. Woken(r) \in SUBSET Threads /\ Woken(r)' \in SUBSET Threads
    BY ZenonT(60) DEF Woken
  <2>6. CASE waiters'[r] = waiters[r] /\ r # s
    <3>1. value[r] <= Cardinality(Woken(r)) /\ value'[r] = value[r]
      BY ZenonT(60), <2>3, <2>6, <1>WakeupForm
    <3>2. Woken(r) \subseteq Woken(r)'
      BY ZenonT(60), <2>1, <2>4, <2>6 DEF Woken
    <3>3. /\ Cardinality(Woken(r)) <= Cardinality(Woken(r)') /\ Cardinality(Woken(r)') \in Nat
          /\ Cardinality(Woken(r)) \in Nat /\ value[r] \in Nat
      BY ZenonT(60), <2>2, <2>5, <3>2, <1>WokenCount
    <3> QED BY ZenonT(60), <3>1, <3>3, Units
  <2>7. CASE r = s /\ waiters[s] # <<>>
    <3>1. PICK h \in Threads : Wakes(s, h)
      BY ZenonT(60), <2>1, <2>2, <2>7, UpQueues
    <3>2. h # current /\ obj[h] = s /\ pc[h] = "wake" /\ h \in Elems(waiters[s])
      BY ZenonT(60), <3>1, WaitersStopped DEF Wakes
    <3>3. h \notin Woken(s) /\ h \in Woken(s)'
      BY ZenonT(60), <3>1, <3>2, <2>1 DEF Woken, Wakes
    <3>4. Woken(s) \subseteq Woken(s)'
      BY ZenonT(60), <3>1, <2>1, <2>4 DEF Woken, Wakes
    <3>5. Woken(s) \cup {h} \in SUBSET Threads /\ Woken(s) \cup {h} \subseteq Woken(s)'
      BY ZenonT(60), <2>5, <2>7, <3>3, <3>4
    <3>6. Cardinality(Woken(s) \cup {h}) = Cardinality(Woken(s)) + 1
      BY ZenonT(60), <2>5, <2>7, <3>3, <1>WokenOne
    <3>7. /\ Cardinality(Woken(s) \cup {h}) <= Cardinality(Woken(s)')
          /\ Cardinality(Woken(s)') \in Nat
      BY ZenonT(60), <2>5, <2>7, <3>5, <1>WokenCount
    <3>8. Cardinality(Woken(s)) \in Nat
      BY ZenonT(60), <2>5, <2>7, <1>WokenCount
    <3>9. value[s] <= Cardinality(Woken(s)) /\ value[s] \in Nat
      BY ZenonT(60), <2>2, <2>7, <1>WakeupForm
    <3>10. value'[s] <= Cardinality(Woken(s)')
      BY <2>3, <3>6, <3>7, <3>8, <3>9
    <3> QED BY ZenonT(60), <3>10, <2>7
  <2>8. \/ waiters'[r] = waiters[r] /\ r # s
        \/ r = s /\ waiters[s] # <<>>
    BY ZenonT(60), <2>1, <2>2, UpQueues DEF Wakes
  <2> QED BY <2>6, <2>7, <2>8
(* A thread that blocks found no unit.                                      *)
<1>BlockWakeups.
    ASSUME SInv, NoLostThread, NoLostWakeup, NEW t \in Threads, sema_down(t), value[obj[t]] = 0
    PROVE  NoLostWakeup'
  <2> USE <1>BlockWakeups
  <2>1. PICK s \in AllSemas : s = obj[t]
    <3>1. pc[t] \in {"down", "wake"} /\ CallFits(t) /\ obj \in [Threads -> AllSemas \cup {None}]
      BY ZenonT(60) DEF sema_down, At, SInv, CallInv, TypeOK
    <3> QED BY <3>1 DEF CallFits
  <2>2. /\ value' = value /\ obj' = obj
        /\ waiters' = [waiters EXCEPT ![s] = Append(waiters[s], t)]
        /\ pc' = [pc EXCEPT ![t] = "wake"]
    <3>1. ~ (value[obj[t]] > 0)
      OBVIOUS
    <3> QED BY ZenonT(60), <2>1, <3>1 DEF sema_down, Goto
  <2>3. /\ pc \in [Threads -> Labels] /\ waiters \in [AllSemas -> Seq(Threads)]
        /\ value \in [AllSemas -> Nat]
    BY ZenonT(60) DEF SInv, TypeOK
  <2>4. /\ \A r \in AllSemas \ {s} : waiters'[r] = waiters[r]
        /\ pc'[t] = "wake" /\ \A u \in Threads \ {t} : pc'[u] = pc[u]
    BY <2>2, <2>3
  <2> SUFFICES ASSUME NEW r \in AllSemas, waiters'[r] # <<>>
               PROVE  value'[r] <= Cardinality(Woken(r)')
    BY <1>WakeupForm
  <2>5. Woken(r) \in SUBSET Threads /\ Woken(r)' \in SUBSET Threads
    BY ZenonT(60) DEF Woken
  <2>6. Cardinality(Woken(r)) \in Nat /\ Cardinality(Woken(r)') \in Nat
    BY ZenonT(60), <2>5, <1>WokenCount
  <2>7. CASE r = s
    <3>1. value'[r] = 0
      BY ZenonT(60), <2>1, <2>2, <2>7
    <3> QED BY ZenonT(60), <3>1, <2>6, Units
  <2>8. CASE r # s
    <3>1. Woken(r) \subseteq Woken(r)'
      BY ZenonT(60), <2>1, <2>2, <2>4, <2>8 DEF Woken
    <3>2. Cardinality(Woken(r)) <= Cardinality(Woken(r)')
      BY ZenonT(60), <2>5, <3>1, <1>WokenCount
    <3>3. value[r] <= Cardinality(Woken(r)) /\ value'[r] = value[r] /\ value[r] \in Nat
      BY ZenonT(60), <2>2, <2>3, <2>4, <2>8, <1>WakeupForm
    <3> QED BY ZenonT(60), <3>2, <3>3, <2>6, Units
  <2> QED BY ZenonT(60), <2>7, <2>8
(* What the steps of a call do to the values.                               *)
<1>LocalValues.
    ASSUME SInv, NEW t \in Threads, LocalStep(t)
    PROVE  /\ value' \in [AllSemas -> Nat]
           /\ \A r \in AllSemas : value'[r] <= value[r]
           /\ pc[t] = "wake" => obj[t] \in AllSemas /\ value'[obj[t]] < value[obj[t]]
  <2> USE <1>LocalValues
  <2>1. value \in [AllSemas -> Nat] /\ \A r \in AllSemas : value[r] \in Nat /\ value[r] <= value[r]
    BY DEF SInv, TypeOK
  <2>2. ASSUME NEW s \in AllSemas, NEW n \in Nat, n <= value[s], value' = [value EXCEPT ![s] = n]
        PROVE  /\ value' \in [AllSemas -> Nat] /\ value'[s] = n
               /\ \A r \in AllSemas : value'[r] <= value[r]
    BY <2>1, <2>2
  <2>3. CASE sema_down(t) /\ value[obj[t]] > 0
    <3>1. PICK s \in AllSemas : s = obj[t]
      <4>1. pc[t] \in {"down", "wake"} /\ CallFits(t) /\ obj \in [Threads -> AllSemas \cup {None}]
        BY ZenonT(60), <2>3 DEF sema_down, At, SInv, CallInv, TypeOK
      <4> QED BY ZenonT(60), <4>1 DEF CallFits
    <3>2. value' = [value EXCEPT ![s] = value[s] - 1] /\ value[s] > 0
      BY <3>1, <2>3 DEF sema_down
    <3>3. value[s] - 1 \in Nat /\ value[s] - 1 <= value[s] /\ value[s] - 1 < value[s]
      BY <3>2, <2>1
    <3> QED BY ZenonT(60), <3>1, <3>2, <3>3, <2>2
  <2>4. ASSUME NEW l \in Locks, lock_try_acquire(t, l)
        PROVE  pc[t] = "run" /\ value' \in [AllSemas -> Nat] /\ \A r \in AllSemas : value'[r] <= value[r]
    <3>1. /\ pc[t] = "run" /\ value' = [value EXCEPT ![l] = value[l] - 1] /\ value[l] > 0
          /\ l \in AllSemas
      BY ZenonT(60), <2>4, Kinds DEF lock_try_acquire, At
    <3>2. value[l] - 1 \in Nat /\ value[l] - 1 <= value[l]
      BY <3>1, <2>1
    <3> QED BY ZenonT(60), <3>1, <3>2, <2>2
  <2>5. ASSUME NEW c \in Conds, cond_wait(t, c)
        PROVE  pc[t] = "run" /\ value' \in [AllSemas -> Nat] /\ \A r \in AllSemas : value'[r] <= value[r]
    <3>1. pc[t] = "run" /\ value' = [value EXCEPT ![t] = 0] /\ t \in AllSemas
      BY ZenonT(60), <2>5, Kinds DEF cond_wait, At
    <3>2. 0 \in Nat /\ 0 <= value[t]
      BY <3>1, <2>1
    <3> QED BY ZenonT(60), <3>1, <3>2, <2>2
  <2>6. ASSUME value' = value, pc[t] # "wake"
        PROVE  /\ value' \in [AllSemas -> Nat]
               /\ \A r \in AllSemas : value'[r] <= value[r]
               /\ pc[t] = "wake" => obj[t] \in AllSemas /\ value'[obj[t]] < value[obj[t]]
    BY <2>1, <2>6
  <2>7. ASSUME NEW s, CallDown(t, s) PROVE value' = value /\ pc[t] # "wake"
    BY <2>7 DEF CallDown, At, semaVars
  <2>8. ASSUME NEW l, lock_release(t, l) PROVE value' = value /\ pc[t] # "wake"
    BY <2>8 DEF lock_release, At, semaVars
  <2>9. CASE lock_acquire(t) \/ cond_broadcast(t)
    BY <2>6, <2>9 DEF lock_acquire, cond_broadcast, At, semaVars
  <2>10. ASSUME NEW c, cond_signal(t, c) \/ CallBroadcast(t, c) PROVE value' = value /\ pc[t] # "wake"
    BY ZenonT(60), <2>10 DEF cond_signal, CallBroadcast, At, semaVars
  <2>11. "run" # "wake"
    OBVIOUS
  <2> QED BY ZenonT(60), <2>3, <2>4, <2>5, <2>6, <2>7, <2>8, <2>9, <2>10, <2>11 DEF LocalStep
<1>1. TypeOK /\ value \in [AllSemas -> Nat]
  BY DEF SInv, TypeOK
<1>2. ASSUME UNCHANGED <<waiters, pc, obj, value>> PROVE NoLostWakeup'
  BY <1>2 DEF NoLostWakeup
<1>3. ASSUME NEW s \in Semas, sema_try_down(s) PROVE NoLostWakeup'
  <2>1. /\ UNCHANGED <<waiters, pc, obj>> /\ value' = [value EXCEPT ![s] = value[s] - 1]
        /\ value[s] > 0 /\ s \in AllSemas
    BY <1>3, Kinds DEF sema_try_down, locVars
  <2>2. \A r \in AllSemas : value'[r] \in Nat /\ value[r] \in Nat /\ value'[r] <= value[r]
    BY <2>1, <1>1
  <2> SUFFICES ASSUME NEW r \in AllSemas, waiters'[r] # <<>>
               PROVE  value'[r] <= Cardinality(Woken(r)')
    BY <1>WakeupForm
  <2>3. Woken(r)' = Woken(r) /\ waiters[r] # <<>>
    BY ZenonT(60), <2>1 DEF Woken
  <2>4. value[r] <= Cardinality(Woken(r))
    BY ZenonT(60), <2>3, <1>WakeupForm
  <2>5. Woken(r) \in SUBSET Threads
    BY ZenonT(60) DEF Woken
  <2>6. Cardinality(Woken(r)) \in Nat
    BY ZenonT(60), <2>5, <1>WokenCount
  <2> QED BY <2>2, <2>3, <2>4, <2>6
<1>4. ASSUME NEW t \in Threads, LocalStep(t) PROVE NoLostWakeup'
  <2>1. Local(t)
    BY ZenonT(60), <1>1, <1>4, LocalSteps
  <2>2. /\ value' \in [AllSemas -> Nat]
        /\ \A r \in AllSemas : value'[r] <= value[r]
        /\ pc[t] = "wake" => obj[t] \in AllSemas /\ value'[obj[t]] < value[obj[t]]
    BY ZenonT(60), <1>4, <1>LocalValues
  <2> QED BY ZenonT(60), <2>1, <2>2, <1>LocalWakeups
<1>5. CASE UNCHANGED vars
  BY <1>2, <1>5 DEF vars, semaVars, locVars
<1>6. CASE Preempt \/ IdleBlocks
  BY <1>2, <1>6 DEF Preempt, IdleBlocks, semaVars, locVars
<1> QED BY ZenonT(60), <1>3, <1>4, <1>5, <1>6, StepKinds, <1>UpWakeups, <1>BlockWakeups

(* Initially nobody waits.                                                  *)
LEMMA InitWakeups == Init => NoLostWakeup
<1> SUFFICES ASSUME Init PROVE NoLostWakeup
  OBVIOUS
<1>1. \A s \in AllSemas : waiters[s] = <<>>
  BY ZenonT(60) DEF Init
<1> QED BY ZenonT(60), <1>1 DEF NoLostWakeup

-----------------------------------------------------------------------------
(* Signals of condition variables.                                          *)

(* On the list of a condition; unlinked by a signaller that has not yet     *)
(* upped its semaphore.                                                     *)
Listed(t) == \E c \in Conds : t \in Elems(cwait[c])
Called(t) == \E u \in Threads : Signaller(u, t)

(* The three stages of a cond_wait exclude each other (SignalledOnce).      *)
Fate(t) == /\ Listed(t) \/ Called(t) \/ value[t] > 0 <=> InWait(t)
           /\ ~ (Listed(t) /\ Called(t)) /\ ~ (Listed(t) /\ value[t] > 0)
           /\ ~ (Called(t) /\ value[t] > 0) /\ value[t] <= 1

Lined(c) == NoDup(cwait[c]) /\ \A t \in Elems(cwait[c]) : cv[t] = c

(* A thread outside the condition variables' functions has no condition.    *)
Roles(t) == /\ pc[t] = "run" => cv[t] = None
            /\ pc[t] \in {"down", "wake"} /\ obj[t] \in Semas => cv[t] = None
            /\ pc[t] = "up" /\ obj[t] \notin Locks => cv[t] = None

(* SignalledOnce, and what makes it inductive: only one thread is about to  *)
(* up the semaphore of a waiter.                                            *)
SigInv == /\ \A t \in Threads : Fate(t) /\ Roles(t)
          /\ \A c \in Conds : Lined(c)
          /\ \A t, u, v \in Threads : Signaller(u, t) /\ Signaller(v, t) => u = v

(* SignalledOnce is part of SigInv.                                         *)
LEMMA SigInvSignals == SigInv => SignalledOnce
BY ZenonT(60) DEF SigInv, SignalledOnce, Fate, Lined, Listed, Called

(* Who waits for a condition is a thread.                                   *)
LEMMA WaitersAreThreads ==
    ASSUME SInv, NEW c \in Conds
    PROVE  cwait[c] \in Seq(Threads) /\ Elems(cwait[c]) \subseteq Threads
<1>1. cwait[c] \in Seq(Threads)
  BY ZenonT(60) DEF SInv, TypeOK
<1> QED BY <1>1 DEF Elems

(* cond_signal and cond_broadcast unlink a thread.                          *)
LEMMA FirstIsThread ==
    ASSUME SInv, NEW c \in Conds, cwait[c] # <<>>
    PROVE  Head(cwait[c]) \in Threads
<1>1. cwait[c] \in Seq(Threads) /\ cwait[c] # <<>>
  BY ZenonT(60), WaitersAreThreads
<1> QED BY <1>1

(* Only the locals of thread t change.                                      *)
Aside(t) == \A u \in Threads \ {t} : pc'[u] = pc[u] /\ obj'[u] = obj[u] /\ cv'[u] = cv[u]

(* A step of t that is none of cond_wait's, cond_signal's and               *)
(* cond_broadcast's own.                                                    *)
Steady(t) == /\ Aside(t) /\ cwait' = cwait
             /\ \A u \in Threads : value'[u] = value[u]
             /\ \A w \in Threads : ~ Signaller(t, w) /\ ~ Signaller(t, w)'
             /\ InWait(t)' <=> InWait(t)
             /\ InWait(t) => cv'[t] = cv[t]
             /\ Roles(t)'

(* t ups the semaphore of the waiter w it has unlinked.                     *)
Calls(t, w) == /\ Aside(t) /\ cwait' = cwait
               /\ value'[w] = value[w] + 1
               /\ \A u \in Threads \ {w} : value'[u] = value[u]
               /\ Signaller(t, w) /\ \A v \in Threads : ~ Signaller(t, v)'
               /\ InWait(t)' <=> InWait(t)
               /\ cv'[t] = cv[t] /\ Roles(t)'

(* t unlinks the first waiter h of condition c.                             *)
Unlinks(t, c, h) == /\ Aside(t) /\ cwait[c] # <<>> /\ h = Head(cwait[c])
                    /\ cwait' = [cwait EXCEPT ![c] = Tail(cwait[c])]
                    /\ \A u \in Threads : value'[u] = value[u]
                    /\ \A v \in Threads : ~ Signaller(t, v) /\ (Signaller(t, v)' <=> v = h)
                    /\ InWait(t)' <=> InWait(t)
                    /\ cv'[t] = cv[t] /\ Roles(t)'

(* t joins the waiters of condition c, with a fresh semaphore.              *)
Joins(t, c) == /\ Aside(t) /\ ~ InWait(t) /\ InWait(t)'
               /\ cwait' = [cwait EXCEPT ![c] = Append(cwait[c], t)]
               /\ value'[t] = 0 /\ \A u \in Threads \ {t} : value'[u] = value[u]
               /\ \A v \in Threads : ~ Signaller(t, v) /\ ~ Signaller(t, v)'
               /\ cv'[t] = c /\ Roles(t)'

(* t takes the unit of its own semaphore.                                   *)
Leaves(t) == /\ Aside(t) /\ cwait' = cwait /\ InWait(t) /\ ~ InWait(t)'
             /\ value[t] > 0 /\ value'[t] = value[t] - 1
             /\ \A u \in Threads \ {t} : value'[u] = value[u]
             /\ \A v \in Threads : ~ Signaller(t, v) /\ ~ Signaller(t, v)'
             /\ cv'[t] = cv[t] /\ Roles(t)'

-----------------------------------------------------------------------------
(* Each step of synch.c is one of these.                                    *)

(* The locals of t after it went to label p with operand o.                 *)
LEMMA Went ==
    ASSUME SInv, NEW t \in Threads, NEW p \in Labels, NEW o,
           Goto(t, p), With(t, o), NEW c, cv' = [cv EXCEPT ![t] = c]
    PROVE  pc'[t] = p /\ obj'[t] = o /\ cv'[t] = c /\ Aside(t)
<1>1. /\ pc \in [Threads -> Labels] /\ obj \in [Threads -> AllSemas \cup {None}]
      /\ cv \in [Threads -> Conds \cup {None}]
  BY DEF SInv, TypeOK
<1> QED BY <1>1 DEF Goto, With, Aside

(* The same when the operand or the condition stays.                        *)
LEMMA Stayed ==
    ASSUME SInv, NEW t \in Threads
    PROVE  /\ UNCHANGED obj => With(t, obj[t])
           /\ UNCHANGED cv => cv' = [cv EXCEPT ![t] = cv[t]]
<1>1. /\ obj \in [Threads -> AllSemas \cup {None}] /\ cv \in [Threads -> Conds \cup {None}]
  BY DEF SInv, TypeOK
<1> QED BY <1>1 DEF With

(* No label but "up" and "bup" signals; no label but four waits.            *)
LEMMA Bystander ==
    ASSUME NEW t \in Threads
    PROVE  /\ pc[t] \notin {"up", "bup"} => \A w \in Threads : ~ Signaller(t, w)
           /\ pc'[t] \notin {"up", "bup"} => \A w \in Threads : ~ Signaller(t, w)'
           /\ obj[t] \in Locks => \A w \in Threads : ~ Signaller(t, w)
           /\ obj'[t] \in Locks => \A w \in Threads : ~ Signaller(t, w)'
           /\ pc[t] \notin {"clear", "up", "down", "wake"} => ~ InWait(t)
           /\ pc'[t] \notin {"clear", "up", "down", "wake"} => ~ InWait(t)'
           /\ cv[t] = None => ~ InWait(t)
           /\ cv'[t] = None => ~ InWait(t)'
<1>1. \A w \in Threads : w \notin Locks
  BY Kinds
<1> QED BY ZenonT(60), <1>1 DEF Signaller, InWait

(* Initially nobody waits for a condition.                                  *)
LEMMA InitSignals == Init => SigInv
<1> SUFFICES ASSUME Init PROVE SigInv
  OBVIOUS
<1>1. \A t \in Threads : pc[t] = "run" /\ cv[t] = None /\ value[t] = 0
  BY Kinds DEF Init
<1>2. \A c \in Conds : Elems(cwait[c]) = {} /\ NoDup(cwait[c])
  BY EmptyQueue DEF Init
<1>3. \A t, u \in Threads : ~ Signaller(u, t)
  BY <1>1 DEF Signaller
<1>4. \A t \in Threads : ~ InWait(t) /\ Roles(t)
  BY ZenonT(60), <1>1 DEF InWait, Roles
<1>5. \A t \in Threads : ~ Listed(t) /\ ~ Called(t)
  BY ZenonT(60), <1>2, <1>3 DEF Listed, Called
<1>6. \A t \in Threads : ~ (value[t] > 0) /\ value[t] <= 1
  BY <1>1
<1>7. \A t \in Threads : Fate(t)
  BY ZenonT(60), <1>4, <1>5, <1>6 DEF Fate
<1>8. \A c \in Conds : Lined(c)
  BY ZenonT(60), <1>2 DEF Lined
<1> QED BY ZenonT(60), <1>3, <1>4, <1>7, <1>8 DEF SigInv

(* Every step preserves it.                                                 *)
LEMMA NextSignals == SInv /\ SigInv /\ [Next]_vars => SigInv'
(* What the others do about conditions stays as it is.                      *)
<1>AsideFacts.
    ASSUME NEW t \in Threads, Aside(t)
    PROVE  \A u \in Threads \ {t} :
             /\ InWait(u)' <=> InWait(u)
             /\ Roles(u)' <=> Roles(u)
             /\ cv'[u] = cv[u]
             /\ \A w \in Threads : Signaller(u, w)' <=> Signaller(u, w)
  BY ZenonT(60), <1>AsideFacts DEF Aside, InWait, Roles, Signaller
(* Such a step changes nobody's stage.                                      *)
<1>SteadySignals.
    ASSUME SInv, SigInv, NEW t \in Threads, Steady(t)
    PROVE  SigInv'
  <2> USE <1>SteadySignals
  <2>1. \A u, w \in Threads : Signaller(u, w)' <=> Signaller(u, w)
    BY ZenonT(60), <1>AsideFacts DEF Steady
  <2>2. \A u \in Threads : (InWait(u)' <=> InWait(u)) /\ Roles(u)'
    BY ZenonT(60), <1>AsideFacts DEF Steady, SigInv
  <2>3. \A u \in Threads : (Listed(u)' <=> Listed(u)) /\ (Called(u)' <=> Called(u))
    BY ZenonT(60), <2>1 DEF Steady, Listed, Called
  <2>4. \A u \in Threads : value'[u] = value[u]
    BY ZenonT(60) DEF Steady
  <2>5. ASSUME NEW u \in Threads PROVE Fate(u)'
    <3>1. Fate(u)
      BY ZenonT(60) DEF SigInv
    <3> QED BY ZenonT(60), <3>1, <2>2, <2>3, <2>4 DEF Fate
  <2>6. ASSUME NEW c \in Conds PROVE Lined(c)'
    <3>1. Lined(c) /\ cwait' = cwait
      BY ZenonT(60) DEF SigInv, Steady
    <3>2. ASSUME NEW u \in Elems(cwait[c]), u \in Threads PROVE cv'[u] = c
      <4>1. Listed(u) /\ cv[u] = c /\ Fate(u)
        BY ZenonT(60), <3>1, <3>2 DEF Listed, Lined, SigInv
      <4>2. InWait(u)
        BY ZenonT(60), <4>1 DEF Fate
      <4>3. cv'[u] = cv[u]
        BY ZenonT(60), <4>2, <3>2, <1>AsideFacts DEF Steady
      <4> QED BY ZenonT(60), <4>1, <4>3
    <3> QED BY ZenonT(60), <3>1, <3>2, WaitersAreThreads DEF Lined
  <2> QED BY ZenonT(60), <2>1, <2>2, <2>5, <2>6 DEF SigInv
(* A step that leaves the conditions, the threads' semaphores and every     *)
(* thread's locals alone.                                                   *)
<1>SameSignals.
    ASSUME SigInv, UNCHANGED <<cwait, pc, obj, cv>>, \A u \in Threads : value'[u] = value[u]
    PROVE  SigInv'
  <2> USE <1>SameSignals
  <2>1. \A u, w \in Threads : Signaller(u, w)' <=> Signaller(u, w)
    BY ZenonT(60) DEF Signaller
  <2>2. \A u \in Threads : (InWait(u)' <=> InWait(u)) /\ (Roles(u)' <=> Roles(u))
    BY ZenonT(60) DEF InWait, Roles
  <2>3. \A u \in Threads : (Listed(u)' <=> Listed(u)) /\ (Called(u)' <=> Called(u))
    BY ZenonT(60), <2>1 DEF Listed, Called
  <2>4. \A u \in Threads : Fate(u)' <=> Fate(u)
    BY ZenonT(60), <2>2, <2>3 DEF Fate
  <2>5. \A c \in Conds : Lined(c)' <=> Lined(c)
    BY ZenonT(60) DEF Lined
  <2> QED BY ZenonT(60), <2>1, <2>2, <2>4, <2>5 DEF SigInv
(* cond_signal's sema_up turns a called waiter into one whose semaphore is  *)
(* up, because nobody else was about to up it.                              *)
<1>CallsSignals.
    ASSUME SInv, SigInv, NEW t \in Threads, NEW w \in Threads, Calls(t, w)
    PROVE  SigInv'
  <2> USE <1>CallsSignals
  <2>1. /\ \A u \in Threads \ {t} : \A v \in Threads : Signaller(u, v)' <=> Signaller(u, v)
        /\ \A v \in Threads : ~ Signaller(t, v)'
    BY ZenonT(60), <1>AsideFacts DEF Calls
  <2>2. \A u \in Threads : (InWait(u)' <=> InWait(u)) /\ Roles(u)' /\ cv'[u] = cv[u]
    BY ZenonT(60), <1>AsideFacts DEF Calls, SigInv
  <2>3. \A u \in Threads : Listed(u)' <=> Listed(u)
    BY ZenonT(60) DEF Calls, Listed
  <2>4. \A v \in Threads \ {w} : ~ Signaller(t, v)
    BY ZenonT(60) DEF Calls, Signaller
  <2>5. \A v \in Threads \ {w} : Called(v)' <=> Called(v)
    BY ZenonT(60), <2>1, <2>4 DEF Called
  <2>6. Called(w) /\ ~ Called(w)'
    BY ZenonT(60), <2>1 DEF Calls, Called, SigInv
  <2>7. ASSUME NEW v \in Threads PROVE Fate(v)'
    <3>1. Fate(v) /\ value[v] \in Nat
      BY Kinds DEF SigInv, SInv, TypeOK
    <3>2. CASE v # w
      <4>1. value'[v] = value[v]
        BY ZenonT(60), <3>2 DEF Calls
      <4> QED BY ZenonT(60), <3>1, <3>2, <4>1, <2>2, <2>3, <2>5 DEF Fate
    <3>3. CASE v = w
      <4>1. ~ Listed(v) /\ ~ (value[v] > 0) /\ InWait(v)
        BY ZenonT(60), <3>1, <3>3, <2>6 DEF Fate
      <4>2. value'[v] = value[v] + 1
        BY ZenonT(60), <3>3 DEF Calls
      <4>3. value'[v] > 0 /\ value'[v] <= 1
        BY <3>1, <4>1, <4>2
      <4>4. ~ Listed(v)' /\ ~ Called(v)' /\ InWait(v)'
        BY ZenonT(60), <4>1, <3>3, <2>2, <2>3, <2>6
      <4> QED BY ZenonT(60), <4>3, <4>4 DEF Fate
    <3> QED BY ZenonT(60), <3>2, <3>3
  <2>8. ASSUME NEW c \in Conds PROVE Lined(c)'
    <3>1. Lined(c) /\ cwait' = cwait
      BY ZenonT(60) DEF SigInv, Calls
    <3> QED BY ZenonT(60), <3>1, <2>2, WaitersAreThreads DEF Lined
  <2> QED BY ZenonT(60), <2>1, <2>2, <2>7, <2>8 DEF SigInv
(* cond_signal turns a listed waiter into a called one; it was on one list  *)
(* only, and once.                                                          *)
<1>UnlinksSignals.
    ASSUME SInv, SigInv, NEW t \in Threads, NEW c \in Conds, NEW h, Unlinks(t, c, h)
    PROVE  SigInv'
  <2> USE <1>UnlinksSignals
  <2>0. /\ Lined(c) /\ cwait[c] # <<>> /\ h = Head(cwait[c])
        /\ cwait' = [cwait EXCEPT ![c] = Tail(cwait[c])]
    BY ZenonT(60) DEF SigInv, Unlinks
  <2>1. /\ h \in Threads /\ h \in Elems(cwait[c]) /\ Elems(Tail(cwait[c])) = Elems(cwait[c]) \ {h}
        /\ NoDup(Tail(cwait[c]))
    BY ZenonT(60), <2>0, WaitersAreThreads, PopFront DEF Lined
  <2>2. cwait'[c] = Tail(cwait[c]) /\ \A d \in Conds \ {c} : cwait'[d] = cwait[d]
    <3>1. cwait \in [Conds -> Seq(Threads)]
      BY ZenonT(60) DEF SInv, TypeOK
    <3> QED BY <3>1, <2>0
  <2>3. /\ \A u \in Threads \ {t} : \A v \in Threads : Signaller(u, v)' <=> Signaller(u, v)
        /\ \A v \in Threads : ~ Signaller(t, v) /\ (Signaller(t, v)' <=> v = h)
    BY ZenonT(60), <1>AsideFacts DEF Unlinks
  <2>4. \A u \in Threads : (InWait(u)' <=> InWait(u)) /\ Roles(u)' /\ cv'[u] = cv[u]
    BY ZenonT(60), <1>AsideFacts DEF Unlinks, SigInv
  <2>5. \A d \in Conds \ {c} : h \notin Elems(cwait[d])
    BY ZenonT(60), <2>0, <2>1 DEF SigInv, Lined
  <2>6. Listed(h) /\ ~ Listed(h)'
    BY ZenonT(60), <2>1, <2>2, <2>5 DEF Listed
  <2>7. \A v \in Threads \ {h} : Listed(v)' <=> Listed(v)
    BY ZenonT(60), <2>1, <2>2 DEF Listed
  <2>8. \A v \in Threads \ {h} : Called(v)' <=> Called(v)
    BY ZenonT(60), <2>3 DEF Called
  <2>9. Called(h)'
    BY ZenonT(60), <2>1, <2>3 DEF Called
  <2>10. ASSUME NEW v \in Threads PROVE Fate(v)'
    <3>1. Fate(v) /\ value'[v] = value[v]
      BY ZenonT(60) DEF SigInv, Unlinks
    <3>2. CASE v # h
      BY ZenonT(60), <3>1, <3>2, <2>4, <2>7, <2>8 DEF Fate
    <3>3. CASE v = h
      BY ZenonT(60), <3>1, <3>3, <2>4, <2>6, <2>9 DEF Fate
    <3> QED BY ZenonT(60), <3>2, <3>3
  <2>11. ASSUME NEW d \in Conds PROVE Lined(d)'
    <3>1. Lined(d)
      BY ZenonT(60) DEF SigInv
    <3>2. NoDup(cwait'[d]) /\ Elems(cwait'[d]) \subseteq Elems(cwait[d])
      BY ZenonT(60), <3>1, <2>1, <2>2 DEF Lined
    <3> QED BY ZenonT(60), <3>1, <3>2, <2>4, WaitersAreThreads DEF Lined
  <2>12. ~ Called(h)
    BY ZenonT(60), <2>1, <2>6 DEF SigInv, Fate
  <2>13. ASSUME NEW v \in Threads, NEW u \in Threads, NEW x \in Threads,
                Signaller(u, v)', Signaller(x, v)'
         PROVE  u = x
    <3>1. CASE v = h
      BY ZenonT(60), <3>1, <2>3, <2>12, <2>13 DEF Called
    <3>2. CASE v # h
      BY ZenonT(60), <3>2, <2>3, <2>13 DEF SigInv
    <3> QED BY ZenonT(60), <3>1, <3>2
  <2> QED BY ZenonT(60), <2>4, <2>10, <2>11, <2>13 DEF SigInv
(* cond_wait makes a listed waiter of a thread that was on no list and that *)
(* nobody was about to signal.                                              *)
<1>JoinsSignals.
    ASSUME SInv, SigInv, NEW t \in Threads, NEW c \in Conds, Joins(t, c)
    PROVE  SigInv'
  <2> USE <1>JoinsSignals
  <2>0. ~ Listed(t) /\ ~ Called(t)
    BY ZenonT(60) DEF SigInv, Fate, Joins
  <2>1. /\ Elems(Append(cwait[c], t)) = Elems(cwait[c]) \cup {t} /\ NoDup(Append(cwait[c], t))
    <3>1. NoDup(cwait[c]) /\ t \notin Elems(cwait[c])
      BY ZenonT(60), <2>0 DEF SigInv, Lined, Listed
    <3> QED BY ZenonT(60), <3>1, WaitersAreThreads, PushBack
  <2>2. cwait'[c] = Append(cwait[c], t) /\ \A d \in Conds \ {c} : cwait'[d] = cwait[d]
    <3>1. cwait \in [Conds -> Seq(Threads)] /\ cwait' = [cwait EXCEPT ![c] = Append(cwait[c], t)]
      BY ZenonT(60) DEF SInv, TypeOK, Joins
    <3> QED BY <3>1
  <2>3. \A u, v \in Threads : Signaller(u, v)' <=> Signaller(u, v)
    BY ZenonT(60), <1>AsideFacts DEF Joins
  <2>4. \A u \in Threads \ {t} : (InWait(u)' <=> InWait(u)) /\ Roles(u)' /\ cv'[u] = cv[u]
    BY ZenonT(60), <1>AsideFacts DEF SigInv, Joins
  <2>5. \A v \in Threads : Called(v)' <=> Called(v)
    BY ZenonT(60), <2>3 DEF Called
  <2>6. Listed(t)' /\ \A v \in Threads \ {t} : Listed(v)' <=> Listed(v)
    BY ZenonT(60), <2>1, <2>2 DEF Listed
  <2>7. ASSUME NEW v \in Threads PROVE Fate(v)' /\ Roles(v)'
    <3>1. Fate(v)
      BY ZenonT(60) DEF SigInv
    <3>2. CASE v # t
      <4>1. value'[v] = value[v]
        BY ZenonT(60), <3>2 DEF Joins
      <4> QED BY ZenonT(60), <3>1, <3>2, <4>1, <2>4, <2>5, <2>6 DEF Fate
    <3>3. CASE v = t
      <4>1. value'[v] <= 1 /\ ~ (value'[v] > 0) /\ InWait(v)' /\ Roles(v)'
        <5>1. 0 <= 1 /\ ~ (0 > 0)
          BY SMTT(30)
        <5> QED BY ZenonT(60), <3>3, <5>1 DEF Joins
      <4>2. Listed(v)' /\ ~ Called(v)'
        BY ZenonT(60), <3>3, <2>0, <2>5, <2>6
      <4> QED BY ZenonT(60), <4>1, <4>2 DEF Fate
    <3> QED BY ZenonT(60), <3>2, <3>3
  <2>8. ASSUME NEW d \in Conds PROVE Lined(d)'
    <3>1. Lined(d) /\ Elems(cwait[d]) \subseteq Threads /\ t \notin Elems(cwait[d])
      BY ZenonT(60), <2>0, WaitersAreThreads DEF SigInv, Listed
    <3>2. \A u \in Elems(cwait[d]) : cv'[u] = d
      BY ZenonT(60), <3>1, <2>4 DEF Lined
    <3>3. cv'[t] = c
      BY ZenonT(60) DEF Joins
    <3>4. CASE d = c
      <4>1. NoDup(cwait'[d]) /\ \A u \in Elems(cwait'[d]) : cv'[u] = d
        BY ZenonT(60), <3>2, <3>3, <3>4, <2>1, <2>2
      <4> QED BY ZenonT(60), <4>1 DEF Lined
    <3>5. CASE d # c
      BY ZenonT(60), <3>1, <3>2, <3>5, <2>2 DEF Lined
    <3> QED BY ZenonT(60), <3>4, <3>5
  <2> QED BY ZenonT(60), <2>3, <2>7, <2>8 DEF SigInv
(* The sema_down in cond_wait uses up the one unit, when the waiter is on   *)
(* no list and nobody is about to up its semaphore.                         *)
<1>LeavesSignals.
    ASSUME SInv, SigInv, NEW t \in Threads, Leaves(t)
    PROVE  SigInv'
  <2> USE <1>LeavesSignals
  <2>0. ~ Listed(t) /\ ~ Called(t) /\ value[t] <= 1
    BY ZenonT(60) DEF SigInv, Fate, Leaves
  <2>3. \A u, v \in Threads : Signaller(u, v)' <=> Signaller(u, v)
    BY ZenonT(60), <1>AsideFacts DEF Leaves
  <2>4. \A u \in Threads \ {t} : (InWait(u)' <=> InWait(u)) /\ Roles(u)' /\ cv'[u] = cv[u]
    BY ZenonT(60), <1>AsideFacts DEF SigInv, Leaves
  <2>5. \A v \in Threads : (Called(v)' <=> Called(v)) /\ (Listed(v)' <=> Listed(v))
    BY ZenonT(60), <2>3 DEF Called, Listed, Leaves
  <2>7. ASSUME NEW v \in Threads PROVE Fate(v)' /\ Roles(v)'
    <3>1. Fate(v)
      BY ZenonT(60) DEF SigInv
    <3>2. CASE v # t
      <4>1. value'[v] = value[v]
        BY ZenonT(60), <3>2 DEF Leaves
      <4> QED BY ZenonT(60), <3>1, <3>2, <4>1, <2>4, <2>5 DEF Fate
    <3>3. CASE v = t
      <4>0. value[t] \in Nat
        BY Kinds DEF SInv, TypeOK
      <4>1. value'[v] <= 1 /\ ~ (value'[v] > 0)
        <5>1. value'[v] = value[t] - 1
          BY ZenonT(60), <3>3 DEF Leaves
        <5> QED BY ZenonT(60), <5>1, <4>0, <2>0, Units
      <4>2. ~ Listed(v)' /\ ~ Called(v)' /\ ~ InWait(v)' /\ Roles(v)'
        BY ZenonT(60), <3>3, <2>0, <2>5 DEF Leaves
      <4> QED BY ZenonT(60), <4>1, <4>2 DEF Fate
    <3> QED BY ZenonT(60), <3>2, <3>3
  <2>8. ASSUME NEW d \in Conds PROVE Lined(d)'
    <3>1. Lined(d) /\ Elems(cwait[d]) \subseteq Threads /\ cwait' = cwait
      BY ZenonT(60), WaitersAreThreads DEF SigInv, Leaves
    <3>2. \A u \in Threads : cv'[u] = cv[u]
      BY ZenonT(60), <2>4 DEF Leaves
    <3> QED BY ZenonT(60), <3>1, <3>2 DEF Lined
  <2> QED BY ZenonT(60), <2>3, <2>7, <2>8 DEF SigInv
(* A semaphore of the caller's or of a lock is no waiter's.                 *)
<1>OtherValues.
    ASSUME SInv, NEW s, s \notin Threads, NEW x, value' = [value EXCEPT ![s] = x]
    PROVE  \A u \in Threads : value'[u] = value[u]
  <2> USE <1>OtherValues
  <2>1. value \in [AllSemas -> Nat] /\ Threads \subseteq AllSemas
    BY Kinds DEF SInv, TypeOK
  <2> QED BY <2>1
(* sema_down and lock_acquire are called.                                   *)
<1>CallDownSignals.
    ASSUME SInv, SigInv, NEW t \in Threads, NEW s, CallDown(t, s)
    PROVE  SigInv'
  <2> USE <1>CallDownSignals
  <2>1. /\ pc[t] = "run" /\ Goto(t, "down") /\ With(t, s) /\ cv' = [cv EXCEPT ![t] = cv[t]]
        /\ cwait' = cwait /\ value' = value
    BY ZenonT(60), Stayed DEF CallDown, At, semaVars
  <2>2. cv[t] = None
    BY ZenonT(60), <2>1 DEF SigInv, Roles
  <2>3. pc'[t] = "down" /\ cv'[t] = cv[t] /\ Aside(t)
    BY ZenonT(60), <2>1, Went DEF Labels
  <2>4. Steady(t)
    <3>1. ~ InWait(t) /\ ~ InWait(t)' /\ \A w \in Threads : ~ Signaller(t, w) /\ ~ Signaller(t, w)'
      BY <2>1, <2>2, <2>3, Bystander
    <3>2. Roles(t)'
      BY ZenonT(60), <2>2, <2>3 DEF Roles
    <3> QED BY ZenonT(60), <3>1, <3>2, <2>1, <2>3 DEF Steady
  <2> QED BY ZenonT(60), <2>4, <1>SteadySignals
(* lock_try_acquire takes a lock's unit.                                    *)
<1>TryAcquireSignals.
    ASSUME SInv, SigInv, NEW t \in Threads, NEW l \in Locks, lock_try_acquire(t, l)
    PROVE  SigInv'
  <2> USE <1>TryAcquireSignals
  <2>1. /\ pc[t] = "run" /\ Goto(t, "hold") /\ With(t, l) /\ cv' = [cv EXCEPT ![t] = cv[t]]
        /\ cwait' = cwait /\ value' = [value EXCEPT ![l] = value[l] - 1]
    BY ZenonT(60), Stayed DEF lock_try_acquire, At
  <2>2. cv[t] = None
    BY ZenonT(60), <2>1 DEF SigInv, Roles
  <2>3. pc'[t] = "hold" /\ cv'[t] = cv[t] /\ Aside(t)
    BY ZenonT(60), <2>1, Went DEF Labels
  <2>4. \A u \in Threads : value'[u] = value[u]
    BY ZenonT(60), <2>1, Kinds, <1>OtherValues
  <2>5. Steady(t)
    <3>1. ~ InWait(t) /\ ~ InWait(t)' /\ \A w \in Threads : ~ Signaller(t, w) /\ ~ Signaller(t, w)'
      BY <2>1, <2>2, <2>3, Bystander
    <3>2. Roles(t)'
      BY ZenonT(60), <2>2, <2>3 DEF Roles
    <3> QED BY ZenonT(60), <3>1, <3>2, <2>1, <2>3, <2>4 DEF Steady
  <2> QED BY ZenonT(60), <2>5, <1>SteadySignals
(* lock_acquire records the holder.                                         *)
<1>AcquireSignals.
    ASSUME SInv, SigInv, NEW t \in Threads, lock_acquire(t)
    PROVE  SigInv'
  <2> USE <1>AcquireSignals
  <2>1. /\ pc[t] = "hold" /\ Goto(t, "run") /\ With(t, None) /\ cv' = [cv EXCEPT ![t] = None]
        /\ cwait' = cwait /\ value' = value
    BY ZenonT(60) DEF lock_acquire, At, semaVars
  <2>2. pc'[t] = "run" /\ cv'[t] = None /\ Aside(t)
    BY ZenonT(60), <2>1, Went DEF Labels
  <2>3. Steady(t)
    <3>1. ~ InWait(t) /\ ~ InWait(t)' /\ \A w \in Threads : ~ Signaller(t, w) /\ ~ Signaller(t, w)'
      BY ZenonT(60), <2>1, <2>2, Bystander
    <3>2. Roles(t)'
      BY ZenonT(60), <2>2 DEF Roles
    <3> QED BY ZenonT(60), <3>1, <3>2, <2>1, <2>2 DEF Steady
  <2> QED BY ZenonT(60), <2>3, <1>SteadySignals
(* lock_release clears the holder; in cond_wait the thread waits on.        *)
<1>ReleaseSignals.
    ASSUME SInv, SigInv, NEW t \in Threads, NEW l \in Locks, lock_release(t, l)
    PROVE  SigInv'
  <2> USE <1>ReleaseSignals
  <2>1. /\ pc[t] \in {"run", "clear"} /\ Goto(t, "up") /\ With(t, l)
        /\ cv' = [cv EXCEPT ![t] = cv[t]] /\ cwait' = cwait /\ value' = value
    BY ZenonT(60), Stayed DEF lock_release, At, semaVars
  <2>2. pc'[t] = "up" /\ obj'[t] = l /\ cv'[t] = cv[t] /\ Aside(t)
    BY ZenonT(60), <2>1, Went DEF Labels
  <2>3. pc[t] = "run" => cv[t] = None
    BY ZenonT(60) DEF SigInv, Roles
  <2>4. Steady(t)
    <3>1. \A w \in Threads : ~ Signaller(t, w) /\ ~ Signaller(t, w)'
      BY <2>1, <2>2, Bystander
    <3>2. InWait(t)' <=> InWait(t)
      BY ZenonT(60), <2>1, <2>2, <2>3 DEF InWait
    <3>3. Roles(t)'
      BY ZenonT(60), <2>2 DEF Roles
    <3> QED BY ZenonT(60), <3>1, <3>2, <3>3, <2>1, <2>2 DEF Steady
  <2> QED BY ZenonT(60), <2>4, <1>SteadySignals
(* sema_down blocks at the same point of its call ...                       *)
<1>BlockSignals.
    ASSUME SInv, SigInv, NEW t \in Threads, sema_down(t), value[obj[t]] = 0
    PROVE  SigInv'
  <2> USE <1>BlockSignals
  <2>1. /\ pc[t] \in {"down", "wake"} /\ Goto(t, "wake") /\ With(t, obj[t])
        /\ cv' = [cv EXCEPT ![t] = cv[t]] /\ cwait' = cwait /\ value' = value
    BY Stayed DEF sema_down, At
  <2>2. pc'[t] = "wake" /\ obj'[t] = obj[t] /\ cv'[t] = cv[t] /\ Aside(t)
    BY ZenonT(60), <2>1, Went DEF Labels
  <2>3. Steady(t)
    <3>1. \A w \in Threads : ~ Signaller(t, w) /\ ~ Signaller(t, w)'
      BY <2>1, <2>2, Bystander
    <3>2. InWait(t)' <=> InWait(t)
      BY ZenonT(60), <2>1, <2>2 DEF InWait
    <3>3. Roles(t)'
      BY ZenonT(60), <2>1, <2>2 DEF Roles, SigInv
    <3> QED BY ZenonT(60), <3>1, <3>2, <3>3, <2>1, <2>2 DEF Steady
  <2> QED BY ZenonT(60), <2>3, <1>SteadySignals
(* ... or takes a unit, which in cond_wait is the signal's.                 *)
<1>TakeSignals.
    ASSUME SInv, SigInv, NEW t \in Threads, sema_down(t), value[obj[t]] # 0
    PROVE  SigInv'
  <2> USE <1>TakeSignals
  <2>1. PICK s \in AllSemas : s = obj[t]
    <3>1. pc[t] \in {"down", "wake"} /\ CallFits(t) /\ obj \in [Threads -> AllSemas \cup {None}]
      BY ZenonT(60) DEF sema_down, At, SInv, CallInv, TypeOK
    <3> QED BY ZenonT(60), <3>1 DEF CallFits
  <2>2. /\ pc[t] \in {"down", "wake"} /\ AfterDown(t, s) /\ value[s] > 0
        /\ value' = [value EXCEPT ![s] = value[s] - 1]
        /\ cwait' = cwait /\ cv' = [cv EXCEPT ![t] = cv[t]]
    BY <2>1, Stayed DEF sema_down, At
  <2>3. CASE s \in Semas
    <3>1. Goto(t, "run") /\ With(t, None)
      BY ZenonT(60), <2>2, <2>3, Kinds DEF AfterDown
    <3>2. pc'[t] = "run" /\ cv'[t] = cv[t] /\ Aside(t)
      BY ZenonT(60), <3>1, <2>2, Went DEF Labels
    <3>3. cv[t] = None
      BY ZenonT(60), <2>1, <2>2, <2>3 DEF SigInv, Roles
    <3>4. \A u \in Threads : value'[u] = value[u]
      BY ZenonT(60), <2>2, <2>3, Kinds, <1>OtherValues
    <3>5. ~ InWait(t) /\ ~ InWait(t)' /\ \A w \in Threads : ~ Signaller(t, w) /\ ~ Signaller(t, w)'
      BY <2>2, <3>2, <3>3, Bystander
    <3>6. Roles(t)'
      BY ZenonT(60), <3>2, <3>3 DEF Roles
    <3>7. Steady(t)
      BY ZenonT(60), <3>2, <3>4, <3>5, <3>6, <2>2 DEF Steady
    <3> QED BY ZenonT(60), <3>7, <1>SteadySignals
  <2>4. CASE s \in Locks
    <3>1. Goto(t, "hold") /\ With(t, s)
      BY ZenonT(60), <2>1, <2>2, <2>4, Kinds, Stayed DEF AfterDown
    <3>2. pc'[t] = "hold" /\ cv'[t] = cv[t] /\ Aside(t)
      BY ZenonT(60), <3>1, <2>2, Went DEF Labels
    <3>3. \A u \in Threads : value'[u] = value[u]
      BY ZenonT(60), <2>2, <2>4, Kinds, <1>OtherValues
    <3>4. ~ InWait(t)' /\ \A w \in Threads : ~ Signaller(t, w) /\ ~ Signaller(t, w)'
      BY <2>2, <3>2, Bystander
    <3>5. ~ InWait(t)
      BY <2>1, <2>2, <2>4, Kinds DEF InWait
    <3>6. Roles(t)'
      BY ZenonT(60), <3>2 DEF Roles
    <3>7. Steady(t)
      BY ZenonT(60), <3>2, <3>3, <3>4, <3>5, <3>6, <2>2 DEF Steady
    <3> QED BY ZenonT(60), <3>7, <1>SteadySignals
  <2>5. CASE s \in Threads
    <3>1. s = t /\ cv[t] # None /\ cv[t] \in Conds
      <4>1. CallFits(t) /\ cv \in [Threads -> Conds \cup {None}]
        BY ZenonT(60) DEF SInv, CallInv, TypeOK
      <4> QED BY ZenonT(60), <4>1, <2>1, <2>2, <2>5 DEF CallFits
    <3>2. Goto(t, "down") /\ With(t, LockOf[cv[t]]) /\ LockOf[cv[t]] \in Locks
      BY ZenonT(60), <3>1, <2>2, <2>5, Kinds, SynchAssumption DEF AfterDown
    <3>3. pc'[t] = "down" /\ obj'[t] \in Locks /\ cv'[t] = cv[t] /\ Aside(t)
      <4>1. /\ pc'[t] = "down" /\ obj'[t] = LockOf[cv[t]] /\ cv'[t] = cv[t]
            /\ Aside(t)
        BY ZenonT(60), <3>2, <2>2, Went DEF Labels
      <4> QED BY ZenonT(60), <4>1, <3>2
    <3>4. value'[t] = value[t] - 1 /\ \A u \in Threads \ {t} : value'[u] = value[u]
      <4>1. value \in [AllSemas -> Nat] /\ Threads \subseteq AllSemas
        BY Kinds DEF SInv, TypeOK
      <4> QED BY <4>1, <2>2, <3>1
    <3>5. \A w \in Threads : ~ Signaller(t, w) /\ ~ Signaller(t, w)'
      BY <2>2, <3>3, Bystander
    <3>6. InWait(t) /\ ~ InWait(t)'
      BY <2>1, <2>2, <3>1, <3>3, Kinds DEF InWait
    <3>7. Roles(t)'
      BY ZenonT(60), <3>3, Kinds DEF Roles
    <3>8. Leaves(t)
      BY ZenonT(60), <2>2, <3>1, <3>3, <3>4, <3>5, <3>6, <3>7 DEF Leaves
    <3> QED BY ZenonT(60), <3>8, <1>LeavesSignals
  <2> QED BY ZenonT(60), <2>3, <2>4, <2>5 DEF AllSemas
(* sema_up of a lock, inside cond_wait or not, or of a signalled waiter.    *)
<1>UpStepSignals.
    ASSUME SInv, SigInv, NEW t \in Threads, UpStep(t)
    PROVE  SigInv'
  <2> USE <1>UpStepSignals
  <2>1. PICK s \in AllSemas : s = obj[t]
    <3>1. pc[t] = "up" /\ CallFits(t) /\ obj \in [Threads -> AllSemas \cup {None}]
      BY DEF UpStep, At, SInv, CallInv, TypeOK
    <3> QED BY <3>1 DEF CallFits
  <2>2. /\ pc[t] = "up" /\ Up(s) /\ cwait' = cwait /\ cv' = [cv EXCEPT ![t] = cv[t]]
        /\ \/ cv[t] = None /\ Goto(t, "run") /\ With(t, None)
           \/ cv[t] # None /\ Goto(t, "down") /\ With(t, t)
    BY ZenonT(60), <2>1, Stayed DEF UpStep, At
  <2>3. value'[s] = value[s] + 1 /\ \A r \in AllSemas \ {s} : value'[r] = value[r]
    BY ZenonT(60), <2>2, UpType DEF SInv
  <2>4. /\ cv'[t] = cv[t] /\ Aside(t)
        /\ \/ cv[t] = None /\ pc'[t] = "run"
           \/ cv[t] # None /\ pc'[t] = "down" /\ obj'[t] = t
    <3>1. CASE cv[t] = None
      <4>1. Goto(t, "run") /\ With(t, None)
        BY ZenonT(60), <2>2, <3>1
      <4> QED BY ZenonT(60), <4>1, <3>1, <2>2, Went DEF Labels
    <3>2. CASE cv[t] # None
      <4>1. Goto(t, "down") /\ With(t, t)
        BY ZenonT(60), <2>2, <3>2
      <4> QED BY ZenonT(60), <4>1, <3>2, <2>2, Went DEF Labels
    <3> QED BY ZenonT(60), <3>1, <3>2
  <2>5. \A v \in Threads : ~ Signaller(t, v)'
    BY ZenonT(60), <2>4, Bystander
  <2>6. InWait(t)' <=> InWait(t)
    BY ZenonT(60), <2>2, <2>4 DEF InWait
  <2>7. Roles(t)'
    BY ZenonT(60), <2>4, Kinds DEF Roles
  <2>8. CASE s \in Threads
    <3>1. Signaller(t, s) /\ \A u \in Threads \ {s} : value'[u] = value[u]
      BY ZenonT(60), <2>1, <2>2, <2>3, Kinds DEF Signaller
    <3>2. Calls(t, s)
      BY ZenonT(60), <3>1, <2>2, <2>3, <2>4, <2>5, <2>6, <2>7 DEF Calls, UpStep
    <3> QED BY ZenonT(60), <3>2, <2>8, <1>CallsSignals
  <2>9. CASE s \notin Threads
    <3>1. \A u \in Threads : value'[u] = value[u]
      BY <2>3, <2>9, Kinds
    <3>2. \A v \in Threads : ~ Signaller(t, v)
      BY ZenonT(60), <2>1, <2>9 DEF Signaller
    <3>3. Steady(t)
      BY ZenonT(60), <3>1, <3>2, <2>2, <2>4, <2>5, <2>6, <2>7 DEF Steady
    <3> QED BY ZenonT(60), <3>3, <1>SteadySignals
  <2> QED BY ZenonT(60), <2>8, <2>9
(* cond_wait queues the caller.                                             *)
<1>WaitSignals.
    ASSUME SInv, SigInv, NEW t \in Threads, NEW c \in Conds, cond_wait(t, c)
    PROVE  SigInv'
  <2> USE <1>WaitSignals
  <2>1. /\ pc[t] = "run" /\ Goto(t, "clear") /\ With(t, LockOf[c]) /\ cv' = [cv EXCEPT ![t] = c]
        /\ cwait' = [cwait EXCEPT ![c] = Append(cwait[c], t)]
        /\ value' = [value EXCEPT ![t] = 0]
    BY ZenonT(60) DEF cond_wait, At
  <2>2. pc'[t] = "clear" /\ cv'[t] = c /\ Aside(t)
    BY ZenonT(60), <2>1, Went DEF Labels
  <2>3. value'[t] = 0 /\ \A u \in Threads \ {t} : value'[u] = value[u]
    <3>1. value \in [AllSemas -> Nat] /\ Threads \subseteq AllSemas
      BY Kinds DEF SInv, TypeOK
    <3> QED BY <3>1, <2>1
  <2>4. ~ InWait(t) /\ \A w \in Threads : ~ Signaller(t, w) /\ ~ Signaller(t, w)'
    BY ZenonT(60), <2>1, <2>2, Bystander
  <2>5. InWait(t)' /\ Roles(t)'
    BY ZenonT(60), <2>2, SynchAssumption DEF InWait, Roles
  <2>6. Joins(t, c)
    BY ZenonT(60), <2>1, <2>2, <2>3, <2>4, <2>5 DEF Joins
  <2> QED BY ZenonT(60), <2>6, <1>JoinsSignals
(* cond_signal and each round of cond_broadcast unlink the first waiter.    *)
<1>SignalSignals.
    ASSUME SInv, SigInv, NEW t \in Threads, NEW c \in Conds, cwait[c] # <<>>,
           pc[t] = "run" \/ pc[t] = "bcast",
           Goto(t, IF pc[t] = "run" THEN "up" ELSE "bup"), With(t, Head(cwait[c])),
           cwait' = [cwait EXCEPT ![c] = Tail(cwait[c])], UNCHANGED <<value, cv>>
    PROVE  SigInv'
  <2> USE <1>SignalSignals
  <2>1. PICK h : h = Head(cwait[c])
    BY ZenonT(60)
  <2>2. h \in Threads
    BY <2>1, WaitersAreThreads
  <2>3. PICK p \in {"up", "bup"} : p = IF pc[t] = "run" THEN "up" ELSE "bup"
    BY ZenonT(60)
  <2>4. /\ Goto(t, p) /\ With(t, h) /\ cv' = [cv EXCEPT ![t] = cv[t]] /\ p \in Labels
    BY ZenonT(60), <2>1, <2>3, Stayed DEF Labels
  <2>5. pc'[t] = p /\ obj'[t] = h /\ cv'[t] = cv[t] /\ Aside(t)
    BY ZenonT(60), <2>4, Went
  <2>6. pc[t] = "run" => cv[t] = None
    BY ZenonT(60) DEF SigInv, Roles
  <2>7. ~ InWait(t) /\ \A v \in Threads : ~ Signaller(t, v)
    BY ZenonT(60), Bystander
  <2>8. ~ InWait(t)'
    BY ZenonT(60), <2>3, <2>5, <2>6 DEF InWait
  <2>9. \A v \in Threads : Signaller(t, v)' <=> v = h
    BY <2>5 DEF Signaller
  <2>10. Roles(t)'
    BY ZenonT(60), <2>3, <2>5, <2>6 DEF Roles
  <2>11. Unlinks(t, c, h)
    BY ZenonT(60), <2>1, <2>5, <2>7, <2>8, <2>9, <2>10 DEF Unlinks
  <2> QED BY ZenonT(60), <2>11, <1>UnlinksSignals
(* cond_broadcast begins.                                                   *)
<1>CallBroadcastSignals.
    ASSUME SInv, SigInv, NEW t \in Threads, NEW c \in Conds, CallBroadcast(t, c)
    PROVE  SigInv'
  <2> USE <1>CallBroadcastSignals
  <2>1. /\ pc[t] = "run" /\ Goto(t, "bcast") /\ With(t, obj[t]) /\ cv' = [cv EXCEPT ![t] = c]
        /\ cwait' = cwait /\ value' = value
    BY ZenonT(60), Stayed DEF CallBroadcast, At, semaVars
  <2>2. pc'[t] = "bcast" /\ Aside(t)
    BY ZenonT(60), <2>1, Went DEF Labels
  <2>3. ~ InWait(t) /\ ~ InWait(t)' /\ \A w \in Threads : ~ Signaller(t, w) /\ ~ Signaller(t, w)'
    BY ZenonT(60), <2>1, <2>2, Bystander DEF InWait, SigInv, Roles
  <2>4. Roles(t)'
    BY ZenonT(60), <2>2 DEF Roles
  <2>5. Steady(t)
    BY ZenonT(60), <2>1, <2>2, <2>3, <2>4 DEF Steady
  <2> QED BY ZenonT(60), <2>5, <1>SteadySignals
(* A round of cond_broadcast, or its end.                                   *)
<1>BroadcastSignals.
    ASSUME SInv, SigInv, NEW t \in Threads, cond_broadcast(t)
    PROVE  SigInv'
  <2> USE <1>BroadcastSignals
  <2>1. PICK c \in Conds : c = cv[t]
    <3>1. pc[t] = "bcast" /\ CallFits(t) /\ cv \in [Threads -> Conds \cup {None}]
      BY DEF cond_broadcast, At, SInv, CallInv, TypeOK
    <3> QED BY ZenonT(60), <3>1 DEF CallFits
  <2>2. pc[t] = "bcast" /\ value' = value
    BY ZenonT(60) DEF cond_broadcast, At, semaVars
  <2>3. CASE cwait[c] # <<>>
    <3>1. /\ cwait' = [cwait EXCEPT ![c] = Tail(cwait[c])] /\ Goto(t, "bup")
          /\ With(t, Head(cwait[c])) /\ UNCHANGED cv
      BY ZenonT(60), <2>1, <2>3 DEF cond_broadcast
    <3>2. Goto(t, IF pc[t] = "run" THEN "up" ELSE "bup")
      BY <3>1, <2>2
    <3> QED BY ZenonT(60), <3>1, <3>2, <2>2, <2>3, <1>SignalSignals
  <2>4. CASE cwait[c] = <<>>
    <3>1. /\ Goto(t, "run") /\ With(t, None) /\ cv' = [cv EXCEPT ![t] = None] /\ cwait' = cwait
      BY ZenonT(60), <2>1, <2>4 DEF cond_broadcast
    <3>2. pc'[t] = "run" /\ cv'[t] = None /\ Aside(t)
      BY ZenonT(60), <3>1, Went DEF Labels
    <3>3. ~ InWait(t) /\ ~ InWait(t)' /\ \A w \in Threads : ~ Signaller(t, w) /\ ~ Signaller(t, w)'
      BY ZenonT(60), <2>2, <3>2, Bystander
    <3>4. Roles(t)'
      BY ZenonT(60), <3>2 DEF Roles
    <3>5. Steady(t)
      BY ZenonT(60), <2>2, <3>1, <3>2, <3>3, <3>4 DEF Steady
    <3> QED BY ZenonT(60), <3>5, <1>SteadySignals
  <2> QED BY ZenonT(60), <2>3, <2>4
(* cond_broadcast ups the waiter it has unlinked.                           *)
<1>BroadcastUpSignals.
    ASSUME SInv, SigInv, NEW t \in Threads, BroadcastUp(t)
    PROVE  SigInv'
  <2> USE <1>BroadcastUpSignals
  <2>1. PICK w \in Threads : w = obj[t]
    <3>1. pc[t] = "bup" /\ CallFits(t)
      BY DEF BroadcastUp, At, SInv, CallInv
    <3> QED BY ZenonT(60), <3>1 DEF CallFits
  <2>2. /\ pc[t] = "bup" /\ Up(w) /\ cwait' = cwait /\ Goto(t, "bcast") /\ With(t, obj[t])
        /\ cv' = [cv EXCEPT ![t] = cv[t]]
    BY ZenonT(60), <2>1, Stayed DEF BroadcastUp, At
  <2>3. value'[w] = value[w] + 1 /\ \A u \in Threads \ {w} : value'[u] = value[u]
    <3>1. w \in AllSemas
      BY ZenonT(60), Kinds
    <3>2. value'[w] = value[w] + 1 /\ \A r \in AllSemas \ {w} : value'[r] = value[r]
      BY ZenonT(60), <3>1, <2>2, UpType DEF SInv
    <3> QED BY <3>2, Kinds
  <2>4. pc'[t] = "bcast" /\ obj'[t] = obj[t] /\ cv'[t] = cv[t] /\ Aside(t)
    <3>1. "bcast" \in Labels
      BY DEF Labels
    <3> QED BY ZenonT(60), <3>1, <2>2, Went
  <2>5. ~ InWait(t) /\ ~ InWait(t)' /\ \A v \in Threads : ~ Signaller(t, v)'
    BY <2>2, <2>4, Bystander
  <2>6. Roles(t)'
    BY <2>4 DEF Roles
  <2>7. Signaller(t, w)
    BY ZenonT(60), <2>1, <2>2 DEF Signaller
  <2>8. Calls(t, w)
    BY ZenonT(60), <2>2, <2>3, <2>4, <2>5, <2>6, <2>7 DEF Calls
  <2> QED BY ZenonT(60), <2>8, <1>CallsSignals
<1> SUFFICES ASSUME SInv, SigInv, [Next]_vars PROVE SigInv'
  OBVIOUS
<1>1. CASE Preempt \/ IdleBlocks
  <2>1. UNCHANGED <<cwait, pc, obj, cv>> /\ value' = value
    BY <1>1 DEF Preempt, IdleBlocks, semaVars, locVars
  <2> QED BY ZenonT(60), <2>1, <1>SameSignals
<1>2. CASE Call
  <2>1. ASSUME NEW s \in Semas, sema_try_down(s) \/ sema_up(s) PROVE SigInv'
    <3>1. UNCHANGED <<cwait, pc, obj, cv>> /\ \E x : value' = [value EXCEPT ![s] = x]
      BY ZenonT(60), <2>1 DEF sema_try_down, sema_up, Up, locVars
    <3>2. \A u \in Threads : value'[u] = value[u]
      BY ZenonT(60), <3>1, Kinds, <1>OtherValues
    <3> QED BY ZenonT(60), <3>1, <3>2, <1>SameSignals
  <2>2. ASSUME NEW t \in Threads, NEW s \in Semas, CallDown(t, s) PROVE SigInv'
    BY ZenonT(60), <2>2, <1>CallDownSignals
  <2>3. ASSUME NEW t \in Threads, NEW l \in Locks, CallAcquire(t, l) PROVE SigInv'
    BY ZenonT(60), <2>3, <1>CallDownSignals DEF CallAcquire
  <2>4. ASSUME NEW t \in Threads, NEW l \in Locks, lock_try_acquire(t, l) PROVE SigInv'
    BY ZenonT(60), <2>4, <1>TryAcquireSignals
  <2>5. ASSUME NEW t \in Threads, NEW l \in Locks, lock_release(t, l) PROVE SigInv'
    BY ZenonT(60), <2>5, <1>ReleaseSignals
  <2>6. ASSUME NEW t \in Threads, NEW c \in Conds, cond_wait(t, c) PROVE SigInv'
    BY ZenonT(60), <2>6, <1>WaitSignals
  <2>7. ASSUME NEW t \in Threads, NEW c \in Conds, cond_signal(t, c) PROVE SigInv'
    <3>1. /\ pc[t] = "run" /\ cwait[c] # <<>> /\ Goto(t, "up") /\ With(t, Head(cwait[c]))
          /\ cwait' = [cwait EXCEPT ![c] = Tail(cwait[c])] /\ UNCHANGED <<value, cv>>
      BY ZenonT(60), <2>7 DEF cond_signal, At, semaVars
    <3>2. Goto(t, IF pc[t] = "run" THEN "up" ELSE "bup")
      BY <3>1
    <3> QED BY ZenonT(60), <3>1, <3>2, <2>7, <1>SignalSignals
  <2>8. ASSUME NEW t \in Threads, NEW c \in Conds, CallBroadcast(t, c) PROVE SigInv'
    BY ZenonT(60), <2>8, <1>CallBroadcastSignals
  <2> QED BY ZenonT(60), <1>2, <2>1, <2>2, <2>3, <2>4, <2>5, <2>6, <2>7, <2>8 DEF Call
<1>3. ASSUME NEW t \in Threads, Step(t) PROVE SigInv'
  <2>1. CASE sema_down(t)
    BY ZenonT(60), <2>1, <1>BlockSignals, <1>TakeSignals
  <2>2. CASE lock_acquire(t)
    BY ZenonT(60), <2>2, <1>AcquireSignals
  <2>3. CASE UpStep(t)
    BY ZenonT(60), <2>3, <1>UpStepSignals
  <2>4. CASE cond_broadcast(t)
    BY ZenonT(60), <2>4, <1>BroadcastSignals
  <2>5. CASE BroadcastUp(t)
    BY ZenonT(60), <2>5, <1>BroadcastUpSignals
  <2>6. CASE \E l \in Locks : pc[t] = "clear" /\ lock_release(t, l)
    BY ZenonT(60), <2>6, <1>ReleaseSignals
  <2> QED BY ZenonT(60), <1>3, <2>1, <2>2, <2>3, <2>4, <2>5, <2>6 DEF Step
<1>4. CASE UNCHANGED vars
  <2>1. UNCHANGED <<cwait, pc, obj, cv>> /\ value' = value
    BY <1>4 DEF vars, semaVars, locVars
  <2> QED BY ZenonT(60), <2>1, <1>SameSignals
<1> QED BY ZenonT(60), <1>1, <1>2, <1>3, <1>4 DEF Next

-----------------------------------------------------------------------------
(* The Mesa monitor.                                                        *)

(* A thread that has queued itself in cond_wait and still has the lock is   *)
(* the last waiter of its condition.                                        *)
LastIn(t) ==
    pc[t] \in {"clear", "up"} /\ cv[t] # None =>
      /\ obj[t] = LockOf[cv[t]] /\ cwait[cv[t]] # <<>>
      /\ cwait[cv[t]][Len(cwait[cv[t]])] = t

(* A thread in cond_broadcast holds the lock throughout.                    *)
HoldsOn(t) == pc[t] \in {"bcast", "bup"} => holder[LockOf[cv[t]]] = t

MonInv == \A t \in Threads : LastIn(t) /\ HoldsOn(t)

(* The owner is the thread inside.                                          *)
LEMMA OwnerOfLock ==
    ASSUME NEW l \in Locks
    PROVE  /\ Insiders(l) = {} => Owner[l] = None
           /\ \A t : Insiders(l) = {t} => Owner[l] = t
           /\ Insiders(l)' = {} => Owner'[l] = None
           /\ \A t : Insiders(l)' = {t} => Owner'[l] = t
BY ZenonT(60) DEF Owner, Sole

(* The queue is the list, without its last waiter while that one has the    *)
(* lock.                                                                    *)
LEMMA QueueOfCond ==
    ASSUME NEW c \in Conds
    PROVE  /\ Elems(cwait[c]) \cap Insiders(LockOf[c]) = {} => Queue[c] = cwait[c]
           /\ Elems(cwait[c]) \cap Insiders(LockOf[c]) # {} =>
                Queue[c] = Popped(cwait[c], Len(cwait[c]) - 1)
           /\ Elems(cwait'[c]) \cap Insiders(LockOf[c])' = {} => Queue'[c] = cwait'[c]
           /\ Elems(cwait'[c]) \cap Insiders(LockOf[c])' # {} =>
                Queue'[c] = Popped(cwait'[c], Len(cwait'[c]) - 1)
BY ZenonT(60) DEF Queue

(* Owner and Queue are functions on the locks and on the conditions.        *)
LEMMA MonitorFunctions ==
    /\ Owner = [l \in Locks |-> Owner[l]] /\ Owner' = [l \in Locks |-> Owner'[l]]
    /\ Queue = [c \in Conds |-> Queue[c]] /\ Queue' = [c \in Conds |-> Queue'[c]]
<1>1. Owner = [l \in Locks |-> Owner[l]]
  BY DEF Owner
<1>2. Owner' = [l \in Locks |-> Owner'[l]]
  BY DEF Owner
<1>3. Queue = [c \in Conds |-> Queue[c]]
  BY DEF Queue
<1>4. Queue' = [c \in Conds |-> Queue'[c]]
  BY DEF Queue
<1> QED BY ZenonT(60), <1>1, <1>2, <1>3, <1>4

(* Nobody's place inside a lock changes.                                    *)
SameInside == \A l \in Locks : Insiders(l)' = Insiders(l)

(* t passes from outside lock l to its inside, or back.                     *)
OthersInside(l) == \A m \in Locks \ {l} : Insiders(m)' = Insiders(m)

(* Only thread t moves, and no other thread becomes or stops being a        *)
(* holder.                                                                  *)
Alone(t) == /\ Aside(t)
            /\ \A l \in Locks, u \in Threads \ {t} : holder'[l] = u <=> holder[l] = u

(* What t changes of a lock or of a condition's list, it changes inside.    *)
Guarded(t) == /\ Alone(t)
              /\ \A l \in Locks : holder'[l] # holder[l] => Owns(t, l)
              /\ \A c \in Conds : cwait'[c] # cwait[c] => Owns(t, LockOf[c])
              /\ LastIn(t)' /\ HoldsOn(t)'

(* A step of t outside the locks, or inside one to stay there, that leaves  *)
(* the conditions' lists alone.                                             *)
Quiet(t) == /\ Aside(t) /\ holder' = holder /\ cwait' = cwait
            /\ pc[t] \in {"hold", "clear", "up"} => obj[t] \notin Locks
            /\ pc'[t] \in {"hold", "clear", "up"} => obj'[t] \notin Locks
            /\ LastIn(t)' /\ HoldsOn(t)'

MonitorStep == [M!Next]_<<Owner, Queue>>

(* Every step of synch.c is a step of the monitor or leaves it alone.       *)
LEMMA NextMonitor == SInv /\ SigInv /\ MonInv /\ [Next]_vars => MonInv' /\ MonitorStep
(* Whoever is inside a lock is alone there, and in no other thread's way.   *)
<1>OneInside.
    ASSUME SInv, NEW l \in Locks, NEW t \in Threads, Owns(t, l)
    PROVE  Insiders(l) = {t}
  BY ZenonT(60), <1>OneInside DEF SInv, LockExclusion, Insiders
(* Two functions that differ in one place.                                  *)
<1>OnePlace.
    ASSUME NEW S, NEW f, NEW g, f = [x \in S |-> f[x]], g = [x \in S |-> g[x]],
           NEW a \in S, \A x \in S \ {a} : g[x] = f[x]
    PROVE  g = [f EXCEPT ![a] = g[a]]
  BY <1>OnePlace
(* Such a step keeps the owners, and the queues with the lists.             *)
<1>StillOwner.
    ASSUME SameInside
    PROVE  Owner' = Owner /\ \A c \in Conds : cwait'[c] = cwait[c] => Queue'[c] = Queue[c]
  <2> USE <1>StillOwner
  <2>1. \A c \in Conds : LockOf[c] \in Locks
    BY SynchAssumption
  <2>2. \A l \in Locks : Owner'[l] = Owner[l]
    BY ZenonT(60) DEF SameInside, Owner
  <2>3. Owner' = Owner
    BY <2>2, MonitorFunctions
  <2>4. ASSUME NEW c \in Conds, cwait'[c] = cwait[c] PROVE Queue'[c] = Queue[c]
    BY ZenonT(60), <2>1, <2>4 DEF SameInside, Queue
  <2> QED BY <2>3, <2>4
(* A step that changes neither is none of the monitor's.                    *)
<1>StutterMonitor.
    ASSUME SameInside, cwait' = cwait
    PROVE  UNCHANGED <<Owner, Queue>>
  <2> USE <1>StutterMonitor
  <2>1. Owner' = Owner /\ \A c \in Conds : Queue'[c] = Queue[c]
    BY ZenonT(60), <1>StillOwner
  <2>2. Queue' = Queue
    BY <2>1, MonitorFunctions
  <2> QED BY <2>1, <2>2
(* A thread on no list that enters a free lock enters the monitor.          *)
<1>EnterMonitor.
    ASSUME SInv, NEW t \in Threads, NEW l \in Locks, OthersInside(l), cwait' = cwait,
           Insiders(l) = {}, Insiders(l)' = {t}, ~ Listed(t)
    PROVE  M!Enter(t, l)
  <2> USE <1>EnterMonitor
  <2>1. \A m \in Locks \ {l} : Owner'[m] = Owner[m]
    BY ZenonT(60) DEF OthersInside, Owner
  <2>2. Owner[l] = None /\ Owner'[l] = t
    BY ZenonT(60), OwnerOfLock
  <2>3. Owner' = [Owner EXCEPT ![l] = t]
    BY <2>1, <2>2, MonitorFunctions, <1>OnePlace
  <2>4. ASSUME NEW c \in Conds PROVE Queue'[c] = Queue[c] /\ t \notin Elems(Queue[c])
    <3>1. t \notin Elems(cwait[c]) /\ LockOf[c] \in Locks /\ cwait'[c] = cwait[c]
      BY SynchAssumption DEF Listed
    <3>2. CASE LockOf[c] = l
      <4>1. /\ Elems(cwait[c]) \cap Insiders(LockOf[c]) = {}
            /\ Elems(cwait'[c]) \cap Insiders(LockOf[c])' = {}
        BY ZenonT(60), <3>1, <3>2
      <4> QED BY ZenonT(60), <4>1, <3>1, QueueOfCond
    <3>3. CASE LockOf[c] # l
      <4>1. Insiders(LockOf[c])' = Insiders(LockOf[c])
        BY ZenonT(60), <3>1, <3>3 DEF OthersInside
      <4>2. Queue'[c] = Queue[c]
        BY ZenonT(60), <4>1, <3>1 DEF Queue
      <4>3. Queue[c] = cwait[c] \/ Queue[c] = Popped(cwait[c], Len(cwait[c]) - 1)
        BY ZenonT(60), QueueOfCond
      <4>4. cwait[c] \in Seq(Threads)
        BY WaitersAreThreads
      <4>5. Elems(Queue[c]) \subseteq Elems(cwait[c])
        BY <4>3, <4>4 DEF Elems, Popped
      <4> QED BY ZenonT(60), <4>2, <4>5, <3>1
    <3> QED BY ZenonT(60), <3>2, <3>3
  <2>5. Queue' = Queue
    BY <2>4, MonitorFunctions
  <2> QED BY ZenonT(60), <2>2, <2>3, <2>4, <2>5 DEF M!Enter, M!Elems, Elems
(* The same back, for a thread outside cond_wait.                           *)
<1>LeaveMonitor.
    ASSUME SInv, NEW t \in Threads, NEW l \in Locks, OthersInside(l), cwait' = cwait,
           Insiders(l) = {t}, Insiders(l)' = {}, ~ Listed(t)
    PROVE  M!Leave(t, l)
  <2> USE <1>LeaveMonitor
  <2>1. \A m \in Locks \ {l} : Owner'[m] = Owner[m]
    BY ZenonT(60) DEF OthersInside, Owner
  <2>2. Owner[l] = t /\ Owner'[l] = None
    BY ZenonT(60), OwnerOfLock
  <2>3. Owner' = [Owner EXCEPT ![l] = None]
    BY <2>1, <2>2, MonitorFunctions, <1>OnePlace
  <2>4. ASSUME NEW c \in Conds PROVE Queue'[c] = Queue[c]
    <3>1. t \notin Elems(cwait[c]) /\ LockOf[c] \in Locks /\ cwait'[c] = cwait[c]
      BY SynchAssumption DEF Listed
    <3>2. CASE LockOf[c] = l
      <4>1. /\ Elems(cwait[c]) \cap Insiders(LockOf[c]) = {}
            /\ Elems(cwait'[c]) \cap Insiders(LockOf[c])' = {}
        BY ZenonT(60), <3>1, <3>2
      <4> QED BY ZenonT(60), <4>1, <3>1, QueueOfCond
    <3>3. CASE LockOf[c] # l
      <4>1. Insiders(LockOf[c])' = Insiders(LockOf[c])
        BY ZenonT(60), <3>1, <3>3 DEF OthersInside
      <4> QED BY ZenonT(60), <4>1, <3>1 DEF Queue
    <3> QED BY ZenonT(60), <3>2, <3>3
  <2>5. Queue' = Queue
    BY <2>4, MonitorFunctions
  <2> QED BY ZenonT(60), <2>2, <2>3, <2>5 DEF M!Leave
(* A list is its last element behind the others.                            *)
<1>FrontAndLast.
    ASSUME NEW S, NEW s \in Seq(S), s # <<>>
    PROVE  /\ Popped(s, Len(s) - 1) \in Seq(S) /\ s = Append(Popped(s, Len(s) - 1), s[Len(s)])
           /\ s[Len(s)] \in Elems(s)
  <2> USE <1>FrontAndLast
  <2>1. Len(s) \in Nat /\ Len(s) >= 1
    OBVIOUS
  <2>2. PICK n \in Nat : n = Len(s) - 1
    BY <2>1
  <2>3. PICK f : f = Popped(s, n)
    OBVIOUS
  <2>a. f = [i \in 1..n |-> s[i]] /\ n \in 0..Len(s)
    <3>1. f = SubSeq(s, 1, n)
      BY <2>3 DEF Popped
    <3> QED BY <3>1, <2>1, <2>2
  <2>b. f \in Seq(S) /\ Len(f) = n /\ \A i \in 1..n : f[i] = s[i]
    <3>1. \A i \in 1..n : s[i] \in S
      BY <2>1, <2>2
    <3> QED BY <2>a, <3>1
  <2>4. s[Len(s)] \in S /\ s[Len(s)] \in Elems(s)
    BY <2>1 DEF Elems
  <2>5. PICK w \in Seq(S) : w = Append(f, s[Len(s)])
    <3>1. PICK e \in S : e = s[Len(s)]
      BY <2>4
    <3>2. Append(f, e) \in Seq(S)
      BY <2>b
    <3> QED BY ZenonT(60), <3>1, <3>2
  <2>6. Len(w) = Len(s) /\ \A i \in 1..Len(s) : w[i] = s[i]
    BY <2>1, <2>2, <2>b, <2>4, <2>5
  <2>7. w = s
    BY <2>6
  <2> QED BY <2>2, <2>3, <2>b, <2>4, <2>5, <2>7
(* Appending, and taking the last one off again.                            *)
<1>AppendFront.
    ASSUME NEW S, NEW s \in Seq(S), NEW e \in S
    PROVE  Popped(Append(s, e), Len(Append(s, e)) - 1) = s
  BY DEF Popped
(* The others stay inside or outside.                                       *)
<1>OthersStay.
    ASSUME NEW t \in Threads, Alone(t), NEW l \in Locks
    PROVE  /\ (Owns(t, l)' <=> Owns(t, l)) => Insiders(l)' = Insiders(l)
           /\ Owns(t, l)' /\ Insiders(l) = {} => Insiders(l)' = {t}
           /\ ~Owns(t, l)' /\ Insiders(l) = {t} => Insiders(l)' = {}
  <2> USE <1>OthersStay
  <2>1. \A u \in Threads \ {t} : Owns(u, l)' <=> Owns(u, l)
    BY ZenonT(60) DEF Alone, Aside, Owns
  <2>2. ASSUME Owns(t, l)' <=> Owns(t, l) PROVE Insiders(l)' = Insiders(l)
    BY ZenonT(60), <2>1, <2>2 DEF Insiders
  <2>3. ASSUME Owns(t, l)', Insiders(l) = {} PROVE Insiders(l)' = {t}
    BY ZenonT(60), <2>1, <2>3 DEF Insiders
  <2>4. ASSUME ~Owns(t, l)', Insiders(l) = {t} PROVE Insiders(l)' = {}
    BY ZenonT(60), <2>1, <2>4 DEF Insiders
  <2> QED BY ZenonT(60), <2>2, <2>3, <2>4
(* So the others stay last on their lists, or holders.                      *)
<1>GuardedMonInv.
    ASSUME SInv, MonInv, NEW t \in Threads, Guarded(t)
    PROVE  MonInv'
  <2> USE <1>GuardedMonInv
  <2>1. ASSUME NEW u \in Threads, u # t PROVE LastIn(u)' /\ HoldsOn(u)'
    <3>1. /\ pc'[u] = pc[u] /\ obj'[u] = obj[u] /\ cv'[u] = cv[u]
          /\ LastIn(u) /\ HoldsOn(u) /\ CallFits(u)
      BY ZenonT(60), <2>1 DEF Guarded, Alone, Aside, MonInv, SInv, CallInv
    <3>2. cv[u] # None => cv[u] \in Conds /\ LockOf[cv[u]] \in Locks
      <4>1. cv \in [Threads -> Conds \cup {None}] /\ LockOf \in [Conds -> Locks]
        BY ZenonT(60), SynchAssumption DEF SInv, TypeOK
      <4> QED BY <4>1
    <3>3. \A l \in Locks : Owns(u, l) => ~ Owns(t, l)
      BY ZenonT(60), <2>1 DEF SInv, LockExclusion
    <3>4. HoldsOn(u)'
      <4>1. ASSUME pc[u] \in {"bcast", "bup"} PROVE holder'[LockOf[cv[u]]] = u
        <5>1. cv[u] # None
          BY ZenonT(60), <3>1, <4>1 DEF CallFits
        <5>2. holder[LockOf[cv[u]]] = u /\ Owns(u, LockOf[cv[u]])
          BY ZenonT(60), <3>1, <4>1 DEF HoldsOn, Owns
        <5> QED BY ZenonT(60), <5>1, <5>2, <3>2, <3>3 DEF Guarded
      <4> QED BY ZenonT(60), <4>1, <3>1 DEF HoldsOn
    <3>5. LastIn(u)'
      <4>1. ASSUME pc[u] \in {"clear", "up"}, cv[u] # None
            PROVE  cwait'[cv[u]] = cwait[cv[u]]
        <5>1. Owns(u, LockOf[cv[u]])
          BY ZenonT(60), <3>1, <4>1 DEF LastIn, Owns
        <5> QED BY ZenonT(60), <4>1, <5>1, <3>2, <3>3 DEF Guarded
      <4> QED BY ZenonT(60), <4>1, <3>1 DEF LastIn
    <3> QED BY <3>4, <3>5
  <2> QED BY ZenonT(60), <2>1 DEF MonInv, Guarded
(* It is no step of the monitor.                                            *)
<1>QuietMonitor.
    ASSUME SInv, MonInv, NEW t \in Threads, Quiet(t)
    PROVE  MonInv' /\ MonitorStep
  <2> USE <1>QuietMonitor
  <2>1. Alone(t) /\ Guarded(t)
    BY ZenonT(60) DEF Quiet, Alone, Guarded
  <2>2. \A l \in Locks : Owns(t, l)' <=> Owns(t, l)
    BY ZenonT(60) DEF Quiet, Owns
  <2>3. SameInside
    BY ZenonT(60), <2>1, <2>2, <1>OthersStay DEF SameInside
  <2>4. UNCHANGED <<Owner, Queue>>
    BY ZenonT(60), <2>3, <1>StutterMonitor DEF Quiet
  <2>5. MonInv'
    BY ZenonT(60), <2>1, <1>GuardedMonInv
  <2> QED BY ZenonT(60), <2>4, <2>5 DEF MonitorStep
(* The scheduler, and sema_up and sema_try_down of plain semaphores.        *)
<1>SameMonitor.
    ASSUME MonInv, UNCHANGED <<holder, cwait, pc, obj, cv>>
    PROVE  MonInv' /\ MonitorStep
  <2> USE <1>SameMonitor
  <2>1. MonInv'
    BY ZenonT(60) DEF MonInv, LastIn, HoldsOn
  <2>2. SameInside
    BY ZenonT(60) DEF SameInside, Insiders, Owns
  <2>3. UNCHANGED <<Owner, Queue>>
    BY ZenonT(60), <2>2, <1>StutterMonitor
  <2> QED BY ZenonT(60), <2>1, <2>3 DEF MonitorStep
(* sema_down and lock_acquire are called.                                   *)
<1>CallDownMonitor.
    ASSUME SInv, MonInv, NEW t \in Threads, NEW s, CallDown(t, s)
    PROVE  MonInv' /\ MonitorStep
  <2> USE <1>CallDownMonitor
  <2>1. /\ pc[t] = "run" /\ Goto(t, "down") /\ With(t, s) /\ cv' = [cv EXCEPT ![t] = cv[t]]
        /\ cwait' = cwait /\ holder' = holder
    BY ZenonT(60), Stayed DEF CallDown, At
  <2>2. pc'[t] = "down" /\ Aside(t)
    BY ZenonT(60), <2>1, Went DEF Labels
  <2>3. Quiet(t)
    BY <2>1, <2>2 DEF Quiet, LastIn, HoldsOn
  <2> QED BY ZenonT(60), <2>3, <1>QuietMonitor
(* t takes the unit of lock l.                                              *)
<1>TakesMonitor.
    ASSUME SInv, SigInv, MonInv, NEW t \in Threads, NEW l \in Locks, value[l] > 0,
           Aside(t), holder' = holder, cwait' = cwait, ~ InWait(t),
           pc[t] \notin {"hold", "clear", "up"}, pc'[t] = "hold", obj'[t] = l
    PROVE  MonInv' /\ MonitorStep
  <2> USE <1>TakesMonitor
  <2>1. Alone(t) /\ Guarded(t)
    <3>1. LastIn(t)' /\ HoldsOn(t)'
      BY DEF LastIn, HoldsOn
    <3> QED BY ZenonT(60), <3>1 DEF Alone, Guarded
  <2>2. Insiders(l) = {}
    <3>1. ~ (0 > 0)
      BY SMTT(30)
    <3>2. ~ \E u \in Threads : Owns(u, l)
      BY ZenonT(60), <3>1 DEF SInv, LockExclusion
    <3> QED BY ZenonT(60), <3>2 DEF Insiders
  <2>3. Owns(t, l)' /\ \A m \in Locks \ {l} : Owns(t, m)' <=> Owns(t, m)
    BY ZenonT(60) DEF Owns
  <2>4. Insiders(l)' = {t} /\ OthersInside(l)
    BY ZenonT(60), <2>1, <2>2, <2>3, <1>OthersStay DEF OthersInside
  <2>5. ~ Listed(t)
    BY ZenonT(60) DEF SigInv, Fate
  <2>6. M!Enter(t, l)
    BY ZenonT(60), <2>2, <2>4, <2>5, <1>EnterMonitor
  <2>7. MonInv'
    BY ZenonT(60), <2>1, <1>GuardedMonInv
  <2> QED BY ZenonT(60), <2>6, <2>7 DEF MonitorStep, M!Next
(* lock_try_acquire enters the monitor.                                     *)
<1>TryAcquireMonitor.
    ASSUME SInv, SigInv, MonInv, NEW t \in Threads, NEW l \in Locks, lock_try_acquire(t, l)
    PROVE  MonInv' /\ MonitorStep
  <2> USE <1>TryAcquireMonitor
  <2>1. /\ pc[t] = "run" /\ Goto(t, "hold") /\ With(t, l) /\ cv' = [cv EXCEPT ![t] = cv[t]]
        /\ cwait' = cwait /\ holder' = holder /\ value[l] > 0
    BY ZenonT(60), Stayed DEF lock_try_acquire, At
  <2>2. pc'[t] = "hold" /\ obj'[t] = l /\ Aside(t)
    BY ZenonT(60), <2>1, Went DEF Labels
  <2>3. ~ InWait(t) /\ pc[t] \notin {"hold", "clear", "up"}
    BY <2>1, Bystander
  <2> QED BY ZenonT(60), <2>1, <2>2, <2>3, <1>TakesMonitor
(* sema_down blocks, takes a unit of a plain semaphore or of the waiter's   *)
(* own, or enters the monitor.                                              *)
<1>DownMonitor.
    ASSUME SInv, SigInv, MonInv, NEW t \in Threads, sema_down(t)
    PROVE  MonInv' /\ MonitorStep
  <2> USE <1>DownMonitor
  <2>1. PICK s \in AllSemas : s = obj[t]
    <3>1. pc[t] \in {"down", "wake"} /\ CallFits(t) /\ obj \in [Threads -> AllSemas \cup {None}]
      BY ZenonT(60) DEF sema_down, At, SInv, CallInv, TypeOK
    <3> QED BY ZenonT(60), <3>1 DEF CallFits
  <2>2. /\ pc[t] \in {"down", "wake"} /\ cwait' = cwait /\ holder' = holder
        /\ cv' = [cv EXCEPT ![t] = cv[t]]
    BY Stayed DEF sema_down, At
  <2>3. CASE value[s] = 0
    <3>1. Goto(t, "wake") /\ With(t, obj[t])
      BY <2>1, <2>3, Stayed DEF sema_down
    <3>2. pc'[t] = "wake" /\ Aside(t)
      BY ZenonT(60), <3>1, <2>2, Went DEF Labels
    <3>3. Quiet(t)
      BY <2>2, <3>2 DEF Quiet, LastIn, HoldsOn
    <3> QED BY ZenonT(60), <3>3, <1>QuietMonitor
  <2>4. CASE value[s] # 0
    <3>0. AfterDown(t, s) /\ value[s] > 0
      BY <2>1, <2>4 DEF sema_down
    <3>1. CASE s \in Locks
      <4>1. Goto(t, "hold") /\ With(t, s)
        BY ZenonT(60), <2>1, <3>0, <3>1, Kinds, Stayed DEF AfterDown
      <4>2. pc'[t] = "hold" /\ obj'[t] = s /\ Aside(t)
        BY ZenonT(60), <4>1, <2>2, Went DEF Labels
      <4>3. ~ InWait(t) /\ pc[t] \notin {"hold", "clear", "up"}
        BY <2>1, <2>2, <3>1, Kinds DEF InWait
      <4> QED BY ZenonT(60), <2>2, <3>0, <3>1, <4>2, <4>3, <1>TakesMonitor
    <3>2. CASE s \notin Locks
      <4>0. PICK p \in {"run", "down"} : \E o : Goto(t, p) /\ With(t, o)
        BY ZenonT(60), <3>0, <3>2 DEF AfterDown
      <4>1. PICK o : Goto(t, p) /\ With(t, o)
        BY ZenonT(60), <4>0
      <4>2. pc'[t] = p /\ Aside(t)
        <5>1. p \in Labels
          BY DEF Labels
        <5> QED BY ZenonT(60), <5>1, <4>1, <2>2, Went
      <4>3. Quiet(t)
        BY <2>2, <4>1, <4>2 DEF Quiet, LastIn, HoldsOn
      <4> QED BY ZenonT(60), <4>3, <1>QuietMonitor
    <3> QED BY <3>1, <3>2
  <2> QED BY <2>3, <2>4
(* t changes the holder field of a lock it is inside of, and stays inside.  *)
<1>StaysMonitor.
    ASSUME SInv, MonInv, NEW t \in Threads, NEW l \in Locks, Aside(t), cwait' = cwait,
           \A m \in Locks \ {l} : holder'[m] = holder[m],
           holder[l] \in {t, None}, holder'[l] \in {t, None},
           Owns(t, l), Owns(t, l)', pc[t] \in {"hold", "clear", "up"} => obj[t] = l,
           pc'[t] \in {"hold", "clear", "up"} => obj'[t] = l, LastIn(t)', HoldsOn(t)'
    PROVE  MonInv' /\ MonitorStep
  <2> USE <1>StaysMonitor
  <2>1. Alone(t)
    <3>1. \A u \in Threads : u # None
      BY ZenonT(60), Kinds
    <3> QED BY ZenonT(60), <3>1 DEF Alone
  <2>2. Guarded(t)
    BY ZenonT(60), <2>1 DEF Guarded
  <2>3. \A m \in Locks : Owns(t, m)' <=> Owns(t, m)
    BY ZenonT(60) DEF Owns
  <2>4. SameInside
    BY ZenonT(60), <2>1, <2>3, <1>OthersStay DEF SameInside
  <2>5. UNCHANGED <<Owner, Queue>>
    BY ZenonT(60), <2>4, <1>StutterMonitor
  <2>6. MonInv'
    BY ZenonT(60), <2>2, <1>GuardedMonInv
  <2> QED BY ZenonT(60), <2>5, <2>6 DEF MonitorStep
(* lock_acquire records the holder of a lock it is inside of already.       *)
<1>AcquireMonitor.
    ASSUME SInv, MonInv, NEW t \in Threads, lock_acquire(t)
    PROVE  MonInv' /\ MonitorStep
  <2> USE <1>AcquireMonitor
  <2>1. /\ pc[t] = "hold" /\ Goto(t, "run") /\ With(t, None) /\ cv' = [cv EXCEPT ![t] = None]
        /\ cwait' = cwait /\ holder' = [holder EXCEPT ![obj[t]] = t]
    BY ZenonT(60) DEF lock_acquire, At
  <2>2. pc'[t] = "run" /\ cv'[t] = None /\ Aside(t)
    BY ZenonT(60), <2>1, Went DEF Labels
  <2>3. PICK l \in Locks : l = obj[t]
    <3>1. CallFits(t)
      BY ZenonT(60) DEF SInv, CallInv
    <3> QED BY ZenonT(60), <2>1, <3>1 DEF CallFits
  <2>4. holder[l] = None
    BY ZenonT(60), <2>1, <2>3 DEF SInv, CallInv, CallFits
  <2>5. holder'[l] = t /\ \A m \in Locks \ {l} : holder'[m] = holder[m]
    <3>1. holder \in [Locks -> Threads \cup {None}]
      BY ZenonT(60) DEF SInv, TypeOK
    <3> QED BY ZenonT(60), <3>1, <2>1, <2>3
  <2>6. Owns(t, l) /\ Owns(t, l)'
    BY ZenonT(60), <2>1, <2>3, <2>5 DEF Owns
  <2>7. LastIn(t)' /\ HoldsOn(t)'
    BY ZenonT(60), <2>2 DEF LastIn, HoldsOn
  <2> QED BY ZenonT(60), <2>1, <2>2, <2>3, <2>4, <2>5, <2>6, <2>7, <1>StaysMonitor
(* lock_release clears the holder and is still inside.                      *)
<1>ReleaseMonitor.
    ASSUME SInv, SigInv, MonInv, NEW t \in Threads, NEW l \in Locks, lock_release(t, l)
    PROVE  MonInv' /\ MonitorStep
  <2> USE <1>ReleaseMonitor
  <2>1. /\ pc[t] = "run" \/ (pc[t] = "clear" /\ obj[t] = l)
        /\ Goto(t, "up") /\ With(t, l) /\ cv' = [cv EXCEPT ![t] = cv[t]]
        /\ cwait' = cwait /\ holder' = [holder EXCEPT ![l] = None]
    BY ZenonT(60), Stayed DEF lock_release, At
  <2>2. pc'[t] = "up" /\ obj'[t] = l /\ cv'[t] = cv[t] /\ Aside(t)
    BY ZenonT(60), <2>1, Went DEF Labels
  <2>3. holder[l] = t
    <3>1. CallFits(t)
      BY ZenonT(60) DEF SInv, CallInv
    <3> QED BY ZenonT(60), <3>1 DEF CallFits, lock_release, At
  <2>4. holder'[l] = None /\ \A m \in Locks \ {l} : holder'[m] = holder[m]
    <3>1. holder \in [Locks -> Threads \cup {None}]
      BY ZenonT(60) DEF SInv, TypeOK
    <3> QED BY <3>1, <2>1
  <2>5. Owns(t, l) /\ Owns(t, l)'
    BY ZenonT(60), <2>2, <2>3 DEF Owns
  <2>6. LastIn(t)' /\ HoldsOn(t)'
    <3>1. pc[t] = "run" => cv[t] = None
      BY ZenonT(60) DEF SigInv, Roles
    <3>2. LastIn(t) /\ cwait' = cwait
      BY ZenonT(60), <2>1 DEF MonInv
    <3> QED BY <2>1, <2>2, <3>1, <3>2 DEF LastIn, HoldsOn
  <2> QED BY ZenonT(60), <2>1, <2>2, <2>3, <2>4, <2>5, <2>6, <1>StaysMonitor
(* A waiter that leaves its lock joins the queue of the monitor.            *)
<1>WaitMonitor.
    ASSUME SInv, SigInv, NEW t \in Threads, NEW c \in Conds, OthersInside(LockOf[c]),
           cwait' = cwait, Insiders(LockOf[c]) = {t}, Insiders(LockOf[c])' = {},
           cv[t] = c, cwait[c] # <<>>, cwait[c][Len(cwait[c])] = t
    PROVE  M!Wait(t, c)
  <2> USE <1>WaitMonitor
  <2>0. \A d \in Conds : LockOf[d] \in Locks
    BY ZenonT(60), SynchAssumption
  <2>1. \A m \in Locks \ {LockOf[c]} : Owner'[m] = Owner[m]
    BY ZenonT(60) DEF OthersInside, Owner
  <2>2. Owner[LockOf[c]] = t /\ Owner'[LockOf[c]] = None
    BY ZenonT(60), <2>0, OwnerOfLock
  <2>3. Owner' = [Owner EXCEPT ![LockOf[c]] = None]
    BY ZenonT(60), <2>0, <2>1, <2>2, MonitorFunctions, <1>OnePlace
  <2>4. cwait[c] \in Seq(Threads) /\ cwait'[c] = cwait[c]
    BY ZenonT(60), WaitersAreThreads
  <2>5. t \in Elems(cwait[c]) /\ cwait[c] = Append(Popped(cwait[c], Len(cwait[c]) - 1), t)
    <3>1. PICK w \in Seq(Threads) : w = cwait[c]
      BY ZenonT(60), <2>4
    <3>2. /\ w = Append(Popped(w, Len(w) - 1), w[Len(w)]) /\ w[Len(w)] \in Elems(w)
      BY ZenonT(60), <3>1, <1>FrontAndLast
    <3> QED BY ZenonT(60), <3>1, <3>2
  <2>6. Queue[c] = Popped(cwait[c], Len(cwait[c]) - 1) /\ Queue'[c] = cwait[c]
    BY ZenonT(60), <2>4, <2>5, QueueOfCond
  <2>7. ASSUME NEW d \in Conds, d # c PROVE Queue'[d] = Queue[d]
    <3>1. t \notin Elems(cwait[d]) /\ cwait'[d] = cwait[d]
      BY ZenonT(60), <2>7 DEF SigInv, Lined
    <3>2. CASE LockOf[d] = LockOf[c]
      <4>1. /\ Elems(cwait[d]) \cap Insiders(LockOf[d]) = {}
            /\ Elems(cwait'[d]) \cap Insiders(LockOf[d])' = {}
        BY ZenonT(60), <3>1, <3>2
      <4> QED BY ZenonT(60), <4>1, <3>1, QueueOfCond
    <3>3. CASE LockOf[d] # LockOf[c]
      <4>1. Insiders(LockOf[d])' = Insiders(LockOf[d])
        BY ZenonT(60), <2>0, <3>3 DEF OthersInside
      <4> QED BY ZenonT(60), <4>1, <3>1 DEF Queue
    <3> QED BY ZenonT(60), <3>2, <3>3
  <2>8. Queue'[c] = Append(Queue[c], t)
    BY ZenonT(60), <2>5, <2>6
  <2>9. Queue' = [Queue EXCEPT ![c] = Append(Queue[c], t)]
    BY <2>7, <2>8, MonitorFunctions, <1>OnePlace
  <2> QED BY ZenonT(60), <2>2, <2>3, <2>9 DEF M!Wait
(* sema_up leaves the monitor, waits in it, or wakes a signalled waiter.    *)
<1>UpStepMonitor.
    ASSUME SInv, SigInv, MonInv, NEW t \in Threads, UpStep(t)
    PROVE  MonInv' /\ MonitorStep
  <2> USE <1>UpStepMonitor
  <2>1. /\ pc[t] = "up" /\ cwait' = cwait /\ holder' = holder /\ cv' = [cv EXCEPT ![t] = cv[t]]
        /\ \/ cv[t] = None /\ Goto(t, "run") /\ With(t, None)
           \/ cv[t] # None /\ Goto(t, "down") /\ With(t, t)
    BY ZenonT(60), Stayed DEF UpStep, At
  <2>2. /\ cv'[t] = cv[t] /\ Aside(t) /\ pc'[t] \in {"run", "down"}
        /\ obj'[t] \notin Locks
    <3>1. CASE cv[t] = None
      <4>1. Goto(t, "run") /\ With(t, None)
        BY ZenonT(60), <2>1, <3>1
      <4>2. pc'[t] = "run" /\ obj'[t] = None /\ cv'[t] = cv[t] /\ Aside(t)
        BY ZenonT(60), <4>1, <2>1, Went DEF Labels
      <4> QED BY ZenonT(60), <4>2, Kinds
    <3>2. CASE cv[t] # None
      <4>1. Goto(t, "down") /\ With(t, t)
        BY ZenonT(60), <2>1, <3>2
      <4>2. pc'[t] = "down" /\ obj'[t] = t /\ cv'[t] = cv[t] /\ Aside(t)
        BY ZenonT(60), <4>1, <2>1, Went DEF Labels
      <4> QED BY ZenonT(60), <4>2, Kinds
    <3> QED BY ZenonT(60), <3>1, <3>2
  <2>3. LastIn(t)' /\ HoldsOn(t)'
    BY <2>2 DEF LastIn, HoldsOn
  <2>4. CASE obj[t] \notin Locks
    <3>1. Quiet(t)
      BY ZenonT(60), <2>1, <2>2, <2>3, <2>4 DEF Quiet
    <3> QED BY ZenonT(60), <3>1, <1>QuietMonitor
  <2>5. CASE obj[t] \in Locks
    <3>1. PICK l \in Locks : l = obj[t]
      BY <2>5
    <3>2. Alone(t) /\ Guarded(t)
      BY ZenonT(60), <2>1, <2>2, <2>3 DEF Alone, Guarded
    <3>3. holder[l] = None
      BY <2>1, <3>1 DEF SInv, CallInv, CallFits
    <3>4. Owns(t, l) /\ ~ Owns(t, l)' /\ \A m \in Locks \ {l} : Owns(t, m)' <=> Owns(t, m)
      <4>1. t # None /\ l # None
        BY Kinds
      <4>2. pc'[t] \notin {"hold", "clear", "up"}
        BY ZenonT(60), <2>2
      <4> QED BY ZenonT(60), <4>1, <4>2, <2>1, <3>1, <3>3 DEF Owns
    <3>5. Insiders(l) = {t}
      BY ZenonT(60), <3>4, <1>OneInside
    <3>6. Insiders(l)' = {} /\ OthersInside(l)
      BY ZenonT(60), <3>2, <3>4, <3>5, <1>OthersStay DEF OthersInside
    <3>7. MonInv'
      BY ZenonT(60), <3>2, <1>GuardedMonInv
    <3>8. CASE cv[t] = None
      <4>1. ~ Listed(t)
        BY ZenonT(60), <3>8 DEF SigInv, Fate, InWait
      <4>2. M!Leave(t, l)
        BY ZenonT(60), <4>1, <2>1, <3>5, <3>6, <1>LeaveMonitor
      <4> QED BY ZenonT(60), <4>2, <3>7 DEF MonitorStep, M!Next
    <3>9. CASE cv[t] # None
      <4>1. PICK c \in Conds : c = cv[t]
        <5>1. cv \in [Threads -> Conds \cup {None}]
          BY ZenonT(60) DEF SInv, TypeOK
        <5> QED BY <5>1, <3>9
      <4>2. LastIn(t)
        BY ZenonT(60) DEF MonInv
      <4>3. l = LockOf[c] /\ cwait[c] # <<>> /\ cwait[c][Len(cwait[c])] = t
        BY ZenonT(60), <4>1, <4>2, <3>1, <3>9, <2>1 DEF LastIn
      <4>4. M!Wait(t, c)
        BY ZenonT(60), <4>1, <4>3, <2>1, <3>5, <3>6, <1>WaitMonitor
      <4> QED BY ZenonT(60), <4>4, <3>7 DEF MonitorStep, M!Next
    <3> QED BY ZenonT(60), <3>8, <3>9
  <2> QED BY ZenonT(60), <2>4, <2>5
(* cond_wait puts the caller on the list; the monitor does not see it there *)
(* while it has the lock.                                                   *)
<1>QueueUpMonitor.
    ASSUME SInv, SigInv, MonInv, NEW t \in Threads, NEW c \in Conds, cond_wait(t, c)
    PROVE  MonInv' /\ MonitorStep
  <2> USE <1>QueueUpMonitor
  <2>1. /\ pc[t] = "run" /\ Goto(t, "clear") /\ With(t, LockOf[c]) /\ cv' = [cv EXCEPT ![t] = c]
        /\ cwait' = [cwait EXCEPT ![c] = Append(cwait[c], t)]
        /\ holder' = holder /\ holder[LockOf[c]] = t
    BY ZenonT(60) DEF cond_wait, At
  <2>2. pc'[t] = "clear" /\ obj'[t] = LockOf[c] /\ cv'[t] = c /\ Aside(t)
    <3>1. /\ pc \in [Threads -> Labels] /\ obj \in [Threads -> AllSemas \cup {None}]
          /\ cv \in [Threads -> Conds \cup {None}]
      BY ZenonT(60) DEF SInv, TypeOK
    <3> QED BY ZenonT(60), <3>1, <2>1 DEF Goto, With, Aside
  <2>3. cwait[c] \in Seq(Threads) /\ LockOf[c] \in Locks
    BY SynchAssumption, WaitersAreThreads
  <2>4. cwait'[c] = Append(cwait[c], t) /\ \A d \in Conds \ {c} : cwait'[d] = cwait[d]
    <3>1. cwait \in [Conds -> Seq(Threads)]
      BY ZenonT(60) DEF SInv, TypeOK
    <3> QED BY ZenonT(60), <3>1, <2>1
  <2>5. cwait'[c] # <<>> /\ cwait'[c][Len(cwait'[c])] = t
    BY <2>3, <2>4
  <2>6. Owns(t, LockOf[c]) /\ \A m \in Locks : Owns(t, m)' <=> Owns(t, m)
    <3>1. pc[t] \notin {"hold", "clear", "up"}
      BY ZenonT(60), <2>1
    <3> QED BY ZenonT(60), <3>1, <2>1, <2>2 DEF Owns
  <2>7. LastIn(t)' /\ HoldsOn(t)'
    BY ZenonT(60), <2>2, <2>5 DEF LastIn, HoldsOn
  <2>8. Alone(t) /\ Guarded(t)
    BY ZenonT(60), <2>1, <2>2, <2>4, <2>6, <2>7 DEF Alone, Guarded
  <2>9. MonInv'
    BY ZenonT(60), <2>8, <1>GuardedMonInv
  <2>10. SameInside /\ Insiders(LockOf[c]) = {t}
    BY ZenonT(60), <2>3, <2>6, <2>8, <1>OthersStay, <1>OneInside DEF SameInside
  <2>11. Owner' = Owner /\ \A d \in Conds \ {c} : Queue'[d] = Queue[d]
    BY ZenonT(60), <2>4, <2>10, <1>StillOwner
  <2>12. t \notin Elems(cwait[c])
    <3>1. ~ InWait(t)
      BY ZenonT(60), <2>1, Bystander
    <3> QED BY ZenonT(60), <3>1 DEF SigInv, Fate, Listed
  <2>13. Queue[c] = cwait[c]
    BY ZenonT(60), <2>10, <2>12, QueueOfCond
  <2>14. t \in Elems(cwait'[c])
    BY <2>3, <2>4 DEF Elems
  <2>15. Queue'[c] = Popped(cwait'[c], Len(cwait'[c]) - 1)
    BY ZenonT(60), <2>3, <2>10, <2>14, QueueOfCond DEF SameInside
  <2>16. Queue'[c] = Queue[c]
    <3>1. PICK w \in Seq(Threads) : w = cwait[c]
      BY <2>3
    <3>2. Popped(Append(w, t), Len(Append(w, t)) - 1) = w
      BY ZenonT(60), <1>AppendFront
    <3> QED BY ZenonT(60), <3>1, <3>2, <2>4, <2>13, <2>15
  <2>17. Queue' = Queue
    BY <2>11, <2>16, MonitorFunctions
  <2> QED BY ZenonT(60), <2>9, <2>11, <2>17 DEF MonitorStep
(* A list without its first element has fewer elements.                     *)
<1>TailElems.
    ASSUME NEW S, NEW s \in Seq(S), s # <<>>
    PROVE  Elems(Tail(s)) \subseteq Elems(s)
  <2> USE <1>TailElems
  <2>1. \A i \in 1..Len(Tail(s)) : Tail(s)[i] = s[i + 1] /\ i + 1 \in 1..Len(s)
    OBVIOUS
  <2> QED BY <2>1 DEF Elems
(* cond_signal and a round of cond_broadcast signal in the monitor: the     *)
(* lock's holder takes the first waiter off the list.                       *)
<1>UnlinkMonitor.
    ASSUME SInv, SigInv, MonInv, NEW t \in Threads, NEW c \in Conds, cwait[c] # <<>>,
           holder[LockOf[c]] = t, ~ InWait(t), pc[t] \in {"run", "bcast"},
           Aside(t), holder' = holder, obj'[t] \notin Locks, LastIn(t)', HoldsOn(t)',
           cwait' = [cwait EXCEPT ![c] = Tail(cwait[c])]
    PROVE  MonInv' /\ MonitorStep
  <2> USE <1>UnlinkMonitor
  <2>1. cwait[c] \in Seq(Threads) /\ LockOf[c] \in Locks
    BY ZenonT(60), SynchAssumption, WaitersAreThreads
  <2>2. cwait'[c] = Tail(cwait[c]) /\ \A d \in Conds \ {c} : cwait'[d] = cwait[d]
    <3>1. cwait \in [Conds -> Seq(Threads)]
      BY ZenonT(60) DEF SInv, TypeOK
    <3> QED BY ZenonT(60), <3>1
  <2>3. Owns(t, LockOf[c]) /\ \A m \in Locks : Owns(t, m)' <=> Owns(t, m)
    <3>1. pc[t] \notin {"hold", "clear", "up"}
      BY ZenonT(60)
    <3> QED BY ZenonT(60), <3>1 DEF Owns
  <2>4. Alone(t) /\ Guarded(t)
    BY ZenonT(60), <2>2, <2>3 DEF Alone, Guarded
  <2>5. MonInv'
    BY ZenonT(60), <2>4, <1>GuardedMonInv
  <2>6. SameInside /\ Insiders(LockOf[c]) = {t}
    BY ZenonT(60), <2>1, <2>3, <2>4, <1>OthersStay, <1>OneInside DEF SameInside
  <2>7. Owner' = Owner /\ \A d \in Conds \ {c} : Queue'[d] = Queue[d]
    BY ZenonT(60), <2>2, <2>6, <1>StillOwner
  <2>8. t \notin Elems(cwait[c])
    BY ZenonT(60) DEF SigInv, Fate, Listed
  <2>9. t \notin Elems(cwait'[c])
    <3>1. PICK w \in Seq(Threads) : w = cwait[c]
      BY ZenonT(60), <2>1
    <3>2. Elems(Tail(w)) \subseteq Elems(w)
      BY ZenonT(60), <3>1, <1>TailElems
    <3> QED BY ZenonT(60), <3>1, <3>2, <2>2, <2>8
  <2>10. Queue[c] = cwait[c] /\ Queue'[c] = Tail(cwait[c])
    <3>1. Insiders(LockOf[c])' = {t}
      BY ZenonT(60), <2>1, <2>6 DEF SameInside
    <3> QED BY ZenonT(60), <3>1, <2>2, <2>6, <2>8, <2>9, QueueOfCond
  <2>11. Queue' = [Queue EXCEPT ![c] = Tail(Queue[c])]
    <3>1. Queue'[c] = Tail(Queue[c])
      BY ZenonT(60), <2>10
    <3> QED BY <3>1, <2>7, MonitorFunctions, <1>OnePlace
  <2>12. Owner[LockOf[c]] = t
    BY ZenonT(60), <2>1, <2>6, OwnerOfLock
  <2>13. M!Signal(t, c)
    BY ZenonT(60), <2>7, <2>10, <2>11, <2>12 DEF M!Signal
  <2> QED BY ZenonT(60), <2>5, <2>13 DEF MonitorStep, M!Next
(* cond_signal.                                                             *)
<1>SignalMonitor.
    ASSUME SInv, SigInv, MonInv, NEW t \in Threads, NEW c \in Conds, cond_signal(t, c)
    PROVE  MonInv' /\ MonitorStep
  <2> USE <1>SignalMonitor
  <2>1. /\ pc[t] = "run" /\ Goto(t, "up") /\ With(t, Head(cwait[c])) /\ cwait[c] # <<>>
        /\ cwait' = [cwait EXCEPT ![c] = Tail(cwait[c])] /\ cv' = [cv EXCEPT ![t] = cv[t]]
        /\ holder' = holder /\ holder[LockOf[c]] = t
    BY ZenonT(60), Stayed DEF cond_signal, At
  <2>2. PICK h \in Threads : h = Head(cwait[c])
    BY <2>1, WaitersAreThreads
  <2>3. pc'[t] = "up" /\ obj'[t] = h /\ cv'[t] = cv[t] /\ Aside(t)
    <3>1. "up" \in Labels /\ With(t, h)
      BY ZenonT(60), <2>1, <2>2 DEF Labels
    <3> QED BY ZenonT(60), <3>1, <2>1, Went
  <2>4. cv[t] = None
    BY ZenonT(60), <2>1 DEF SigInv, Roles
  <2>5. ~ InWait(t) /\ LastIn(t)' /\ HoldsOn(t)' /\ obj'[t] \notin Locks
    BY ZenonT(60), <2>3, <2>4, Kinds DEF InWait, LastIn, HoldsOn
  <2> QED BY ZenonT(60), <2>1, <2>3, <2>5, <1>UnlinkMonitor
(* cond_broadcast begins.                                                   *)
<1>CallBroadcastMonitor.
    ASSUME SInv, SigInv, MonInv, NEW t \in Threads, NEW c \in Conds, CallBroadcast(t, c)
    PROVE  MonInv' /\ MonitorStep
  <2> USE <1>CallBroadcastMonitor
  <2>1. /\ pc[t] = "run" /\ Goto(t, "bcast") /\ With(t, obj[t]) /\ cv' = [cv EXCEPT ![t] = c]
        /\ cwait' = cwait /\ holder' = holder /\ holder[LockOf[c]] = t
    BY ZenonT(60), Stayed DEF CallBroadcast, At
  <2>2. pc'[t] = "bcast" /\ cv'[t] = c /\ Aside(t)
    <3>1. /\ pc \in [Threads -> Labels] /\ obj \in [Threads -> AllSemas \cup {None}]
          /\ cv \in [Threads -> Conds \cup {None}]
      BY ZenonT(60) DEF SInv, TypeOK
    <3> QED BY ZenonT(60), <3>1, <2>1 DEF Goto, With, Aside
  <2>3. LastIn(t)' /\ HoldsOn(t)'
    BY ZenonT(60), <2>1, <2>2 DEF LastIn, HoldsOn
  <2>4. Quiet(t)
    BY ZenonT(60), <2>1, <2>2, <2>3 DEF Quiet
  <2> QED BY ZenonT(60), <2>4, <1>QuietMonitor
(* A round of cond_broadcast, or its end.                                   *)
<1>BroadcastMonitor.
    ASSUME SInv, SigInv, MonInv, NEW t \in Threads, cond_broadcast(t)
    PROVE  MonInv' /\ MonitorStep
  <2> USE <1>BroadcastMonitor
  <2>1. PICK c \in Conds : c = cv[t]
    <3>1. pc[t] = "bcast" /\ CallFits(t) /\ cv \in [Threads -> Conds \cup {None}]
      BY ZenonT(60) DEF cond_broadcast, At, SInv, CallInv, TypeOK
    <3> QED BY ZenonT(60), <3>1 DEF CallFits
  <2>2. pc[t] = "bcast" /\ holder' = holder /\ HoldsOn(t)
    BY ZenonT(60) DEF cond_broadcast, At, MonInv
  <2>3. CASE cwait[c] # <<>>
    <3>1. /\ cwait' = [cwait EXCEPT ![c] = Tail(cwait[c])] /\ Goto(t, "bup")
          /\ With(t, Head(cwait[c])) /\ cv' = [cv EXCEPT ![t] = cv[t]]
      BY ZenonT(60), <2>1, <2>3, Stayed DEF cond_broadcast
    <3>2. PICK h \in Threads : h = Head(cwait[c])
      BY ZenonT(60), <2>3, FirstIsThread
    <3>3. pc'[t] = "bup" /\ obj'[t] = h /\ cv'[t] = cv[t] /\ Aside(t)
      <4>1. "bup" \in Labels /\ With(t, h)
        BY ZenonT(60), <3>1, <3>2 DEF Labels
      <4> QED BY ZenonT(60), <4>1, <3>1, Went
    <3>4. holder[LockOf[c]] = t
      BY ZenonT(60), <2>1, <2>2 DEF HoldsOn
    <3>5. ~ InWait(t) /\ LastIn(t)' /\ HoldsOn(t)' /\ obj'[t] \notin Locks
      BY ZenonT(60), <2>1, <2>2, <3>3, <3>4, Kinds DEF InWait, LastIn, HoldsOn
    <3> QED BY ZenonT(60), <2>2, <2>3, <3>1, <3>3, <3>4, <3>5, <1>UnlinkMonitor
  <2>4. CASE cwait[c] = <<>>
    <3>1. /\ Goto(t, "run") /\ With(t, None) /\ cv' = [cv EXCEPT ![t] = None] /\ cwait' = cwait
      BY ZenonT(60), <2>1, <2>4 DEF cond_broadcast
    <3>2. pc'[t] = "run" /\ Aside(t)
      BY ZenonT(60), <3>1, Went DEF Labels
    <3>3. Quiet(t)
      BY ZenonT(60), <2>2, <3>1, <3>2 DEF Quiet, LastIn, HoldsOn
    <3> QED BY ZenonT(60), <3>3, <1>QuietMonitor
  <2> QED BY ZenonT(60), <2>3, <2>4
(* cond_broadcast ups the waiter it has unlinked.                           *)
<1>BroadcastUpMonitor.
    ASSUME SInv, MonInv, NEW t \in Threads, BroadcastUp(t)
    PROVE  MonInv' /\ MonitorStep
  <2> USE <1>BroadcastUpMonitor
  <2>1. /\ pc[t] = "bup" /\ cwait' = cwait /\ Goto(t, "bcast") /\ With(t, obj[t])
        /\ cv' = [cv EXCEPT ![t] = cv[t]] /\ holder' = holder /\ HoldsOn(t)
    BY ZenonT(60), Stayed DEF BroadcastUp, At, MonInv
  <2>2. pc'[t] = "bcast" /\ cv'[t] = cv[t] /\ Aside(t)
    <3>1. "bcast" \in Labels
      BY DEF Labels
    <3> QED BY ZenonT(60), <3>1, <2>1, Went
  <2>3. Quiet(t)
    BY <2>1, <2>2 DEF Quiet, LastIn, HoldsOn
  <2> QED BY ZenonT(60), <2>3, <1>QuietMonitor
<1> SUFFICES ASSUME SInv, SigInv, MonInv, [Next]_vars PROVE MonInv' /\ MonitorStep
  OBVIOUS
<1>1. CASE Preempt \/ IdleBlocks
  <2>1. UNCHANGED <<holder, cwait, pc, obj, cv>>
    BY <1>1 DEF Preempt, IdleBlocks, locVars
  <2> QED BY ZenonT(60), <2>1, <1>SameMonitor
<1>2. CASE Call
  <2>1. ASSUME NEW s \in Semas, sema_try_down(s) \/ sema_up(s) PROVE MonInv' /\ MonitorStep
    <3>1. UNCHANGED <<holder, cwait, pc, obj, cv>>
      BY <2>1 DEF sema_try_down, sema_up, locVars
    <3> QED BY ZenonT(60), <3>1, <1>SameMonitor
  <2>2. ASSUME NEW t \in Threads, NEW s \in Semas, CallDown(t, s) PROVE MonInv' /\ MonitorStep
    BY ZenonT(60), <2>2, <1>CallDownMonitor
  <2>3. ASSUME NEW t \in Threads, NEW l \in Locks, CallAcquire(t, l) PROVE MonInv' /\ MonitorStep
    BY ZenonT(60), <2>3, <1>CallDownMonitor DEF CallAcquire
  <2>4. ASSUME NEW t \in Threads, NEW l \in Locks, lock_try_acquire(t, l)
        PROVE  MonInv' /\ MonitorStep
    BY ZenonT(60), <2>4, <1>TryAcquireMonitor
  <2>5. ASSUME NEW t \in Threads, NEW l \in Locks, lock_release(t, l) PROVE MonInv' /\ MonitorStep
    BY ZenonT(60), <2>5, <1>ReleaseMonitor
  <2>6. ASSUME NEW t \in Threads, NEW c \in Conds, cond_wait(t, c) PROVE MonInv' /\ MonitorStep
    BY ZenonT(60), <2>6, <1>QueueUpMonitor
  <2>7. ASSUME NEW t \in Threads, NEW c \in Conds, cond_signal(t, c) PROVE MonInv' /\ MonitorStep
    BY ZenonT(60), <2>7, <1>SignalMonitor
  <2>8. ASSUME NEW t \in Threads, NEW c \in Conds, CallBroadcast(t, c) PROVE MonInv' /\ MonitorStep
    BY ZenonT(60), <2>8, <1>CallBroadcastMonitor
  <2> QED BY ZenonT(60), <1>2, <2>1, <2>2, <2>3, <2>4, <2>5, <2>6, <2>7, <2>8 DEF Call
<1>3. ASSUME NEW t \in Threads, Step(t) PROVE MonInv' /\ MonitorStep
  <2>1. CASE sema_down(t)
    BY ZenonT(60), <2>1, <1>DownMonitor
  <2>2. CASE lock_acquire(t)
    BY ZenonT(60), <2>2, <1>AcquireMonitor
  <2>3. CASE UpStep(t)
    BY ZenonT(60), <2>3, <1>UpStepMonitor
  <2>4. CASE cond_broadcast(t)
    BY ZenonT(60), <2>4, <1>BroadcastMonitor
  <2>5. CASE BroadcastUp(t)
    BY ZenonT(60), <2>5, <1>BroadcastUpMonitor
  <2>6. CASE \E l \in Locks : pc[t] = "clear" /\ lock_release(t, l)
    BY ZenonT(60), <2>6, <1>ReleaseMonitor
  <2> QED BY ZenonT(60), <1>3, <2>1, <2>2, <2>3, <2>4, <2>5, <2>6 DEF Step
<1>4. CASE UNCHANGED vars
  <2>1. UNCHANGED <<holder, cwait, pc, obj, cv>>
    BY <1>4 DEF vars, locVars
  <2> QED BY ZenonT(60), <2>1, <1>SameMonitor
<1> QED BY ZenonT(60), <1>1, <1>2, <1>3, <1>4 DEF Next

(* Initially the monitor is empty.                                          *)
LEMMA InitMonitor == Init => MonInv /\ M!Init
<1> SUFFICES ASSUME Init PROVE MonInv /\ M!Init
  OBVIOUS
<1>1. MonInv
  BY ZenonT(60) DEF Init, MonInv, LastIn, HoldsOn
<1>2. \A l \in Locks : Insiders(l) = {}
  BY Kinds DEF Init, Insiders, Owns
<1>3. Owner = [l \in Locks |-> None]
  <2>1. \A l \in Locks : Owner[l] = None
    BY ZenonT(60), <1>2, OwnerOfLock
  <2> QED BY <2>1, MonitorFunctions
<1>4. Queue = [c \in Conds |-> <<>>]
  <2>1. ASSUME NEW c \in Conds PROVE Queue[c] = <<>>
    <3>1. cwait[c] = <<>> /\ LockOf[c] \in Locks
      BY SynchAssumption DEF Init
    <3>2. Elems(cwait[c]) \cap Insiders(LockOf[c]) = {}
      BY ZenonT(60), <1>2, <3>1
    <3> QED BY ZenonT(60), <3>1, <3>2, QueueOfCond
  <2> QED BY <2>1, MonitorFunctions
<1> QED BY ZenonT(60), <1>1, <1>3, <1>4 DEF M!Init

-----------------------------------------------------------------------------
(* What rests on counting threads.                                          *)
INSTANCE FiniteSetTheorems

(* Initially nobody is in a call and every lock is free.                    *)
LEMMA InitSInv == Init => SInv
<1> SUFFICES ASSUME Init PROVE SInv
  OBVIOUS
<1>1. Cardinality(Threads) \in Nat
  BY SynchAssumption, FS_CardinalityType
<1>2. ready_list \in Seq(Threads)
  BY <1>1 DEF Init
<1>3. value \in [AllSemas -> Nat]
  BY ZenonT(60), SynchAssumption DEF Init, AllSemas
<1>4. TypeOK
  <2>1. <<>> \in Seq(Threads) /\ "run" \in Labels
    BY DEF Labels
  <2>2. /\ waiters \in [AllSemas -> Seq(Threads)]
        /\ cwait \in [Conds -> Seq(Threads)]
    BY ZenonT(60), <2>1 DEF Init
  <2>3. /\ pc \in [Threads -> Labels]
        /\ obj \in [Threads -> AllSemas \cup {None}]
        /\ cv \in [Threads -> Conds \cup {None}]
        /\ holder \in [Locks -> Threads \cup {None}]
    BY ZenonT(60), <2>1 DEF Init
  <2>4. current \in Threads \cup {Idle}
    BY ZenonT(60) DEF Init
  <2> QED BY ZenonT(60), <2>2, <2>3, <2>4, <1>2, <1>3 DEF TypeOK
<1>5. CallInv
  BY ZenonT(60) DEF Init, CallInv, CallFits
<1>6. ASSUME NEW l \in Locks
      PROVE  value[l] = 1 /\ \A t \in Threads : ~Owns(t, l)
  BY Kinds DEF Init, Owns
<1>7. LockExclusion
  BY <1>6 DEF LockExclusion
<1> QED BY <1>4, <1>5, <1>7 DEF SInv

(* Every thread is on the run queue when the idle thread runs first: a list *)
(* as long as there are threads, with nobody on it twice, has them all.     *)
LEMMA InitPlaces == Init => NoLostThread
<1> SUFFICES ASSUME Init PROVE NoLostThread
  OBVIOUS
<1>1. /\ current = Idle /\ Idle \notin Threads /\ IsFiniteSet(Threads)
      /\ \A s \in AllSemas : waiters[s] = <<>>
  BY ZenonT(60), SynchAssumption DEF Init
<1>2. PICK n \in Nat : n = Cardinality(Threads)
  BY ZenonT(60), <1>1, FS_CardinalityType
<1>3. ready_list \in [1..n -> Threads] /\ NoDup(ready_list)
  BY <1>2 DEF Init
<1>4. Len(ready_list) = n /\ ready_list \in Seq(Threads)
  BY <1>3
<1>5. Elems(ready_list) = Threads
  <2>1. Elems(ready_list) \subseteq Threads /\ Elems(ready_list) = {ready_list[i] : i \in 1..n}
    BY <1>3, <1>4 DEF Elems
  <2>2. \A i, j \in 1..n : ready_list[i] = ready_list[j] => i = j
    BY <1>3, <1>4 DEF NoDup
  <2>3. IsFiniteSet(1..n) /\ Cardinality(1..n) = n
    <3>1. /\ IsFiniteSet(1..n)
          /\ Cardinality(1..n) = IF 1 > n THEN 0 ELSE n - 1 + 1
      BY FS_Interval
    <3> QED BY <3>1
  <2>4. ready_list \in Bijection(1..n, Elems(ready_list))
    <3>1. ready_list \in [1..n -> Elems(ready_list)]
      BY <2>1, <1>3
    <3>2. \A e \in Elems(ready_list) : \E i \in 1..n : ready_list[i] = e
      BY <2>1
    <3> QED BY <2>2, <3>1, <3>2 DEF Bijection, Injection, Surjection, IsInjective
  <2>5. IsFiniteSet(Elems(ready_list)) /\ Cardinality(Elems(ready_list)) = n
    <3>1. ExistsBijection(1..n, Elems(ready_list))
      BY <2>4 DEF ExistsBijection
    <3> QED BY <2>3, <3>1, FS_Bijection
  <2> QED BY ZenonT(60), <2>1, <2>5, <1>1, <1>2, FS_Subset
<1>6. \A s \in AllSemas : Elems(waiters[s]) = {} /\ NoDup(waiters[s])
  BY ZenonT(60), <1>1, EmptyQueue
<1> QED BY ZenonT(60), <1>1, <1>3, <1>5, <1>6 DEF NoLostThread

(* The threads can be counted.                                              *)
LEMMA ThreadsCanBeCounted == ThreadsCount
<1>1. ASSUME NEW A \in SUBSET Threads, NEW B \in SUBSET Threads, A \subseteq B
      PROVE  /\ Cardinality(A) \in Nat /\ Cardinality(B) \in Nat
             /\ Cardinality(A) <= Cardinality(B)
  <2>1. IsFiniteSet(A) /\ IsFiniteSet(B)
    BY SynchAssumption, FS_Subset
  <2>2. Cardinality(A) <= Cardinality(B)
    BY <1>1, <2>1, FS_Subset
  <2> QED BY <2>1, <2>2, FS_CardinalityType
<1>2. ASSUME NEW A \in SUBSET Threads, NEW h \in Threads
      PROVE  /\ h \notin A => Cardinality(A \cup {h}) = Cardinality(A) + 1
             /\ h \in A => Cardinality(A \ {h}) = Cardinality(A) - 1
  <2>1. IsFiniteSet(A)
    BY SynchAssumption, FS_Subset
  <2> QED BY ZenonT(60), <2>1, FS_AddElement, FS_RemoveElement
<1> QED BY ZenonT(60), <1>1, <1>2 DEF ThreadsCount

-----------------------------------------------------------------------------
(* The theorems.                                                            *)

(* Inside every call the operand, the condition and the holder field are    *)
(* what the rest of the call relies on.                                     *)
THEOREM CallsAreConsistent == Spec => []SInv
<1>1. Init => SInv
  BY InitSInv
<1> QED BY <1>1, NextSInv, PTL DEF Spec

(* A lock is held by at most one thread, through lock_acquire,              *)
(* lock_try_acquire and cond_wait, and its semaphore is 0 just while it is. *)
THEOREM LocksExcludeThreads == Spec => []LockExclusion
<1>1. SInv => LockExclusion
  BY DEF SInv
<1> QED BY <1>1, CallsAreConsistent, PTL

(* No thread is lost between the run queue, the CPU and the wait lists of   *)
(* semaphores, locks and conditions, and none is on two of them.            *)
THEOREM ThreadsAreKept == Spec => []NoLostThread
BY InitPlaces, NextPlaces, CallsAreConsistent, PTL DEF Spec

(* No unit of a semaphore and no signal of a condition is lost, for any     *)
(* number of threads and objects (sema_up's wake-up, cond_signal's).        *)
THEOREM WakeupsAreKept == Spec => []WakeupsKept
<1>1. Spec => [](SInv /\ NoLostThread)
  BY CallsAreConsistent, ThreadsAreKept, PTL
<1>2. Init => NoLostWakeup /\ SigInv
  BY InitWakeups, InitSignals
<1>3. SInv /\ NoLostThread /\ NoLostWakeup /\ SigInv /\ [Next]_vars => NoLostWakeup' /\ SigInv'
  BY ThreadsCanBeCounted, NextWakeups, NextSignals
<1>4. NoLostWakeup /\ SigInv => WakeupsKept
  BY SigInvSignals DEF WakeupsKept
<1> QED BY <1>1, <1>2, <1>3, <1>4, PTL DEF Spec

(* Locks and condition variables implement a Mesa monitor, for any number   *)
(* of threads, locks and conditions, also several conditions of one lock:   *)
(* cond_wait gives the lock up and waits in one step of the monitor, and    *)
(* cond_signal and cond_broadcast take the longest waiter.                  *)
THEOREM MonitorIsImplemented == Spec => ImplementsMonitor
<1>1. Spec => []SInv
  BY CallsAreConsistent
<1>2. Init => SigInv /\ MonInv /\ M!Init
  BY InitSignals, InitMonitor
<1>3. SInv /\ SigInv /\ MonInv /\ [Next]_vars => SigInv' /\ MonInv' /\ [M!Next]_<<Owner, Queue>>
  BY ZenonT(60), NextSignals, NextMonitor DEF MonitorStep
<1> QED BY <1>1, <1>2, <1>3, PTL DEF Spec, ImplementsMonitor, M!Spec
=============================================================================
