------------------------------- MODULE Console -------------------------------
(***************************************************************************)
(* lib/kernel/console.c: calls of printf, puts, putbuf and putchar by      *)
(* preemptible threads, calls from interrupt handlers, and a panic.  All   *)
(* four functions are acquire_console, some characters, release_console.   *)
(* A thread may print again while it is inside such a call: that is the    *)
(* backtrace of the file's comment, where a timer interrupt ends in code   *)
(* that prints.  lock_acquire and lock_release are cut where interrupts    *)
(* are on (synch.c).                                                       *)
(***************************************************************************)
EXTENDS Integers, Sequences, SequencesExt

CONSTANTS
    Threads, NoThread,
    MaxLen,      \* bound on the characters of one call
    MaxDepth,    \* bound on nested calls
    MaxWritten   \* bound on write_cnt

VARIABLES
    use_console_lock, console_lock_depth, write_cnt,
    value, holder,   \* console_lock: its semaphore and its holder
    calls,           \* the calls each thread is in, innermost last
    panicked,        \* the thread whose panic stopped the others
    mixed            \* history: characters of two threads' calls were mixed

vars == <<use_console_lock, console_lock_depth, write_cnt, value, holder, calls, panicked, mixed>>
lockVars == <<value, holder>>

(* A call: what it does next and how many characters are left.             *)
(* "acq" acquire_console, "down" and "hold" the two halves of lock_acquire, *)
(* "put" the characters, "up" the second half of lock_release.             *)
Call(at, left) == [at |-> at, left |-> left]

Init ==
    /\ use_console_lock = FALSE
    /\ console_lock_depth = 0 /\ write_cnt = 0
    /\ value = 1 /\ holder = NoThread
    /\ calls = [t \in Threads |-> <<>>]
    /\ panicked = NoThread
    /\ mixed = FALSE

(* After debug_panic only the panicking thread runs, with interrupts off.   *)
CanRun(t) == panicked \in {NoThread, t}
Top(t) == Last(calls[t])
At(t, label) == CanRun(t) /\ calls[t] # <<>> /\ Top(t).at = label
GoTo(t, label) == calls' = [calls EXCEPT ![t][Len(calls[t])].at = label]
Return(t) == calls' = [calls EXCEPT ![t] = Front(@)]

(* console_init, by the initial thread before there are others.            *)
console_init ==
    /\ ~use_console_lock /\ panicked = NoThread
    /\ \A t \in Threads : calls[t] = <<>>
    /\ use_console_lock' = TRUE
    /\ UNCHANGED <<console_lock_depth, write_cnt, lockVars, calls, panicked, mixed>>

(* A thread calls vprintf, puts, putbuf or putchar; if it is in a call      *)
(* already, from an interrupt on its way through it.  Before console_init   *)
(* there is one thread.                                                     *)
Printing == {t \in Threads : calls[t] # <<>>}
vprintf(t, n) ==
    /\ CanRun(t)
    /\ Len(calls[t]) < MaxDepth
    /\ calls[t] # <<>> => Top(t).at # "acq" /\ panicked # t
    /\ use_console_lock \/ panicked = t \/ Printing \subseteq {t}
    /\ calls' = [calls EXCEPT ![t] = Append(@, Call("acq", n))]
    /\ UNCHANGED <<use_console_lock, console_lock_depth, write_cnt, lockVars, panicked, mixed>>

(* Mutants: the lock is not taken, or a nested call is not counted.         *)
acquire_console_unlocked(t) ==
    /\ At(t, "acq")
    /\ GoTo(t, "put")
    /\ UNCHANGED <<use_console_lock, console_lock_depth, write_cnt, lockVars, panicked, mixed>>

acquire_console_flat(t) ==
    /\ At(t, "acq")
    /\ IF use_console_lock /\ holder # t THEN GoTo(t, "down") ELSE GoTo(t, "put")
    /\ UNCHANGED <<use_console_lock, console_lock_depth, write_cnt, lockVars, panicked, mixed>>

acquire_console(t) ==
    /\ At(t, "acq")
    /\ IF use_console_lock /\ holder # t THEN GoTo(t, "down") ELSE GoTo(t, "put")
    /\ console_lock_depth' = IF use_console_lock /\ holder = t THEN console_lock_depth + 1
                                                               ELSE console_lock_depth
    /\ UNCHANGED <<use_console_lock, write_cnt, lockVars, panicked, mixed>>

(* lock_acquire: sema_down, then the holder.                                *)
lock_acquire(t) ==
    /\ \/ /\ At(t, "down") /\ value = 1
          /\ value' = 0
          /\ GoTo(t, "hold")
          /\ UNCHANGED holder
       \/ /\ At(t, "hold")
          /\ holder' = t
          /\ GoTo(t, "put")
          /\ UNCHANGED value
    /\ UNCHANGED <<use_console_lock, console_lock_depth, write_cnt, panicked, mixed>>

(* putchar_have_lock: a character to the serial port and the display.        *)
putchar_have_lock(t) ==
    /\ At(t, "put") /\ Top(t).left > 0 /\ write_cnt < MaxWritten
    /\ write_cnt' = write_cnt + 1
    /\ mixed' = (mixed \/ (panicked = NoThread /\
                  \E u \in Threads \ {t} : \E i \in DOMAIN calls[u] : calls[u][i].at = "put"))
    /\ calls' = [calls EXCEPT ![t][Len(calls[t])].left = @ - 1]
    /\ UNCHANGED <<use_console_lock, console_lock_depth, lockVars, panicked>>

release_console(t) ==
    /\ At(t, "put") /\ Top(t).left = 0
    /\ IF use_console_lock /\ console_lock_depth = 0
       THEN holder' = NoThread /\ GoTo(t, "up") /\ UNCHANGED console_lock_depth
       ELSE /\ Return(t)
            /\ console_lock_depth' = IF use_console_lock THEN console_lock_depth - 1
                                                         ELSE console_lock_depth
            /\ UNCHANGED holder
    /\ UNCHANGED <<use_console_lock, write_cnt, value, panicked, mixed>>

(* lock_release's sema_up.                                                   *)
lock_release(t) ==
    /\ At(t, "up")
    /\ value' = 1
    /\ Return(t)
    /\ UNCHANGED <<use_console_lock, console_lock_depth, write_cnt, holder, panicked, mixed>>

(* An interrupt handler prints a character: no lock is taken.                *)
PrintInHandler ==
    /\ panicked = NoThread /\ write_cnt < MaxWritten
    /\ write_cnt' = write_cnt + 1
    /\ UNCHANGED <<use_console_lock, console_lock_depth, lockVars, calls, panicked, mixed>>

(* Mutant: the console goes on using the lock.                               *)
console_panic_locked(t) ==
    /\ panicked = NoThread
    /\ panicked' = t
    /\ calls' = [calls EXCEPT ![t] = <<>>]
    /\ UNCHANGED <<use_console_lock, console_lock_depth, write_cnt, lockVars, mixed>>

(* debug_panic calls console_panic; what follows is vprintf by that thread.  *)
console_panic(t) ==
    /\ panicked = NoThread
    /\ use_console_lock' = FALSE
    /\ panicked' = t
    /\ calls' = [calls EXCEPT ![t] = <<>>]
    /\ UNCHANGED <<console_lock_depth, write_cnt, lockVars, mixed>>

Step(t) ==
    \/ acquire_console(t) \/ lock_acquire(t) \/ putchar_have_lock(t)
    \/ release_console(t) \/ lock_release(t)

Next ==
    \/ console_init \/ PrintInHandler
    \/ \E t \in Threads :
          \/ \E n \in 0..MaxLen : vprintf(t, n)
          \/ Step(t) \/ console_panic(t)

Spec == Init /\ [][Next]_vars
FairSpec == Spec /\ \A t \in Threads : WF_vars(Step(t))

-----------------------------------------------------------------------------
(* acquire_console: "to prevent simultaneous printf() calls from mixing      *)
(* their output" (console.c:16): until a panic, no character of one thread's *)
(* call is written while another thread is between acquire_console and       *)
(* release_console.                                                          *)
OutputNotMixed == ~mixed

(* The depth counter: outside of lock_acquire and lock_release it is the     *)
(* number of calls the holder is in beyond the first, so that only the       *)
(* outermost release gives the lock up.                                      *)
DepthCountsNesting ==
    (panicked = NoThread /\ holder # NoThread) =>
        console_lock_depth = Len(SelectSeq(calls[holder], LAMBDA c : c.at = "put")) - 1

(* After a panic the message gets out, whatever state the lock was in.       *)
HasMessage(t) == panicked = t /\ calls[t] # <<>>
MessageOut(t) == calls[t] = <<>> \/ write_cnt = MaxWritten
PanicPrints == \A t \in Threads : HasMessage(t) ~> MessageOut(t)

(* console.c:54: "we avoid the problem by simulating a recursive lock with a *)
(* depth counter": a thread that prints inside a call of its own never waits *)
(* for the lock that this call has taken.                                    *)
(* The code does not keep it: README.md, "Disagreements".                    *)
NeverWaitsForItself ==
    \A t \in Threads : At(t, "down") =>
        \A i \in 1..Len(calls[t]) - 1 : calls[t][i].at \notin {"hold", "put", "up"}
=============================================================================
