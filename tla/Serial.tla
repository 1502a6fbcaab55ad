------------------------------- MODULE Serial -------------------------------
(***************************************************************************)
(* devices/serial.c and devices/input.c on two interrupt queues: threads   *)
(* and interrupt handlers that print through the transmit queue, threads   *)
(* that read the input buffer, the UART at the other end and the keyboard. *)
(* Every step is a stretch of code with interrupts off, up to the point    *)
(* where it ends or sleeps.  Any thread that can run may run next; module  *)
(* Synch is about the run queue, and the lock is taken when it is free.    *)
(***************************************************************************)
EXTENDS Intq, FiniteSets

CONSTANTS
    Writers,     \* threads that print
    Readers,     \* threads that read keys
    MaxOut,      \* bound on the bytes printed
    MaxIn        \* bound on the bytes received and typed

Threads == Writers \cup Readers
QueueOf(t) == IF t \in Writers THEN "tx" ELSE "in"

VARIABLES
    mode,        \* "UNINIT", "POLL", "QUEUE"
    inited,      \* serial_init_queue has written the IER
    q,           \* txq and the input buffer
    ier,         \* the interrupt enable register
    thr, rbr,    \* UART registers: at most one byte each
    pc, arg,     \* control point of each thread; the byte a writer prints
    blocked,     \* threads in thread_block inside wait()
    halted,      \* "no", "panic", or "assert" when wait()'s assertion failed
    accepted,    \* history: bytes in the order serial_putc accepted them
    line,        \* history: bytes the UART has sent
    typed, read  \* history: bytes put into and taken out of the input buffer

uart == <<thr, rbr, line>>
loc == <<pc, arg>>
vars == <<mode, inited, q, ier, uart, loc, blocked, halted, accepted, typed, read>>

Init ==
    /\ mode = "UNINIT" /\ inited = FALSE
    /\ q = [n \in {"tx", "in"} |-> intq_init]
    /\ ier = {}
    /\ thr = <<>> /\ rbr = <<>>
    /\ pc = [t \in Threads |-> "run"]
    /\ arg = [t \in Threads |-> NoByte]
    /\ blocked = {}
    /\ halted = "no"
    /\ accepted = <<>> /\ line = <<>> /\ typed = <<>> /\ read = <<>>

Running == halted = "no"

(* Mutants: receive interrupts stay on when there is no room, or transmit   *)
(* interrupts are never turned on.                                         *)
write_ier_always_recv(qs) ==
    (IF intq_empty(qs["tx"]) THEN {} ELSE {"xmit"}) \cup {"recv"}
write_ier_no_xmit(qs) == IF intq_full(qs["in"]) THEN {} ELSE {"recv"}

(* The value write_ier stores.                                             *)
write_ier(qs) ==
    (IF intq_empty(qs["tx"]) THEN {} ELSE {"xmit"})
    \cup (IF intq_full(qs["in"]) THEN {} ELSE {"recv"})

(* serial_notify, and the IER as any other operation leaves it.             *)
serial_notify(qs) == ier' = IF mode = "QUEUE" THEN write_ier(qs) ELSE ier

Wake(old, new) == blocked' = blocked \ UNION {Signalled(old[n], new[n]) : n \in {"tx", "in"}}

(* putc_poll for each byte: wait until THR is empty, then write it.          *)
putc_poll(bytes) ==
    LET all == thr \o bytes
    IN  /\ line' = line \o SubSeq(all, 1, Len(all) - 1)
        /\ thr' = <<all[Len(all)]>>

-----------------------------------------------------------------------------
(* What the loops of intq_getc and intq_putc wait for.                      *)
MustWait(t) == IF t \in Writers THEN intq_full(q["tx"]) ELSE intq_empty(q["in"])

(* wait() of a thread that has the lock.                                    *)
Waiting(r, t) ==
    IF t \in Writers THEN [r EXCEPT !.lock = t, !.not_full = t]
                     ELSE [r EXCEPT !.lock = t, !.not_empty = t]

(* The loop of intq_putc or intq_getc when it must wait: take the lock and   *)
(* sleep in wait(), or sleep for the lock.  r is the queue before.           *)
Sleep(t, r) ==
    /\ \/ /\ r.lock = NoThread
          /\ q' = [q EXCEPT ![QueueOf(t)] = Waiting(r, t)]
          /\ blocked' = blocked \cup {t}
          /\ pc' = [pc EXCEPT ![t] = "wait"]
       \/ /\ r.lock # NoThread
          /\ q' = [q EXCEPT ![QueueOf(t)] = r]
          /\ pc' = [pc EXCEPT ![t] = "lock"]
          /\ UNCHANGED blocked
    /\ UNCHANGED <<ier, thr, line, accepted, read>>

(* serial_putc past the loop of intq_putc: store the byte, write the IER.    *)
Store(t, r, byte) ==
    /\ q' = [q EXCEPT !["tx"] = intq_put(r, byte)]
    /\ Wake(q, q')
    /\ accepted' = Append(accepted, byte)
    /\ ier' = write_ier(q')
    /\ pc' = [pc EXCEPT ![t] = "run"]
    /\ UNCHANGED read

(* input_getc past the loop of intq_getc: take a byte, notify the driver.    *)
Fetch(t, r) ==
    /\ q' = [q EXCEPT !["in"] = intq_got(r)]
    /\ Wake(q, q')
    /\ read' = Append(read, Oldest(r))
    /\ serial_notify(q')
    /\ pc' = [pc EXCEPT ![t] = "run"]
    /\ UNCHANGED <<thr, line, accepted>>

Attempt(t, r, byte) ==
    \/ MustWait(t) /\ Sleep(t, r)
    \/ ~MustWait(t) /\ t \in Writers /\ Store(t, r, byte) /\ UNCHANGED <<thr, line>>
    \/ ~MustWait(t) /\ t \in Readers /\ Fetch(t, r)

-----------------------------------------------------------------------------
NextByte == Len(accepted) + Cardinality({t \in Writers : pc[t] # "run"}) + 1
CanPrint == NextByte <= MaxOut

(* serial_putc before serial_init_queue: polled output.                      *)
serial_putc_poll ==
    /\ Running /\ mode # "QUEUE" /\ CanPrint
    /\ mode' = "POLL"
    /\ ier' = IF mode = "UNINIT" THEN {} ELSE ier
    /\ putc_poll(<<NextByte>>)
    /\ accepted' = Append(accepted, NextByte)
    /\ UNCHANGED <<inited, q, rbr, loc, blocked, halted, typed, read>>

(* serial_putc by a thread with interrupts on.                               *)
serial_putc(t) ==
    /\ Running /\ mode = "QUEUE" /\ pc[t] = "run" /\ CanPrint
    /\ arg' = [arg EXCEPT ![t] = NextByte]
    /\ Attempt(t, q["tx"], NextByte)
    /\ UNCHANGED <<mode, inited, rbr, halted, typed>>

(* Mutant: the byte at hand goes out by polling, ahead of the queued ones.   *)
serial_putc_off_overtakes ==
    LET full == intq_full(q["tx"])
        r == q["tx"]
    IN  /\ Running /\ mode = "QUEUE" /\ CanPrint
        /\ IF full THEN putc_poll(<<NextByte>>) ELSE UNCHANGED <<thr, line>>
        /\ q' = IF full THEN q ELSE [q EXCEPT !["tx"] = intq_put(r, NextByte)]
        /\ Wake(q, q')
        /\ accepted' = Append(accepted, NextByte)
        /\ ier' = write_ier(q')
        /\ UNCHANGED <<mode, inited, rbr, loc, halted, typed, read>>

(* serial_putc by an interrupt handler or a thread with interrupts off:      *)
(* when the queue is full its oldest byte goes out by polling.               *)
serial_putc_off ==
    LET full == intq_full(q["tx"])
        r == IF full THEN intq_got(q["tx"]) ELSE q["tx"]
    IN  /\ Running /\ mode = "QUEUE" /\ CanPrint
        /\ IF full THEN putc_poll(<<Oldest(q["tx"])>>) ELSE UNCHANGED <<thr, line>>
        /\ q' = [q EXCEPT !["tx"] = intq_put(r, NextByte)]
        /\ Wake(q, q')
        /\ accepted' = Append(accepted, NextByte)
        /\ ier' = write_ier(q')
        /\ UNCHANGED <<mode, inited, rbr, loc, halted, typed, read>>

(* input_getc by a thread.                                                   *)
input_getc(t) ==
    /\ Running /\ pc[t] = "run" /\ Len(read) < MaxIn
    /\ Attempt(t, q["in"], NoByte)
    /\ UNCHANGED <<mode, inited, rbr, arg, halted, typed>>

(* A thread in wait() has been unblocked: lock_release, then the loop again. *)
intq_resume(t) ==
    /\ Running /\ pc[t] = "wait" /\ t \notin blocked
    /\ Attempt(t, [q[QueueOf(t)] EXCEPT !.lock = NoThread], arg[t])
    /\ UNCHANGED <<mode, inited, rbr, arg, halted, typed>>

(* serial_flush, at the end of debug_panic: all queued bytes by polling.     *)
serial_flush ==
    /\ IF intq_empty(q["tx"])
       THEN UNCHANGED <<thr, line, q, blocked>>
       ELSE /\ q' = [q EXCEPT !["tx"] = [intq_got(q["tx"]) EXCEPT !.tail = q["tx"].head]]
            /\ putc_poll(Contents(q["tx"]))
            /\ Wake(q, q')
    /\ UNCHANGED <<mode, inited, ier, rbr, loc, accepted, typed, read>>

(* A thread gets the lock it slept for and calls wait(), whose assertion     *)
(* looks at the queue again.                                                 *)
intq_wait(t) ==
    LET r == q[QueueOf(t)]
    IN  /\ Running /\ pc[t] = "lock" /\ r.lock = NoThread
        /\ \/ MustWait(t) /\ Sleep(t, r) /\ UNCHANGED halted
              /\ UNCHANGED <<mode, inited, rbr, arg, typed>>
           \/ ~MustWait(t) /\ halted' = "assert" /\ serial_flush

debug_panic == Running /\ halted' = "panic" /\ serial_flush

-----------------------------------------------------------------------------
(* serial_init_queue, by the initial thread: two steps, since interrupts are *)
(* on between them.                                                          *)
serial_init_queue ==
    /\ Running /\ ~inited
    /\ \/ /\ mode # "QUEUE"
          /\ mode' = "QUEUE"
          /\ UNCHANGED <<inited, ier>>
       \/ /\ mode = "QUEUE"
          /\ inited' = TRUE
          /\ ier' = write_ier(q)
          /\ UNCHANGED mode
    /\ UNCHANGED <<q, uart, loc, blocked, halted, accepted, typed, read>>

(* external: the UART sends the byte in THR, and receives one into RBR.      *)
UartSend ==
    /\ thr # <<>>
    /\ line' = line \o thr /\ thr' = <<>>
    /\ UNCHANGED <<mode, inited, q, ier, rbr, loc, blocked, halted, accepted, typed, read>>

Arriving == Len(typed) + Len(rbr) + 1
UartReceive ==
    /\ Running /\ rbr = <<>> /\ Arriving <= MaxIn
    /\ rbr' = <<Arriving>>
    /\ UNCHANGED <<mode, inited, q, ier, thr, line, loc, blocked, halted, accepted, typed, read>>

(* input_putc: requires room.                                                *)
input_putc(r, byte) == [r EXCEPT !["in"] = intq_put(r["in"], byte)]

IrqPending == ("recv" \in ier /\ rbr # <<>>) \/ ("xmit" \in ier /\ thr = <<>>)

(* Mutant: the handler does not look whether there is room for a byte.       *)
serial_interrupt_no_room ==
    /\ Running /\ mode = "QUEUE" /\ IrqPending
    /\ LET recv == rbr # <<>>
           q1 == IF recv THEN input_putc(q, rbr[1]) ELSE q
           send == ~intq_empty(q1["tx"]) /\ thr = <<>>
       IN  /\ q' = IF send THEN [q1 EXCEPT !["tx"] = intq_got(q1["tx"])] ELSE q1
           /\ rbr' = IF recv THEN <<>> ELSE rbr
           /\ typed' = IF recv THEN typed \o rbr ELSE typed
           /\ thr' = IF send THEN <<Oldest(q1["tx"])>> ELSE thr
    /\ Wake(q, q')
    /\ ier' = write_ier(q')
    /\ UNCHANGED <<mode, inited, line, loc, halted, accepted, read>>

(* serial_interrupt.  Neither register refills or empties during the         *)
(* handler: what would have come in one run of its loops comes in the next.  *)
serial_interrupt ==
    /\ Running /\ mode = "QUEUE" /\ IrqPending
    /\ LET recv == rbr # <<>> /\ ~intq_full(q["in"])
           q1 == IF recv THEN input_putc(q, rbr[1]) ELSE q
           send == ~intq_empty(q1["tx"]) /\ thr = <<>>
       IN  /\ q' = IF send THEN [q1 EXCEPT !["tx"] = intq_got(q1["tx"])] ELSE q1
           /\ rbr' = IF recv THEN <<>> ELSE rbr
           /\ typed' = IF recv THEN typed \o rbr ELSE typed
           /\ thr' = IF send THEN <<Oldest(q1["tx"])>> ELSE thr
    /\ Wake(q, q')
    /\ ier' = write_ier(q')
    /\ UNCHANGED <<mode, inited, line, loc, halted, accepted, read>>

(* The end of keyboard_interrupt: a key goes into the buffer if there is room. *)
key_pressed ==
    /\ Running /\ rbr = <<>> /\ Arriving <= MaxIn
    /\ ~intq_full(q["in"])
    /\ q' = input_putc(q, Arriving)
    /\ typed' = Append(typed, Arriving)
    /\ Wake(q, q')
    /\ serial_notify(q')
    /\ UNCHANGED <<mode, inited, uart, loc, halted, accepted, read>>

ThreadStep(t) ==
    \/ intq_resume(t)
    \/ intq_wait(t)

Next ==
    \/ \E t \in Writers : serial_putc(t)
    \/ \E t \in Readers : input_getc(t)
    \/ \E t \in Threads : ThreadStep(t)
    \/ serial_putc_poll \/ serial_putc_off \/ serial_init_queue
    \/ debug_panic
    \/ UartSend \/ UartReceive
    \/ serial_interrupt \/ key_pressed

Spec == Init /\ [][Next]_vars

(* The UART works, its interrupt stays pending until it is served, threads   *)
(* inside a call get the CPU (module Synch: round robin), and the initial    *)
(* thread reaches the end of serial_init_queue.                              *)
FairSpec ==
    /\ Spec
    /\ WF_vars(UartSend) /\ WF_vars(serial_interrupt) /\ WF_vars(serial_init_queue)
    /\ \A t \in Threads : WF_vars(ThreadStep(t))

-----------------------------------------------------------------------------
(* Type invariant: positions of the queues wrap, registers hold one byte.   *)
TypeOK ==
    /\ mode \in {"UNINIT", "POLL", "QUEUE"} /\ inited \in BOOLEAN
    /\ \A n \in {"tx", "in"} : q[n].head \in 0..INTQ_BUFSIZE - 1 /\ q[n].tail \in 0..INTQ_BUFSIZE - 1
    /\ ier \subseteq {"xmit", "recv"}
    /\ Len(thr) <= 1 /\ Len(rbr) <= 1
    /\ pc \in [Threads -> {"run", "lock", "wait"}]
    /\ blocked \subseteq Threads
    /\ halted \in {"no", "panic", "assert"}

(* serial_putc: the bytes accepted, from threads, interrupt handlers and the *)
(* polled path alike, are on the line, in THR and in txq, once each and in   *)
(* the order in which they were accepted.                                    *)
OutputInOrder == accepted = line \o thr \o Contents(q["tx"])

(* input_putc and input_getc: the keys read and the keys buffered are the    *)
(* keys put in, in order, whichever handler put them in.                     *)
InputInOrder == typed = read \o Contents(q["in"])

(* write_ier: once the port is in QUEUE mode, transmit interrupts are on     *)
(* whenever a byte is queued and receive interrupts exactly when there is    *)
(* room; otherwise output stalls or the handler is entered for ever.         *)
IerTracksQueues ==
    (inited /\ Running) =>
        /\ ~intq_empty(q["tx"]) => "xmit" \in ier
        /\ ~intq_full(q["in"]) <=> "recv" \in ier

(* wait and signal: a thread asleep in wait() is the one its queue will wake, *)
(* the condition it waits for is still false, and a thread that sleeps for   *)
(* the lock sleeps for one that another thread inside wait() holds.          *)
WaiterIsKnown ==
    Running => \A t \in Threads :
        /\ t \in blocked =>
            /\ MustWait(t)
            /\ t \in {q[QueueOf(t)].not_full, q[QueueOf(t)].not_empty}
        /\ pc[t] = "wait" => q[QueueOf(t)].lock = t
        /\ q[QueueOf(t)].lock = t => pc[t] = "wait"

(* wait: "ASSERT ((waiter == &q->not_empty && intq_empty (q)) ..." of        *)
(* intq.c:84 never fails.                                                    *)
WaitAssertion == halted # "assert"

(* Every byte that serial_putc accepts reaches the line, also when the       *)
(* kernel panics first.                                                      *)
IsAccepted(b) == \E i \in DOMAIN accepted : accepted[i] = b
IsSent(b) == \E i \in DOMAIN line : line[i] = b
OutputDrains == \A b \in 1..MaxOut : IsAccepted(b) ~> IsSent(b)

(* A writer that found txq full gets to store its byte, and a reader gets    *)
(* its key if one is buffered.                                               *)
MayReturn(t) == pc[t] # "run" /\ (t \in Readers => ~intq_empty(q["in"]))
HasReturned(t) == pc[t] = "run" \/ ~Running
CallsReturn == \A t \in Threads : MayReturn(t) ~> HasReturned(t)
=============================================================================
