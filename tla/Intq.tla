-------------------------------- MODULE Intq --------------------------------
(***************************************************************************)
(* devices/intq.c: the circular queue between threads and interrupt        *)
(* handlers, as a record with the fields of struct intq.  All of its       *)
(* functions run with interrupts off; the operators below are what they do *)
(* between two points where the thread may sleep.  lock holds the thread   *)
(* that has the queue's lock.                                              *)
(***************************************************************************)
EXTENDS Integers, Sequences

CONSTANTS INTQ_BUFSIZE, NoThread, NoByte

intq_init ==
    [lock |-> NoThread, not_full |-> NoThread, not_empty |-> NoThread,
     buf |-> [i \in 0..INTQ_BUFSIZE - 1 |-> NoByte], head |-> 0, tail |-> 0]

(* Mutant: positions do not wrap around. *)
next_unwrapped(pos) == pos + 1

next(pos) == (pos + 1) % INTQ_BUFSIZE

intq_empty(q) == q.head = q.tail

intq_full(q) == next(q.head) = q.tail

(* The bytes in the queue, oldest first. *)
Contents(q) ==
    [i \in 1..((q.head - q.tail) % INTQ_BUFSIZE) |-> q.buf[(q.tail + i - 1) % INTQ_BUFSIZE]]

Oldest(q) == q.buf[q.tail]

(* Mutants: a byte is stored or removed without signal().                   *)
intq_put_silent(q, byte) == [q EXCEPT !.buf[q.head] = byte, !.head = next(@)]
intq_got_silent(q) == [q EXCEPT !.tail = next(@)]

(* intq_putc past its loop: store, advance, signal not_empty.               *)
intq_put(q, byte) ==
    [q EXCEPT !.buf[q.head] = byte, !.head = next(@), !.not_empty = NoThread]

(* intq_getc past its loop: Oldest(q) is returned and not_full signalled.   *)
intq_got(q) == [q EXCEPT !.tail = next(@), !.not_full = NoThread]

(* The thread that signal() passes to thread_unblock, if any, when q        *)
(* becomes r.                                                               *)
Signalled(q, r) == ({q.not_full, q.not_empty} \ {r.not_full, r.not_empty}) \ {NoThread}
=============================================================================
