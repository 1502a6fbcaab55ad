---------------------------- MODULE DeviceProofs ----------------------------
(***************************************************************************)
(* The serial port and the input buffer (module Serial), for queues of any *)
(* size and any number of threads: bytes keep their order through the      *)
(* circular queues, the UART's registers and the polled path, the enabled  *)
(* interrupts follow the queues, and a sleeping thread is the one its      *)
(* queue will wake.  Then the interrupts that drive it (module Interrupt,  *)
(* here as Dispatch), for any lines and any number of threads and of       *)
(* requests: handlers do not nest, every interrupt is acknowledged, and    *)
(* every request is accounted for.                                         *)
(***************************************************************************)
EXTENDS Serial, TLAPS

(* What the constants must be: the queues hold at least one byte, and       *)
(* threads either print or read.                                            *)
Sane ==
    /\ INTQ_BUFSIZE \in Nat /\ INTQ_BUFSIZE >= 2
    /\ Writers \cap Readers = {} /\ NoThread \notin Threads /\ IsFiniteSet(Writers)

(* Bytes, places in a queue, and what a queue is.                           *)
Bytes == Nat \cup {NoByte}
Places == 0 .. INTQ_BUFSIZE - 1
Someone == Threads \cup {NoThread}
Queues == [lock : Someone, not_full : Someone, not_empty : Someone,
           buf : [Places -> Bytes], head : Places, tail : Places]

(* The values of the variables.                                             *)
TypeInv ==
    /\ mode \in {"UNINIT", "POLL", "QUEUE"} /\ inited \in BOOLEAN
    /\ q \in [{"tx", "in"} -> Queues]
    /\ ier \subseteq {"xmit", "recv"}
    /\ thr \in Seq(Bytes) /\ Len(thr) <= 1
    /\ rbr \in Seq(Bytes) /\ Len(rbr) <= 1
    /\ pc \in [Threads -> {"run", "lock", "wait"}] /\ arg \in [Threads -> Bytes]
    /\ blocked \subseteq Threads
    /\ halted \in {"no", "panic", "assert"}
    /\ accepted \in Seq(Bytes) /\ line \in Seq(Bytes)
    /\ typed \in Seq(Bytes) /\ read \in Seq(Bytes)

(* Bytes in order; nothing is queued for transmission before QUEUE mode.    *)
OrderInv ==
    /\ OutputInOrder /\ InputInOrder
    /\ mode # "QUEUE" => intq_empty(q["tx"]) /\ \A t \in Writers : pc[t] = "run"
    /\ inited => mode = "QUEUE"

(* Writers wait for room in the transmit queue, readers for a byte in the   *)
(* input buffer, nobody else for either; who waits has the lock, sleeps,    *)
(* and is the one signal() will find, and there is still reason to wait.    *)
WaitInv ==
    Running =>
    /\ q["tx"].not_empty = NoThread /\ q["in"].not_full = NoThread
    /\ q["tx"].not_full \in Writers \cup {NoThread} /\ q["in"].not_empty \in Readers \cup {NoThread}
    /\ \A t \in Writers : t \in blocked <=> q["tx"].not_full = t
    /\ \A t \in Readers : t \in blocked <=> q["in"].not_empty = t
    /\ q["tx"].not_full # NoThread => intq_full(q["tx"])
    /\ q["in"].not_empty # NoThread => intq_empty(q["in"])
    /\ \A t \in blocked : pc[t] = "wait"
    /\ \A t \in Threads : pc[t] = "wait" <=> q[QueueOf(t)].lock = t

(* The inductive invariant of the serial port.                              *)
SInv == TypeInv /\ OrderInv /\ WaitInv /\ IerTracksQueues

-----------------------------------------------------------------------------
(* Positions wrap around.                                                   *)
LEMMA Wrap ==
    ASSUME NEW N \in Nat, N > 0, NEW x \in Int
    PROVE  /\ 0 <= x /\ x < N => x % N = x
           /\ N <= x /\ x < 2 * N => x % N = x - N
           /\ -N <= x /\ x < 0 => x % N = x + N
<1>1. 0 <= x /\ x < N => x % N = x
  BY SMT
<1>2. N <= x /\ x < 2 * N => x % N = x - N
  BY SMT
<1>3. -N <= x /\ x < 0 => x % N = x + N
  BY SMT
<1> QED BY <1>1, <1>2, <1>3

(* How many bytes a queue holds, and where.                                  *)
Held(r) == IF r.head >= r.tail THEN r.head - r.tail ELSE r.head - r.tail + INTQ_BUFSIZE
Place(r, i) == IF r.tail + i - 1 < INTQ_BUFSIZE THEN r.tail + i - 1 ELSE r.tail + i - 1 - INTQ_BUFSIZE

(* The contents of a queue, without wrapping.                                *)
LEMMA ContentsIs ==
    ASSUME Sane, NEW r \in Queues
    PROVE  /\ r.head \in Places /\ r.tail \in Places /\ Held(r) \in Places
           /\ \A i \in 1 .. Held(r) : Place(r, i) \in Places
           /\ Contents(r) = [i \in 1 .. Held(r) |-> r.buf[Place(r, i)]]
           /\ next(r.head) = IF r.head + 1 = INTQ_BUFSIZE THEN 0 ELSE r.head + 1
           /\ next(r.tail) = IF r.tail + 1 = INTQ_BUFSIZE THEN 0 ELSE r.tail + 1
           /\ next(r.head) \in Places /\ next(r.tail) \in Places
           /\ intq_full(r) <=> Held(r) = INTQ_BUFSIZE - 1
           /\ intq_empty(r) <=> Held(r) = 0
<1>1. r.head \in Places /\ r.tail \in Places /\ INTQ_BUFSIZE \in Nat /\ INTQ_BUFSIZE >= 2
  BY DEF Queues, Sane
<1>2. Held(r) \in Places /\ \A i \in 1 .. Held(r) : Place(r, i) \in Places
  BY <1>1 DEF Held, Place, Places
<1>3. (r.head - r.tail) % INTQ_BUFSIZE = Held(r)
  <2>1. r.head - r.tail \in Int /\ -INTQ_BUFSIZE <= r.head - r.tail /\ r.head - r.tail < INTQ_BUFSIZE
    BY <1>1 DEF Places
  <2> QED BY <1>1, <2>1, Wrap DEF Held, Places
<1>4. \A i \in 1 .. Held(r) : (r.tail + i - 1) % INTQ_BUFSIZE = Place(r, i)
  <2> TAKE i \in 1 .. Held(r)
  <2>1. r.tail + i - 1 \in Int /\ 0 <= r.tail + i - 1 /\ r.tail + i - 1 < 2 * INTQ_BUFSIZE
    BY <1>1, <1>2 DEF Places
  <2> QED BY <1>1, <2>1, Wrap DEF Place, Places
<1>5. Contents(r) = [i \in 1 .. Held(r) |-> r.buf[Place(r, i)]]
  BY ZenonT(60), <1>3, <1>4 DEF Contents
<1>6. /\ next(r.head) = IF r.head + 1 = INTQ_BUFSIZE THEN 0 ELSE r.head + 1
      /\ next(r.tail) = IF r.tail + 1 = INTQ_BUFSIZE THEN 0 ELSE r.tail + 1
  <2>1. \A x \in Places : next(x) = IF x + 1 = INTQ_BUFSIZE THEN 0 ELSE x + 1
    <3> TAKE x \in Places
    <3>1. x + 1 \in Int /\ 0 <= x + 1 /\ x + 1 <= INTQ_BUFSIZE
      BY <1>1 DEF Places
    <3> QED BY <1>1, <3>1, Wrap DEF next
  <2> QED BY <1>1, <2>1
<1>7. intq_full(r) <=> Held(r) = INTQ_BUFSIZE - 1
  BY <1>1, <1>6 DEF intq_full, Held, Places
<1>8. intq_empty(r) <=> Held(r) = 0
  BY <1>1 DEF intq_empty, Held, Places
<1>9. next(r.head) \in Places /\ next(r.tail) \in Places
  BY <1>1, <1>6 DEF Places
<1> QED BY <1>1, <1>2, <1>5, <1>6, <1>7, <1>8, <1>9

(* An empty queue holds nothing.                                             *)
LEMMA EmptyFacts ==
    ASSUME Sane, NEW r \in Queues
    PROVE  /\ Contents(r) \in Seq(Bytes)
           /\ intq_empty(r) <=> Contents(r) = <<>>
           /\ intq_empty(r) => ~intq_full(r)
<1>1. /\ Held(r) \in Places /\ Contents(r) = [i \in 1 .. Held(r) |-> r.buf[Place(r, i)]]
      /\ \A i \in 1 .. Held(r) : Place(r, i) \in Places
      /\ intq_empty(r) <=> Held(r) = 0
      /\ intq_full(r) <=> Held(r) = INTQ_BUFSIZE - 1
  BY ZenonT(60), ContentsIs
<1>2. r.buf \in [Places -> Bytes] /\ Held(r) \in Nat /\ INTQ_BUFSIZE \in Nat /\ INTQ_BUFSIZE >= 2
  BY <1>1 DEF Queues, Sane, Places
<1>3. Contents(r) \in Seq(Bytes) /\ Len(Contents(r)) = Held(r)
  <2>1. \A i \in 1 .. Held(r) : r.buf[Place(r, i)] \in Bytes
    BY ZenonT(60), <1>1, <1>2
  <2> QED BY <1>1, <1>2, <2>1
<1>4. Contents(r) = <<>> <=> Held(r) = 0
  BY <1>2, <1>3
<1>5. intq_empty(r) => ~intq_full(r)
  BY <1>1, <1>2
<1> QED BY ZenonT(60), <1>1, <1>3, <1>4, <1>5

(* Sequences of bytes.                                                       *)
LEMMA ByteSeqs ==
    /\ \A x, y \in Seq(Bytes) : x \o y \in Seq(Bytes)
    /\ \A x, y, z \in Seq(Bytes) : (x \o y) \o z = x \o (y \o z)
    /\ \A x \in Seq(Bytes) : x \o <<>> = x /\ <<>> \o x = x
    /\ \A x \in Seq(Bytes), b \in Bytes : Append(x, b) = x \o <<b>>
    /\ \A b \in Bytes : <<b>> \in Seq(Bytes) /\ Len(<<b>>) = 1 /\ <<b>> # <<>>
    /\ <<>> \in Seq(Bytes) /\ Len(<<>>) = 0
<1> HIDE DEF Bytes
<1>1. \A x, y \in Seq(Bytes) : x \o y \in Seq(Bytes)
  BY SMT
<1>2. \A x, y, z \in Seq(Bytes) : (x \o y) \o z = x \o (y \o z)
  BY SMT
<1>3. \A x \in Seq(Bytes) : x \o <<>> = x /\ <<>> \o x = x
  BY SMT
<1>4. \A x \in Seq(Bytes), b \in Bytes : Append(x, b) = x \o <<b>>
  BY SMT
<1>5. \A b \in Bytes : <<b>> \in Seq(Bytes) /\ Len(<<b>>) = 1 /\ <<b>> # <<>>
  BY SMT
<1>6. <<>> \in Seq(Bytes) /\ Len(<<>>) = 0
  BY SMT
<1> QED BY ZenonT(60), <1>1, <1>2, <1>3, <1>4, <1>5, <1>6

(* Bytes moved on in two parts stay in order.                                *)
LEMMA ByteAssoc ==
    ASSUME NEW x \in Seq(Bytes), NEW y \in Seq(Bytes), NEW z \in Seq(Bytes)
    PROVE  (x \o y) \o z = x \o (y \o z)
BY ZenonT(60), ByteSeqs

-----------------------------------------------------------------------------
(* Sets of printing threads can be counted.                                  *)
WritersCount == \A P \in SUBSET Writers : Cardinality(P) \in Nat

-----------------------------------------------------------------------------
(* r is the queue of t as t finds it in the loop of intq_putc or intq_getc:  *)
(* t is awake and does not hold the lock.                                    *)
Entered(t, r) ==
    LET o == q[QueueOf(t)]
    IN  /\ r \in Queues
        /\ r.head = o.head /\ r.tail = o.tail /\ r.buf = o.buf
        /\ r.not_full = o.not_full /\ r.not_empty = o.not_empty
        /\ r.lock # t /\ \A u \in Threads : u # t => (r.lock = u <=> o.lock = u)
        /\ t \notin blocked

-----------------------------------------------------------------------------
(* Two empty queues, nobody waits.                                           *)
LEMMA InitInv ==
    ASSUME Sane, Init
    PROVE  SInv
<1>1. PICK z : z = intq_init
  BY ZenonT(60)
<1>2. NoThread \in Someone /\ NoByte \in Bytes /\ 0 \in Places
  BY DEF Someone, Bytes, Places, Sane
<1>3. /\ z \in Queues /\ z.lock = NoThread /\ z.not_full = NoThread /\ z.not_empty = NoThread
      /\ z.head = z.tail
  BY <1>1, <1>2 DEF intq_init, Queues, Places
<1>4. Contents(z) = <<>> /\ intq_empty(z)
  BY ZenonT(60), <1>3, EmptyFacts DEF intq_empty
<1>5. q = [n \in {"tx", "in"} |-> z]
  BY ZenonT(60), <1>1 DEF Init
<1>6. q \in [{"tx", "in"} -> Queues] /\ q["tx"] = z /\ q["in"] = z
  <2> HIDE DEF Queues
  <2> QED BY <1>3, <1>5
<1>7. <<>> \in Seq(Bytes) /\ Len(<<>>) <= 1
  BY ByteSeqs
<1>8. TypeInv
  BY ZenonT(60), <1>2, <1>6, <1>7 DEF Init, TypeInv
<1>9. <<>> \o <<>> = <<>>
  BY ZenonT(60), <1>7, ByteSeqs
<1>10. OrderInv
  BY ZenonT(60), <1>4, <1>6, <1>9 DEF Init, OrderInv, OutputInOrder, InputInOrder, Threads
<1>11. \A t \in Threads : pc[t] = "run" /\ t # NoThread /\ QueueOf(t) \in {"tx", "in"}
  BY ZenonT(60) DEF Init, Sane, QueueOf
<1>12. \A t \in Threads : pc[t] # "wait" /\ q[QueueOf(t)].lock # t
  <2> TAKE t \in Threads
  <2>1. q[QueueOf(t)] = z
    BY ZenonT(60), <1>6, <1>11
  <2> QED BY <2>1, <1>3, <1>11
<1>13. blocked = {} /\ ~inited
  BY ZenonT(60) DEF Init
<1>14. WaitInv
  BY ZenonT(60), <1>3, <1>6, <1>11, <1>12, <1>13 DEF WaitInv, Threads
<1>15. IerTracksQueues
  BY ZenonT(60), <1>13 DEF IerTracksQueues
<1> QED BY ZenonT(60), <1>8, <1>10, <1>14, <1>15 DEF SInv

(* Every step keeps the invariant.                                           *)
LEMMA NextInv ==
    WritersCount /\ Sane /\ SInv /\ [Next]_vars => SInv'
(* A byte goes in at the end.                                                *)
<1>PutFacts.
    ASSUME Sane, NEW r \in Queues, ~intq_full(r), NEW b \in Bytes
    PROVE  /\ intq_put(r, b) \in Queues /\ intq_put(r, b).lock = r.lock
           /\ intq_put(r, b).not_full = r.not_full /\ intq_put(r, b).not_empty = NoThread
           /\ Contents(r) \in Seq(Bytes) /\ Contents(intq_put(r, b)) = Append(Contents(r), b)
           /\ ~intq_empty(intq_put(r, b))
  <2> USE <1>PutFacts
  <2> DEFINE s == intq_put(r, b)
  <2>1. /\ r.lock \in Someone /\ r.not_full \in Someone /\ r.buf \in [Places -> Bytes]
        /\ NoThread \in Someone /\ INTQ_BUFSIZE \in Nat /\ INTQ_BUFSIZE >= 2
    BY DEF Queues, Sane, Someone
  <2>2. /\ r.head \in Places /\ r.tail \in Places /\ next(r.head) \in Places /\ Held(r) \in Places
        /\ next(r.head) = IF r.head + 1 = INTQ_BUFSIZE THEN 0 ELSE r.head + 1
        /\ Contents(r) = [i \in 1 .. Held(r) |-> r.buf[Place(r, i)]]
        /\ \A i \in 1 .. Held(r) : Place(r, i) \in Places
        /\ Held(r) # INTQ_BUFSIZE - 1
    BY ZenonT(60), ContentsIs
  <2>3. PICK buf \in [Places -> Bytes] : buf = [r.buf EXCEPT ![r.head] = b]
    BY ZenonT(60), <2>1, <2>2
  <2>4. s = [r EXCEPT !.buf = buf, !.head = next(r.head), !.not_empty = NoThread]
    BY ZenonT(60), <2>3 DEF intq_put
  <2>5. s \in Queues
    BY ZenonT(60), <2>1, <2>2, <2>4 DEF Queues
  <2>6. /\ s.lock = r.lock /\ s.not_full = r.not_full /\ s.not_empty = NoThread
        /\ s.head = next(r.head) /\ s.tail = r.tail /\ s.buf = buf
    BY <2>4 DEF Queues
  <2>a. /\ INTQ_BUFSIZE \in Nat /\ r.head \in Nat /\ r.tail \in Nat /\ Held(r) \in Nat
        /\ r.head < INTQ_BUFSIZE /\ r.tail < INTQ_BUFSIZE /\ Held(r) < INTQ_BUFSIZE - 1
        /\ s.tail = r.tail /\ s.head = IF r.head + 1 = INTQ_BUFSIZE THEN 0 ELSE r.head + 1
    BY <2>1, <2>2, <2>6 DEF Places
  <2> HIDE DEF s
  <2>7. Held(s) = Held(r) + 1
    BY <2>a DEF Held
  <2>8. \A i \in 1 .. Held(r) : Place(s, i) = Place(r, i) /\ Place(r, i) # r.head
    BY <2>1, <2>2, <2>6 DEF Place, Held, Places
  <2>9. Place(s, Held(r) + 1) = r.head
    BY <2>a DEF Place, Held
  <2>10. Contents(s) = [i \in 1 .. Held(r) + 1 |-> s.buf[Place(s, i)]]
    BY ZenonT(60), <2>5, <2>7, ContentsIs
  <2>11. Contents(r) \in Seq(Bytes) /\ Len(Contents(r)) = Held(r)
    <3>1. Held(r) \in Nat /\ \A i \in 1 .. Held(r) : r.buf[Place(r, i)] \in Bytes
      BY <2>1, <2>2 DEF Places
    <3> QED BY <2>2, <3>1
  <2>12. Append(Contents(r), b) = [i \in 1 .. Held(r) + 1 |-> IF i = Held(r) + 1 THEN b ELSE Contents(r)[i]]
    BY <2>2, <2>11 DEF Places
  <2>13. \A i \in 1 .. Held(r) + 1 : s.buf[Place(s, i)] = IF i = Held(r) + 1 THEN b ELSE Contents(r)[i]
    <3> TAKE i \in 1 .. Held(r) + 1
    <3>1. CASE i = Held(r) + 1
      BY <3>1, <2>1, <2>2, <2>3, <2>6, <2>9
    <3>2. CASE i \in 1 .. Held(r)
      BY <3>2, <2>1, <2>2, <2>3, <2>6, <2>8 DEF Places
    <3> QED BY <3>1, <3>2, <2>2 DEF Places
  <2>14. Contents(s) = Append(Contents(r), b)
    BY ZenonT(60), <2>10, <2>12, <2>13
  <2>15. ~intq_empty(s)
    BY <2>2, <2>5, <2>7, ContentsIs DEF Places
  <2> QED BY <2>5, <2>6, <2>11, <2>14, <2>15 DEF s
(* The oldest byte comes out at the front.                                   *)
<1>GotFacts.
    ASSUME Sane, NEW r \in Queues, ~intq_empty(r)
    PROVE  /\ intq_got(r) \in Queues /\ intq_got(r).lock = r.lock
           /\ intq_got(r).not_empty = r.not_empty /\ intq_got(r).not_full = NoThread
           /\ Oldest(r) \in Bytes /\ Contents(intq_got(r)) \in Seq(Bytes)
           /\ Contents(r) = <<Oldest(r)>> \o Contents(intq_got(r))
           /\ ~intq_full(intq_got(r))
  <2> USE <1>GotFacts
  <2> DEFINE s == intq_got(r)
  <2>1. /\ r.lock \in Someone /\ r.not_empty \in Someone /\ r.buf \in [Places -> Bytes]
        /\ NoThread \in Someone /\ INTQ_BUFSIZE \in Nat /\ INTQ_BUFSIZE >= 2
    BY DEF Queues, Sane, Someone
  <2>2. /\ r.head \in Places /\ r.tail \in Places /\ next(r.tail) \in Places /\ Held(r) \in Places
        /\ next(r.tail) = IF r.tail + 1 = INTQ_BUFSIZE THEN 0 ELSE r.tail + 1
        /\ Contents(r) = [i \in 1 .. Held(r) |-> r.buf[Place(r, i)]]
        /\ Held(r) # 0
    BY ZenonT(60), ContentsIs
  <2>4. s = [r EXCEPT !.tail = next(r.tail), !.not_full = NoThread]
    BY ZenonT(60) DEF intq_got
  <2>5. s \in Queues
    BY ZenonT(60), <2>1, <2>2, <2>4 DEF Queues
  <2>6. /\ s.lock = r.lock /\ s.not_empty = r.not_empty /\ s.not_full = NoThread
        /\ s.head = r.head /\ s.tail = next(r.tail) /\ s.buf = r.buf
    BY <2>4 DEF Queues
  <2>a. /\ INTQ_BUFSIZE \in Nat /\ r.head \in Nat /\ r.tail \in Nat /\ Held(r) \in Nat
        /\ r.head < INTQ_BUFSIZE /\ r.tail < INTQ_BUFSIZE /\ Held(r) > 0 /\ Held(r) < INTQ_BUFSIZE
        /\ s.head = r.head /\ s.tail = IF r.tail + 1 = INTQ_BUFSIZE THEN 0 ELSE r.tail + 1
    BY <2>1, <2>2, <2>6 DEF Places
  <2> HIDE DEF s
  <2>7. Held(s) = Held(r) - 1
    BY <2>a DEF Held
  <2>8. \A i \in 1 .. Held(s) : Place(s, i) = Place(r, i + 1)
    BY <2>a, <2>7 DEF Place
  <2>9. Place(r, 1) = r.tail
    BY <2>a DEF Place
  <2>10. Contents(s) = [i \in 1 .. Held(s) |-> r.buf[Place(s, i)]]
    BY ZenonT(60), <2>5, <2>6, ContentsIs
  <2>11. Contents(s) \in Seq(Bytes) /\ Len(Contents(s)) = Held(r) - 1 /\ Oldest(r) \in Bytes
    <3>1. \A i \in 1 .. Held(s) : r.buf[Place(s, i)] \in Bytes
      BY ZenonT(60), <2>1, <2>5, ContentsIs
    <3>2. Held(s) \in Nat
      BY <2>a, <2>7
    <3>3. Contents(s) \in Seq(Bytes) /\ Len(Contents(s)) = Held(s)
      BY <2>10, <3>1, <3>2
    <3> QED BY <3>3, <2>1, <2>2, <2>7 DEF Oldest
  <2>12. <<Oldest(r)>> \o Contents(s) = [i \in 1 .. Held(r) |-> IF i = 1 THEN Oldest(r) ELSE Contents(s)[i - 1]]
    BY <2>11, <2>a
  <2>13. \A i \in 1 .. Held(r) : r.buf[Place(r, i)] = IF i = 1 THEN Oldest(r) ELSE Contents(s)[i - 1]
    <3> TAKE i \in 1 .. Held(r)
    <3>1. CASE i = 1
      BY <3>1, <2>9 DEF Oldest
    <3>2. CASE i # 1
      <4>1. i - 1 \in 1 .. Held(s) /\ (i - 1) + 1 = i
        BY <3>2, <2>a, <2>7
      <4> QED BY <3>2, <4>1, <2>8, <2>10
    <3> QED BY <3>1, <3>2
  <2>14. Contents(r) = <<Oldest(r)>> \o Contents(s)
    BY ZenonT(60), <2>2, <2>12, <2>13
  <2>15. ~intq_full(s)
    BY <2>a, <2>5, <2>7, ContentsIs
  <2> QED BY <2>5, <2>6, <2>11, <2>14, <2>15 DEF s
(* What a queue holds does not depend on who waits for it.                   *)
<1>SameBytes.
    ASSUME NEW r, NEW s, s.head = r.head, s.tail = r.tail, s.buf = r.buf
    PROVE  /\ Contents(s) = Contents(r) /\ Oldest(s) = Oldest(r)
           /\ intq_full(s) = intq_full(r) /\ intq_empty(s) = intq_empty(r)
  BY ZenonT(60), <1>SameBytes DEF Contents, Oldest, intq_full, intq_empty
(* putc_poll: the bytes go out after the one in THR, the last stays there.   *)
<1>PolledOut.
    ASSUME line \in Seq(Bytes), thr \in Seq(Bytes),
           NEW bytes \in Seq(Bytes), bytes # <<>>, putc_poll(bytes)
    PROVE  /\ line' \in Seq(Bytes) /\ thr' \in Seq(Bytes) /\ Len(thr') = 1
           /\ line' \o thr' = (line \o thr) \o bytes
  <2> USE <1>PolledOut
  <2>1. PICK all \in Seq(Bytes) : all = thr \o bytes
    BY ZenonT(60), ByteSeqs
  <2>2. Len(all) > 0
    BY <2>1
  <2>3. PICK s : s = SubSeq(all, 1, Len(all) - 1)
    BY ZenonT(60)
  <2>4. line' = line \o s /\ thr' = <<all[Len(all)]>>
    BY ZenonT(60), <2>1, <2>3 DEF putc_poll
  <2>5. s \in Seq(Bytes) /\ all[Len(all)] \in Bytes /\ all = s \o <<all[Len(all)]>>
    BY <2>2, <2>3
  <2>6. PICK e \in Seq(Bytes) : e = <<all[Len(all)]>> /\ Len(e) = 1
    BY ZenonT(60), <2>5, ByteSeqs
  <2>7. line' = line \o s /\ thr' = e /\ all = s \o e
    BY ZenonT(60), <2>4, <2>5, <2>6
  <2>a. (line \o s) \o e = line \o (s \o e)
    <3>1. line \in Seq(Bytes) /\ s \in Seq(Bytes) /\ e \in Seq(Bytes)
      BY ZenonT(60), <2>5, <2>6
    <3> QED BY ONLY ZenonT(60), <3>1, ByteAssoc
  <2>8. line' \o thr' = line \o all
    BY ZenonT(60), <2>7, <2>a
  <2>9. line \o all = (line \o thr) \o bytes
    <3>1. line \in Seq(Bytes) /\ thr \in Seq(Bytes) /\ bytes \in Seq(Bytes)
      BY ZenonT(60)
    <3>2. (line \o thr) \o bytes = line \o (thr \o bytes)
      BY ONLY ZenonT(60), <3>1, ByteAssoc
    <3> QED BY ZenonT(60), <2>1, <3>2
  <2>10. line \o s \in Seq(Bytes)
    BY ZenonT(60), <2>5, ByteSeqs
  <2> QED BY ZenonT(60), <2>6, <2>7, <2>8, <2>9, <2>10
(* The number a new byte gets.                                               *)
<1>NextByteIsByte.
    ASSUME WritersCount, TypeInv
    PROVE  NextByte \in Bytes
  <2> USE <1>NextByteIsByte
  <2>1. {t \in Writers : pc[t] # "run"} \in SUBSET Writers
    BY ZenonT(60)
  <2>2. Cardinality({t \in Writers : pc[t] # "run"}) \in Nat
    BY ZenonT(60), <2>1 DEF WritersCount
  <2>3. Len(accepted) \in Nat
    BY DEF TypeInv
  <2> QED BY <2>2, <2>3 DEF NextByte, Bytes
(* The number a byte received or typed gets.                                 *)
<1>ArrivingIsByte.
    ASSUME TypeInv
    PROVE  Arriving \in Bytes
  <2> USE <1>ArrivingIsByte
  <2>1. Len(typed) \in Nat /\ Len(rbr) \in Nat
    BY DEF TypeInv
  <2> QED BY <2>1 DEF Arriving, Bytes
(* Locks and threads that stay as they are.                                  *)
<1>SameLocks.
    ASSUME \A u \in Threads : pc[u] = "wait" <=> q[QueueOf(u)].lock = u,
           \A m \in {"tx", "in"} : q'[m].lock = q[m].lock, pc' = pc
    PROVE  \A u \in Threads : pc'[u] = "wait" <=> q'[QueueOf(u)].lock = u
  <2> USE <1>SameLocks
  <2> TAKE u \in Threads
  <2>1. QueueOf(u) \in {"tx", "in"}
    BY ZenonT(60) DEF QueueOf
  <2>2. q'[QueueOf(u)].lock = q[QueueOf(u)].lock
    BY ZenonT(60), <2>1
  <2> QED BY ZenonT(60), <2>2
(* write_ier leaves on what the queues call for.                             *)
<1>IerWritten.
    ASSUME ier' = write_ier(q')
    PROVE  IerTracksQueues' /\ ier' \subseteq {"xmit", "recv"}
  BY <1>IerWritten DEF IerTracksQueues, write_ier, intq_empty, intq_full, next
(* One queue changes, the other does not.                                    *)
<1>QueueSet.
    ASSUME q \in [{"tx", "in"} -> Queues], NEW n \in {"tx", "in"}, NEW r \in Queues,
           q' = [q EXCEPT ![n] = r]
    PROVE  /\ q' \in [{"tx", "in"} -> Queues] /\ q'[n] = r
           /\ \A m \in {"tx", "in"} : m # n => q'[m] = q[m]
  <2> USE <1>QueueSet
  <2> HIDE DEF Queues
  <2> QED BY SMT
(* A byte stored last is stored last of all.                                 *)
<1>AppendLast.
    ASSUME NEW x \in Seq(Bytes), NEW y \in Seq(Bytes), NEW b \in Bytes
    PROVE  Append(x \o y, b) = x \o Append(y, b)
  <2>1. PICK e \in Seq(Bytes) : e = <<b>>
    BY ZenonT(60), ByteSeqs
  <2>2. Append(x \o y, b) = (x \o y) \o e /\ Append(y, b) = y \o e
    BY ZenonT(60), <2>1, ByteSeqs
  <2>3. (x \o y) \o e = x \o (y \o e)
    BY ZenonT(60), <2>1, ByteSeqs
  <2> QED BY ZenonT(60), <2>2, <2>3
(* serial_notify leaves on what the queues call for, in QUEUE mode.          *)
<1>Notified.
    ASSUME serial_notify(q'), ier \subseteq {"xmit", "recv"}, inited => mode = "QUEUE",
           inited' = inited
    PROVE  IerTracksQueues' /\ ier' \subseteq {"xmit", "recv"}
  <2> USE <1>Notified
  <2>1. CASE mode = "QUEUE"
    BY ZenonT(60), <2>1, <1>IerWritten DEF serial_notify
  <2>2. CASE mode # "QUEUE"
    BY ZenonT(60), <2>2 DEF serial_notify, IerTracksQueues
  <2> QED BY <2>1, <2>2
(* The interrupts enabled still fit when the queues look as before.          *)
<1>SameIer.
    ASSUME IerTracksQueues, ier' = ier, inited' = inited, halted' = halted,
           intq_empty(q'["tx"]) = intq_empty(q["tx"]), intq_full(q'["in"]) = intq_full(q["in"])
    PROVE  IerTracksQueues'
  BY ZenonT(60), <1>SameIer DEF IerTracksQueues, Running
(* A step that leaves queues and threads alone.                              *)
<1>SameWait.
    ASSUME WaitInv, UNCHANGED <<q, blocked, pc, halted>>
    PROVE  WaitInv'
  BY ZenonT(60), <1>SameWait DEF WaitInv, Running
(* A step that stores or takes bytes and signals whoever waited for that.    *)
<1>Served.
    ASSUME Sane, TypeInv, WaitInv, Running, Wake(q, q'),
           q'["tx"].not_empty = NoThread, q'["in"].not_full = NoThread,
           q'["tx"].not_full \in {q["tx"].not_full, NoThread},
           q'["in"].not_empty \in {q["in"].not_empty, NoThread},
           q'["tx"].not_full # NoThread => intq_full(q'["tx"]),
           q'["in"].not_empty # NoThread => intq_empty(q'["in"]),
           \A t \in blocked : t \in blocked' => pc'[t] = "wait",
           \A t \in Threads : pc'[t] = "wait" <=> q'[QueueOf(t)].lock = t
    PROVE  WaitInv' /\ blocked' \subseteq blocked
  (* Whom signal() wakes: the one a queue remembers, when it forgets them.     *)
  <2>Signals.
      ASSUME Sane, TypeInv, WaitInv, Running, Wake(q, q'),
             q'["tx"].not_empty = NoThread, q'["in"].not_full = NoThread,
             q'["tx"].not_full \in {q["tx"].not_full, NoThread},
             q'["in"].not_empty \in {q["in"].not_empty, NoThread}
      PROVE  /\ blocked' \subseteq blocked
             /\ \A t \in Writers : t \in blocked' <=> q'["tx"].not_full = t
             /\ \A t \in Readers : t \in blocked' <=> q'["in"].not_empty = t
    <3> USE <2>Signals
    <3>1. blocked' = blocked \ (Signalled(q["tx"], q'["tx"]) \cup Signalled(q["in"], q'["in"]))
      BY ZenonT(60) DEF Wake
    <3>2. /\ q["tx"].not_empty = NoThread /\ q["in"].not_full = NoThread
          /\ q["tx"].not_full \in Writers \cup {NoThread} /\ q["in"].not_empty \in Readers \cup {NoThread}
          /\ \A t \in Writers : t \in blocked <=> q["tx"].not_full = t
          /\ \A t \in Readers : t \in blocked <=> q["in"].not_empty = t
      BY ZenonT(60) DEF WaitInv
    <3>3. \A t \in Threads : t # NoThread
      BY ZenonT(60) DEF Sane
    <3>4. \A t \in Writers : t \in Threads /\ t \notin Readers
      BY ZenonT(60) DEF Sane, Threads
    <3>5. \A t \in Readers : t \in Threads
      BY ZenonT(60) DEF Threads
    <3>6. \A t : t \in Signalled(q["tx"], q'["tx"])
                   <=> t = q["tx"].not_full /\ t # NoThread /\ t # q'["tx"].not_full
      BY ZenonT(60), <3>2 DEF Signalled
    <3>7. \A t : t \in Signalled(q["in"], q'["in"])
                   <=> t = q["in"].not_empty /\ t # NoThread /\ t # q'["in"].not_empty
      BY ZenonT(60), <3>2 DEF Signalled
    <3>8. \A t \in Writers : t \in blocked' <=> q'["tx"].not_full = t
      BY ZenonT(60), <3>1, <3>2, <3>3, <3>4, <3>6, <3>7
    <3>9. \A t \in Readers : t \in blocked' <=> q'["in"].not_empty = t
      BY ZenonT(60), <3>1, <3>2, <3>3, <3>4, <3>5, <3>6, <3>7
    <3> QED BY ZenonT(60), <3>1, <3>8, <3>9
  <2> USE <1>Served
  <2>1. /\ blocked' \subseteq blocked
        /\ \A t \in Writers : t \in blocked' <=> q'["tx"].not_full = t
        /\ \A t \in Readers : t \in blocked' <=> q'["in"].not_empty = t
    BY ZenonT(60), <2>Signals
  <2>2. q["tx"].not_full \in Writers \cup {NoThread} /\ q["in"].not_empty \in Readers \cup {NoThread}
    BY ZenonT(60) DEF WaitInv
  <2>3. \A t \in blocked' : pc'[t] = "wait"
    BY ZenonT(60), <2>1
  <2> QED BY ZenonT(60), <2>1, <2>2, <2>3 DEF WaitInv, QueueOf
(* A thread that has not called wait() finds the queue as it is.             *)
<1>EntersAwake.
    ASSUME Sane, TypeInv, WaitInv, Running, NEW t \in Threads, pc[t] # "wait"
    PROVE  Entered(t, q[QueueOf(t)])
  <2> USE <1>EntersAwake
  <2>1. q[QueueOf(t)] \in Queues
    BY ZenonT(60) DEF TypeInv, QueueOf
  <2>2. t \notin blocked /\ q[QueueOf(t)].lock # t
    BY ZenonT(60) DEF WaitInv
  <2> QED BY ZenonT(60), <2>1, <2>2 DEF Entered
(* A thread that wait() has come back to finds it with the lock released.    *)
<1>EntersAgain.
    ASSUME Sane, TypeInv, WaitInv, Running, NEW t \in Threads, pc[t] = "wait", t \notin blocked
    PROVE  Entered(t, [q[QueueOf(t)] EXCEPT !.lock = NoThread])
  <2> USE <1>EntersAgain
  <2>1. PICK o \in Queues : o = q[QueueOf(t)]
    BY ZenonT(60) DEF TypeInv, QueueOf
  <2>2. PICK r : r = [o EXCEPT !.lock = NoThread]
    BY ZenonT(60)
  <2>3. NoThread \in Someone /\ \A u \in Threads : u # NoThread
    BY ZenonT(60) DEF Someone, Sane
  <2>4. r \in Queues /\ r.lock = NoThread
    BY <2>1, <2>2, <2>3 DEF Queues
  <2>5. /\ r.head = o.head /\ r.tail = o.tail /\ r.buf = o.buf
        /\ r.not_full = o.not_full /\ r.not_empty = o.not_empty
    BY <2>1, <2>2 DEF Queues
  <2>6. o.lock = t
    BY ZenonT(60), <2>1 DEF WaitInv
  <2>7. Entered(t, r)
    BY ZenonT(60), <2>1, <2>3, <2>4, <2>5, <2>6 DEF Entered
  <2> QED BY ZenonT(60), <2>1, <2>2, <2>7
(* Sleep: in wait() with the lock, or for the lock.                          *)
<1>SleepInv.
    ASSUME Sane, SInv, Running, NEW t \in Threads, NEW r, Entered(t, r), MustWait(t), Sleep(t, r),
           t \in Writers => mode = "QUEUE",
           arg' \in [Threads -> Bytes], UNCHANGED <<mode, inited, rbr, halted, typed>>
    PROVE  SInv'
  <2> USE <1>SleepInv
  <2>i. TypeInv /\ OrderInv /\ WaitInv /\ IerTracksQueues
    BY ZenonT(60) DEF SInv
  <2>n. PICK n \in {"tx", "in"} : n = QueueOf(t)
    BY ZenonT(60) DEF QueueOf
  <2>e. /\ r \in Queues /\ r.head = q[n].head /\ r.tail = q[n].tail /\ r.buf = q[n].buf
        /\ r.not_full = q[n].not_full /\ r.not_empty = q[n].not_empty
        /\ r.lock # t /\ \A u \in Threads : u # t => (r.lock = u <=> q[n].lock = u)
        /\ t \notin blocked
    BY ZenonT(60), <2>n DEF Entered
  <2>u. UNCHANGED <<ier, thr, line, accepted, read>>
    BY ZenonT(60) DEF Sleep
  <2>w. \A u \in Threads : u # NoThread /\ (u \in Writers => u \notin Readers /\ QueueOf(u) = "tx")
                           /\ (u \in Readers => u \notin Writers /\ QueueOf(u) = "in")
                           /\ (u \in Writers \/ u \in Readers)
    BY ZenonT(60) DEF Sane, Threads, QueueOf
  <2>t. /\ mode \in {"UNINIT", "POLL", "QUEUE"} /\ inited \in BOOLEAN
        /\ q \in [{"tx", "in"} -> Queues] /\ ier \subseteq {"xmit", "recv"}
        /\ thr \in Seq(Bytes) /\ Len(thr) <= 1 /\ rbr \in Seq(Bytes) /\ Len(rbr) <= 1
        /\ pc \in [Threads -> {"run", "lock", "wait"}]
        /\ blocked \subseteq Threads /\ halted \in {"no", "panic", "assert"}
        /\ accepted \in Seq(Bytes) /\ line \in Seq(Bytes) /\ typed \in Seq(Bytes) /\ read \in Seq(Bytes)
    BY ZenonT(60), <2>i DEF TypeInv
  <2>x. /\ q["tx"].not_empty = NoThread /\ q["in"].not_full = NoThread
        /\ q["tx"].not_full \in Writers \cup {NoThread} /\ q["in"].not_empty \in Readers \cup {NoThread}
        /\ \A u \in Writers : u \in blocked <=> q["tx"].not_full = u
        /\ \A u \in Readers : u \in blocked <=> q["in"].not_empty = u
        /\ q["tx"].not_full # NoThread => intq_full(q["tx"])
        /\ q["in"].not_empty # NoThread => intq_empty(q["in"])
        /\ \A u \in blocked : pc[u] = "wait"
        /\ \A u \in Threads : pc[u] = "wait" <=> q[QueueOf(u)].lock = u
    BY ZenonT(60), <2>i DEF WaitInv
    (* What the other lemmas need of the new queue s.                            *)
  <2>1. ASSUME NEW s \in Queues, q' = [q EXCEPT ![n] = s],
               s.head = r.head, s.tail = r.tail, s.buf = r.buf,
               NEW p \in {"lock", "wait"}, pc' = [pc EXCEPT ![t] = p], blocked' \subseteq Threads
        PROVE  /\ TypeInv' /\ OrderInv' /\ IerTracksQueues'
               /\ q'[n] = s /\ \A m \in {"tx", "in"} : m # n => q'[m] = q[m]
               /\ \A m \in {"tx", "in"} : /\ intq_full(q'[m]) = intq_full(q[m])
                                          /\ intq_empty(q'[m]) = intq_empty(q[m])
               /\ pc'[t] = p /\ \A u \in Threads : u # t => pc'[u] = pc[u]
    <3>1. /\ q' \in [{"tx", "in"} -> Queues] /\ q'[n] = s
          /\ \A m \in {"tx", "in"} : m # n => q'[m] = q[m]
      BY ZenonT(60), <2>1, <2>t, <1>QueueSet
    <3>2. /\ Contents(s) = Contents(q[n])
          /\ intq_full(s) = intq_full(q[n]) /\ intq_empty(s) = intq_empty(q[n])
      BY ZenonT(60), <2>1, <2>e, <1>SameBytes
    <3>3. \A m \in {"tx", "in"} : /\ Contents(q'[m]) = Contents(q[m])
                                 /\ intq_full(q'[m]) = intq_full(q[m])
                                 /\ intq_empty(q'[m]) = intq_empty(q[m])
      BY ZenonT(60), <3>1, <3>2
    <3>4. /\ pc' \in [Threads -> {"run", "lock", "wait"}]
          /\ pc'[t] = p /\ \A u \in Threads : u # t => pc'[u] = pc[u]
      BY ZenonT(60), <2>1, <2>t
    <3>5. TypeInv'
      BY ZenonT(60), <2>1, <2>t, <2>u, <3>1, <3>4 DEF TypeInv
    <3>6. OutputInOrder' /\ InputInOrder'
      BY ZenonT(60), <2>i, <2>u, <3>3 DEF OrderInv, OutputInOrder, InputInOrder
    <3>7. mode' # "QUEUE" => intq_empty(q'["tx"]) /\ \A u \in Writers : pc'[u] = "run"
      BY ZenonT(60), <2>i, <2>w, <3>3, <3>4 DEF OrderInv, Threads
    <3>8. OrderInv'
      BY ZenonT(60), <2>i, <3>6, <3>7 DEF OrderInv
    <3>9. IerTracksQueues'
      BY ZenonT(60), <2>i, <2>u, <3>3, <1>SameIer
    <3> QED BY ZenonT(60), <3>1, <3>3, <3>4, <3>5, <3>8, <3>9
  <2>2. CASE r.lock = NoThread
    <3>1. PICK s : s = Waiting(r, t)
      BY ZenonT(60)
    <3>2. /\ q' = [q EXCEPT ![n] = s] /\ blocked' = blocked \cup {t}
          /\ pc' = [pc EXCEPT ![t] = "wait"]
      BY ZenonT(60), <2>2, <2>n, <3>1 DEF Sleep
    <3>3. t \in Someone
      BY ZenonT(60) DEF Someone
    <3>4. /\ s \in Queues /\ s.lock = t /\ s.head = r.head /\ s.tail = r.tail /\ s.buf = r.buf
          /\ t \in Writers => s.not_full = t /\ s.not_empty = r.not_empty
          /\ t \notin Writers => s.not_full = r.not_full /\ s.not_empty = t
      <4>1. CASE t \in Writers
        <5>1. s = [r EXCEPT !.lock = t, !.not_full = t]
          BY ZenonT(60), <4>1, <3>1 DEF Waiting
        <5> QED BY ZenonT(60), <4>1, <5>1, <2>e, <3>3 DEF Queues
      <4>2. CASE t \notin Writers
        <5>1. s = [r EXCEPT !.lock = t, !.not_empty = t]
          BY ZenonT(60), <4>2, <3>1 DEF Waiting
        <5> QED BY ZenonT(60), <4>2, <5>1, <2>e, <3>3 DEF Queues
      <4> QED BY <4>1, <4>2
    <3>5. blocked' \subseteq Threads
      BY ZenonT(60), <2>t, <3>2
    <3>6. /\ TypeInv' /\ OrderInv' /\ IerTracksQueues'
          /\ q'[n] = s /\ \A m \in {"tx", "in"} : m # n => q'[m] = q[m]
          /\ \A m \in {"tx", "in"} : /\ intq_full(q'[m]) = intq_full(q[m])
                                     /\ intq_empty(q'[m]) = intq_empty(q[m])
          /\ pc'[t] = "wait" /\ \A u \in Threads : u # t => pc'[u] = pc[u]
      BY ZenonT(60), <2>1, <3>2, <3>4, <3>5
    <3>7. \A u \in Threads : u # t /\ QueueOf(u) = n => pc[u] # "wait" /\ u \notin blocked
      <4> SUFFICES ASSUME NEW u \in Threads, u # t, QueueOf(u) = n
                   PROVE  pc[u] # "wait" /\ u \notin blocked
        BY ZenonT(60)
      <4>1. r.lock # u
        BY ZenonT(60), <2>2, <2>w
      <4>2. q[n].lock # u
        BY ZenonT(60), <4>1, <2>e
      <4>3. pc[u] # "wait"
        BY ZenonT(60), <4>2, <2>x
      <4> QED BY ZenonT(60), <4>3, <2>x
    <3>8. \A u \in Threads : pc'[u] = "wait" <=> q'[QueueOf(u)].lock = u
      <4> TAKE u \in Threads
      <4>1. CASE u = t
        BY ZenonT(60), <4>1, <2>n, <3>4, <3>6
      <4>2. CASE u # t /\ QueueOf(u) = n
        BY ZenonT(60), <4>2, <3>4, <3>6, <3>7
      <4>3. CASE u # t /\ QueueOf(u) # n
        <5>1. QueueOf(u) \in {"tx", "in"}
          BY ZenonT(60) DEF QueueOf
        <5> QED BY ZenonT(60), <4>3, <5>1, <2>x, <3>6
      <4> QED BY <4>1, <4>2, <4>3
    <3>9. \A u \in blocked' : pc'[u] = "wait"
      BY ZenonT(60), <2>t, <2>x, <3>2, <3>6
    <3>10. CASE t \in Writers
      <4>1. n = "tx" /\ "in" # n
        BY <3>10, <2>n DEF QueueOf
      <4>2. q'["tx"] = s /\ q'["in"] = q["in"]
        BY ZenonT(60), <4>1, <3>6
      <4>3. intq_full(q'["tx"])
        BY ZenonT(60), <3>10, <3>6 DEF MustWait
      <4>4. \A u \in Writers : u \in blocked' <=> q'["tx"].not_full = u
        BY ZenonT(60), <3>10, <2>w, <3>2, <3>4, <3>7, <4>1, <4>2 DEF Threads
      <4>5. \A u \in Readers : u \in blocked' <=> q'["in"].not_empty = u
        BY ZenonT(60), <3>10, <2>w, <2>x, <3>2, <4>2 DEF Threads
      <4>6. q'["tx"].not_empty = NoThread /\ q'["tx"].not_full = t
        BY ZenonT(60), <3>10, <2>x, <2>e, <3>4, <4>1, <4>2
      <4>7. intq_empty(q'["in"]) = intq_empty(q["in"])
        BY ZenonT(60), <4>2
      <4>8. WaitInv'
        BY ZenonT(60), <3>10, <2>x, <3>8, <3>9, <4>2, <4>3, <4>4, <4>5, <4>6 DEF WaitInv
      <4> QED BY ZenonT(60), <3>6, <4>8 DEF SInv
    <3>11. CASE t \notin Writers
      <4>1. n = "in" /\ "tx" # n /\ t \in Readers
        BY <3>11, <2>n DEF QueueOf, Threads
      <4>2. q'["in"] = s /\ q'["tx"] = q["tx"]
        BY ZenonT(60), <4>1, <3>6
      <4>3. intq_empty(q'["in"])
        BY ZenonT(60), <3>11, <3>6 DEF MustWait
      <4>4. \A u \in Readers : u \in blocked' <=> q'["in"].not_empty = u
        BY ZenonT(60), <3>11, <2>w, <3>2, <3>4, <3>7, <4>1, <4>2 DEF Threads
      <4>5. \A u \in Writers : u \in blocked' <=> q'["tx"].not_full = u
        BY ZenonT(60), <3>11, <2>w, <2>x, <3>2, <4>2 DEF Threads
      <4>6. q'["in"].not_full = NoThread /\ q'["in"].not_empty = t
        BY ZenonT(60), <3>11, <2>x, <2>e, <3>4, <4>1, <4>2
      <4>8. WaitInv'
        BY ZenonT(60), <4>1, <2>x, <3>8, <3>9, <4>2, <4>3, <4>4, <4>5, <4>6 DEF WaitInv
      <4> QED BY ZenonT(60), <3>6, <4>8 DEF SInv
    <3> QED BY <3>10, <3>11
  <2>3. CASE r.lock # NoThread
    <3>2. q' = [q EXCEPT ![n] = r] /\ blocked' = blocked /\ pc' = [pc EXCEPT ![t] = "lock"]
      BY ZenonT(60), <2>3, <2>n DEF Sleep
    <3>6. /\ TypeInv' /\ OrderInv' /\ IerTracksQueues'
          /\ q'[n] = r /\ \A m \in {"tx", "in"} : m # n => q'[m] = q[m]
          /\ \A m \in {"tx", "in"} : /\ intq_full(q'[m]) = intq_full(q[m])
                                     /\ intq_empty(q'[m]) = intq_empty(q[m])
          /\ pc'[t] = "lock" /\ \A u \in Threads : u # t => pc'[u] = pc[u]
      BY ZenonT(60), <2>1, <2>e, <2>t, <3>2
    <3>7. \A m \in {"tx", "in"} : q'[m].not_full = q[m].not_full /\ q'[m].not_empty = q[m].not_empty
      BY ZenonT(60), <2>e, <3>6
    <3>8. \A u \in Threads : pc'[u] = "wait" <=> q'[QueueOf(u)].lock = u
      <4> TAKE u \in Threads
      <4>1. CASE u = t
        BY <4>1, <2>n, <2>e, <3>6
      <4>2. CASE u # t /\ QueueOf(u) = n
        <5>1. pc[u] = "wait" <=> q[n].lock = u
          BY ZenonT(60), <4>2, <2>x
        <5>2. q'[QueueOf(u)].lock = u <=> q[n].lock = u
          BY ZenonT(60), <4>2, <2>e, <3>6
        <5> QED BY ZenonT(60), <4>2, <5>1, <5>2, <3>6
      <4>3. CASE u # t /\ QueueOf(u) # n
        <5>1. QueueOf(u) \in {"tx", "in"}
          BY ZenonT(60) DEF QueueOf
        <5> QED BY ZenonT(60), <4>3, <5>1, <2>x, <3>6
      <4> QED BY <4>1, <4>2, <4>3
    <3>9. \A u \in blocked' : pc'[u] = "wait"
      <4> SUFFICES ASSUME NEW u \in blocked' PROVE pc'[u] = "wait"
        BY ZenonT(60)
      <4>1. u \in blocked /\ u # t
        BY ZenonT(60), <2>e, <3>2
      <4>2. u \in Threads /\ pc[u] = "wait"
        BY ZenonT(60), <4>1, <2>x, <2>t
      <4> QED BY ZenonT(60), <4>1, <4>2, <3>6
    <3>10. WaitInv'
      <4>1. /\ q'["tx"].not_full = q["tx"].not_full /\ q'["tx"].not_empty = q["tx"].not_empty
            /\ intq_full(q'["tx"]) = intq_full(q["tx"])
        BY ZenonT(60), <3>6, <3>7
      <4>2. /\ q'["in"].not_full = q["in"].not_full /\ q'["in"].not_empty = q["in"].not_empty
            /\ intq_empty(q'["in"]) = intq_empty(q["in"])
        BY ZenonT(60), <3>6, <3>7
      <4> QED BY ZenonT(60), <4>1, <4>2, <2>x, <3>2, <3>8, <3>9 DEF WaitInv
    <3> QED BY ZenonT(60), <3>6, <3>10 DEF SInv
  <2> QED BY <2>2, <2>3
(* serial_putc past the loop: the byte is queued last.                       *)
<1>StoreInv.
    ASSUME Sane, SInv, Running, NEW t \in Writers, NEW r, Entered(t, r), ~MustWait(t),
           NEW b \in Bytes, Store(t, r, b), UNCHANGED <<thr, line>>, mode = "QUEUE",
           arg' \in [Threads -> Bytes], UNCHANGED <<mode, inited, rbr, halted, typed>>
    PROVE  SInv'
  <2> USE <1>StoreInv
  <2>i. TypeInv /\ OrderInv /\ WaitInv /\ IerTracksQueues
    BY ZenonT(60) DEF SInv
  <2>n. QueueOf(t) = "tx" /\ t \in Threads
    BY ZenonT(60) DEF QueueOf, Threads
  <2>e. /\ r \in Queues /\ r.head = q["tx"].head /\ r.tail = q["tx"].tail /\ r.buf = q["tx"].buf
        /\ r.not_full = q["tx"].not_full /\ r.not_empty = q["tx"].not_empty
        /\ r.lock # t /\ \A u \in Threads : u # t => (r.lock = u <=> q["tx"].lock = u)
        /\ t \notin blocked
    BY ZenonT(60), <2>n DEF Entered
  <2>t. /\ q \in [{"tx", "in"} -> Queues] /\ pc \in [Threads -> {"run", "lock", "wait"}]
        /\ blocked \subseteq Threads /\ accepted \in Seq(Bytes)
        /\ line \in Seq(Bytes) /\ thr \in Seq(Bytes)
    BY ZenonT(60), <2>i DEF TypeInv
  <2>1. Contents(r) = Contents(q["tx"]) /\ intq_full(r) = intq_full(q["tx"])
    BY ZenonT(60), <2>e, <1>SameBytes
  <2>2. ~intq_full(r) /\ ~intq_full(q["tx"])
    BY ZenonT(60), <2>1 DEF MustWait
  <2>3. PICK s : s = intq_put(r, b)
    BY ZenonT(60)
  <2>4. /\ s \in Queues /\ s.lock = r.lock /\ s.not_full = r.not_full /\ s.not_empty = NoThread
        /\ Contents(r) \in Seq(Bytes) /\ Contents(s) = Append(Contents(r), b)
    BY ZenonT(60), <2>2, <2>3, <2>e, <1>PutFacts
  <2>5. /\ q' = [q EXCEPT !["tx"] = s] /\ Wake(q, q') /\ accepted' = Append(accepted, b)
        /\ ier' = write_ier(q') /\ pc' = [pc EXCEPT ![t] = "run"] /\ read' = read
    BY ZenonT(60), <2>3 DEF Store
  <2>6. /\ q' \in [{"tx", "in"} -> Queues] /\ q'["tx"] = s
        /\ \A m \in {"tx", "in"} : m # "tx" => q'[m] = q[m]
    BY ZenonT(60), <2>t, <2>4, <2>5, <1>QueueSet
  <2>7. q'["in"] = q["in"]
    BY <2>6
  <2>8. /\ pc' \in [Threads -> {"run", "lock", "wait"}]
        /\ pc'[t] = "run" /\ \A u \in Threads : u # t => pc'[u] = pc[u]
    BY ZenonT(60), <2>t, <2>n, <2>5
  <2>9. q["tx"].not_full = NoThread
    BY ZenonT(60), <2>i, <2>2 DEF WaitInv
  <2>10. /\ q["tx"].not_empty = NoThread /\ q["in"].not_full = NoThread
         /\ q["in"].not_empty # NoThread => intq_empty(q["in"])
         /\ \A u \in blocked : pc[u] = "wait"
         /\ \A u \in Threads : pc[u] = "wait" <=> q[QueueOf(u)].lock = u
    BY ZenonT(60), <2>i DEF WaitInv
  <2>11. \A u \in Threads : pc'[u] = "wait" <=> q'[QueueOf(u)].lock = u
    <3> TAKE u \in Threads
    <3>1. CASE u = t
      <4>1. q'[QueueOf(u)].lock # u
        BY ZenonT(60), <3>1, <2>n, <2>4, <2>6, <2>e
      <4> QED BY <3>1, <4>1, <2>8
    <3>2. CASE u # t /\ QueueOf(u) = "tx"
      <4>1. pc[u] = "wait" <=> q["tx"].lock = u
        BY ZenonT(60), <3>2, <2>10
      <4>2. q'[QueueOf(u)].lock = u <=> q["tx"].lock = u
        BY ZenonT(60), <3>2, <2>4, <2>6, <2>e
      <4> QED BY ZenonT(60), <3>2, <4>1, <4>2, <2>8
    <3>3. CASE u # t /\ QueueOf(u) # "tx"
      <4>1. QueueOf(u) = "in"
        BY ZenonT(60), <3>3 DEF QueueOf
      <4>2. pc[u] = "wait" <=> q[QueueOf(u)].lock = u
        BY ZenonT(60), <2>10
      <4>3. q'[QueueOf(u)] = q[QueueOf(u)] /\ pc'[u] = pc[u]
        BY ZenonT(60), <3>3, <4>1, <2>7, <2>8
      <4> QED BY ZenonT(60), <4>2, <4>3
    <3> QED BY <3>1, <3>2, <3>3
  <2>12. \A u \in blocked : u \in blocked' => pc'[u] = "wait"
    <3> SUFFICES ASSUME NEW u \in blocked PROVE pc'[u] = "wait"
      BY ZenonT(60)
    <3>1. u \in Threads /\ u # t /\ pc[u] = "wait"
      BY ZenonT(60), <2>e, <2>t, <2>10
    <3> QED BY ZenonT(60), <3>1, <2>8
  <2>13. WaitInv' /\ blocked' \subseteq blocked
    BY ZenonT(60), <2>i, <2>4, <2>5, <2>6, <2>7, <2>9, <2>10, <2>11, <2>12, <2>e, <1>Served
  <2>14. IerTracksQueues' /\ ier' \subseteq {"xmit", "recv"}
    BY ZenonT(60), <2>5, <1>IerWritten
  <2>15. accepted' \in Seq(Bytes)
    BY <2>5, <2>t
  <2>16. TypeInv'
    BY ZenonT(60), <2>i, <2>t, <2>5, <2>6, <2>8, <2>13, <2>14, <2>15 DEF TypeInv
  <2>17. accepted' = (line \o thr) \o Contents(s)
    <3>1. accepted = (line \o thr) \o Contents(r)
      BY ZenonT(60), <2>i, <2>1 DEF OrderInv, OutputInOrder
    <3>2. PICK c \in Seq(Bytes) : c = Contents(r) /\ Contents(s) = Append(c, b)
      BY ZenonT(60), <2>4
    <3>3. PICK l \in Seq(Bytes) : l = line \o thr
      BY ZenonT(60), <2>t, ByteSeqs
    <3>4. Append(l \o c, b) = l \o Append(c, b)
      BY ZenonT(60), <3>2, <3>3, <1>AppendLast
    <3> QED BY ZenonT(60), <2>5, <3>1, <3>2, <3>3, <3>4
  <2>18. OrderInv'
    BY ZenonT(60), <2>i, <2>5, <2>6, <2>7, <2>17 DEF OrderInv, OutputInOrder, InputInOrder
  <2> QED BY ZenonT(60), <2>13, <2>14, <2>16, <2>18 DEF SInv
(* input_getc past the loop: the oldest byte is taken.                       *)
<1>FetchInv.
    ASSUME Sane, SInv, Running, NEW t \in Readers, NEW r, Entered(t, r), ~MustWait(t),
           Fetch(t, r),
           arg' \in [Threads -> Bytes], UNCHANGED <<mode, inited, rbr, halted, typed>>
    PROVE  SInv'
  <2> USE <1>FetchInv
  <2>i. TypeInv /\ OrderInv /\ WaitInv /\ IerTracksQueues
    BY ZenonT(60) DEF SInv
  <2>n. QueueOf(t) = "in" /\ t \in Threads /\ t \notin Writers
    BY ZenonT(60) DEF QueueOf, Threads, Sane
  <2>e. /\ r \in Queues /\ r.head = q["in"].head /\ r.tail = q["in"].tail /\ r.buf = q["in"].buf
        /\ r.not_full = q["in"].not_full /\ r.not_empty = q["in"].not_empty
        /\ r.lock # t /\ \A u \in Threads : u # t => (r.lock = u <=> q["in"].lock = u)
        /\ t \notin blocked
    BY ZenonT(60), <2>n DEF Entered
  <2>t. /\ q \in [{"tx", "in"} -> Queues] /\ pc \in [Threads -> {"run", "lock", "wait"}]
        /\ blocked \subseteq Threads /\ read \in Seq(Bytes) /\ ier \subseteq {"xmit", "recv"}
    BY ZenonT(60), <2>i DEF TypeInv
  <2>1. Contents(r) = Contents(q["in"]) /\ intq_empty(r) = intq_empty(q["in"])
    BY ZenonT(60), <2>e, <1>SameBytes
  <2>2. ~intq_empty(r) /\ ~intq_empty(q["in"])
    BY ZenonT(60), <2>1, <2>n DEF MustWait
  <2>3. PICK s : s = intq_got(r)
    BY ZenonT(60)
  <2>4. /\ s \in Queues /\ s.lock = r.lock /\ s.not_empty = r.not_empty /\ s.not_full = NoThread
        /\ Oldest(r) \in Bytes /\ Contents(s) \in Seq(Bytes)
        /\ Contents(r) = <<Oldest(r)>> \o Contents(s)
    BY ZenonT(60), <2>2, <2>3, <2>e, <1>GotFacts
  <2>5. /\ q' = [q EXCEPT !["in"] = s] /\ Wake(q, q') /\ read' = Append(read, Oldest(r))
        /\ serial_notify(q') /\ pc' = [pc EXCEPT ![t] = "run"]
        /\ UNCHANGED <<thr, line, accepted>>
    BY ZenonT(60), <2>3 DEF Fetch
  <2>6. /\ q' \in [{"tx", "in"} -> Queues] /\ q'["in"] = s
        /\ \A m \in {"tx", "in"} : m # "in" => q'[m] = q[m]
    BY ZenonT(60), <2>t, <2>4, <2>5, <1>QueueSet
  <2>7. q'["tx"] = q["tx"]
    BY <2>6
  <2>8. /\ pc' \in [Threads -> {"run", "lock", "wait"}]
        /\ pc'[t] = "run" /\ \A u \in Threads : u # t => pc'[u] = pc[u]
    BY ZenonT(60), <2>t, <2>n, <2>5
  <2>9. q["in"].not_empty = NoThread
    BY ZenonT(60), <2>i, <2>2 DEF WaitInv
  <2>10. /\ q["tx"].not_empty = NoThread /\ q["in"].not_full = NoThread
         /\ q["tx"].not_full # NoThread => intq_full(q["tx"])
         /\ \A u \in blocked : pc[u] = "wait"
         /\ \A u \in Threads : pc[u] = "wait" <=> q[QueueOf(u)].lock = u
    BY ZenonT(60), <2>i DEF WaitInv
  <2>11. \A u \in Threads : pc'[u] = "wait" <=> q'[QueueOf(u)].lock = u
    <3> TAKE u \in Threads
    <3>1. CASE u = t
      <4>1. q'[QueueOf(u)].lock # u
        BY ZenonT(60), <3>1, <2>n, <2>4, <2>6, <2>e
      <4> QED BY <3>1, <4>1, <2>8
    <3>2. CASE u # t /\ QueueOf(u) = "in"
      <4>1. pc[u] = "wait" <=> q["in"].lock = u
        BY ZenonT(60), <3>2, <2>10
      <4>2. q'[QueueOf(u)].lock = u <=> q["in"].lock = u
        BY ZenonT(60), <3>2, <2>4, <2>6, <2>e
      <4> QED BY ZenonT(60), <3>2, <4>1, <4>2, <2>8
    <3>3. CASE u # t /\ QueueOf(u) # "in"
      <4>1. QueueOf(u) = "tx"
        BY ZenonT(60), <3>3 DEF QueueOf
      <4>2. pc[u] = "wait" <=> q[QueueOf(u)].lock = u
        BY ZenonT(60), <2>10
      <4>3. q'[QueueOf(u)] = q[QueueOf(u)] /\ pc'[u] = pc[u]
        BY ZenonT(60), <3>3, <4>1, <2>7, <2>8
      <4> QED BY ZenonT(60), <4>2, <4>3
    <3> QED BY <3>1, <3>2, <3>3
  <2>12. \A u \in blocked : u \in blocked' => pc'[u] = "wait"
    <3> SUFFICES ASSUME NEW u \in blocked PROVE pc'[u] = "wait"
      BY ZenonT(60)
    <3>1. u \in Threads /\ u # t /\ pc[u] = "wait"
      BY ZenonT(60), <2>e, <2>t, <2>10
    <3> QED BY ZenonT(60), <3>1, <2>8
  <2>13. WaitInv' /\ blocked' \subseteq blocked
    BY ZenonT(60), <2>i, <2>4, <2>5, <2>6, <2>7, <2>9, <2>10, <2>11, <2>12, <2>e, <1>Served
  <2>14. IerTracksQueues' /\ ier' \subseteq {"xmit", "recv"}
    BY ZenonT(60), <2>i, <2>t, <2>5, <1>Notified DEF OrderInv
  <2>15. read' \in Seq(Bytes)
    BY <2>4, <2>5, <2>t
  <2>16. TypeInv'
    BY ZenonT(60), <2>i, <2>t, <2>5, <2>6, <2>8, <2>13, <2>14, <2>15 DEF TypeInv
  <2>17. typed' = read' \o Contents(s)
    <3>1. typed = read \o (<<Oldest(r)>> \o Contents(s))
      BY ZenonT(60), <2>i, <2>1, <2>4 DEF OrderInv, InputInOrder
    <3>2. PICK b \in Bytes : b = Oldest(r)
      BY ZenonT(60), <2>4
    <3>3. PICK e \in Seq(Bytes) : e = <<b>>
      BY ZenonT(60), <3>2, ByteSeqs
    <3>4. read' = read \o e
      BY ZenonT(60), <2>5, <2>t, <3>2, <3>3, ByteSeqs
    <3>5. (read \o e) \o Contents(s) = read \o (e \o Contents(s))
      BY ZenonT(60), <2>4, <2>t, <3>3, ByteAssoc
    <3> QED BY ZenonT(60), <3>1, <3>2, <3>3, <3>4, <3>5
  <2>a. mode' # "QUEUE" => \A u \in Writers : pc'[u] = "run"
    BY ZenonT(60), <2>i, <2>n, <2>8 DEF OrderInv, Threads
  <2>18. OrderInv'
    BY ZenonT(60), <2>a, <2>i, <2>5, <2>6, <2>7, <2>17 DEF OrderInv, OutputInOrder, InputInOrder
  <2> QED BY ZenonT(60), <2>13, <2>14, <2>16, <2>18 DEF SInv
(* What the loop of intq_putc or intq_getc may do.                           *)
<1>AttemptInv.
    ASSUME Sane, SInv, Running, NEW t \in Threads, NEW r, Entered(t, r), NEW b,
           t \in Writers => b \in Bytes /\ mode = "QUEUE", Attempt(t, r, b),
           arg' \in [Threads -> Bytes], UNCHANGED <<mode, inited, rbr, halted, typed>>
    PROVE  SInv'
  <2> USE <1>AttemptInv
  <2>1. CASE MustWait(t) /\ Sleep(t, r)
    BY ZenonT(60), <2>1, <1>SleepInv
  <2>2. CASE ~MustWait(t) /\ t \in Writers /\ Store(t, r, b) /\ UNCHANGED <<thr, line>>
    BY ZenonT(60), <2>2, <1>StoreInv
  <2>3. CASE ~MustWait(t) /\ t \in Readers /\ Fetch(t, r)
    BY ZenonT(60), <2>3, <1>FetchInv
  <2> QED BY ZenonT(60), <2>1, <2>2, <2>3 DEF Attempt
(* serial_putc by a thread.                                                  *)
<1>PutcInv.
    ASSUME WritersCount, Sane, SInv, NEW t \in Writers, serial_putc(t)
    PROVE  SInv'
  <2> USE <1>PutcInv
  <2>1. TypeInv /\ OrderInv /\ WaitInv
    BY ZenonT(60) DEF SInv
  <2>2. /\ Running /\ mode = "QUEUE" /\ pc[t] = "run" /\ arg' = [arg EXCEPT ![t] = NextByte]
        /\ Attempt(t, q["tx"], NextByte) /\ UNCHANGED <<mode, inited, rbr, halted, typed>>
    BY ZenonT(60) DEF serial_putc
  <2>3. t \in Threads /\ QueueOf(t) = "tx" /\ pc[t] # "wait"
    BY <2>2 DEF Threads, QueueOf
  <2>4. Entered(t, q["tx"])
    BY ZenonT(60), <2>1, <2>2, <2>3, <1>EntersAwake
  <2>5. NextByte \in Bytes
    BY ZenonT(60), <2>1, <1>NextByteIsByte
  <2>6. arg' \in [Threads -> Bytes]
    BY ZenonT(60), <2>1, <2>2, <2>3, <2>5 DEF TypeInv
  <2> QED BY ZenonT(60), <2>2, <2>3, <2>4, <2>5, <2>6, <1>AttemptInv
(* input_getc.                                                               *)
<1>GetcInv.
    ASSUME Sane, SInv, NEW t \in Readers, input_getc(t)
    PROVE  SInv'
  <2> USE <1>GetcInv
  <2>1. TypeInv /\ OrderInv /\ WaitInv
    BY ZenonT(60) DEF SInv
  <2>2. /\ Running /\ pc[t] = "run" /\ arg' = arg
        /\ Attempt(t, q["in"], NoByte) /\ UNCHANGED <<mode, inited, rbr, halted, typed>>
    BY ZenonT(60) DEF input_getc
  <2>3. t \in Threads /\ QueueOf(t) = "in" /\ t \notin Writers /\ pc[t] # "wait"
    BY <2>2 DEF Threads, QueueOf, Sane
  <2>4. Entered(t, q["in"])
    BY ZenonT(60), <2>1, <2>2, <2>3, <1>EntersAwake
  <2>5. arg' \in [Threads -> Bytes]
    BY ZenonT(60), <2>1, <2>2 DEF TypeInv
  <2> QED BY ZenonT(60), <2>2, <2>3, <2>4, <2>5, <1>AttemptInv
(* A woken thread releases the lock and looks again.                         *)
<1>ResumeInv.
    ASSUME Sane, SInv, NEW t \in Threads, intq_resume(t)
    PROVE  SInv'
  <2> USE <1>ResumeInv
  <2>1. TypeInv /\ OrderInv /\ WaitInv
    BY ZenonT(60) DEF SInv
  <2>2. PICK r : r = [q[QueueOf(t)] EXCEPT !.lock = NoThread]
    BY ZenonT(60)
  <2>3. /\ Running /\ pc[t] = "wait" /\ t \notin blocked /\ arg' = arg
        /\ Attempt(t, r, arg[t]) /\ UNCHANGED <<mode, inited, rbr, halted, typed>>
    BY ZenonT(60), <2>2 DEF intq_resume
  <2>4. Entered(t, r)
    BY ZenonT(60), <2>1, <2>2, <2>3, <1>EntersAgain
  <2>5. arg' \in [Threads -> Bytes] /\ arg[t] \in Bytes
    BY ZenonT(60), <2>1, <2>3 DEF TypeInv
  <2>6. t \in Writers => mode = "QUEUE"
    BY <2>1, <2>3 DEF OrderInv
  <2> QED BY ZenonT(60), <2>3, <2>4, <2>5, <2>6, <1>AttemptInv
(* serial_flush: everything queued goes out.                                 *)
<1>FlushInv.
    ASSUME Sane, TypeInv, OrderInv, serial_flush, halted' \in {"panic", "assert"}
    PROVE  SInv'
  (* A machine that has stopped wakes nobody.                                  *)
  <2>Stopped.
      ASSUME halted' # "no"
      PROVE  WaitInv' /\ IerTracksQueues'
    BY ZenonT(60), <2>Stopped DEF WaitInv, IerTracksQueues, Running
  <2> USE <1>FlushInv
  <2>t. /\ q \in [{"tx", "in"} -> Queues] /\ q["tx"] \in Queues /\ blocked \subseteq Threads
        /\ line \in Seq(Bytes) /\ thr \in Seq(Bytes) /\ Len(thr) <= 1
    BY ZenonT(60) DEF TypeInv
  <2>u. UNCHANGED <<mode, inited, ier, rbr, pc, arg, accepted, typed, read>>
    BY ZenonT(60) DEF serial_flush, loc
  <2>h. halted' # "no" /\ halted' \in {"no", "panic", "assert"}
    OBVIOUS
  <2>1. WaitInv' /\ IerTracksQueues'
    BY ZenonT(60), <2>h, <2>Stopped
  <2>2. CASE intq_empty(q["tx"])
    <3>1. UNCHANGED <<thr, line, q, blocked>>
      BY ZenonT(60), <2>2 DEF serial_flush
    <3>2. TypeInv'
      BY ZenonT(60), <2>u, <2>h, <3>1 DEF TypeInv
    <3>3. OrderInv'
      BY ZenonT(60), <2>u, <3>1 DEF OrderInv, OutputInOrder, InputInOrder
    <3> QED BY ZenonT(60), <2>1, <3>2, <3>3 DEF SInv
  <2>3. CASE ~intq_empty(q["tx"])
    <3>1. PICK g : g = intq_got(q["tx"])
      BY ZenonT(60)
    <3>2. g \in Queues
      BY ZenonT(60), <2>3, <2>t, <3>1, <1>GotFacts
    <3>3. q["tx"].head \in Places /\ g.head = q["tx"].head
      BY <2>t, <3>1 DEF Queues, intq_got
    <3>4. PICK s : s = [g EXCEPT !.tail = q["tx"].head]
      BY ZenonT(60)
    <3>5. s \in Queues /\ s.head = s.tail
      BY <3>2, <3>3, <3>4 DEF Queues
    <3>6. Contents(s) = <<>> /\ intq_empty(s)
      BY ZenonT(60), <3>5, EmptyFacts DEF intq_empty
    <3>7. PICK c \in Seq(Bytes) : c = Contents(q["tx"]) /\ c # <<>>
      BY ZenonT(60), <2>3, <2>t, EmptyFacts
    <3>8. q' = [q EXCEPT !["tx"] = s] /\ putc_poll(c) /\ Wake(q, q')
      BY ZenonT(60), <2>3, <3>1, <3>4, <3>7 DEF serial_flush
    <3>9. /\ q' \in [{"tx", "in"} -> Queues] /\ q'["tx"] = s
          /\ \A m \in {"tx", "in"} : m # "tx" => q'[m] = q[m]
      BY ZenonT(60), <2>t, <3>5, <3>8, <1>QueueSet
    <3>10. q'["in"] = q["in"]
      BY <3>9
    <3>11. /\ line' \in Seq(Bytes) /\ thr' \in Seq(Bytes) /\ Len(thr') = 1
           /\ line' \o thr' = (line \o thr) \o c
      BY ZenonT(60), <2>t, <3>7, <3>8, <1>PolledOut
    <3>12. blocked' \subseteq Threads
      BY ZenonT(60), <2>t, <3>8 DEF Wake
    <3>a. Len(thr') <= 1
      BY <3>11
    <3>13. TypeInv'
      BY ZenonT(60), <2>u, <2>h, <3>9, <3>11, <3>12, <3>a DEF TypeInv
    <3>14. (line' \o thr') \o <<>> = line' \o thr'
      BY ZenonT(60), <3>11, ByteSeqs
    <3>15. OutputInOrder'
      BY ZenonT(60), <2>u, <3>6, <3>7, <3>9, <3>11, <3>14 DEF OrderInv, OutputInOrder
    <3>16. OrderInv'
      BY ZenonT(60), <2>u, <3>6, <3>9, <3>10, <3>15 DEF OrderInv, InputInOrder
    <3> QED BY ZenonT(60), <2>1, <3>13, <3>16 DEF SInv
  <2> QED BY <2>2, <2>3
(* A thread gets the lock: it waits, or the assertion of wait() stops it.    *)
<1>WaitStepInv.
    ASSUME Sane, SInv, NEW t \in Threads, intq_wait(t)
    PROVE  SInv'
  <2> USE <1>WaitStepInv
  <2>1. TypeInv /\ OrderInv /\ WaitInv
    BY ZenonT(60) DEF SInv
  <2>2. Running /\ pc[t] = "lock"
    BY ZenonT(60) DEF intq_wait
  <2>3. pc[t] # "wait" /\ pc[t] # "run"
    BY <2>2
  <2>4. Entered(t, q[QueueOf(t)])
    BY ZenonT(60), <2>1, <2>2, <2>3, <1>EntersAwake
  <2>5. t \in Writers => mode = "QUEUE"
    BY ZenonT(60), <2>1, <2>3 DEF OrderInv
  <2>6. CASE MustWait(t) /\ Sleep(t, q[QueueOf(t)]) /\ UNCHANGED <<halted, mode, inited, rbr, arg, typed>>
    <3>1. arg' \in [Threads -> Bytes]
      BY ZenonT(60), <2>1, <2>6 DEF TypeInv
    <3> QED BY ZenonT(60), <2>2, <2>4, <2>5, <2>6, <3>1, <1>SleepInv
  <2>7. CASE halted' = "assert" /\ serial_flush
    BY ZenonT(60), <2>1, <2>7, <1>FlushInv
  <2> QED BY ZenonT(60), <2>6, <2>7 DEF intq_wait
(* debug_panic.                                                              *)
<1>PanicInv.
    ASSUME Sane, SInv, debug_panic
    PROVE  SInv'
  BY ZenonT(60), <1>PanicInv, <1>FlushInv DEF debug_panic, SInv
(* serial_putc before QUEUE mode: nothing is queued, so the byte is last.    *)
<1>PollInv.
    ASSUME WritersCount, Sane, SInv, serial_putc_poll
    PROVE  SInv'
  <2> USE <1>PollInv
  <2>i. TypeInv /\ OrderInv /\ WaitInv /\ IerTracksQueues
    BY ZenonT(60) DEF SInv
  <2>t. /\ q["tx"] \in Queues /\ line \in Seq(Bytes) /\ thr \in Seq(Bytes) /\ accepted \in Seq(Bytes)
        /\ ier \subseteq {"xmit", "recv"}
    BY ZenonT(60), <2>i DEF TypeInv
  <2>1. /\ mode # "QUEUE" /\ mode' = "POLL" /\ ier' = (IF mode = "UNINIT" THEN {} ELSE ier)
        /\ putc_poll(<<NextByte>>) /\ accepted' = Append(accepted, NextByte)
        /\ UNCHANGED <<inited, q, rbr, pc, arg, blocked, halted, typed, read>>
    BY ZenonT(60) DEF serial_putc_poll, loc
  <2>2. PICK b \in Bytes : b = NextByte
    BY ZenonT(60), <2>i, <1>NextByteIsByte
  <2>3. PICK e \in Seq(Bytes) : e = <<b>> /\ e # <<>>
    BY ZenonT(60), <2>2, ByteSeqs
  <2>4. /\ line' \in Seq(Bytes) /\ thr' \in Seq(Bytes) /\ Len(thr') = 1
        /\ line' \o thr' = (line \o thr) \o e
    BY ZenonT(60), <2>1, <2>2, <2>3, <2>t, <1>PolledOut
  <2>a. Append(accepted, b) = accepted \o <<b>> /\ accepted \o e \in Seq(Bytes)
    BY ZenonT(60), <2>3, <2>t, ByteSeqs
  <2>5. accepted' = accepted \o e /\ accepted' \in Seq(Bytes)
    BY ZenonT(60), <2>1, <2>2, <2>3, <2>a
  <2>6. Contents(q["tx"]) = <<>>
    BY ZenonT(60), <2>i, <2>1, <2>t, EmptyFacts DEF OrderInv
  <2>7. line \o thr \in Seq(Bytes) /\ line' \o thr' \in Seq(Bytes)
    BY ZenonT(60), <2>t, <2>4, ByteSeqs
  <2>8. accepted = line \o thr
    BY ZenonT(60), <2>i, <2>6, <2>7, ByteSeqs DEF OrderInv, OutputInOrder
  <2>9. (line' \o thr') \o <<>> = line' \o thr'
    BY ZenonT(60), <2>7, ByteSeqs
  <2>10. OutputInOrder'
    BY ZenonT(60), <2>1, <2>4, <2>5, <2>6, <2>8, <2>9 DEF OutputInOrder
  <2>11. ~inited
    BY ZenonT(60), <2>i, <2>1 DEF OrderInv
  <2>12. OrderInv'
    BY ZenonT(60), <2>i, <2>1, <2>10, <2>11 DEF OrderInv, InputInOrder
  <2>13. WaitInv'
    BY ZenonT(60), <2>i, <2>1, <1>SameWait
  <2>14. IerTracksQueues'
    BY ZenonT(60), <2>1, <2>11 DEF IerTracksQueues
  <2>b. mode' \in {"UNINIT", "POLL", "QUEUE"} /\ ier' \subseteq {"xmit", "recv"}
    BY ZenonT(60), <2>1, <2>t
  <2>15. Len(thr') <= 1
    BY <2>4
  <2>16. TypeInv'
    BY ZenonT(60), <2>i, <2>1, <2>4, <2>5, <2>b, <2>15 DEF TypeInv
  <2> QED BY ZenonT(60), <2>12, <2>13, <2>14, <2>16 DEF SInv
(* serial_putc with interrupts off: the oldest byte makes room.              *)
<1>PutcOffInv.
    ASSUME WritersCount, Sane, SInv, serial_putc_off
    PROVE  SInv'
  <2> USE <1>PutcOffInv
  <2>i. TypeInv /\ OrderInv /\ WaitInv /\ IerTracksQueues
    BY ZenonT(60) DEF SInv
  <2>t. /\ q \in [{"tx", "in"} -> Queues] /\ q["tx"] \in Queues /\ blocked \subseteq Threads
        /\ line \in Seq(Bytes) /\ thr \in Seq(Bytes) /\ Len(thr) <= 1 /\ accepted \in Seq(Bytes)
    BY ZenonT(60), <2>i DEF TypeInv
  <2>x. /\ q["tx"].not_empty = NoThread /\ q["in"].not_full = NoThread
        /\ q["tx"].not_full # NoThread => intq_full(q["tx"])
        /\ q["in"].not_empty # NoThread => intq_empty(q["in"])
        /\ \A u \in blocked : pc[u] = "wait"
        /\ \A u \in Threads : pc[u] = "wait" <=> q[QueueOf(u)].lock = u
    BY ZenonT(60), <2>i DEF WaitInv, serial_putc_off
  <2>1. PICK r : r = IF intq_full(q["tx"]) THEN intq_got(q["tx"]) ELSE q["tx"]
    BY ZenonT(60)
  <2>2. /\ Running /\ mode = "QUEUE"
        /\ IF intq_full(q["tx"]) THEN putc_poll(<<Oldest(q["tx"])>>) ELSE UNCHANGED <<thr, line>>
        /\ q' = [q EXCEPT !["tx"] = intq_put(r, NextByte)] /\ Wake(q, q')
        /\ accepted' = Append(accepted, NextByte) /\ ier' = write_ier(q')
        /\ UNCHANGED <<mode, inited, rbr, pc, arg, halted, typed, read>>
    BY ZenonT(60), <2>1 DEF serial_putc_off, loc
  <2>3. /\ r \in Queues /\ r.lock = q["tx"].lock /\ r.not_empty = NoThread /\ r.not_full = NoThread
        /\ ~intq_full(r) /\ Contents(r) \in Seq(Bytes)
        /\ line' \in Seq(Bytes) /\ thr' \in Seq(Bytes) /\ Len(thr') <= 1
        /\ (line' \o thr') \o Contents(r) = (line \o thr) \o Contents(q["tx"])
    <3>1. CASE intq_full(q["tx"])
      <4>1. r = intq_got(q["tx"]) /\ ~intq_empty(q["tx"])
        BY ZenonT(60), <3>1, <2>1, <2>t, EmptyFacts
      <4>2. /\ r \in Queues /\ r.lock = q["tx"].lock /\ r.not_empty = q["tx"].not_empty
            /\ r.not_full = NoThread /\ ~intq_full(r) /\ Contents(r) \in Seq(Bytes)
            /\ Oldest(q["tx"]) \in Bytes
            /\ Contents(q["tx"]) = <<Oldest(q["tx"])>> \o Contents(r)
        BY ZenonT(60), <4>1, <2>t, <1>GotFacts
      <4>3. PICK e \in Seq(Bytes) : e = <<Oldest(q["tx"])>> /\ e # <<>>
        BY ZenonT(60), <4>2, ByteSeqs
      <4>4. /\ line' \in Seq(Bytes) /\ thr' \in Seq(Bytes) /\ Len(thr') = 1
            /\ line' \o thr' = (line \o thr) \o e
        BY ZenonT(60), <3>1, <2>2, <2>t, <4>3, <1>PolledOut
      <4>5. line \o thr \in Seq(Bytes)
        BY ZenonT(60), <2>t, ByteSeqs
      <4>6. ((line \o thr) \o e) \o Contents(r) = (line \o thr) \o (e \o Contents(r))
        BY ZenonT(60), <4>2, <4>3, <4>5, ByteSeqs
      <4>7. Len(thr') <= 1
        BY <4>4
      <4> QED BY ZenonT(60), <2>x, <4>2, <4>3, <4>4, <4>6, <4>7
    <3>2. CASE ~intq_full(q["tx"])
      <4>1. r = q["tx"] /\ UNCHANGED <<thr, line>>
        BY ZenonT(60), <3>2, <2>1, <2>2
      <4>2. Contents(r) \in Seq(Bytes)
        BY ZenonT(60), <4>1, <2>t, EmptyFacts
      <4> QED BY ZenonT(60), <3>2, <2>x, <2>t, <4>1, <4>2
    <3> QED BY ZenonT(60), <3>1, <3>2
  <2>4. PICK b \in Bytes : b = NextByte
    BY ZenonT(60), <2>i, <1>NextByteIsByte
  <2>5. PICK s : s = intq_put(r, b)
    BY ZenonT(60)
  <2>6. /\ s \in Queues /\ s.lock = r.lock /\ s.not_full = r.not_full /\ s.not_empty = NoThread
        /\ Contents(s) = Append(Contents(r), b)
    BY ZenonT(60), <2>3, <2>5, <1>PutFacts
  <2>7. /\ q' \in [{"tx", "in"} -> Queues] /\ q'["tx"] = s
        /\ \A m \in {"tx", "in"} : m # "tx" => q'[m] = q[m]
    BY ZenonT(60), <2>t, <2>2, <2>4, <2>5, <2>6, <1>QueueSet
  <2>8. q'["in"] = q["in"]
    BY <2>7
  <2>9. \A m \in {"tx", "in"} : q'[m].lock = q[m].lock
    BY ZenonT(60), <2>3, <2>6, <2>7
  <2>10. \A u \in Threads : pc'[u] = "wait" <=> q'[QueueOf(u)].lock = u
    BY ZenonT(60), <2>x, <2>2, <2>9, <1>SameLocks
  <2>11. WaitInv' /\ blocked' \subseteq blocked
    BY ZenonT(60), <2>i, <2>x, <2>2, <2>3, <2>6, <2>7, <2>8, <2>10, <1>Served
  <2>12. IerTracksQueues' /\ ier' \subseteq {"xmit", "recv"}
    BY ZenonT(60), <2>2, <1>IerWritten
  <2>13. accepted' \in Seq(Bytes)
    BY <2>2, <2>4, <2>t
  <2>14. TypeInv'
    BY ZenonT(60), <2>i, <2>t, <2>2, <2>3, <2>7, <2>11, <2>12, <2>13 DEF TypeInv
  <2>15. accepted' = (line' \o thr') \o Contents(s)
    <3>1. PICK c \in Seq(Bytes) : c = Contents(r)
      BY ZenonT(60), <2>3
    <3>2. PICK l \in Seq(Bytes) : l = line' \o thr'
      BY ZenonT(60), <2>3, ByteSeqs
    <3>3. Append(l \o c, b) = l \o Append(c, b)
      BY ZenonT(60), <3>1, <3>2, <1>AppendLast
    <3>4. accepted = l \o c
      BY ZenonT(60), <2>i, <2>3, <3>1, <3>2 DEF OrderInv, OutputInOrder
    <3> QED BY ZenonT(60), <2>2, <2>4, <2>6, <3>1, <3>2, <3>3, <3>4
  <2>16. OrderInv'
    BY ZenonT(60), <2>i, <2>2, <2>7, <2>8, <2>15 DEF OrderInv, OutputInOrder, InputInOrder
  <2> QED BY ZenonT(60), <2>11, <2>12, <2>14, <2>16 DEF SInv
(* serial_init_queue: QUEUE mode, then the interrupts.                       *)
<1>InitQueueInv.
    ASSUME Sane, SInv, serial_init_queue
    PROVE  SInv'
  <2> USE <1>InitQueueInv
  <2>i. TypeInv /\ OrderInv /\ WaitInv /\ IerTracksQueues
    BY ZenonT(60) DEF SInv
  <2>1. /\ ~inited
        /\ UNCHANGED <<q, thr, rbr, line, pc, arg, blocked, halted, accepted, typed, read>>
    BY ZenonT(60) DEF serial_init_queue, uart, loc
  <2>2. WaitInv'
    BY ZenonT(60), <2>i, <2>1, <1>SameWait
  <2>3. OutputInOrder' /\ InputInOrder'
    BY ZenonT(60), <2>i, <2>1 DEF OrderInv, OutputInOrder, InputInOrder
  <2>4. CASE mode' = "QUEUE" /\ UNCHANGED <<inited, ier>>
    <3>1. TypeInv'
      BY ZenonT(60), <2>i, <2>1, <2>4 DEF TypeInv
    <3>2. OrderInv' /\ IerTracksQueues'
      BY ZenonT(60), <2>1, <2>3, <2>4 DEF OrderInv, IerTracksQueues
    <3> QED BY ZenonT(60), <2>2, <3>1, <3>2 DEF SInv
  <2>5. CASE mode = "QUEUE" /\ inited' = TRUE /\ ier' = write_ier(q) /\ mode' = mode
    <3>1. IerTracksQueues' /\ ier' \subseteq {"xmit", "recv"}
      BY ZenonT(60), <2>1, <2>5, <1>IerWritten
    <3>2. TypeInv'
      BY ZenonT(60), <2>i, <2>1, <2>5, <3>1 DEF TypeInv
    <3>3. OrderInv'
      BY ZenonT(60), <2>3, <2>5 DEF OrderInv
    <3> QED BY ZenonT(60), <2>2, <3>1, <3>2, <3>3 DEF SInv
  <2> QED BY ZenonT(60), <2>4, <2>5 DEF serial_init_queue
(* The UART sends the byte in THR.                                           *)
<1>SendInv.
    ASSUME Sane, SInv, UartSend
    PROVE  SInv'
  <2> USE <1>SendInv
  <2>i. TypeInv /\ OrderInv /\ WaitInv /\ IerTracksQueues
    BY ZenonT(60) DEF SInv
  <2>t. line \in Seq(Bytes) /\ thr \in Seq(Bytes)
    BY ZenonT(60), <2>i DEF TypeInv
  <2>1. /\ line' = line \o thr /\ thr' = <<>>
        /\ UNCHANGED <<mode, inited, q, ier, rbr, pc, arg, blocked, halted, accepted, typed, read>>
    BY ZenonT(60) DEF UartSend, loc
  <2>2. line' \in Seq(Bytes) /\ thr' \in Seq(Bytes) /\ line' \o thr' = line \o thr
    BY ZenonT(60), <2>1, <2>t, ByteSeqs
  <2>3. Len(thr') <= 1
    BY <2>1
  <2>4. TypeInv'
    BY ZenonT(60), <2>i, <2>1, <2>2, <2>3 DEF TypeInv
  <2>5. OrderInv'
    BY ZenonT(60), <2>i, <2>1, <2>2 DEF OrderInv, OutputInOrder, InputInOrder
  <2>6. WaitInv' /\ IerTracksQueues'
    BY ZenonT(60), <2>i, <2>1, <1>SameWait, <1>SameIer
  <2> QED BY ZenonT(60), <2>4, <2>5, <2>6 DEF SInv
(* A byte arrives from the line.                                             *)
<1>ReceiveInv.
    ASSUME Sane, SInv, UartReceive
    PROVE  SInv'
  <2> USE <1>ReceiveInv
  <2>i. TypeInv /\ OrderInv /\ WaitInv /\ IerTracksQueues
    BY ZenonT(60) DEF SInv
  <2>1. /\ rbr' = <<Arriving>>
        /\ UNCHANGED <<mode, inited, q, ier, thr, line, pc, arg, blocked, halted, accepted, typed, read>>
    BY ZenonT(60) DEF UartReceive, loc
  <2>2. Arriving \in Bytes
    BY ZenonT(60), <2>i, <1>ArrivingIsByte
  <2>3. rbr' \in Seq(Bytes) /\ Len(rbr') = 1
    BY ZenonT(60), <2>1, <2>2, ByteSeqs
  <2>a. Len(rbr') <= 1
    BY <2>3
  <2>4. TypeInv'
    BY ZenonT(60), <2>i, <2>1, <2>3, <2>a DEF TypeInv
  <2>5. OrderInv'
    BY ZenonT(60), <2>i, <2>1 DEF OrderInv, OutputInOrder, InputInOrder
  <2>6. WaitInv' /\ IerTracksQueues'
    BY ZenonT(60), <2>i, <2>1, <1>SameWait, <1>SameIer
  <2> QED BY ZenonT(60), <2>4, <2>5, <2>6 DEF SInv
(* input_putc: a byte goes into the input buffer behind the others.          *)
<1>InputFacts.
    ASSUME Sane, TypeInv, OrderInv, ~intq_full(q["in"]), NEW b \in Bytes
    PROVE  /\ intq_put(q["in"], b) \in Queues /\ intq_put(q["in"], b).lock = q["in"].lock
           /\ intq_put(q["in"], b).not_full = q["in"].not_full
           /\ intq_put(q["in"], b).not_empty = NoThread
           /\ Append(typed, b) \in Seq(Bytes)
           /\ Append(typed, b) = read \o Contents(intq_put(q["in"], b))
  <2> USE <1>InputFacts
  <2>1. q["in"] \in Queues /\ typed \in Seq(Bytes) /\ read \in Seq(Bytes)
    BY ZenonT(60) DEF TypeInv
  <2>2. PICK s : s = intq_put(q["in"], b)
    BY ZenonT(60)
  <2>3. /\ s \in Queues /\ s.lock = q["in"].lock /\ s.not_full = q["in"].not_full
        /\ s.not_empty = NoThread
        /\ Contents(q["in"]) \in Seq(Bytes) /\ Contents(s) = Append(Contents(q["in"]), b)
    BY ZenonT(60), <2>1, <2>2, <1>PutFacts
  <2>4. PICK c \in Seq(Bytes) : c = Contents(q["in"])
    BY ZenonT(60), <2>3
  <2>5. Append(read \o c, b) = read \o Append(c, b)
    BY ZenonT(60), <2>1, <2>4, <1>AppendLast
  <2>6. Append(typed, b) = read \o Contents(s)
    BY ZenonT(60), <2>3, <2>4, <2>5 DEF OrderInv, InputInOrder
  <2>7. Append(typed, b) \in Seq(Bytes)
    BY <2>1
  <2> QED BY ZenonT(60), <2>2, <2>3, <2>6, <2>7
(* What the interrupt handlers leave, from the state of the two queues.      *)
<1>HandlerWait.
    ASSUME Sane, TypeInv, WaitInv, Running, Wake(q, q'), UNCHANGED <<pc, halted>>,
           NEW x \in Queues, NEW y \in Queues, q'["tx"] = x, q'["in"] = y,
           x = q["tx"] \/ x.not_full = NoThread, y = q["in"] \/ y.not_empty = NoThread,
           x.lock = q["tx"].lock, x.not_empty = q["tx"].not_empty,
           y.lock = q["in"].lock, y.not_full = q["in"].not_full
    PROVE  WaitInv' /\ blocked' \subseteq blocked
  <2> USE <1>HandlerWait
  <2>x. /\ q["tx"].not_empty = NoThread /\ q["in"].not_full = NoThread
        /\ q["tx"].not_full # NoThread => intq_full(q["tx"])
        /\ q["in"].not_empty # NoThread => intq_empty(q["in"])
        /\ \A u \in blocked : pc[u] = "wait"
        /\ \A u \in Threads : pc[u] = "wait" <=> q[QueueOf(u)].lock = u
    BY ZenonT(60) DEF WaitInv
  <2>1. \A m \in {"tx", "in"} : q'[m].lock = q[m].lock
    BY ZenonT(60)
  <2>2. \A u \in Threads : pc'[u] = "wait" <=> q'[QueueOf(u)].lock = u
    BY ZenonT(60), <2>x, <2>1, <1>SameLocks
  <2>3. q'["tx"].not_full \in {q["tx"].not_full, NoThread} /\ q'["in"].not_empty \in {q["in"].not_empty, NoThread}
    BY ZenonT(60)
  <2>4. /\ q'["tx"].not_full # NoThread => intq_full(q'["tx"])
        /\ q'["in"].not_empty # NoThread => intq_empty(q'["in"])
    BY ZenonT(60), <2>x
  <2>5. q'["tx"].not_empty = NoThread /\ q'["in"].not_full = NoThread
    BY ZenonT(60), <2>x
  <2>6. \A u \in blocked : u \in blocked' => pc'[u] = "wait"
    BY ZenonT(60), <2>x
  <2> QED BY ZenonT(60), <2>2, <2>3, <2>4, <2>5, <2>6, <1>Served
(* The end of keyboard_interrupt.                                            *)
<1>KeyInv.
    ASSUME Sane, SInv, key_pressed
    PROVE  SInv'
  <2> USE <1>KeyInv
  <2>i. TypeInv /\ OrderInv /\ WaitInv /\ IerTracksQueues
    BY ZenonT(60) DEF SInv
  <2>t. /\ q \in [{"tx", "in"} -> Queues] /\ q["tx"] \in Queues /\ blocked \subseteq Threads
        /\ ier \subseteq {"xmit", "recv"}
    BY ZenonT(60), <2>i DEF TypeInv
  <2>1. PICK b \in Bytes : b = Arriving
    BY ZenonT(60), <2>i, <1>ArrivingIsByte
  <2>2. PICK s : s = intq_put(q["in"], b)
    BY ZenonT(60)
  <2>3. /\ Running /\ ~intq_full(q["in"]) /\ q' = [q EXCEPT !["in"] = s]
        /\ typed' = Append(typed, b) /\ Wake(q, q') /\ serial_notify(q')
        /\ UNCHANGED <<mode, inited, thr, rbr, line, pc, arg, halted, accepted, read>>
    BY ZenonT(60), <2>1, <2>2 DEF key_pressed, input_putc, uart, loc
  <2>4. /\ s \in Queues /\ s.lock = q["in"].lock /\ s.not_full = q["in"].not_full
        /\ s.not_empty = NoThread /\ typed' \in Seq(Bytes) /\ typed' = read \o Contents(s)
    BY ZenonT(60), <2>i, <2>2, <2>3, <1>InputFacts
  <2>5. /\ q' \in [{"tx", "in"} -> Queues] /\ q'["in"] = s
        /\ \A m \in {"tx", "in"} : m # "in" => q'[m] = q[m]
    BY ZenonT(60), <2>t, <2>3, <2>4, <1>QueueSet
  <2>6. q'["tx"] = q["tx"]
    BY <2>5
  <2>7. WaitInv' /\ blocked' \subseteq blocked
    BY ZenonT(60), <2>i, <2>t, <2>3, <2>4, <2>5, <2>6, <1>HandlerWait
  <2>8. IerTracksQueues' /\ ier' \subseteq {"xmit", "recv"}
    BY ZenonT(60), <2>i, <2>t, <2>3, <1>Notified DEF OrderInv
  <2>9. TypeInv'
    BY ZenonT(60), <2>i, <2>t, <2>3, <2>4, <2>5, <2>7, <2>8 DEF TypeInv
  <2>10. OrderInv'
    BY ZenonT(60), <2>i, <2>3, <2>4, <2>5, <2>6 DEF OrderInv, OutputInOrder, InputInOrder
  <2> QED BY ZenonT(60), <2>7, <2>8, <2>9, <2>10 DEF SInv
(* serial_interrupt: a byte may come in and a byte may go out.               *)
<1>InterruptInv.
    ASSUME Sane, SInv, serial_interrupt
    PROVE  SInv'
  (* A register that is not empty holds one byte.                              *)
  <2>OneByte.
      ASSUME NEW x \in Seq(Bytes), Len(x) <= 1, x # <<>>
      PROVE  x[1] \in Bytes /\ x = <<x[1]>>
    <3> USE <2>OneByte
    <3>1. Len(x) \in Nat
      BY SMT
    <3>2. Len(x) # 0
      BY SMT
    <3>a. PICK n \in Nat : n = Len(x)
      BY <3>1
    <3>b. n # 0 /\ n <= 1
      BY ZenonT(60), <3>2, <3>a
    <3>3. Len(x) = 1
      BY <3>a, <3>b
    <3>4. x[1] \in Bytes
      BY <3>3 DEF Bytes
    <3> QED BY <3>3, <3>4
  <2> USE <1>InterruptInv
  <2>i. TypeInv /\ OrderInv /\ WaitInv /\ IerTracksQueues
    BY ZenonT(60) DEF SInv
  <2>t. /\ q \in [{"tx", "in"} -> Queues] /\ q["tx"] \in Queues /\ q["in"] \in Queues
        /\ blocked \subseteq Threads /\ rbr \in Seq(Bytes) /\ Len(rbr) <= 1
        /\ thr \in Seq(Bytes) /\ Len(thr) <= 1 /\ line \in Seq(Bytes)
        /\ typed \in Seq(Bytes) /\ read \in Seq(Bytes)
    BY ZenonT(60), <2>i DEF TypeInv
  <2>1. PICK recv \in BOOLEAN : recv <=> (rbr # <<>> /\ ~intq_full(q["in"]))
    BY ZenonT(60)
  <2>2. PICK q1 : q1 = IF recv THEN input_putc(q, rbr[1]) ELSE q
    BY ZenonT(60)
  <2>3. PICK send \in BOOLEAN : send <=> (~intq_empty(q1["tx"]) /\ thr = <<>>)
    BY ZenonT(60)
  <2>4. /\ Running /\ mode = "QUEUE"
        /\ q' = IF send THEN [q1 EXCEPT !["tx"] = intq_got(q1["tx"])] ELSE q1
        /\ rbr' = IF recv THEN <<>> ELSE rbr
        /\ typed' = IF recv THEN typed \o rbr ELSE typed
        /\ thr' = IF send THEN <<Oldest(q1["tx"])>> ELSE thr
        /\ Wake(q, q') /\ ier' = write_ier(q')
        /\ UNCHANGED <<mode, inited, line, pc, arg, halted, accepted, read>>
    BY ZenonT(60), <2>1, <2>2, <2>3 DEF serial_interrupt, loc
  <2>5. PICK y \in Queues : /\ q1 \in [{"tx", "in"} -> Queues] /\ q1["in"] = y /\ q1["tx"] = q["tx"]
                           /\ (y = q["in"] \/ y.not_empty = NoThread)
                           /\ y.lock = q["in"].lock /\ y.not_full = q["in"].not_full
                           /\ typed' = read \o Contents(y) /\ typed' \in Seq(Bytes)
                           /\ rbr' \in Seq(Bytes) /\ Len(rbr') <= 1
    <3>1. CASE recv
      <4>1. rbr # <<>> /\ ~intq_full(q["in"])
        BY ZenonT(60), <3>1, <2>1
      <4>2. PICK b \in Bytes : rbr[1] = b /\ rbr = <<b>>
        BY ZenonT(60), <4>1, <2>t, <2>OneByte
      <4>3. PICK s : s = intq_put(q["in"], b)
        BY ZenonT(60)
      <4>4. /\ s \in Queues /\ s.lock = q["in"].lock /\ s.not_full = q["in"].not_full
            /\ s.not_empty = NoThread /\ Append(typed, b) \in Seq(Bytes)
            /\ Append(typed, b) = read \o Contents(s)
        BY ZenonT(60), <2>i, <4>1, <4>3, <1>InputFacts
      <4>5. q1 = [q EXCEPT !["in"] = s]
        BY ZenonT(60), <3>1, <2>2, <4>2, <4>3 DEF input_putc
      <4>6. q1 \in [{"tx", "in"} -> Queues] /\ q1["in"] = s /\ q1["tx"] = q["tx"]
        <5> HIDE DEF Queues
        <5> QED BY <4>4, <4>5, <2>t
      <4>a. Append(typed, b) = typed \o <<b>>
        BY ZenonT(60), <2>t, ByteSeqs
      <4>7. typed' = Append(typed, b)
        BY ZenonT(60), <3>1, <2>4, <4>2, <4>a
      <4>8. rbr' = <<>>
        BY ZenonT(60), <3>1, <2>4
      <4>9. rbr' \in Seq(Bytes) /\ Len(rbr') <= 1
        BY <4>8
      <4> QED BY ZenonT(60), <4>4, <4>6, <4>7, <4>9
    <3>2. CASE ~recv
      <4>1. q1 = q /\ rbr' = rbr /\ typed' = typed
        BY ZenonT(60), <3>2, <2>2, <2>4
      <4>2. typed' = read \o Contents(q["in"])
        BY ZenonT(60), <2>i, <4>1 DEF OrderInv, InputInOrder
      <4> QED BY ZenonT(60), <2>t, <4>1, <4>2
    <3> QED BY <3>1, <3>2
  <2>6. PICK x \in Queues : /\ q' \in [{"tx", "in"} -> Queues] /\ q'["in"] = y /\ q'["tx"] = x
                           /\ (x = q["tx"] \/ x.not_full = NoThread)
                           /\ x.lock = q["tx"].lock /\ x.not_empty = q["tx"].not_empty
                           /\ (line \o thr') \o Contents(x) = (line \o thr) \o Contents(q["tx"])
                           /\ thr' \in Seq(Bytes) /\ Len(thr') <= 1
    <3>1. CASE send
      <4>1. ~intq_empty(q["tx"]) /\ thr = <<>>
        BY ZenonT(60), <3>1, <2>3, <2>5
      <4>2. PICK s : s = intq_got(q["tx"])
        BY ZenonT(60)
      <4>3. /\ s \in Queues /\ s.lock = q["tx"].lock /\ s.not_empty = q["tx"].not_empty
            /\ s.not_full = NoThread /\ Contents(s) \in Seq(Bytes) /\ Oldest(q["tx"]) \in Bytes
            /\ Contents(q["tx"]) = <<Oldest(q["tx"])>> \o Contents(s)
        BY ZenonT(60), <2>t, <4>1, <4>2, <1>GotFacts
      <4>4. q' = [q1 EXCEPT !["tx"] = s] /\ thr' = <<Oldest(q["tx"])>>
        BY ZenonT(60), <3>1, <2>4, <2>5, <4>2
      <4>5. q' \in [{"tx", "in"} -> Queues] /\ q'["in"] = y /\ q'["tx"] = s
        <5> HIDE DEF Queues
        <5> QED BY <2>5, <4>3, <4>4
      <4>6. thr' \in Seq(Bytes) /\ Len(thr') = 1
        BY ZenonT(60), <4>3, <4>4, ByteSeqs
      <4>7. (line \o thr') \o Contents(s) = line \o (thr' \o Contents(s)) /\ line \o <<>> = line
        <5>1. \A e, c \in Seq(Bytes) : (line \o e) \o c = line \o (e \o c)
          <6> SUFFICES ASSUME NEW e \in Seq(Bytes), NEW c \in Seq(Bytes)
                       PROVE  (line \o e) \o c = line \o (e \o c)
            BY ZenonT(60)
          <6>1. line \in Seq(Bytes)
            BY ZenonT(60), <2>t
          <6> QED BY ZenonT(60), <6>1, ByteSeqs
        <5>2. line \o <<>> = line
          BY ZenonT(60), <2>t, ByteSeqs
        <5> QED BY ZenonT(60), <4>3, <4>6, <5>1, <5>2
      <4>8. (line \o thr') \o Contents(s) = (line \o thr) \o Contents(q["tx"])
        BY ZenonT(60), <4>1, <4>3, <4>4, <4>7
      <4>9. Len(thr') <= 1
        BY <4>6
      <4> QED BY ZenonT(60), <4>3, <4>5, <4>6, <4>8, <4>9
    <3>2. CASE ~send
      <4>1. q' = q1 /\ thr' = thr
        BY ZenonT(60), <3>2, <2>4
      <4> QED BY ZenonT(60), <2>t, <2>5, <4>1
    <3> QED BY ZenonT(60), <3>1, <3>2
  <2>7. WaitInv' /\ blocked' \subseteq blocked
    BY ZenonT(60), <2>i, <2>4, <2>5, <2>6, <1>HandlerWait
  <2>8. IerTracksQueues' /\ ier' \subseteq {"xmit", "recv"}
    BY ZenonT(60), <2>4, <1>IerWritten
  <2>9. TypeInv'
    BY ZenonT(60), <2>i, <2>t, <2>4, <2>5, <2>6, <2>7, <2>8 DEF TypeInv
  <2>10. OrderInv'
    BY ZenonT(60), <2>i, <2>4, <2>5, <2>6 DEF OrderInv, OutputInOrder, InputInOrder
  <2> QED BY ZenonT(60), <2>7, <2>8, <2>9, <2>10 DEF SInv
<1> SUFFICES ASSUME WritersCount, Sane, SInv, [Next]_vars
             PROVE  SInv'
  OBVIOUS
<1>1. ASSUME NEW t \in Writers, serial_putc(t) PROVE SInv'
  BY ZenonT(60), <1>1, <1>PutcInv
<1>2. ASSUME NEW t \in Readers, input_getc(t) PROVE SInv'
  BY ZenonT(60), <1>2, <1>GetcInv
<1>3. ASSUME NEW t \in Threads, ThreadStep(t) PROVE SInv'
  BY ZenonT(60), <1>3, <1>ResumeInv, <1>WaitStepInv DEF ThreadStep
<1>4. CASE serial_putc_poll
  BY ZenonT(60), <1>4, <1>PollInv
<1>5. CASE serial_putc_off
  BY ZenonT(60), <1>5, <1>PutcOffInv
<1>6. CASE serial_init_queue
  BY ZenonT(60), <1>6, <1>InitQueueInv
<1>7. CASE debug_panic
  BY ZenonT(60), <1>7, <1>PanicInv
<1>8. CASE UartSend
  BY ZenonT(60), <1>8, <1>SendInv
<1>9. CASE UartReceive
  BY ZenonT(60), <1>9, <1>ReceiveInv
<1>10. CASE serial_interrupt
  BY ZenonT(60), <1>10, <1>InterruptInv
<1>11. CASE key_pressed
  BY ZenonT(60), <1>11, <1>KeyInv
<1>12. CASE UNCHANGED vars
  <2>1. UNCHANGED <<mode, inited, q, ier, thr, rbr, line, pc, arg, blocked, halted, accepted, typed, read>>
    BY ZenonT(60), <1>12 DEF vars, uart, loc
  <2>2. TypeInv' /\ OrderInv'
    BY ZenonT(60), <2>1 DEF SInv, TypeInv, OrderInv, OutputInOrder, InputInOrder
  <2>3. WaitInv' /\ IerTracksQueues'
    BY ZenonT(60), <2>1, <1>SameWait, <1>SameIer DEF SInv
  <2> QED BY ZenonT(60), <2>2, <2>3 DEF SInv
<1> QED BY ZenonT(60), <1>1, <1>2, <1>3, <1>4, <1>5, <1>6, <1>7, <1>8, <1>9, <1>10, <1>11, <1>12 DEF Next

-----------------------------------------------------------------------------
(***************************************************************************)
(* The interrupts that drive the devices: threads/interrupt.c.             *)
(***************************************************************************)
CONSTANTS MasterLines, SlaveLines, Registered, MaxRaises, MaxGlitches, MaxOff, None
VARIABLES irr, isr_m, isr_s, current, int_on, th, in_external_intr, yield_on_return,
          panic, raised, glitches, offs, served

(* threads/interrupt.c, with the threads of the serial port.                *)
Dispatch == INSTANCE Interrupt

(* What the constants must be: lines are where the PC has them, and line 2  *)
(* of the master is the slave.                                              *)
PicSane == MasterLines \subseteq (0 .. 7) \ {2} /\ SlaveLines \subseteq 8 .. 15

(* What an interrupted thread keeps on its stack.                           *)
Frames == [at : {"code", "entry", "handler", "complete", "yield", "return"},
           vec : (32 .. 47) \cup {None}, saved : BOOLEAN]

(* The values of the variables.                                             *)
DispatchTypeInv ==
    /\ irr \subseteq Dispatch!Lines /\ isr_m \subseteq 0 .. 7 /\ isr_s \subseteq 8 .. 15
    /\ current \in Threads /\ th \in [Threads -> Frames]
    /\ int_on \in BOOLEAN /\ in_external_intr \in BOOLEAN /\ yield_on_return \in BOOLEAN
    /\ panic \in BOOLEAN
    /\ raised \in [Dispatch!Lines -> Nat] /\ served \in [Dispatch!Lines -> Nat]

(* Inside intr_handler: the interrupt is external, and at most one line of   *)
(* each controller is in service, of the slave only when it will be          *)
(* acknowledged; a spurious interrupt has no line of its own in service.     *)
InService ==
    \/ isr_m = {} /\ isr_s = {} /\ th[current].vec = Dispatch!Vector(7)
    \/ isr_m = {Dispatch!Cascade} /\ isr_s = {} /\ th[current].vec = Dispatch!Vector(15)
    \/ \E l \in Dispatch!Lines : /\ th[current].vec = Dispatch!Vector(l) /\ isr_m = {Dispatch!Level(l)}
                                 /\ isr_s = IF l >= 8 THEN {l} ELSE {}

(* in_external_intr says where the running thread is, nobody else is inside *)
(* a handler, and nothing is in service outside handlers.                   *)
ServiceInv ==
    /\ ~panic => (in_external_intr <=> th[current].at \in {"handler", "complete"})
    /\ th[current].at # "code" => ~int_on
    /\ \A t \in Threads \ {current} : th[t].at \in {"code", "return"}
    /\ th[current].at \in {"entry", "handler", "complete"} => InService
    /\ th[current].at \notin {"entry", "handler", "complete"} => isr_m = {} /\ isr_s = {}
    /\ th[current].at = "handler" => Dispatch!HasHandler(th[current].vec)

(* The inductive invariant of interrupt dispatch.                           *)
DispatchInv == DispatchTypeInv /\ ServiceInv /\ Dispatch!RequestsAccounted

-----------------------------------------------------------------------------
(* Sets of numbers have a least member.                                      *)
HaveMinima == \A S \in SUBSET Nat : S # {} => \E x \in S : \A y \in S : x <= y

-----------------------------------------------------------------------------

(* No interrupt at first.                                                    *)
LEMMA DispatchInitInv ==
    ASSUME PicSane, Dispatch!Init
    PROVE  DispatchInv
<1>1. PICK f : f = [at |-> "code", vec |-> None, saved |-> TRUE]
  BY ZenonT(60)
<1>2. f \in Frames /\ f.at = "code"
  BY <1>1 DEF Frames
<1>3. th = [t \in Threads |-> f] /\ current \in Threads
  BY ZenonT(60), <1>1 DEF Dispatch!Init
<1>4. th \in [Threads -> Frames] /\ \A t \in Threads : th[t].at = "code"
  <2> HIDE DEF Frames
  <2> QED BY <1>2, <1>3
<1>5. DispatchTypeInv
  BY ZenonT(60), <1>4 DEF Dispatch!Init, DispatchTypeInv
<1>6. ServiceInv
  BY <1>3, <1>4 DEF Dispatch!Init, ServiceInv
<1>7. Dispatch!RequestsAccounted
  BY <1>4 DEF Dispatch!Init, Dispatch!RequestsAccounted, Dispatch!Unserved
<1> QED BY <1>5, <1>6, <1>7 DEF DispatchInv

(* Every step keeps the invariant.                                           *)
LEMMA DispatchNextInv ==
    HaveMinima /\ PicSane /\ DispatchInv /\ [Dispatch!Next]_Dispatch!vars => DispatchInv'
(* Lines and vectors.                                                        *)
<1>LineFacts.
    ASSUME PicSane, NEW l \in Dispatch!Lines
    PROVE  /\ l \in 0 .. 15 /\ l # 2 /\ Dispatch!Level(l) \in 0 .. 7 /\ (l < 8 => Dispatch!Level(l) = l)
           /\ (l >= 8 => Dispatch!Level(l) = 2) /\ Dispatch!Vector(l) \in 32 .. 47 /\ Dispatch!Vector(l) - 32 = l
           /\ (Dispatch!Vector(l) >= 40 <=> l >= 8)
  BY <1>LineFacts DEF PicSane, Dispatch!Lines, Dispatch!Level, Dispatch!Vector, Dispatch!Cascade
(* Where the current thread stands after its frame is written.               *)
<1>FrameSet.
    ASSUME DispatchTypeInv, NEW f \in Frames, th' = [th EXCEPT ![current] = f]
    PROVE  /\ th' \in [Threads -> Frames] /\ th'[current] = f
           /\ \A t \in Threads \ {current} : th'[t] = th[t]
  <2> USE <1>FrameSet
  <2> HIDE DEF Frames
  <2> QED BY DEF DispatchTypeInv
(* The same when only its place changes.                                     *)
<1>PlaceSet.
    ASSUME DispatchTypeInv, NEW p \in {"code", "entry", "handler", "complete", "yield", "return"},
           th' = [th EXCEPT ![current].at = p]
    PROVE  /\ th' \in [Threads -> Frames] /\ th'[current].at = p /\ th'[current].vec = th[current].vec
           /\ \A t \in Threads \ {current} : th'[t] = th[t]
  <2> USE <1>PlaceSet
  <2>1. PICK g \in Frames : g = th[current]
    BY DEF DispatchTypeInv
  <2>2. PICK f : f = [g EXCEPT !.at = p]
    BY ZenonT(60)
  <2>3. f \in Frames /\ f.at = p /\ f.vec = g.vec
    BY <2>1, <2>2 DEF Frames
  <2>4. th' = [th EXCEPT ![current] = f]
    BY ZenonT(60), <2>1, <2>2
  <2> QED BY ZenonT(60), <2>1, <2>3, <2>4, <1>FrameSet
(* Requests and counters a step leaves alone.                                *)
<1>SameAccount.
    ASSUME Dispatch!RequestsAccounted, UNCHANGED <<irr, raised, served>>,
           \A l \in Dispatch!Lines \cap Registered : Dispatch!Unserved(l)' <=> Dispatch!Unserved(l)
    PROVE  Dispatch!RequestsAccounted'
  BY ZenonT(60), <1>SameAccount DEF Dispatch!RequestsAccounted
(* A device raises its line.                                                 *)
<1>RaiseInv.
    ASSUME PicSane, DispatchInv, NEW l \in Dispatch!Lines, Dispatch!Raise(l)
    PROVE  DispatchInv'
  <2> USE <1>RaiseInv
  <2>i. DispatchTypeInv /\ ServiceInv /\ Dispatch!RequestsAccounted
    BY DEF DispatchInv
  <2>1. /\ l \notin irr /\ irr' = irr \cup {l} /\ raised' = [raised EXCEPT ![l] = raised[l] + 1]
        /\ UNCHANGED <<isr_m, isr_s, current, int_on, th, in_external_intr, yield_on_return, panic, served>>
    BY DEF Dispatch!Raise
  <2>2. DispatchTypeInv'
    BY <2>i, <2>1 DEF DispatchTypeInv
  <2>3. ServiceInv'
    BY ZenonT(60), <2>i, <2>1 DEF ServiceInv, InService
  <2>4. \A k \in Dispatch!Lines : (Dispatch!Unserved(k)' <=> Dispatch!Unserved(k)) /\ raised[k] \in Nat /\ served[k] \in Nat
    BY <2>i, <2>1 DEF Dispatch!Unserved, DispatchTypeInv
  <2>5. \A k \in Dispatch!Lines : raised'[k] = IF k = l THEN raised[k] + 1 ELSE raised[k]
    BY <2>i, <2>1 DEF DispatchTypeInv
  <2>6. Dispatch!RequestsAccounted'
    <3> SUFFICES ASSUME NEW k \in Dispatch!Lines \cap Registered
                 PROVE  raised'[k] = served'[k] + (IF k \in irr' THEN 1 ELSE 0) + (IF Dispatch!Unserved(k)' THEN 1 ELSE 0)
      BY DEF Dispatch!RequestsAccounted
    <3>1. raised[k] = served[k] + (IF k \in irr THEN 1 ELSE 0) + (IF Dispatch!Unserved(k) THEN 1 ELSE 0)
      BY <2>i DEF Dispatch!RequestsAccounted
    <3>2. served'[k] = served[k] /\ (Dispatch!Unserved(k)' <=> Dispatch!Unserved(k)) /\ raised[k] \in Nat /\ served[k] \in Nat
      BY <2>1, <2>4
    <3>3. (k \in irr' <=> k \in irr \/ k = l) /\ (k = l => k \notin irr)
      BY <2>1
    <3>4. raised'[k] = IF k = l THEN raised[k] + 1 ELSE raised[k]
      BY <2>5
    <3> QED BY <3>1, <3>2, <3>3, <3>4
  <2> QED BY <2>2, <2>3, <2>6 DEF DispatchInv
(* The highest request that can be delivered is one.                         *)
<1>HighestIsPending.
    ASSUME HaveMinima, PicSane, DispatchTypeInv, Dispatch!Pending # {}
    PROVE  Dispatch!Highest \in irr /\ Dispatch!Highest \in Dispatch!Lines
  <2> USE <1>HighestIsPending
  <2> DEFINE key(l) == 16 * Dispatch!Level(l) + l
  <2>1. Dispatch!Pending \subseteq Dispatch!Lines /\ Dispatch!Pending \subseteq irr
    BY DEF Dispatch!Pending, DispatchTypeInv
  <2>2. \A l \in Dispatch!Pending : l \in 0 .. 15 /\ Dispatch!Level(l) \in 0 .. 7
    BY <2>1, <1>LineFacts
  <2>3. \E l \in Dispatch!Pending : \A k \in Dispatch!Pending : key(l) <= key(k)
    <3>1. PICK S : S = {key(l) : l \in Dispatch!Pending}
      BY ZenonT(60)
    <3>2. S \subseteq Nat
      BY <2>2, <3>1
    <3>3. S # {}
      BY ZenonT(60), <3>1
    <3>4. PICK x \in S : \A y \in S : x <= y
      BY ZenonT(60), <3>2, <3>3 DEF HaveMinima
    <3> HIDE DEF key
    <3>5. PICK l \in Dispatch!Pending : x = key(l)
      BY ZenonT(60), <3>1
    <3> QED BY ZenonT(60), <3>1, <3>4, <3>5
  <2> QED BY <2>1, <2>3 DEF Dispatch!Highest
(* The processor takes a request.                                            *)
<1>DeliverInv.
    ASSUME HaveMinima, PicSane, DispatchInv, Dispatch!Deliver
    PROVE  DispatchInv'
  <2> USE <1>DeliverInv
  <2>i. DispatchTypeInv /\ ServiceInv /\ Dispatch!RequestsAccounted
    BY DEF DispatchInv
  <2>1. PICK l : l = Dispatch!Highest
    BY ZenonT(60)
  <2>2. /\ Dispatch!At("code") /\ Dispatch!Pending # {} /\ irr' = irr \ {l} /\ isr_m' = isr_m \cup {Dispatch!Level(l)}
        /\ isr_s' = (IF l >= 8 THEN isr_s \cup {l} ELSE isr_s) /\ Dispatch!Enter(Dispatch!Vector(l))
        /\ UNCHANGED <<current, in_external_intr, yield_on_return, panic, raised, served>>
    BY ZenonT(60), <2>1 DEF Dispatch!Deliver, Dispatch!counts
  <2>3. l \in irr /\ l \in Dispatch!Lines
    BY ZenonT(60), <2>i, <2>1, <2>2, <1>HighestIsPending
  <2>4. /\ l \in 0 .. 15 /\ l # 2 /\ Dispatch!Level(l) \in 0 .. 7 /\ (l < 8 => Dispatch!Level(l) = l)
        /\ (l >= 8 => Dispatch!Level(l) = 2) /\ Dispatch!Vector(l) \in 32 .. 47
    BY <2>3, <1>LineFacts
  <2>5. th[current].at = "code" /\ ~panic /\ isr_m = {} /\ isr_s = {} /\ in_external_intr = FALSE
    <3>1. th[current].at = "code" /\ ~panic
      BY ZenonT(60), <2>2 DEF Dispatch!At
    <3> QED BY <2>i, <3>1 DEF ServiceInv, DispatchTypeInv
  <2>6. isr_m' = {Dispatch!Level(l)} /\ isr_s' = IF l >= 8 THEN {l} ELSE {}
    BY ZenonT(60), <2>2, <2>5
  <2>7. PICK f : f = [at |-> "entry", vec |-> Dispatch!Vector(l), saved |-> int_on]
    BY ZenonT(60)
  <2>8. f \in Frames /\ f.at = "entry" /\ f.vec = Dispatch!Vector(l)
    BY <2>i, <2>4, <2>7 DEF Frames, DispatchTypeInv
  <2>9. th' = [th EXCEPT ![current] = f] /\ int_on' = FALSE
    BY ZenonT(60), <2>2, <2>7 DEF Dispatch!Enter
  <2>10. /\ th' \in [Threads -> Frames] /\ th'[current] = f
         /\ \A t \in Threads \ {current} : th'[t] = th[t]
    BY ZenonT(60), <2>i, <2>8, <2>9, <1>FrameSet
  <2>11. isr_m' \subseteq 0 .. 7 /\ isr_s' \subseteq 8 .. 15
    BY <2>4, <2>6
  <2>12. DispatchTypeInv'
    BY ZenonT(60), <2>i, <2>2, <2>9, <2>10, <2>11 DEF DispatchTypeInv
  <2>13. InService'
    <3>1. th'[current'].vec = Dispatch!Vector(l)
      BY ZenonT(60), <2>2, <2>8, <2>10
    <3> QED BY ZenonT(60), <2>3, <2>6, <3>1 DEF InService
  <2>14. th'[current'].at = "entry"
    BY ZenonT(60), <2>2, <2>8, <2>10
  <2>15. \A t \in Threads \ {current'} : th'[t].at \in {"code", "return"}
    BY ZenonT(60), <2>i, <2>2, <2>10 DEF ServiceInv
  <2>16. ServiceInv'
    BY <2>2, <2>5, <2>9, <2>13, <2>14, <2>15 DEF ServiceInv
  <2>17. Dispatch!RequestsAccounted'
    <3> SUFFICES ASSUME NEW k \in Dispatch!Lines \cap Registered
                 PROVE  raised'[k] = served'[k] + (IF k \in irr' THEN 1 ELSE 0) + (IF Dispatch!Unserved(k)' THEN 1 ELSE 0)
      BY ZenonT(60) DEF Dispatch!RequestsAccounted
    <3>1. raised[k] = served[k] + (IF k \in irr THEN 1 ELSE 0) + (IF Dispatch!Unserved(k) THEN 1 ELSE 0)
      BY <2>i DEF Dispatch!RequestsAccounted
    <3>2. ~Dispatch!Unserved(k)
      BY <2>5 DEF Dispatch!Unserved
    <3>3. k \in 0 .. 15 /\ k # 2
      BY <1>LineFacts
    <3>4. Dispatch!Unserved(k)' <=> k \in isr_m' \cup isr_s'
      BY <2>14 DEF Dispatch!Unserved
    <3>5. k \in isr_m' \cup isr_s' <=> k = l
      BY <2>4, <2>6, <3>3
    <3>6. raised'[k] = raised[k] /\ served'[k] = served[k] /\ raised[k] \in Nat /\ served[k] \in Nat
      BY <2>2, <2>i DEF DispatchTypeInv
    <3>7. (k \in irr' <=> k \in irr /\ k # l) /\ (k = l => k \in irr)
      BY <2>2, <2>3
    <3>8. CASE k = l
      BY <3>1, <3>2, <3>4, <3>5, <3>6, <3>7, <3>8
    <3>9. CASE k # l
      BY <3>1, <3>2, <3>4, <3>5, <3>6, <3>7, <3>9
    <3> QED BY ZenonT(60), <3>8, <3>9
  <2> QED BY <2>12, <2>16, <2>17 DEF DispatchInv
(* The controller reports a request that has gone.                           *)
<1>SpuriousInv.
    ASSUME HaveMinima, PicSane, DispatchInv, Dispatch!Spurious
    PROVE  DispatchInv'
  <2> USE <1>SpuriousInv
  <2>i. DispatchTypeInv /\ ServiceInv /\ Dispatch!RequestsAccounted
    BY DEF DispatchInv
  <2>1. PICK l : l = Dispatch!Highest
    BY ZenonT(60)
  <2>v. PICK v : v = IF l >= 8 THEN Dispatch!Vector(15) ELSE Dispatch!Vector(7)
    BY ZenonT(60)
  <2>2. /\ Dispatch!At("code") /\ Dispatch!Pending # {} /\ irr' = irr \ {l}
        /\ isr_m' = (IF l >= 8 THEN isr_m \cup {Dispatch!Cascade} ELSE isr_m) /\ Dispatch!Enter(v)
        /\ served' = [served EXCEPT ![l] = served[l] + 1]
        /\ UNCHANGED <<isr_s, current, in_external_intr, yield_on_return, panic, raised>>
    BY ZenonT(60), <2>1, <2>v DEF Dispatch!Spurious
  <2>3. l \in irr /\ l \in Dispatch!Lines
    BY ZenonT(60), <2>i, <2>1, <2>2, <1>HighestIsPending
  <2>4. v \in 32 .. 47
    BY <2>v DEF Dispatch!Vector
  <2>5. th[current].at = "code" /\ ~panic /\ isr_m = {} /\ isr_s = {} /\ in_external_intr = FALSE
    <3>1. th[current].at = "code" /\ ~panic
      BY <2>2 DEF Dispatch!At
    <3> QED BY <2>i, <3>1 DEF ServiceInv, DispatchTypeInv
  <2>7. PICK f : f = [at |-> "entry", vec |-> v, saved |-> int_on]
    BY ZenonT(60)
  <2>8. f \in Frames /\ f.at = "entry" /\ f.vec = v
    BY <2>i, <2>4, <2>7 DEF Frames, DispatchTypeInv
  <2>9. th' = [th EXCEPT ![current] = f] /\ int_on' = FALSE
    BY ZenonT(60), <2>2, <2>7 DEF Dispatch!Enter
  <2>10. /\ th' \in [Threads -> Frames] /\ th'[current] = f
         /\ \A t \in Threads \ {current} : th'[t] = th[t]
    BY ZenonT(60), <2>i, <2>8, <2>9, <1>FrameSet
  <2>6. /\ isr_s' = {} /\ (l >= 8 => isr_m' = {Dispatch!Cascade} /\ v = Dispatch!Vector(15))
        /\ (~(l >= 8) => isr_m' = {} /\ v = Dispatch!Vector(7))
    BY ZenonT(60), <2>2, <2>5, <2>v
  <2>11. isr_m' \subseteq 0 .. 7 /\ isr_s' \subseteq 8 .. 15
    BY <2>6 DEF Dispatch!Cascade
  <2>a. served' \in [Dispatch!Lines -> Nat] /\ \A k \in Dispatch!Lines : served'[k] = IF k = l THEN served[k] + 1 ELSE served[k]
    BY <2>i, <2>2, <2>3 DEF DispatchTypeInv
  <2>12. DispatchTypeInv'
    BY ZenonT(60), <2>a, <2>i, <2>2, <2>9, <2>10, <2>11 DEF DispatchTypeInv
  <2>13. InService'
    <3>1. th'[current'].vec = v
      BY ZenonT(60), <2>2, <2>8, <2>10
    <3> QED BY ZenonT(60), <2>6, <3>1 DEF InService
  <2>14. th'[current'].at = "entry"
    BY ZenonT(60), <2>2, <2>8, <2>10
  <2>15. \A t \in Threads \ {current'} : th'[t].at \in {"code", "return"}
    BY ZenonT(60), <2>i, <2>2, <2>10 DEF ServiceInv
  <2>16. ServiceInv'
    BY <2>2, <2>5, <2>9, <2>13, <2>14, <2>15 DEF ServiceInv
  <2>17. Dispatch!RequestsAccounted'
    <3> SUFFICES ASSUME NEW k \in Dispatch!Lines \cap Registered
                 PROVE  raised'[k] = served'[k] + (IF k \in irr' THEN 1 ELSE 0) + (IF Dispatch!Unserved(k)' THEN 1 ELSE 0)
      BY ZenonT(60) DEF Dispatch!RequestsAccounted
    <3>1. raised[k] = served[k] + (IF k \in irr THEN 1 ELSE 0) + (IF Dispatch!Unserved(k) THEN 1 ELSE 0)
      BY <2>i DEF Dispatch!RequestsAccounted
    <3>2. ~Dispatch!Unserved(k)
      BY <2>5 DEF Dispatch!Unserved
    <3>3. k \in 0 .. 15 /\ k # 2
      BY <1>LineFacts
    <3>4. ~Dispatch!Unserved(k)'
      BY <2>6, <3>3 DEF Dispatch!Unserved, Dispatch!Cascade
    <3>6. /\ raised'[k] = raised[k] /\ raised[k] \in Nat /\ served[k] \in Nat
          /\ served'[k] = IF k = l THEN served[k] + 1 ELSE served[k]
      BY <2>2, <2>i, <2>a DEF DispatchTypeInv
    <3>7. (k \in irr' <=> k \in irr /\ k # l) /\ (k = l => k \in irr)
      BY <2>2, <2>3
    <3>8. CASE k = l
      BY <3>1, <3>2, <3>4, <3>6, <3>7, <3>8
    <3>9. CASE k # l
      BY <3>1, <3>2, <3>4, <3>6, <3>7, <3>9
    <3> QED BY ZenonT(60), <3>8, <3>9
  <2> QED BY <2>12, <2>16, <2>17 DEF DispatchInv
(* What the two controllers hold when nothing of them changes.               *)
<1>SameService.
    ASSUME UNCHANGED <<isr_m, isr_s, current>>, th'[current].vec = th[current].vec, InService
    PROVE  InService'
  BY ZenonT(60), <1>SameService DEF InService
(* intr_handler up to the call: a handler, a spurious interrupt, or a panic. *)
<1>HandlerEntryInv.
    ASSUME PicSane, DispatchInv, Dispatch!intr_handler
    PROVE  DispatchInv'
  <2> USE <1>HandlerEntryInv
  <2>i. DispatchTypeInv /\ ServiceInv /\ Dispatch!RequestsAccounted
    BY DEF DispatchInv
  <2>1. /\ th[current].at = "entry" /\ ~panic /\ in_external_intr' = TRUE /\ yield_on_return' = FALSE
        /\ UNCHANGED <<irr, isr_m, isr_s, current, int_on, raised, served>>
    BY ZenonT(60) DEF Dispatch!intr_handler, Dispatch!At, Dispatch!pic, Dispatch!counts
  <2>2. InService /\ ~int_on /\ current \in Threads /\ \A t \in Threads \ {current} : th[t].at \in {"code", "return"}
    BY <2>i, <2>1 DEF ServiceInv, DispatchTypeInv
  <2>3. CASE Dispatch!HasHandler(th[current].vec) /\ th' = [th EXCEPT ![current].at = "handler"] /\ panic' = panic
    <3>1. /\ th' \in [Threads -> Frames] /\ th'[current].at = "handler" /\ th'[current].vec = th[current].vec
          /\ \A t \in Threads \ {current} : th'[t] = th[t]
      BY ZenonT(60), <2>i, <2>3, <1>PlaceSet
    <3>2. DispatchTypeInv'
      BY ZenonT(60), <2>i, <2>1, <2>3, <3>1 DEF DispatchTypeInv
    <3>3. InService'
      BY ZenonT(60), <2>1, <2>2, <3>1, <1>SameService
    <3>4. Dispatch!HasHandler(th[current].vec)'
      BY ZenonT(60), <2>1, <2>3, <3>1 DEF Dispatch!HasHandler
    <3>5. \A t \in Threads \ {current'} : th'[t].at \in {"code", "return"}
      BY ZenonT(60), <2>1, <2>2, <3>1
    <3>6. ServiceInv'
      BY ZenonT(60), <2>1, <2>2, <3>1, <3>3, <3>4, <3>5 DEF ServiceInv
    <3>7. \A l \in Dispatch!Lines \cap Registered : Dispatch!Unserved(l)' <=> Dispatch!Unserved(l)
      BY <2>1, <3>1 DEF Dispatch!Unserved
    <3>8. Dispatch!RequestsAccounted'
      BY ZenonT(60), <2>i, <2>1, <3>7, <1>SameAccount
    <3> QED BY <3>2, <3>6, <3>8 DEF DispatchInv
  <2>4. CASE ~Dispatch!HasHandler(th[current].vec) /\ th' = [th EXCEPT ![current].at = "complete"] /\ panic' = panic
    <3>1. /\ th' \in [Threads -> Frames] /\ th'[current].at = "complete" /\ th'[current].vec = th[current].vec
          /\ \A t \in Threads \ {current} : th'[t] = th[t]
      BY ZenonT(60), <2>i, <2>4, <1>PlaceSet
    <3>2. DispatchTypeInv'
      BY ZenonT(60), <2>i, <2>1, <2>4, <3>1 DEF DispatchTypeInv
    <3>3. InService'
      BY ZenonT(60), <2>1, <2>2, <3>1, <1>SameService
    <3>5. \A t \in Threads \ {current'} : th'[t].at \in {"code", "return"}
      BY ZenonT(60), <2>1, <2>2, <3>1
    <3>6. ServiceInv'
      BY <2>1, <2>2, <3>1, <3>3, <3>5 DEF ServiceInv
    <3>7. \A l \in Dispatch!Lines \cap Registered : Dispatch!Unserved(l)' <=> Dispatch!Unserved(l)
      <4> SUFFICES ASSUME NEW l \in Dispatch!Lines, l \in Registered
                   PROVE  l \notin isr_m \cup isr_s
        BY <2>1, <3>1 DEF Dispatch!Unserved
      <4>1. l \in 0 .. 15 /\ l # 2
        BY <1>LineFacts
      <4>2. CASE isr_m = {} \/ isr_m = {Dispatch!Cascade}
        <5>1. CASE isr_s = {}
          BY <4>1, <4>2, <5>1 DEF Dispatch!Cascade
        <5>2. CASE isr_s # {}
          <6>1. PICK k \in Dispatch!Lines : th[current].vec = Dispatch!Vector(k) /\ isr_s = IF k >= 8 THEN {k} ELSE {}
            BY ZenonT(60), <2>2, <5>2 DEF InService
          <6>2. k \notin Registered
            BY <2>4, <6>1, <1>LineFacts DEF Dispatch!HasHandler
          <6> QED BY <4>1, <4>2, <6>1, <6>2 DEF Dispatch!Cascade
        <5> QED BY <5>1, <5>2
      <4>3. CASE isr_m # {} /\ isr_m # {Dispatch!Cascade}
        <5>1. PICK k \in Dispatch!Lines : /\ th[current].vec = Dispatch!Vector(k) /\ isr_m = {Dispatch!Level(k)}
                                /\ isr_s = IF k >= 8 THEN {k} ELSE {}
          BY ZenonT(60), <2>2, <4>3 DEF InService
        <5>2. k \notin Registered
          BY <2>4, <5>1, <1>LineFacts DEF Dispatch!HasHandler
        <5>3. k \in 0 .. 15 /\ k < 8 /\ Dispatch!Level(k) = k
          BY <4>3, <5>1, <1>LineFacts DEF Dispatch!Cascade
        <5> QED BY <5>1, <5>2, <5>3
      <4> QED BY <4>2, <4>3
    <3>8. Dispatch!RequestsAccounted'
      BY ZenonT(60), <2>i, <2>1, <3>7, <1>SameAccount
    <3> QED BY <3>2, <3>6, <3>8 DEF DispatchInv
  <2>5. CASE panic' = TRUE /\ th' = th
    <3>1. DispatchTypeInv'
      BY ZenonT(60), <2>i, <2>1, <2>5 DEF DispatchTypeInv
    <3>2. InService'
      BY ZenonT(60), <2>1, <2>2, <2>5, <1>SameService
    <3>3. \A t \in Threads \ {current'} : th'[t].at \in {"code", "return"}
      BY ZenonT(60), <2>1, <2>2, <2>5
    <3>4. ServiceInv'
      BY <2>1, <2>2, <2>5, <3>2, <3>3 DEF ServiceInv
    <3>5. \A l \in Dispatch!Lines \cap Registered : Dispatch!Unserved(l)' <=> Dispatch!Unserved(l)
      BY ZenonT(60), <2>1, <2>5 DEF Dispatch!Unserved
    <3>6. Dispatch!RequestsAccounted'
      BY ZenonT(60), <2>i, <2>1, <3>5, <1>SameAccount
    <3> QED BY <3>1, <3>4, <3>6 DEF DispatchInv
  <2> QED BY ZenonT(60), <2>3, <2>4, <2>5 DEF Dispatch!intr_handler
(* A device's handler serves the line in service.                            *)
<1>HandlerRunInv.
    ASSUME PicSane, DispatchInv, Dispatch!Handler
    PROVE  DispatchInv'
  <2> USE <1>HandlerRunInv
  <2>i. DispatchTypeInv /\ ServiceInv /\ Dispatch!RequestsAccounted
    BY DEF DispatchInv
  <2>l. PICK l : l = th[current].vec - 32
    BY ZenonT(60)
  <2>1. /\ th[current].at = "handler" /\ ~panic
        /\ served' = (IF l \in isr_s \cup isr_m THEN [served EXCEPT ![l] = served[l] + 1] ELSE served)
        /\ yield_on_return' \in {yield_on_return, TRUE} /\ th' = [th EXCEPT ![current].at = "complete"]
        /\ UNCHANGED <<irr, isr_m, isr_s, current, int_on, in_external_intr, panic, raised>>
    BY ZenonT(60), <2>l DEF Dispatch!Handler, Dispatch!At, Dispatch!pic, Dispatch!counts
  <2>2. /\ InService /\ ~int_on /\ current \in Threads /\ in_external_intr
        /\ \A t \in Threads \ {current} : th[t].at \in {"code", "return"}
    BY <2>i, <2>1 DEF ServiceInv, DispatchTypeInv
  <2>3. /\ th' \in [Threads -> Frames] /\ th'[current].at = "complete" /\ th'[current].vec = th[current].vec
        /\ \A t \in Threads \ {current} : th'[t] = th[t]
    BY ZenonT(60), <2>i, <2>1, <1>PlaceSet
  <2>4. \A k \in Dispatch!Lines : k \in isr_m \cup isr_s <=> k = l /\ l \in isr_s \cup isr_m
    <3> SUFFICES ASSUME NEW k \in Dispatch!Lines, k \in isr_m \cup isr_s PROVE k = l
      BY ZenonT(60)
    <3>1. k \in 0 .. 15 /\ k # 2
      BY <1>LineFacts
    <3>2. PICK j \in Dispatch!Lines : /\ th[current].vec = Dispatch!Vector(j) /\ isr_m = {Dispatch!Level(j)}
                            /\ isr_s = IF j >= 8 THEN {j} ELSE {}
      BY <2>2, <3>1 DEF InService, Dispatch!Cascade
    <3>3. /\ j \in 0 .. 15 /\ (j < 8 => Dispatch!Level(j) = j) /\ (j >= 8 => Dispatch!Level(j) = 2) /\ Dispatch!Vector(j) - 32 = j
      BY <1>LineFacts
    <3> QED BY <2>l, <3>1, <3>2, <3>3
  <2>5. l \in isr_s \cup isr_m => l \in Dispatch!Lines
    <3> SUFFICES ASSUME l \in isr_s \cup isr_m PROVE l \in Dispatch!Lines
      BY ZenonT(60)
    <3>1. CASE isr_m = {} /\ isr_s = {}
      BY <3>1
    <3>2. CASE isr_m = {Dispatch!Cascade} /\ isr_s = {} /\ th[current].vec = Dispatch!Vector(15)
      BY <2>l, <3>2 DEF Dispatch!Cascade, Dispatch!Vector
    <3>3. CASE \E j \in Dispatch!Lines : th[current].vec = Dispatch!Vector(j)
      BY <2>l, <3>3, <1>LineFacts
    <3> QED BY <2>2, <3>1, <3>2, <3>3 DEF InService
  <2>6. /\ served' \in [Dispatch!Lines -> Nat]
        /\ \A k \in Dispatch!Lines : served'[k] = IF k = l /\ l \in isr_s \cup isr_m THEN served[k] + 1 ELSE served[k]
    <3>1. served \in [Dispatch!Lines -> Nat]
      BY <2>i DEF DispatchTypeInv
    <3>2. CASE l \in isr_s \cup isr_m
      BY <2>1, <2>5, <3>1, <3>2
    <3>3. CASE l \notin isr_s \cup isr_m
      BY <2>1, <3>1, <3>3
    <3> QED BY <3>2, <3>3
  <2>7. DispatchTypeInv'
    BY ZenonT(60), <2>i, <2>1, <2>3, <2>6 DEF DispatchTypeInv
  <2>8. InService'
    BY ZenonT(60), <2>1, <2>2, <2>3, <1>SameService
  <2>9. \A t \in Threads \ {current'} : th'[t].at \in {"code", "return"}
    BY ZenonT(60), <2>1, <2>2, <2>3
  <2>10. ServiceInv'
    BY <2>1, <2>2, <2>3, <2>8, <2>9 DEF ServiceInv
  <2>11. Dispatch!RequestsAccounted'
    <3> SUFFICES ASSUME NEW k \in Dispatch!Lines \cap Registered
                 PROVE  raised'[k] = served'[k] + (IF k \in irr' THEN 1 ELSE 0) + (IF Dispatch!Unserved(k)' THEN 1 ELSE 0)
      BY ZenonT(60) DEF Dispatch!RequestsAccounted
    <3>1. raised[k] = served[k] + (IF k \in irr THEN 1 ELSE 0) + (IF Dispatch!Unserved(k) THEN 1 ELSE 0)
      BY <2>i DEF Dispatch!RequestsAccounted
    <3>2. Dispatch!Unserved(k) <=> k = l /\ l \in isr_s \cup isr_m
      BY <2>1, <2>4 DEF Dispatch!Unserved
    <3>3. ~Dispatch!Unserved(k)'
      BY <2>1, <2>3 DEF Dispatch!Unserved
    <3>4. /\ raised'[k] = raised[k] /\ raised[k] \in Nat /\ served[k] \in Nat /\ irr' = irr
          /\ served'[k] = IF k = l /\ l \in isr_s \cup isr_m THEN served[k] + 1 ELSE served[k]
      BY <2>1, <2>6, <2>i DEF DispatchTypeInv
    <3> QED BY <3>1, <3>2, <3>3, <3>4
  <2> QED BY <2>7, <2>10, <2>11 DEF DispatchInv
(* The rest of intr_handler: both controllers are clear again.               *)
<1>CompleteInv.
    ASSUME PicSane, DispatchInv, Dispatch!Complete
    PROVE  DispatchInv'
  (* Nothing to acknowledge clears nothing, and what is in service is cleared. *)
  <2>Acknowledged.
      ASSUME PicSane, DispatchTypeInv, InService, Dispatch!pic_end_of_interrupt(th[current].vec)
      PROVE  isr_m' = {} /\ isr_s' = {}
    (* The one line in service is the highest.                                   *)
    <3>MinOfOne.
        ASSUME NEW k \in Int
        PROVE  Dispatch!Min({k}) = k
      BY DEF Dispatch!Min
    <3> USE <2>Acknowledged
    <3>1. CASE isr_m = {} /\ isr_s = {}
      BY <3>1 DEF Dispatch!pic_end_of_interrupt
    <3>2. CASE isr_m = {Dispatch!Cascade} /\ isr_s = {}
      <4>1. Dispatch!Min({Dispatch!Cascade}) = Dispatch!Cascade
        BY <3>MinOfOne DEF Dispatch!Cascade
      <4> QED BY <3>2, <4>1 DEF Dispatch!pic_end_of_interrupt
    <3>3. ASSUME NEW l \in Dispatch!Lines, th[current].vec = Dispatch!Vector(l), isr_m = {Dispatch!Level(l)},
                 isr_s = IF l >= 8 THEN {l} ELSE {}
          PROVE  isr_m' = {} /\ isr_s' = {}
      <4>1. l \in Int /\ Dispatch!Level(l) \in Int /\ (Dispatch!Vector(l) >= 40 <=> l >= 8)
        BY <1>LineFacts
      <4>2. Dispatch!Min({Dispatch!Level(l)}) = Dispatch!Level(l) /\ Dispatch!Min({l}) = l
        BY <4>1, <3>MinOfOne
      <4>3. isr_m' = {}
        BY <3>3, <4>2 DEF Dispatch!pic_end_of_interrupt
      <4>4. CASE l >= 8
        <5>1. isr_s = {l} /\ th[current].vec >= 40
          BY ZenonT(60), <3>3, <4>1, <4>4
        <5>2. isr_s' = isr_s \ {l}
          BY ZenonT(60), <4>2, <5>1 DEF Dispatch!pic_end_of_interrupt
        <5> QED BY ZenonT(60), <4>3, <5>1, <5>2
      <4>5. CASE ~(l >= 8)
        <5>1. isr_s = {}
          BY <3>3, <4>5
        <5> QED BY <4>3, <5>1 DEF Dispatch!pic_end_of_interrupt
      <4> QED BY <4>3, <4>4, <4>5
    <3> QED BY <3>1, <3>2, <3>3 DEF InService
  <2> USE <1>CompleteInv
  <2>i. DispatchTypeInv /\ ServiceInv /\ Dispatch!RequestsAccounted
    BY DEF DispatchInv
  <2>p. PICK p \in {"yield", "return"} : p = IF yield_on_return THEN "yield" ELSE "return"
    BY ZenonT(60)
  <2>1. /\ th[current].at = "complete" /\ ~panic /\ in_external_intr' = FALSE
        /\ Dispatch!pic_end_of_interrupt(th[current].vec) /\ th' = [th EXCEPT ![current].at = p]
        /\ UNCHANGED <<irr, current, int_on, yield_on_return, panic, raised, served>>
    BY ZenonT(60), <2>p DEF Dispatch!Complete, Dispatch!At, Dispatch!counts
  <2>2. /\ InService /\ ~int_on /\ current \in Threads
        /\ \A t \in Threads \ {current} : th[t].at \in {"code", "return"}
    BY <2>i, <2>1 DEF ServiceInv, DispatchTypeInv
  <2>3. /\ th' \in [Threads -> Frames] /\ th'[current].at = p
        /\ \A t \in Threads \ {current} : th'[t] = th[t]
    <3>1. p \in {"code", "entry", "handler", "complete", "yield", "return"}
      BY <2>p
    <3> QED BY ZenonT(60), <2>i, <2>1, <3>1, <1>PlaceSet
  <2>4. isr_m' = {} /\ isr_s' = {}
    BY ZenonT(60), <2>i, <2>1, <2>2, <2>Acknowledged
  <2>5. DispatchTypeInv'
    BY ZenonT(60), <2>i, <2>1, <2>3, <2>4 DEF DispatchTypeInv
  <2>6. \A t \in Threads \ {current'} : th'[t].at \in {"code", "return"}
    BY ZenonT(60), <2>1, <2>2, <2>3
  <2>7. ServiceInv'
    BY <2>p, <2>1, <2>2, <2>3, <2>4, <2>6 DEF ServiceInv
  <2>8. \A l \in Dispatch!Lines \cap Registered : Dispatch!Unserved(l)' <=> Dispatch!Unserved(l)
    BY <2>1, <2>4 DEF Dispatch!Unserved
  <2>9. Dispatch!RequestsAccounted'
    BY ZenonT(60), <2>i, <2>1, <2>8, <1>SameAccount
  <2> QED BY <2>5, <2>7, <2>9 DEF DispatchInv
(* thread_yield at the end of an interrupt, iretq, and what threads do       *)
(* between interrupts.                                                       *)
<1>ThreadInv.
    ASSUME PicSane, DispatchInv, Dispatch!Yield \/ Dispatch!Return \/ Dispatch!intr_disable \/ Dispatch!intr_enable \/ Dispatch!thread_yield
    PROVE  DispatchInv'
  (* Steps outside handlers: nothing is in service before or after them.       *)
  <2>OutsideInv.
      ASSUME PicSane, DispatchInv, ~panic, th[current].at \in {"code", "yield", "return"},
             UNCHANGED <<irr, isr_m, isr_s, in_external_intr, yield_on_return, panic, raised, served>>,
             current' \in Threads, int_on' \in BOOLEAN, th' \in [Threads -> Frames],
             th'[current].at \in {"code", "return"},
             \A t \in Threads \ {current} : th'[t] = th[t],
             th'[current'].at # "code" => ~int_on'
      PROVE  DispatchInv'
    <3> USE <2>OutsideInv
    <3>i. DispatchTypeInv /\ ServiceInv /\ Dispatch!RequestsAccounted
      BY DEF DispatchInv
    <3>1. /\ isr_m = {} /\ isr_s = {} /\ ~in_external_intr /\ current \in Threads
          /\ \A t \in Threads \ {current} : th[t].at \in {"code", "return"}
      BY <3>i DEF ServiceInv, DispatchTypeInv
    <3>2. DispatchTypeInv'
      BY ZenonT(60), <3>i DEF DispatchTypeInv
    <3>3. \A t \in Threads : th'[t].at \in {"code", "return"}
      BY ZenonT(60), <3>1
    <3>4. th'[current'].at \in {"code", "return"}
      BY ZenonT(60), <3>3
    <3>5. ServiceInv'
      BY ZenonT(60), <3>1, <3>3, <3>4 DEF ServiceInv
    <3>6. \A l \in Dispatch!Lines \cap Registered : Dispatch!Unserved(l)' <=> Dispatch!Unserved(l)
      BY ZenonT(60), <3>1 DEF Dispatch!Unserved
    <3>7. Dispatch!RequestsAccounted'
      BY ZenonT(60), <3>i, <3>6, <1>SameAccount
    <3> QED BY <3>2, <3>5, <3>7 DEF DispatchInv
  <2> USE <1>ThreadInv
  <2>i. DispatchTypeInv /\ ServiceInv
    BY DEF DispatchInv
  <2>t. /\ current \in Threads /\ int_on \in BOOLEAN /\ th \in [Threads -> Frames]
        /\ th[current] \in Frames /\ th[current].saved \in BOOLEAN
        /\ \A t \in Threads \ {current} : th[t].at \in {"code", "return"}
    BY <2>i DEF DispatchTypeInv, ServiceInv, Frames
  <2>1. CASE Dispatch!Yield
    <3>1. /\ ~panic /\ th[current].at = "yield" /\ th' = [th EXCEPT ![current].at = "return"]
          /\ current' \in Threads
          /\ UNCHANGED <<irr, isr_m, isr_s, int_on, in_external_intr, yield_on_return, panic, raised, served>>
      BY ZenonT(60), <2>1 DEF Dispatch!Yield, Dispatch!At, Dispatch!pic, Dispatch!counts
    <3>2. /\ th' \in [Threads -> Frames] /\ th'[current].at = "return"
          /\ \A t \in Threads \ {current} : th'[t] = th[t]
      BY ZenonT(60), <2>i, <3>1, <1>PlaceSet
    <3>3. ~int_on
      BY <2>i, <3>1 DEF ServiceInv
    <3> QED BY <2>t, <3>1, <3>2, <3>3, <2>OutsideInv
  <2>2. CASE Dispatch!Return
    <3>1. PICK f : f = [at |-> "code", vec |-> None, saved |-> TRUE]
      BY ZenonT(60)
    <3>2. f \in Frames /\ f.at = "code"
      BY <3>1 DEF Frames
    <3>3. /\ ~panic /\ th[current].at = "return" /\ th' = [th EXCEPT ![current] = f]
          /\ int_on' = th[current].saved
          /\ UNCHANGED <<irr, isr_m, isr_s, current, in_external_intr, yield_on_return, panic, raised, served>>
      BY ZenonT(60), <2>2, <3>1 DEF Dispatch!Return, Dispatch!At, Dispatch!pic, Dispatch!counts
    <3>4. /\ th' \in [Threads -> Frames] /\ th'[current] = f
          /\ \A t \in Threads \ {current} : th'[t] = th[t]
      BY ZenonT(60), <2>i, <3>2, <3>3, <1>FrameSet
    <3> QED BY ZenonT(60), <2>t, <3>2, <3>3, <3>4, <2>OutsideInv
  <2>3. CASE Dispatch!intr_disable \/ Dispatch!intr_enable
    <3>1. /\ ~panic /\ th[current].at = "code" /\ th' = th /\ int_on' \in BOOLEAN
          /\ UNCHANGED <<irr, isr_m, isr_s, current, in_external_intr, yield_on_return, panic, raised, served>>
      BY ZenonT(60), <2>3 DEF Dispatch!intr_disable, Dispatch!intr_enable, Dispatch!At, Dispatch!pic, Dispatch!counts
    <3> QED BY <2>t, <3>1, <2>OutsideInv
  <2>4. CASE Dispatch!thread_yield
    <3>1. PICK f : f = [at |-> "return", vec |-> None, saved |-> int_on]
      BY ZenonT(60)
    <3>2. f \in Frames /\ f.at = "return"
      BY <2>t, <3>1 DEF Frames
    <3>3. /\ ~panic /\ th[current].at = "code" /\ th' = [th EXCEPT ![current] = f]
          /\ int_on' = FALSE /\ current' \in Threads
          /\ UNCHANGED <<irr, isr_m, isr_s, in_external_intr, yield_on_return, panic, raised, served>>
      BY ZenonT(60), <2>4, <3>1 DEF Dispatch!thread_yield, Dispatch!At, Dispatch!pic
    <3>4. /\ th' \in [Threads -> Frames] /\ th'[current] = f
          /\ \A t \in Threads \ {current} : th'[t] = th[t]
      BY ZenonT(60), <2>i, <3>2, <3>3, <1>FrameSet
    <3> QED BY ZenonT(60), <2>t, <3>2, <3>3, <3>4, <2>OutsideInv
  <2> QED BY <2>1, <2>2, <2>3, <2>4
<1> SUFFICES ASSUME HaveMinima, PicSane, DispatchInv, [Dispatch!Next]_Dispatch!vars
             PROVE  DispatchInv'
  OBVIOUS
<1>1. ASSUME NEW l \in Dispatch!Lines, Dispatch!Raise(l) PROVE DispatchInv'
  BY <1>1, <1>RaiseInv
<1>2. CASE UNCHANGED Dispatch!vars
  <2>1. UNCHANGED <<irr, isr_m, isr_s, current, int_on, th, in_external_intr, yield_on_return,
                    panic, raised, served>>
    BY <1>2 DEF Dispatch!vars
  <2> QED BY ZenonT(60), <2>1 DEF DispatchInv, DispatchTypeInv, ServiceInv, InService, Dispatch!RequestsAccounted, Dispatch!Unserved
<1> QED BY ZenonT(60), <1>1, <1>2, <1>DeliverInv, <1>SpuriousInv, <1>HandlerEntryInv, <1>HandlerRunInv, <1>CompleteInv,
           <1>ThreadInv DEF Dispatch!Next

-----------------------------------------------------------------------------
(* The theorems, and what they take from the libraries: finite sets can be  *)
(* counted, and the order of the numbers is well founded.                   *)
INSTANCE FiniteSetTheorems
INSTANCE WellFoundedInduction

(* The threads that print are finitely many.                                 *)
LEMMA WritersAreFinite ==
    ASSUME Sane
    PROVE  WritersCount
<1> SUFFICES ASSUME NEW P \in SUBSET Writers PROVE Cardinality(P) \in Nat
  BY DEF WritersCount
<1>1. IsFiniteSet(P)
  BY FS_Subset DEF Sane
<1> QED BY <1>1, FS_CardinalityType

(* Sets of numbers have a least member.                                      *)
LEMMA Minima == HaveMinima
<1> SUFFICES ASSUME NEW S \in SUBSET Nat, S # {}
             PROVE  \E x \in S : \A y \in S : x <= y
  BY ZenonT(60) DEF HaveMinima
<1> DEFINE R == {p \in Nat \X Nat : p[1] < p[2]}
<1>1. OpToRel(<, Nat) = R
  BY DEF OpToRel
<1>2. IsWellFoundedOn(R, Nat)
  BY ZenonT(60), <1>1, NatLessThanWellFounded
<1>3. PICK x \in S : \A y \in S : ~ (<<y, x>> \in R)
  <2> HIDE DEF R
  <2> QED BY ZenonT(60), <1>2, WFMin
<1>4. ASSUME NEW y \in S PROVE x <= y
  <2>1. ~ (y < x)
    BY ZenonT(60), <1>3
  <2> QED BY <2>1
<1> QED BY ZenonT(60), <1>4

(* The invariant of the port and the input buffer, and TypeOK with it.       *)
THEOREM PortIsConsistent ==
    ASSUME Sane
    PROVE  Spec => [](SInv /\ TypeOK)
<1>1. Init => SInv
  BY InitInv
<1>2. SInv /\ [Next]_vars => SInv'
  BY NextInv, WritersAreFinite
<1>3. SInv => TypeOK
  <2> SUFFICES ASSUME SInv PROVE TypeOK
    BY ZenonT(60)
  <2>1. TypeInv
    BY ZenonT(60) DEF SInv
  <2>2. \A n \in {"tx", "in"} : q[n].head \in Places /\ q[n].tail \in Places
    BY <2>1 DEF TypeInv, Queues
  <2> QED BY ZenonT(60), <2>1, <2>2 DEF TypeOK, TypeInv, Places
<1> QED BY <1>1, <1>2, <1>3, PTL DEF Spec

(* serial_putc: bytes accepted from threads, interrupt handlers and the      *)
(* polled path are sent, in THR or queued, once each and in that order.      *)
THEOREM OutputStaysInOrder ==
    ASSUME Sane
    PROVE  Spec => []OutputInOrder
<1>1. SInv => OutputInOrder
  BY ZenonT(60) DEF SInv, OrderInv
<1> QED BY <1>1, PortIsConsistent, PTL

(* input_putc and input_getc: what is read and what is buffered is what was  *)
(* put in, in that order.                                                    *)
THEOREM InputStaysInOrder ==
    ASSUME Sane
    PROVE  Spec => []InputInOrder
<1>1. SInv => InputInOrder
  BY ZenonT(60) DEF SInv, OrderInv
<1> QED BY <1>1, PortIsConsistent, PTL

(* write_ier: the interrupts enabled are those the queues call for.          *)
THEOREM IerAlwaysTracksQueues ==
    ASSUME Sane
    PROVE  Spec => []IerTracksQueues
<1>1. SInv => IerTracksQueues
  BY ZenonT(60) DEF SInv
<1> QED BY <1>1, PortIsConsistent, PTL

(* wait and signal: who sleeps in wait() is known to the queue and has       *)
(* reason to sleep.                                                          *)
THEOREM WaitersAreKnown ==
    ASSUME Sane
    PROVE  Spec => []WaiterIsKnown
<1>1. SInv => WaiterIsKnown
  <2> SUFFICES ASSUME SInv, Running, NEW t \in Threads
               PROVE  /\ t \in blocked =>
                            /\ MustWait(t)
                            /\ t \in {q[QueueOf(t)].not_full, q[QueueOf(t)].not_empty}
                      /\ pc[t] = "wait" => q[QueueOf(t)].lock = t
                      /\ q[QueueOf(t)].lock = t => pc[t] = "wait"
    BY ZenonT(60) DEF WaiterIsKnown
  <2>1. /\ \A u \in Writers : u \in blocked <=> q["tx"].not_full = u
        /\ \A u \in Readers : u \in blocked <=> q["in"].not_empty = u
        /\ q["tx"].not_full # NoThread => intq_full(q["tx"])
        /\ q["in"].not_empty # NoThread => intq_empty(q["in"])
        /\ pc[t] = "wait" <=> q[QueueOf(t)].lock = t
    BY ZenonT(60) DEF SInv, WaitInv
  <2>2. t # NoThread
    BY ZenonT(60) DEF Sane
  <2>3. CASE t \in Writers
    BY ZenonT(60), <2>1, <2>2, <2>3 DEF MustWait, QueueOf
  <2>4. CASE t \in Readers /\ t \notin Writers
    BY ZenonT(60), <2>1, <2>2, <2>4 DEF MustWait, QueueOf
  <2> QED BY ZenonT(60), <2>3, <2>4 DEF Threads
<1> QED BY <1>1, PortIsConsistent, PTL

(* The inductive invariant of interrupt dispatch.                            *)
THEOREM DispatchIsConsistent ==
    ASSUME PicSane
    PROVE  Dispatch!Spec => []DispatchInv
<1>1. Dispatch!Init => DispatchInv
  BY DispatchInitInv
<1>2. DispatchInv /\ [Dispatch!Next]_Dispatch!vars => DispatchInv'
  BY DispatchNextInv, Minima
<1> QED BY <1>1, <1>2, PTL DEF Dispatch!Spec

(* intr_handler and intr_context: external interrupts do not nest, and no    *)
(* thread is switched out inside a handler.                                  *)
THEOREM HandlersNeverNest ==
    ASSUME PicSane
    PROVE  Dispatch!Spec => []Dispatch!OneExternalAtATime
<1>1. DispatchInv => Dispatch!OneExternalAtATime
  BY DEF DispatchInv, ServiceInv, Dispatch!OneExternalAtATime
<1> QED BY <1>1, DispatchIsConsistent, PTL

(* pic_end_of_interrupt: nothing stays in service behind a handler.          *)
THEOREM HandlersAcknowledge ==
    ASSUME PicSane
    PROVE  Dispatch!Spec => []Dispatch!AcknowledgesWhatItServes
<1>1. DispatchInv => Dispatch!AcknowledgesWhatItServes
  <2> SUFFICES ASSUME DispatchInv PROVE Dispatch!AcknowledgesWhatItServes
    BY ZenonT(60)
  <2>1. (isr_m = {} \/ \E k : isr_m = {k}) /\ (isr_s = {} \/ \E k : isr_s = {k})
    <3>1. CASE th[current].at \in {"entry", "handler", "complete"}
      BY ZenonT(60), <3>1 DEF DispatchInv, ServiceInv, InService
    <3>2. CASE th[current].at \notin {"entry", "handler", "complete"}
      BY ZenonT(60), <3>2 DEF DispatchInv, ServiceInv
    <3> QED BY <3>1, <3>2
  <2>2. Cardinality({}) = 0 /\ \A k : Cardinality({k}) = 1
    BY ZenonT(60), FS_EmptySet, FS_Singleton
  <2>a. (Cardinality(isr_m) = 0 \/ Cardinality(isr_m) = 1) /\ (Cardinality(isr_s) = 0 \/ Cardinality(isr_s) = 1)
    BY ZenonT(60), <2>1, <2>2
  <2>3. Cardinality(isr_m) <= 1
    BY <2>a
  <2>4. Cardinality(isr_s) <= 1
    BY <2>a
  <2>5. Dispatch!Cardinality(isr_m) = Cardinality(isr_m) /\ Dispatch!Cardinality(isr_s) = Cardinality(isr_s)
    BY ZenonT(60) DEF Cardinality, Dispatch!Cardinality
  <2>6. Dispatch!Cardinality(isr_m) <= 1 /\ Dispatch!Cardinality(isr_s) <= 1
    BY ZenonT(60), <2>3, <2>4, <2>5
  <2> QED BY ZenonT(60), <2>6 DEF Dispatch!AcknowledgesWhatItServes, DispatchInv, ServiceInv
<1> QED BY <1>1, DispatchIsConsistent, PTL

(* intr_handler: no request of a line with a handler is lost or served twice. *)
THEOREM RequestsAreAccounted ==
    ASSUME PicSane
    PROVE  Dispatch!Spec => []Dispatch!RequestsAccounted
<1>1. DispatchInv => Dispatch!RequestsAccounted
  BY DEF DispatchInv
<1> QED BY <1>1, DispatchIsConsistent, PTL
=============================================================================
