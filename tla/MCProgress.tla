----------------------------- MODULE MCProgress ------------------------------
(***************************************************************************)
(* Parts of the kernel of which something must eventually happen, on small *)
(* instances and under fairness: the command line and the end of the kernel,*)
(* the calibration of delays, the serial port, interrupt dispatch, and the *)
(* console after a panic.  They are checked one at a time: unit says which,*)
(* and x1, x2, ... are that unit's variables, renamed by the INSTANCE.     *)
(***************************************************************************)
EXTENDS Integers, Sequences

CONSTANTS w1, w2, NoThread, NoByte, Off

VARIABLES unit, x1, x2, x3, x4, x5, x6, x7, x8, x9, x10, x11, x12, x13, x14

vars == <<unit, x1, x2, x3, x4, x5, x6, x7, x8, x9, x10, x11, x12, x13, x14>>
From7 == <<x7, x8, x9, x10, x11, x12, x13, x14>>
From9 == <<x9, x10, x11, x12, x13, x14>>
From14 == <<x14>>
Off14 == x14 = Off
Off9 == x9 = Off /\ x10 = Off /\ x11 = Off /\ x12 = Off /\ x13 = Off /\ Off14
Off7 == x7 = Off /\ x8 = Off /\ Off9

-----------------------------------------------------------------------------
(* A printing and a reading thread on queues of two bytes.                 *)
Port == INSTANCE Serial WITH
    INTQ_BUFSIZE <- 3, Writers <- {w1}, Readers <- {w2}, MaxOut <- 4, MaxIn <- 2, mode <- x1,
    inited <- x2, q <- x3, ier <- x4, thr <- x5, rbr <- x6, pc <- x7, arg <- x8, blocked <- x9,
    halted <- x10, accepted <- x11, line <- x12, typed <- x13, read <- x14

(* Two threads; two lines on each controller, one of them without handler. *)
Dispatch == INSTANCE Interrupt WITH
    Threads <- {w1, w2}, MasterLines <- {0, 7}, SlaveLines <- {14, 15}, Registered <- {0, 14, 15},
    MaxRaises <- 1, MaxGlitches <- 1, MaxOff <- 1, None <- Off, irr <- x1, isr_m <- x2, isr_s <- x3,
    current <- x4, int_on <- x5, th <- x6, in_external_intr <- x7, yield_on_return <- x8,
    panic <- x9, raised <- x10, glitches <- x11, offs <- x12, served <- x13

(* Two threads that print, at most two calls inside one another.           *)
Output == INSTANCE Console WITH
    Threads <- {w1, w2}, MaxLen <- 1, MaxDepth <- 2, MaxWritten <- 4, use_console_lock <- x1,
    console_lock_depth <- x2, write_cnt <- x3, value <- x4, holder <- x5, calls <- x6,
    panicked <- x7, mixed <- x8

(* Command lines of up to four words: on a kernel with file system, where  *)
(* a thread may panic, ...                                                 *)
Disked == INSTANCE Boot WITH
    Words <- {"-h", "-q", "-f", "-rs", "-rs=1", "-z", "run", "ls", "x"}, MaxWords <- 4,
    FILESYS <- TRUE, Contexts <- {"thread"}, cmd <- x1, argv <- x2, pc <- x3, opts <- x4, ran <- x5,
    mounted <- x6, level <- x7, context <- x8

(* ... and on one without, where a panic may also hit in an interrupt or    *)
(* under a lock.                                                            *)
Diskless == INSTANCE Boot WITH
    Words <- {"-h", "-q", "-f", "-mlfqs", "run", "ls", "x"}, MaxWords <- 4, FILESYS <- FALSE,
    Contexts <- {"thread", "interrupt", "locked"}, cmd <- x1, argv <- x2, pc <- x3, opts <- x4,
    ran <- x5, mounted <- x6, level <- x7, context <- x8

(* A 13-bit unsigned; rates across three doublings and at the top bit.     *)
Delay == INSTANCE Calibrate WITH

    Rates <- (900 .. 1100) \cup (1500 .. 1560) \cup (2020 .. 2120) \cup (3900 .. 4200) \cup {5000, 8191, 9000},
    Unsigned <- 8192, Freq <- 100,
    Sleeps <- {<<1, 1000>>, <<9, 1000>>, <<10, 1000>>, <<25, 1000>>, <<1, 10 ^ 6>>, <<999, 10 ^ 6>>, <<19999, 10 ^ 6>>, <<0, 1000>>},
    rate <- x1, pc <- x2, loops_per_tick <- x3, high_bit <- x4, test_bit <- x5, sleep <- x6

-----------------------------------------------------------------------------
Init ==
    \/ unit = "serial" /\ Port!Init
    \/ unit = "interrupt" /\ Dispatch!Init /\ Off14
    \/ unit = "console" /\ Output!Init /\ Off9
    \/ unit = "filesys" /\ Disked!Init /\ Off9
    \/ unit = "threads" /\ Diskless!Init /\ Off9
    \/ unit = "calibrate" /\ Delay!Init /\ Off7

UnitStep ==
    \/ unit = "serial" /\ Port!Next
    \/ unit = "interrupt" /\ Dispatch!Next /\ UNCHANGED From14
    \/ unit = "console" /\ Output!Next /\ UNCHANGED From9
    \/ unit = "filesys" /\ Disked!Next /\ UNCHANGED From9
    \/ unit = "threads" /\ Diskless!Next /\ UNCHANGED From9
    \/ unit = "calibrate" /\ Delay!Next /\ UNCHANGED From7

Next == UnitStep /\ UNCHANGED unit

Spec == Init /\ [][Next]_vars

(* The UART sends, a pending interrupt is delivered, a processor goes on    *)
(* executing instructions, and so does a thread that can run.               *)
FairSpec ==
    /\ Spec
    /\ WF_vars(unit = "serial" /\ Port!UartSend /\ UNCHANGED unit)
    /\ WF_vars(unit = "serial" /\ Port!serial_interrupt /\ UNCHANGED unit)
    /\ WF_vars(unit = "serial" /\ Port!serial_init_queue /\ UNCHANGED unit)
    /\ WF_vars(unit = "interrupt" /\ Dispatch!Processor /\ UNCHANGED <<unit, From14>>)
    /\ \A t \in {w1, w2} :
         /\ WF_vars(unit = "serial" /\ Port!ThreadStep(t) /\ UNCHANGED unit)
         /\ WF_vars(unit = "console" /\ Output!Step(t) /\ UNCHANGED <<unit, From9>>)
    /\ WF_vars(unit = "filesys" /\ Disked!Step /\ UNCHANGED <<unit, From9>>)
    /\ WF_vars(unit = "threads" /\ Diskless!Step /\ UNCHANGED <<unit, From9>>)
    /\ WF_vars(unit = "calibrate" /\ (Delay!Double \/ Delay!Refine) /\ UNCHANGED <<unit, From7>>)

-----------------------------------------------------------------------------
(* The kernel's command line: options are read up to the first word that is  *)
(* none, the actions behind them are carried out in order, each with its     *)
(* arguments, and nothing else is; the machine is powered off only if -q or  *)
(* -h asks for it.                                                           *)
CommandLineObeyed ==
    /\ unit = "filesys" => Disked!ActionsAsSpecified /\ Disked!OffIfAsked
    /\ unit = "threads" => Diskless!ActionsAsSpecified /\ Diskless!OffIfAsked


(* timer_calibrate ends, near the rate of the CPU, and fails its assertion   *)
(* only at the top bit; sleeps are rounded down, by less than a tick or by a *)
(* few loops.                                                                *)
DelaysCalibrated ==
    /\ [](unit = "calibrate" => Delay!CalibrationNear /\ Delay!SleepRoundsDown)
    /\ <>(unit = "calibrate" => Delay!CalibrationOver)

(* Every byte serial_putc accepted reaches the line, also across a panic,    *)
(* and a thread blocked in intq_putc or intq_getc returns when it can.       *)
SerialProgress ==
    /\ \A n \in 1 .. 4 : (unit = "serial" /\ Port!IsAccepted(n)) ~> (unit = "serial" => Port!IsSent(n))
    /\ \A t \in {w1, w2} :
         (unit = "serial" /\ Port!MayReturn(t)) ~> (unit = "serial" => Port!HasReturned(t))

(* intr_handler: every request of a line with a handler is served.           *)
EveryRequestServed ==
    \A l \in {0, 14, 15} :
       (unit = "interrupt" /\ Dispatch!Requested(l)) ~> (unit = "interrupt" => Dispatch!AllServed(l))

(* After a panic the message gets out, whatever state the console lock is in *)
(* (console_panic, acquire_console).                                         *)
PanicPrints ==
    \A t \in {w1, w2} : (unit = "console" /\ Output!HasMessage(t)) ~> (unit = "console" => Output!MessageOut(t))
=============================================================================
