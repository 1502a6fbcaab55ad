-------------------------------- MODULE Disk --------------------------------
(***************************************************************************)
(* devices/disk.c: one ATA channel with two devices, the threads that read *)
(* and write sectors, the completion interrupt, and detection at boot.     *)
(* The two channels share nothing, so one stands for both.  Data is one    *)
(* value per sector.  The controller is external: it is modelled from the  *)
(* registers the driver touches (BSY, DRQ, the interrupt line).  A disk    *)
(* that is not faulty leaves BSY before wait_until_idle gives up.          *)
(***************************************************************************)
EXTENDS Integers, Sequences, FiniteSets

CONSTANTS
    Threads, NoThread,
    Sectors, Values, Nothing,
    Hardware,       \* what may be plugged in as device 0 and device 1
    MaxSpurious     \* bound on interrupts that no command caused

Dev == {0, 1}

(* external: an ATA disk, one that may answer a command without DRQ or be     *)
(* busy for 30 seconds, an ATAPI device, or an empty slot.                    *)
Plugged == {"ata", "faulty", "atapi", "none"}
ASSUME DiskAssumption ==
    /\ NoThread \notin Threads
    /\ Hardware \subseteq Plugged /\ MaxSpurious \in Nat
    /\ IsFiniteSet(Sectors) /\ Sectors # {}

VARIABLES
    hw, is_ata, capacity,          \* struct disk; what is really plugged in
    boot,                          \* where disk_init is
    holder, expecting_interrupt,   \* struct channel
    completion_wait,
    st, sel, lba, media,           \* controller: state, device, <<sector, datum>>, disks
    irq, spurious,                 \* an interrupt is pending; how many were
    pc, op,                        \* threads: control point and call
    halted                         \* PANIC

hardware == <<hw, st, sel, lba, media, irq>>
chan == <<holder, expecting_interrupt, completion_wait>>
ident == <<is_ata, capacity, boot>>
vars == <<hardware, chan, ident, spurious, pc, op, halted>>

Op(kind, d, s, val) == [op |-> kind, slot |-> <<d, s>>, val |-> val]

Init ==
    /\ hw \in {h \in [Dev -> Hardware] : h[0] = "none" => h[1] = "none"}
    /\ is_ata = [d \in Dev |-> FALSE] /\ capacity = [d \in Dev |-> 0]
    /\ boot = <<"reset", 0>>
    /\ holder = NoThread /\ expecting_interrupt = FALSE /\ completion_wait = 0
    /\ st \in {"idle", "rdata"} /\ sel = 0 /\ lba = <<0, Nothing>>
    /\ media \in {[s \in Dev \X Sectors |-> v] : v \in Values}
    /\ irq = FALSE /\ spurious = 0
    /\ pc = [t \in Threads |-> "run"] /\ op = [t \in Threads |-> Nothing]
    /\ halted = FALSE

BSY == st \in {"read", "identify", "wcmd", "write"}
DRQ == st \in {"rdata", "wdata"}

-----------------------------------------------------------------------------
(* external: the controller works on a command; on completion of a read or   *)
(* a write it asserts its interrupt.                                         *)
Controller ==
    /\ \/ /\ st \in {"read", "identify"}
          /\ st' \in {"rdata"} \cup (IF hw[sel] = "faulty" THEN {"idle"} ELSE {})
          /\ irq' = TRUE
          /\ UNCHANGED media
       \/ /\ st = "wcmd"
          /\ st' \in {"wdata"} \cup (IF hw[sel] = "faulty" THEN {"idle"} ELSE {})
          /\ UNCHANGED <<irq, media>>
       \/ /\ st = "write"
          /\ media' = [media EXCEPT ![<<sel, lba[1]>>] = lba[2]]
          /\ st' = "idle"
          /\ irq' = TRUE
    /\ UNCHANGED <<hw, sel, lba, chan, ident, spurious, pc, op, halted>>

(* external: noise on the interrupt line.                                    *)
Noise ==
    /\ spurious < MaxSpurious
    /\ spurious' = spurious + 1
    /\ irq' = TRUE
    /\ UNCHANGED <<hw, st, sel, lba, media, chan, ident, pc, op, halted>>

(* interrupt_handler, for the channel whose irq it is.                       *)
interrupt_handler ==
    /\ irq /\ ~halted
    /\ irq' = FALSE
    /\ completion_wait' = IF expecting_interrupt THEN completion_wait + 1 ELSE completion_wait
    /\ UNCHANGED <<hw, st, sel, lba, media, holder, expecting_interrupt, ident, spurious, pc, op, halted>>

-----------------------------------------------------------------------------
(* Calls.  "lock" lock_acquire, "select" select_sector, "expect" and "issue" *)
(* the two halves of issue_pio_command, "down" sema_down, "busy"             *)
(* wait_while_busy, "data" the data transfer, "unlock" lock_release.         *)
At(t, label) == pc[t] = label /\ ~halted
GoTo(t, label) == pc' = [pc EXCEPT ![t] = label]
Kind(t) == op[t].op

Call(t, d, s) ==
    /\ At(t, "run") /\ boot = <<"done", 0>>
    /\ is_ata[d] /\ s < capacity[d]
    /\ \E c \in {Op("read", d, s, Nothing)} \cup {Op("write", d, s, v) : v \in Values} :
          op' = [op EXCEPT ![t] = c]
    /\ GoTo(t, "lock")
    /\ UNCHANGED <<hardware, chan, ident, spurious, halted>>

lock_acquire(t) ==
    /\ At(t, "lock") /\ holder = NoThread
    /\ holder' = t
    /\ GoTo(t, "select")
    /\ UNCHANGED <<hardware, expecting_interrupt, completion_wait, ident, spurious, op, halted>>

(* wait_until_idle, on both sides of select_device.  It gives up on a faulty *)
(* device that is still busy with an old command or offers old data.         *)
select_device_wait == (~BSY /\ ~DRQ) \/ (hw[sel] = "faulty" /\ st # "write")

(* Mutant: the registers are written without wait_until_idle.                *)
select_sector_hasty(t) ==
    /\ At(t, "select")
    /\ sel' = op[t].slot[1] /\ lba' = <<op[t].slot[2], lba[2]>>
    /\ GoTo(t, "expect")
    /\ UNCHANGED <<hw, st, media, irq, chan, ident, spurious, op, halted>>

(* select_sector: wait_until_idle, select_device, the sector registers.      *)
select_sector(t) ==
    /\ At(t, "select") /\ select_device_wait
    /\ sel' = op[t].slot[1] /\ lba' = <<op[t].slot[2], Nothing>>
    /\ GoTo(t, "expect")
    /\ UNCHANGED <<hw, st, media, irq, chan, ident, spurious, op, halted>>

issue_pio_command(t) ==
    /\ \/ /\ At(t, "expect")
          /\ expecting_interrupt' = TRUE
          /\ GoTo(t, "issue")
          /\ UNCHANGED st
       \/ /\ At(t, "issue")
          /\ st' = IF Kind(t) = "write" THEN "wcmd" ELSE Kind(t)
          /\ GoTo(t, IF Kind(t) = "write" THEN "busy" ELSE "down")
          /\ UNCHANGED expecting_interrupt
    /\ UNCHANGED <<hw, sel, lba, media, irq, holder, completion_wait, ident, spurious, op, halted>>

(* Mutant: the wait does not use the completion up.                          *)
sema_down_peek(t) ==
    /\ At(t, "down") /\ completion_wait > 0
    /\ GoTo(t, IF Kind(t) = "put" THEN "unlock" ELSE "busy")
    /\ UNCHANGED <<hardware, chan, ident, spurious, op, halted>>

(* sema_down: disk_read goes on to wait_while_busy; disk_write is done.      *)
sema_down(t) ==
    /\ At(t, "down") /\ completion_wait > 0
    /\ completion_wait' = completion_wait - 1
    /\ GoTo(t, IF Kind(t) = "put" THEN "unlock" ELSE "busy")
    /\ UNCHANGED <<hardware, holder, expecting_interrupt, ident, spurious, op, halted>>

(* wait_while_busy, and PANIC when the device asks for no data or has been   *)
(* busy for 30 seconds.                                                      *)
wait_while_busy(t) ==
    /\ At(t, "busy") /\ (BSY => hw[sel] = "faulty")
    /\ halted' = ~DRQ
    /\ GoTo(t, "data")
    /\ UNCHANGED <<hardware, chan, ident, spurious, op>>


(* input_sector or output_sector: the whole sector through the data register. *)
Transfer(t) ==
    /\ At(t, "data")
    /\ \/ /\ Kind(t) = "read"
          /\ op' = [op EXCEPT ![t] = Op("got", sel, lba[1], media[<<sel, lba[1]>>])]
          /\ st' = "idle"
          /\ GoTo(t, "unlock")
          /\ UNCHANGED lba
       \/ /\ Kind(t) = "write"
          /\ op' = [op EXCEPT ![t].op = "put"]
          /\ lba' = <<lba[1], op[t].val>>
          /\ st' = "write"
          /\ GoTo(t, "down")
    /\ UNCHANGED <<hw, sel, media, irq, chan, ident, spurious, halted>>

lock_release(t) ==
    /\ At(t, "unlock")
    /\ holder' = NoThread
    /\ op' = [op EXCEPT ![t] = Nothing]
    /\ GoTo(t, "run")
    /\ UNCHANGED <<hardware, expecting_interrupt, completion_wait, ident, spurious, halted>>

Step(t) ==
    \/ lock_acquire(t) \/ select_sector(t) \/ issue_pio_command(t) \/ sema_down(t)
    \/ wait_while_busy(t) \/ Transfer(t) \/ lock_release(t)

-----------------------------------------------------------------------------
(* Detection, by the initial thread with interrupts on.                      *)

(* external: what the registers of a device say after a reset.  When a slave *)
(* fails its self-test the master reports error 0x81 instead of 1.           *)
ErrorCodes(d) == IF hw[d] = "none" THEN {0, 255} ELSE IF d = 0 THEN {1, 129} ELSE {1}
DRDY(d) == hw[d] \in {"ata", "faulty"}
AtaSignature(d) == hw[d] # "atapi"

(* Mutant: the signature is not looked at.                                   *)
check_device_type_blind(d, error) ==
    LET bad == (error # 1 /\ (error # 129 \/ d = 1)) \/ hw[d] = "none"
    IN  [ata |-> ~bad, slave |-> ~bad \/ error # 129]

(* check_device_type: is it a disk, and may there be a slave?                *)
check_device_type(d, error) ==
    LET bad == (error # 1 /\ (error # 129 \/ d = 1)) \/ ~DRDY(d)
    IN  [ata |-> ~bad /\ AtaSignature(d), slave |-> ~bad \/ error # 129]

(* reset_channel: whatever the loader left undone is dropped; the devices    *)
(* present are selected in turn until they are no longer busy.               *)
reset_channel ==
    /\ boot = <<"reset", 0>> /\ ~halted
    /\ st' = "idle"
    /\ sel' = IF hw[1] # "none" THEN 1 ELSE 0
    /\ boot' = <<"detect", 0>>
    /\ UNCHANGED <<hw, lba, media, irq, chan, is_ata, capacity, spurious, pc, op, halted>>

(* The two calls of check_device_type; then both devices that are disks are  *)
(* to be identified.                                                         *)
disk_init ==
    /\ boot = <<"detect", 0>> /\ ~halted
    /\ \E e0 \in ErrorCodes(0), e1 \in ErrorCodes(1) :
         LET m == check_device_type(0, e0)
             s == check_device_type(1, e1)
         IN  is_ata' = [d \in Dev |-> IF d = 0 THEN m.ata ELSE m.slave /\ s.ata]
    /\ boot' = <<"select", 0>>
    /\ UNCHANGED <<hardware, chan, capacity, spurious, pc, op, halted>>

(* identify_ata_device, in the steps of a read without the lock.             *)
Booting(label, d) == boot = <<label, d>> /\ ~halted
AfterDev(d) == IF d = 0 THEN <<"select", 1>> ELSE <<"done", 0>>
identify_ata_device ==
    /\ \E d \in Dev :
       \/ /\ Booting("select", d) /\ ~is_ata[d]
          /\ boot' = AfterDev(d)
          /\ UNCHANGED <<is_ata, capacity, st, sel, expecting_interrupt, completion_wait>>
       \/ /\ Booting("select", d) /\ is_ata[d] /\ select_device_wait
          /\ sel' = d
          /\ expecting_interrupt' = TRUE
          /\ boot' = <<"issue", d>>
          /\ UNCHANGED <<is_ata, capacity, st, completion_wait>>
       \/ /\ Booting("issue", d)
          /\ st' = "identify"
          /\ boot' = <<"down", d>>
          /\ UNCHANGED <<is_ata, capacity, sel, expecting_interrupt, completion_wait>>
       \/ /\ Booting("down", d) /\ completion_wait > 0
          /\ completion_wait' = completion_wait - 1
          /\ boot' = <<"busy", d>>
          /\ UNCHANGED <<is_ata, capacity, st, sel, expecting_interrupt>>
       \/ /\ Booting("busy", d) /\ (BSY => hw[sel] = "faulty")
          /\ is_ata' = [is_ata EXCEPT ![d] = DRQ]
          /\ capacity' = IF DRQ THEN [capacity EXCEPT ![d] = Cardinality(Sectors)] ELSE capacity
          /\ st' = IF DRQ THEN "idle" ELSE st
          /\ boot' = AfterDev(d)
          /\ UNCHANGED <<sel, expecting_interrupt, completion_wait>>
    /\ UNCHANGED <<hw, lba, media, irq, holder, spurious, pc, op, halted>>

Next ==
    \/ Controller \/ Noise \/ interrupt_handler
    \/ reset_channel \/ disk_init \/ identify_ata_device
    \/ \E t \in Threads : Step(t) \/ \E d \in Dev, s \in Sectors : Call(t, d, s)

Spec == Init /\ [][Next]_vars

(* The device completes its commands, a pending interrupt is delivered, and  *)
(* a thread inside a call gets the CPU and the lock in its turn.             *)
FairSpec ==
    /\ Spec
    /\ WF_vars(Controller) /\ WF_vars(interrupt_handler)
    /\ WF_vars(reset_channel) /\ WF_vars(disk_init) /\ WF_vars(identify_ata_device)
    /\ \A t \in Threads : SF_vars(Step(t))

-----------------------------------------------------------------------------
(* disk_read and disk_write implement AtomicDisk: what the controller has    *)
(* accepted but not yet put on the medium counts as written.                 *)
Accepted ==
    [s \in Dev \X Sectors |-> IF st = "write" /\ s = <<sel, lba[1]>> THEN lba[2] ELSE media[s]]
Abstract == INSTANCE AtomicDisk WITH Slots <- Dev \X Sectors, store <- Accepted, call <- op
ImplementsAtomicDisk == Abstract!Spec

(* disk_init: what disk_get hands out is a disk, and a disk that answers its *)
(* commands is found, except a slave behind a master that is no disk.        *)
DetectsDisks ==
    boot = <<"done", 0>> => \A d \in Dev :
        /\ is_ata[d] => DRDY(d) /\ capacity[d] > 0
        /\ hw[d] = "ata" => is_ata[d] \/ (d = 1 /\ ~DRDY(0))

(* completion_wait pairs each command with its own interrupt: without noise  *)
(* nothing is left over when the channel is free, and a thread past its      *)
(* sema_down has been told about its own command.                            *)
OneInterruptPerCommand ==
    (spurious = 0 /\ ~halted) =>
        /\ completion_wait + (IF irq THEN 1 ELSE 0) <= 1
        /\ (holder = NoThread /\ boot = <<"done", 0>>) => completion_wait = 0 /\ ~irq


(* disk.c:228: disk_write "Returns after the disk has acknowledged receiving *)
(* the data".                                                                *)
(* The code does not keep it: README.md, "Disagreements".                    *)
WriteAcknowledged ==
    \A t \in Threads : (At(t, "unlock") /\ Kind(t) = "put") => st # "write"

(* disk.c:72: expecting_interrupt is "True if an interrupt is expected,      *)
(* false if any interrupt would be spurious."                                *)
(* The code does not keep it: README.md, "Disagreements".                    *)
ExpectingMeansOutstanding ==
    expecting_interrupt => (holder # NoThread \/ boot # <<"done", 0>>)
=============================================================================
