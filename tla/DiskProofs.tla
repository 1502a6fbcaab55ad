----------------------------- MODULE DiskProofs -----------------------------
(***************************************************************************)
(* disk_read and disk_write implement AtomicDisk, for any number of        *)
(* threads, sectors and values, any hardware on the channel and any number *)
(* of spurious interrupts; each command is paired with its interrupt, and  *)
(* disk_init finds the disks.                                              *)
(***************************************************************************)
EXTENDS Disk, TLAPS

Slots == Dev \X Sectors
Requests == {Op("read", d, s, Nothing) : d \in Dev, s \in Sectors}
            \cup {Op("write", d, s, v) : d \in Dev, s \in Sectors, v \in Values}
Replies == {Op(k, d, s, v) : k \in {"got", "put"}, d \in Dev, s \in Sectors, v \in Values}

Outside == {"run", "lock"}
Inside == {"select", "expect", "issue", "down", "busy", "data", "unlock"}

(* A sector holds a value, also the one the controller is about to write.   *)
StoreInv ==
    /\ media \in [Slots -> Values]
    /\ st = "write" => lba[2] \in Values

(* The operand of a call follows its control point.                         *)
Fits(label, o) ==
    /\ label = "run" => o = Nothing
    /\ label \in {"lock", "select", "expect", "issue", "busy", "data"} => o \in Requests
    /\ label = "down" => o \in Requests \cup Replies
    /\ label = "down" /\ o \in Requests => o.op = "read"
    /\ label = "down" /\ o \in Replies => o.op = "put"
    /\ label = "unlock" => o \in Replies
CallInv ==
    /\ pc \in [Threads -> Outside \cup Inside]
    /\ op \in [Threads -> {Nothing} \cup Requests \cup Replies]
    /\ \A t \in Threads : Fits(pc[t], op[t])

(* The channel belongs to the thread between lock_acquire and lock_release: *)
(* nobody else is there, the registers name its sector, no earlier write is *)
(* under way when it issues its command, and the device asks for data when  *)
(* it transfers the sector.  At boot the channel belongs to disk_init.      *)
ChannelInv ==
    /\ \A t \in Threads :
         /\ pc[t] \in Inside => holder = t
         /\ pc[t] \in {"expect", "issue", "down", "busy", "data"} /\ op[t] \in Requests
              => <<sel, lba[1]>> = op[t].slot
         /\ pc[t] \in {"expect", "issue"} => st # "write"
         /\ pc[t] = "data" /\ ~halted => st \in {"rdata", "wdata"}
    /\ boot # <<"done", 0>> => st # "write" /\ \A t \in Threads : pc[t] = "run"

DInv == StoreInv /\ CallInv /\ ChannelInv

(* What a step does to the atomic disk: one of its steps, or nothing.       *)
AbstractStep == Abstract!Next \/ (Accepted' = Accepted /\ op' = op)

-----------------------------------------------------------------------------
(* A request names a slot; reads bring no value, writes bring one.          *)
LEMMA RequestFacts ==
    ASSUME NEW r \in Requests
    PROVE  /\ r.op \in {"read", "write"} /\ r.slot \in Slots
           /\ r.slot = <<r.slot[1], r.slot[2]>> /\ r.slot[1] \in Dev /\ r.slot[2] \in Sectors
           /\ r.op = "read" => r = [op |-> "read", slot |-> r.slot, val |-> Nothing]
           /\ r.op = "write" => r = [op |-> "write", slot |-> r.slot, val |-> r.val] /\ r.val \in Values
           /\ r \notin Replies
BY DEF Requests, Replies, Op, Slots

(* A reply names a slot and the value read or written.                      *)
LEMMA ReplyFacts ==
    ASSUME NEW r \in Replies
    PROVE  /\ r.op \in {"got", "put"} /\ r.slot \in Slots /\ r.val \in Values
           /\ r = [op |-> r.op, slot |-> r.slot, val |-> r.val]
           /\ r \notin Requests
BY DEF Requests, Replies, Op, Slots

(* Records of these shapes are requests and replies.                        *)
LEMMA Shapes ==
    ASSUME NEW s \in Slots, NEW v \in Values
    PROVE  /\ [op |-> "read", slot |-> s, val |-> Nothing] \in Requests
           /\ [op |-> "write", slot |-> s, val |-> v] \in Requests
           /\ [op |-> "got", slot |-> s, val |-> v] \in Replies
           /\ [op |-> "put", slot |-> s, val |-> v] \in Replies
<1>1. PICK d \in Dev, n \in Sectors : s = <<d, n>>
  BY DEF Slots
<1> QED BY <1>1 DEF Requests, Replies, Op

(* When no write is under way, what is on the medium counts.                *)
LEMMA AcceptedIdle ==
    ASSUME media \in [Slots -> Values], st # "write"
    PROVE  Accepted = media
BY DEF Accepted, Slots

(* Steps that leave controller and medium alone leave the store alone.      *)
LEMMA AcceptedFrame ==
    ASSUME UNCHANGED <<st, sel, lba, media>>
    PROVE  Accepted' = Accepted
BY DEF Accepted

(* Without a write under way only the medium matters.                       *)
LEMMA AcceptedFrameIdle ==
    ASSUME media \in [Slots -> Values], st # "write", st' # "write", media' = media
    PROVE  Accepted' = Accepted
BY DEF Accepted

-----------------------------------------------------------------------------
(* Before any call the channel is idle or holds what the loader left.       *)
LEMMA InitDInv == Init => DInv /\ Abstract!Init
<1> SUFFICES ASSUME Init PROVE DInv /\ Abstract!Init
  OBVIOUS
<1>1. StoreInv
  BY ZenonT(60) DEF Init, StoreInv, Slots
<1>2. CallInv
  BY DEF Init, CallInv, Fits, Outside, Inside
<1>3. ChannelInv
  BY DEF Init, ChannelInv, Inside
<1>4. Accepted = media
  BY <1>1, AcceptedIdle DEF StoreInv, Init
<1>5. Abstract!Init
  BY <1>1, <1>4 DEF Abstract!Init, Init, StoreInv, Slots
<1> QED BY <1>1, <1>2, <1>3, <1>5 DEF DInv

(* The controller finishes a command.                                       *)
LEMMA ControllerStep ==
    ASSUME DInv, Controller
    PROVE  DInv' /\ AbstractStep
<1>1. /\ media \in [Slots -> Values] /\ (st = "write" => lba[2] \in Values)
      /\ UNCHANGED <<hw, sel, lba, chan, ident, spurious, pc, op, halted>>
  BY DEF DInv, StoreInv, Controller
<1>2. st \in {"read", "identify", "wcmd", "write"} /\ st' # "write"
  BY DEF Controller
<1>3. StoreInv' /\ Accepted' = Accepted
  <2>1. CASE st = "write"
    <3>1. media' = [media EXCEPT ![<<sel, lba[1]>>] = lba[2]]
      BY <2>1 DEF Controller
    <3>2. media' \in [Slots -> Values]
      BY ZenonT(60), <3>1, <2>1, <1>1
    <3>3. Accepted = media'
      BY ZenonT(60), <3>1, <2>1, <1>1 DEF Accepted, Slots
    <3>4. Accepted' = media'
      BY <3>2, <1>2 DEF Accepted, Slots
    <3> QED BY <3>2, <3>3, <3>4, <1>2 DEF StoreInv
  <2>2. CASE st # "write"
    <3>1. media' = media
      BY <2>2 DEF Controller
    <3>2. Accepted' = Accepted
      BY <3>1, <2>2, <1>1, <1>2, AcceptedFrameIdle
    <3> QED BY <3>1, <3>2, <1>1, <1>2 DEF StoreInv
  <2> QED BY <2>1, <2>2
<1>4. CallInv'
  BY <1>1 DEF DInv, CallInv, Fits
<1>5. ChannelInv'
  BY <1>1, <1>2 DEF DInv, ChannelInv, chan, ident
<1> QED BY <1>1, <1>3, <1>4, <1>5 DEF DInv, AbstractStep

(* Interrupts, wanted or not, and the lock and the semaphore of a channel   *)
(* touch neither a call's operand nor the registers.                        *)
LEMMA InterruptStep ==
    ASSUME DInv, Noise \/ interrupt_handler
    PROVE  DInv' /\ AbstractStep
<1>1. UNCHANGED <<st, sel, lba, media, holder, boot, pc, op, halted>>
  BY DEF Noise, interrupt_handler, chan, ident
<1>2. Accepted' = Accepted
  BY <1>1, AcceptedFrame
<1>3. StoreInv' /\ CallInv'
  BY <1>1 DEF DInv, StoreInv, CallInv
<1>4. ChannelInv'
  BY <1>1 DEF DInv, ChannelInv
<1> QED BY <1>1, <1>2, <1>3, <1>4 DEF DInv, AbstractStep

(* disk_init: no thread has called yet, and nothing is written.             *)
LEMMA BootStep ==
    ASSUME DInv, reset_channel \/ disk_init \/ identify_ata_device
    PROVE  DInv' /\ AbstractStep
<1>1. boot # <<"done", 0>>
  BY DEF reset_channel, disk_init, identify_ata_device, Booting
<1>2. st # "write" /\ \A t \in Threads : pc[t] = "run"
  BY <1>1 DEF DInv, ChannelInv
<1>3. UNCHANGED <<media, holder, pc, op, halted>>
  BY DEF reset_channel, disk_init, identify_ata_device, hardware, chan
<1>4. st' # "write"
  BY <1>2 DEF reset_channel, disk_init, identify_ata_device, hardware
<1>5. StoreInv'
  BY <1>3, <1>4 DEF DInv, StoreInv
<1>6. CallInv'
  BY <1>3 DEF DInv, CallInv, Fits
<1>7. ChannelInv'
  BY <1>2, <1>3, <1>4 DEF ChannelInv, Inside
<1>8. Accepted' = Accepted
  BY <1>2, <1>3, <1>4, AcceptedFrameIdle DEF DInv, StoreInv
<1> QED BY <1>3, <1>5, <1>6, <1>7, <1>8 DEF DInv, AbstractStep

-----------------------------------------------------------------------------
(* Steps of a thread.  Nobody else is inside, and others are undisturbed.   *)

(* A thread inside excludes the others and the boot phase.                  *)
LEMMA InsideFacts ==
    ASSUME DInv, NEW t \in Threads, pc[t] \in Inside
    PROVE  /\ holder = t /\ boot = <<"done", 0>>
           /\ \A u \in Threads \ {t} : pc[u] \in Outside
<1>1. holder = t
  BY DEF DInv, ChannelInv
<1>2. boot = <<"done", 0>>
  BY DEF DInv, ChannelInv, Inside
<1>3. \A u \in Threads \ {t} : pc[u] \notin Inside
  BY <1>1 DEF DInv, ChannelInv
<1> QED BY <1>1, <1>2, <1>3 DEF DInv, CallInv, Fits

(* A step that only moves a thread on, to a place where its operand fits.   *)
LEMMA CallFrame ==
    ASSUME DInv, NEW t \in Threads, NEW label \in Outside \cup Inside,
           NEW o \in {Nothing} \cup Requests \cup Replies,
           pc' = [pc EXCEPT ![t] = label], op' = [op EXCEPT ![t] = o], Fits(label, o)
    PROVE  /\ CallInv'
           /\ pc'[t] = label /\ op'[t] = o
           /\ \A u \in Threads \ {t} : pc'[u] = pc[u] /\ op'[u] = op[u]
<1>1. /\ pc \in [Threads -> Outside \cup Inside]
      /\ op \in [Threads -> {Nothing} \cup Requests \cup Replies]
      /\ \A u \in Threads : Fits(pc[u], op[u])
  BY DEF DInv, CallInv
<1>2. /\ pc' \in [Threads -> Outside \cup Inside]
      /\ op' \in [Threads -> {Nothing} \cup Requests \cup Replies]
      /\ pc'[t] = label /\ op'[t] = o
      /\ \A u \in Threads \ {t} : pc'[u] = pc[u] /\ op'[u] = op[u]
  BY <1>1
<1>3. \A u \in Threads : Fits(pc'[u], op'[u])
  BY <1>1, <1>2
<1> QED BY <1>2, <1>3 DEF CallInv, Fits

(* disk_read or disk_write is called.                                       *)
LEMMA CallStep ==
    ASSUME DInv, NEW t \in Threads, NEW d \in Dev, NEW n \in Sectors, Call(t, d, n)
    PROVE  DInv' /\ AbstractStep
<1>1. /\ pc[t] = "run" /\ boot = <<"done", 0>>
      /\ pc' = [pc EXCEPT ![t] = "lock"]
      /\ UNCHANGED <<st, sel, lba, media, holder, boot, halted>>
  BY DEF Call, At, GoTo, hardware, chan, ident
<1>2. PICK c \in {Op("read", d, n, Nothing)} \cup {Op("write", d, n, v) : v \in Values} :
        op' = [op EXCEPT ![t] = c]
  BY ZenonT(60) DEF Call
<1>3. c \in Requests
  BY <1>2 DEF Requests
<1>4. op[t] = Nothing
  BY <1>1 DEF DInv, CallInv, Fits
<1>5. /\ CallInv' /\ pc'[t] = "lock"
      /\ \A u \in Threads \ {t} : pc'[u] = pc[u] /\ op'[u] = op[u]
  BY ZenonT(60), <1>1, <1>2, <1>3, CallFrame DEF Outside, Fits
<1>6. StoreInv'
  BY <1>1 DEF DInv, StoreInv
<1>7. ChannelInv'
  BY <1>1, <1>5 DEF DInv, ChannelInv, Inside
<1>8. Accepted' = Accepted
  BY <1>1, AcceptedFrame
<1>9. <<d, n>> \in Dev \X Sectors
  OBVIOUS
<1>10. Abstract!Ask(t, c)
  BY <1>2, <1>4, <1>8 DEF Abstract!Ask
<1>11. \/ c = Abstract!Op("read", <<d, n>>, Nothing)
       \/ \E v \in Values : c = Abstract!Op("write", <<d, n>>, v)
  BY <1>2 DEF Op, Abstract!Op
<1>12. Abstract!Next
  BY <1>9, <1>10, <1>11 DEF Abstract!Next
<1> QED BY <1>5, <1>6, <1>7, <1>12 DEF DInv, AbstractStep

(* lock_acquire lets a thread in when nobody is inside.                     *)
LEMMA AcquireStep ==
    ASSUME DInv, NEW t \in Threads, lock_acquire(t)
    PROVE  DInv' /\ AbstractStep
<1>1. /\ pc[t] = "lock" /\ holder = NoThread /\ holder' = t
      /\ pc' = [pc EXCEPT ![t] = "select"] /\ op' = op
      /\ UNCHANGED <<st, sel, lba, media, boot, halted>>
  BY DEF lock_acquire, At, GoTo, hardware, ident
<1>2. op[t] \in Requests /\ op' = [op EXCEPT ![t] = op[t]]
  BY <1>1 DEF DInv, CallInv, Fits
<1>3. /\ CallInv' /\ pc'[t] = "select"
      /\ \A u \in Threads \ {t} : pc'[u] = pc[u] /\ op'[u] = op[u]
  BY ZenonT(60), <1>1, <1>2, CallFrame DEF Inside, Fits
<1>4. \A u \in Threads : pc[u] \notin Inside
  BY <1>1, DiskAssumption DEF DInv, ChannelInv
<1>5. boot = <<"done", 0>>
  BY <1>1 DEF DInv, ChannelInv
<1>6. ChannelInv'
  BY <1>1, <1>3, <1>4, <1>5 DEF ChannelInv, Inside
<1>7. StoreInv'
  BY <1>1 DEF DInv, StoreInv
<1>8. Accepted' = Accepted
  BY <1>1, AcceptedFrame
<1> QED BY <1>1, <1>3, <1>6, <1>7, <1>8 DEF DInv, AbstractStep

(* select_sector writes the registers when no earlier write is under way.   *)
LEMMA SelectStep ==
    ASSUME DInv, NEW t \in Threads, select_sector(t)
    PROVE  DInv' /\ AbstractStep
<1>1. /\ pc[t] = "select" /\ st # "write"
      /\ sel' = op[t].slot[1] /\ lba' = <<op[t].slot[2], Nothing>>
      /\ pc' = [pc EXCEPT ![t] = "expect"] /\ op' = op
      /\ UNCHANGED <<st, media, holder, boot, halted>>
  BY DEF select_sector, select_device_wait, BSY, At, GoTo, chan, ident
<1>2. op[t] \in Requests /\ op' = [op EXCEPT ![t] = op[t]]
  BY <1>1 DEF DInv, CallInv, Fits
<1>3. /\ CallInv' /\ pc'[t] = "expect" /\ op'[t] = op[t]
      /\ \A u \in Threads \ {t} : pc'[u] = pc[u] /\ op'[u] = op[u]
  BY ZenonT(60), <1>1, <1>2, CallFrame DEF Inside, Fits
<1>4. holder = t /\ boot = <<"done", 0>> /\ \A u \in Threads \ {t} : pc[u] \in Outside
  BY <1>1, InsideFacts DEF Inside
<1>5. <<sel', lba'[1]>> = op[t].slot
  BY <1>1, <1>2, RequestFacts
<1>6. ChannelInv'
  BY <1>1, <1>3, <1>4, <1>5 DEF ChannelInv, Inside, Outside
<1>7. StoreInv'
  BY <1>1 DEF DInv, StoreInv
<1>8. Accepted' = Accepted
  BY <1>1, AcceptedFrameIdle DEF DInv, StoreInv
<1> QED BY <1>1, <1>3, <1>6, <1>7, <1>8 DEF DInv, AbstractStep

(* issue_pio_command hands the device a command it is free to take.         *)
LEMMA IssueStep ==
    ASSUME DInv, NEW t \in Threads, issue_pio_command(t)
    PROVE  DInv' /\ AbstractStep
<1>1. /\ pc[t] \in {"expect", "issue"} /\ op' = op
      /\ UNCHANGED <<sel, lba, media, holder, boot, halted>>
  BY DEF issue_pio_command, At, ident
<1>2. op[t] \in Requests /\ op' = [op EXCEPT ![t] = op[t]]
  BY <1>1 DEF DInv, CallInv, Fits
<1>3. op[t].op \in {"read", "write"} /\ op[t] \notin Replies
  BY <1>2, RequestFacts
<1>4. st # "write"
  BY <1>1 DEF DInv, ChannelInv
<1>5. PICK label \in {"issue", "busy", "down"} :
        /\ pc' = [pc EXCEPT ![t] = label]
        /\ label = "down" => op[t].op = "read"
  BY <1>3 DEF issue_pio_command, GoTo, Kind
<1>6. st' # "write"
  BY <1>3, <1>4 DEF issue_pio_command, Kind
<1>7. /\ CallInv' /\ pc'[t] = label /\ op'[t] = op[t]
      /\ \A u \in Threads \ {t} : pc'[u] = pc[u] /\ op'[u] = op[u]
  <2>1. label \in Outside \cup Inside /\ label \notin {"run", "unlock"}
    BY DEF Inside
  <2>2. Fits(label, op[t])
    BY <1>2, <1>3, <1>5 DEF Fits
  <2> QED BY <1>2, <1>5, <2>1, <2>2, CallFrame, Zenon
<1>8. holder = t /\ boot = <<"done", 0>> /\ \A u \in Threads \ {t} : pc[u] \in Outside
  BY <1>1, InsideFacts DEF Inside
<1>9. <<sel, lba[1]>> = op[t].slot
  BY <1>1, <1>2 DEF DInv, ChannelInv
<1>10. ChannelInv'
  BY <1>1, <1>6, <1>7, <1>8, <1>9 DEF ChannelInv, Inside, Outside
<1>11. StoreInv'
  BY <1>1, <1>6 DEF DInv, StoreInv
<1>12. Accepted' = Accepted
  BY <1>1, <1>4, <1>6, AcceptedFrameIdle DEF DInv, StoreInv
<1> QED BY <1>1, <1>7, <1>10, <1>11, <1>12 DEF DInv, AbstractStep

(* sema_down returns, for this command's interrupt or for another.          *)
LEMMA DownStep ==
    ASSUME DInv, NEW t \in Threads, sema_down(t)
    PROVE  DInv' /\ AbstractStep
<1>1. /\ pc[t] = "down" /\ op' = op
      /\ UNCHANGED <<st, sel, lba, media, holder, boot, halted>>
  BY DEF sema_down, At, hardware, ident
<1>2. op[t] \in Requests \cup Replies /\ op' = [op EXCEPT ![t] = op[t]]
  BY <1>1 DEF DInv, CallInv, Fits
<1>3. op[t] \in Requests => op[t].op = "read"
  BY <1>1 DEF DInv, CallInv, Fits
<1>4. op[t] \in Replies => op[t].op = "put"
  BY <1>1 DEF DInv, CallInv, Fits
<1>5. PICK label \in {"unlock", "busy"} :
        /\ pc' = [pc EXCEPT ![t] = label]
        /\ (label = "unlock" /\ op[t] \in Replies) \/ (label = "busy" /\ op[t] \in Requests)
  BY ZenonT(60), <1>2, <1>3, <1>4 DEF sema_down, GoTo, Kind
<1>6. /\ CallInv' /\ pc'[t] = label /\ op'[t] = op[t]
      /\ \A u \in Threads \ {t} : pc'[u] = pc[u] /\ op'[u] = op[u]
  <2>1. label \in Outside \cup Inside
    BY DEF Inside
  <2>2. Fits(label, op[t])
    BY <1>5 DEF Fits
  <2> QED BY <1>2, <1>5, <2>1, <2>2, CallFrame, Zenon
<1>7. holder = t /\ boot = <<"done", 0>> /\ \A u \in Threads \ {t} : pc[u] \in Outside
  BY <1>1, InsideFacts DEF Inside
<1>8. op[t] \in Requests => <<sel, lba[1]>> = op[t].slot
  BY <1>1 DEF DInv, ChannelInv
<1>9. ChannelInv'
  BY <1>1, <1>5, <1>6, <1>7, <1>8 DEF ChannelInv, Inside, Outside
<1>10. StoreInv'
  BY <1>1 DEF DInv, StoreInv
<1>11. Accepted' = Accepted
  BY <1>1, AcceptedFrame
<1> QED BY <1>1, <1>6, <1>9, <1>10, <1>11 DEF DInv, AbstractStep

(* wait_while_busy lets the thread go on only to a device that asks for     *)
(* data, or stops the kernel.                                               *)
LEMMA BusyStep ==
    ASSUME DInv, NEW t \in Threads, wait_while_busy(t)
    PROVE  DInv' /\ AbstractStep
<1>1. /\ pc[t] = "busy" /\ halted' = ~DRQ
      /\ pc' = [pc EXCEPT ![t] = "data"] /\ op' = op
      /\ UNCHANGED <<st, sel, lba, media, holder, boot>>
  BY DEF wait_while_busy, At, GoTo, hardware, chan, ident
<1>2. op[t] \in Requests /\ op' = [op EXCEPT ![t] = op[t]]
  BY <1>1 DEF DInv, CallInv, Fits
<1>3. /\ CallInv' /\ pc'[t] = "data" /\ op'[t] = op[t]
      /\ \A u \in Threads \ {t} : pc'[u] = pc[u] /\ op'[u] = op[u]
  BY ZenonT(60), <1>1, <1>2, CallFrame DEF Inside, Fits
<1>4. holder = t /\ boot = <<"done", 0>> /\ \A u \in Threads \ {t} : pc[u] \in Outside
  BY <1>1, InsideFacts DEF Inside
<1>5. <<sel, lba[1]>> = op[t].slot
  BY <1>1, <1>2 DEF DInv, ChannelInv
<1>6. ~halted' => st' \in {"rdata", "wdata"}
  BY ZenonT(60), <1>1 DEF DRQ
<1>7. ChannelInv'
  BY <1>1, <1>3, <1>4, <1>5, <1>6 DEF ChannelInv, Inside, Outside
<1>8. StoreInv'
  BY <1>1 DEF DInv, StoreInv
<1>9. Accepted' = Accepted
  BY <1>1, AcceptedFrame
<1> QED BY <1>1, <1>3, <1>7, <1>8, <1>9 DEF DInv, AbstractStep

(* input_sector takes what the medium holds in the sector asked for: this   *)
(* is the moment at which disk_read reads.                                  *)
LEMMA ReadStep ==
    ASSUME DInv, NEW t \in Threads, Transfer(t), Kind(t) = "read"
    PROVE  DInv' /\ AbstractStep
<1> DEFINE s == <<sel, lba[1]>>
<1>1. /\ pc[t] = "data" /\ ~halted /\ st' = "idle"
      /\ op' = [op EXCEPT ![t] = Op("got", sel, lba[1], media[s])]
      /\ pc' = [pc EXCEPT ![t] = "unlock"]
      /\ UNCHANGED <<sel, lba, media, holder, boot, halted>>
  BY DEF Transfer, At, GoTo, Kind, chan, ident
<1>2. op[t] \in Requests /\ op[t].slot = s /\ st # "write"
  BY ZenonT(60), <1>1 DEF DInv, CallInv, Fits, ChannelInv
<1>3. s \in Slots /\ op[t] = [op |-> "read", slot |-> s, val |-> Nothing]
  BY <1>2, RequestFacts DEF Kind
<1>4. media \in [Slots -> Values] /\ media[s] \in Values
  BY ZenonT(60), <1>3 DEF DInv, StoreInv
<1>5. PICK r \in Replies : r = [op |-> "got", slot |-> s, val |-> media[s]]
  BY ZenonT(60), <1>3, <1>4, Shapes
<1>6. op' = [op EXCEPT ![t] = r]
  BY ZenonT(60), <1>1, <1>5 DEF Op
<1>7. /\ CallInv' /\ pc'[t] = "unlock" /\ op'[t] = r
      /\ \A u \in Threads \ {t} : pc'[u] = pc[u] /\ op'[u] = op[u]
  <2>1. PICK label \in Outside \cup Inside : label = "unlock"
    BY DEF Inside
  <2>2. r \in {Nothing} \cup Requests \cup Replies
    OBVIOUS
  <2>3. pc' = [pc EXCEPT ![t] = label] /\ Fits(label, r)
    BY <1>1, <2>1 DEF Fits
  <2> QED BY ZenonT(60), <1>6, <2>1, <2>2, <2>3, CallFrame
<1>8. holder = t /\ boot = <<"done", 0>> /\ \A u \in Threads \ {t} : pc[u] \in Outside
  BY <1>1, InsideFacts DEF Inside
<1>9. ChannelInv'
  BY <1>1, <1>7, <1>8 DEF ChannelInv, Inside, Outside
<1>10. StoreInv'
  BY <1>1, <1>4 DEF StoreInv
<1>11. Accepted = media /\ Accepted' = Accepted
  BY <1>1, <1>2, <1>4, AcceptedIdle, AcceptedFrameIdle
<1>12. Abstract!Read(t, s)
  BY <1>3, <1>5, <1>6, <1>11 DEF Abstract!Read, Abstract!Op
<1>13. Abstract!Next
  BY ZenonT(60), <1>3, <1>12 DEF Abstract!Next, Slots
<1> QED BY <1>7, <1>9, <1>10, <1>13 DEF DInv, AbstractStep

(* output_sector hands the sector to the device: this is the moment at      *)
(* which disk_write writes, though the medium follows later.                *)
LEMMA WriteStep ==
    ASSUME DInv, NEW t \in Threads, Transfer(t), Kind(t) = "write"
    PROVE  DInv' /\ AbstractStep
<1> DEFINE s == <<sel, lba[1]>>
           v == op[t].val
<1>1. /\ pc[t] = "data" /\ ~halted /\ st' = "write" /\ lba' = <<lba[1], v>>
      /\ op' = [op EXCEPT ![t].op = "put"]
      /\ pc' = [pc EXCEPT ![t] = "down"]
      /\ UNCHANGED <<sel, media, holder, boot, halted>>
  BY DEF Transfer, At, GoTo, Kind, chan, ident
<1>2. op[t] \in Requests /\ op[t].slot = s /\ st # "write"
  BY <1>1 DEF DInv, CallInv, Fits, ChannelInv
<1>3. s \in Slots /\ v \in Values /\ op[t] = [op |-> "write", slot |-> s, val |-> v]
  BY <1>2, RequestFacts DEF Kind
<1>4. media \in [Slots -> Values]
  BY DEF DInv, StoreInv
<1>5. PICK r \in Replies : r = [op |-> "put", slot |-> s, val |-> v]
  BY ZenonT(60), <1>3, Shapes
<1>6. op' = [op EXCEPT ![t] = r]
  <2>1. [op[t] EXCEPT !.op = "put"] = r
    BY <1>3, <1>5
  <2> QED BY ZenonT(60), <1>1, <2>1
<1>7. /\ CallInv' /\ pc'[t] = "down" /\ op'[t] = r
      /\ \A u \in Threads \ {t} : pc'[u] = pc[u] /\ op'[u] = op[u]
  <2>1. r \notin Requests /\ r.op = "put"
    BY <1>5, ReplyFacts
  <2>2. PICK label \in Outside \cup Inside : label = "down"
    BY DEF Inside
  <2>3. r \in {Nothing} \cup Requests \cup Replies
    OBVIOUS
  <2>4. pc' = [pc EXCEPT ![t] = label] /\ Fits(label, r)
    BY <1>1, <2>1, <2>2 DEF Fits
  <2> QED BY ZenonT(60), <1>6, <2>2, <2>3, <2>4, CallFrame
<1>8. holder = t /\ boot = <<"done", 0>> /\ \A u \in Threads \ {t} : pc[u] \in Outside
  BY <1>1, InsideFacts DEF Inside
<1>9. ChannelInv'
  <2>1. r \notin Requests
    BY <1>5, ReplyFacts
  <2> QED BY <1>1, <1>7, <1>8, <2>1 DEF ChannelInv, Inside, Outside
<1>10. StoreInv'
  BY <1>1, <1>3, <1>4 DEF StoreInv
<1>11. Accepted = media
  BY <1>2, <1>4, AcceptedIdle
<1>12. Accepted' = [media EXCEPT ![s] = v]
  BY ZenonT(60), <1>1, <1>3, <1>4 DEF Accepted, Slots
<1>13. Abstract!Write(t, s, v)
  BY <1>3, <1>5, <1>6, <1>11, <1>12 DEF Abstract!Write, Abstract!Op
<1>14. Abstract!Next
  BY ZenonT(60), <1>3, <1>13 DEF Abstract!Next, Slots
<1> QED BY <1>7, <1>9, <1>10, <1>14 DEF DInv, AbstractStep

(* lock_release, and the call returns.                                      *)
LEMMA ReleaseStep ==
    ASSUME DInv, NEW t \in Threads, lock_release(t)
    PROVE  DInv' /\ AbstractStep
<1>1. /\ pc[t] = "unlock" /\ holder' = NoThread
      /\ op' = [op EXCEPT ![t] = Nothing]
      /\ pc' = [pc EXCEPT ![t] = "run"]
      /\ UNCHANGED <<st, sel, lba, media, boot, halted>>
  BY DEF lock_release, At, GoTo, hardware, ident
<1>2. op[t] \in Replies
  BY <1>1 DEF DInv, CallInv, Fits
<1>3. /\ CallInv' /\ pc'[t] = "run" /\ op'[t] = Nothing
      /\ \A u \in Threads \ {t} : pc'[u] = pc[u] /\ op'[u] = op[u]
  <2>1. PICK label \in Outside \cup Inside : label = "run"
    BY DEF Outside
  <2>2. PICK o \in {Nothing} \cup Requests \cup Replies : o = Nothing
    OBVIOUS
  <2>3. pc' = [pc EXCEPT ![t] = label] /\ op' = [op EXCEPT ![t] = o] /\ Fits(label, o)
    BY <1>1, <2>1, <2>2 DEF Fits
  <2> QED BY ZenonT(60), <2>1, <2>2, <2>3, CallFrame
<1>4. boot = <<"done", 0>> /\ \A u \in Threads \ {t} : pc[u] \in Outside
  BY <1>1, InsideFacts DEF Inside
<1>5. ChannelInv'
  BY <1>1, <1>3, <1>4 DEF ChannelInv, Inside, Outside
<1>6. StoreInv'
  BY <1>1 DEF DInv, StoreInv
<1>7. Accepted' = Accepted
  BY <1>1, AcceptedFrame
<1>8. PICK s \in Slots, v \in Values :
        op[t] \in {Abstract!Op("got", s, v), Abstract!Op("put", s, v)}
  BY <1>2, ReplyFacts DEF Abstract!Op
<1>9. Abstract!Return(t, s, v)
  BY <1>1, <1>7, <1>8 DEF Abstract!Return
<1>10. Abstract!Next
  BY <1>9 DEF Abstract!Next, Slots
<1> QED BY <1>3, <1>5, <1>6, <1>10 DEF DInv, AbstractStep

-----------------------------------------------------------------------------
(* Every step keeps the invariant and is a step of the atomic disk or none. *)
LEMMA StepRefines ==
    ASSUME DInv, [Next]_vars
    PROVE  DInv' /\ [Abstract!Next]_(Abstract!vars)
<1> SUFFICES DInv' /\ AbstractStep
  BY DEF AbstractStep, Abstract!vars
<1>1. CASE UNCHANGED vars
  <2>1. UNCHANGED <<st, sel, lba, media, holder, boot, pc, op, halted>>
    BY <1>1 DEF vars, hardware, chan, ident
  <2>2. DInv'
    BY <2>1 DEF DInv, StoreInv, CallInv, ChannelInv
  <2> QED BY <2>1, <2>2, AcceptedFrame DEF AbstractStep
<1>2. ASSUME NEW t \in Threads, Step(t)
      PROVE  DInv' /\ AbstractStep
  <2>1. CASE Transfer(t)
    BY <2>1, ReadStep, WriteStep DEF Transfer
  <2>2. CASE ~Transfer(t)
    BY <1>2, <2>2, AcquireStep, SelectStep, IssueStep, DownStep, BusyStep, ReleaseStep DEF Step
  <2> QED BY <2>1, <2>2
<1>3. ASSUME Next
      PROVE  DInv' /\ AbstractStep
  BY <1>2, <1>3, ControllerStep, InterruptStep, BootStep, CallStep DEF Next
<1> QED BY <1>1, <1>3

(* In every reachable state the channel belongs to at most one thread, its  *)
(* registers name that thread's sector, and data is transferred only when   *)
(* the device asks for it.                                                  *)
THEOREM ChannelIsConsistent == Spec => []DInv
<1>1. Init => DInv
  BY InitDInv
<1>2. DInv /\ [Next]_vars => DInv'
  BY StepRefines
<1> QED BY <1>1, <1>2, PTL DEF Spec

(* disk_read and disk_write read and write whole sectors at one moment      *)
(* between call and return, for every set of threads and sectors.           *)
THEOREM DiskIsAtomic == Spec => ImplementsAtomicDisk
<1>1. Init => Abstract!Init
  BY InitDInv
<1>2. DInv /\ [Next]_vars => [Abstract!Next]_(Abstract!vars)
  BY StepRefines
<1> QED BY <1>1, <1>2, ChannelIsConsistent, PTL DEF Spec, Abstract!Spec, ImplementsAtomicDisk

-----------------------------------------------------------------------------
(* Interrupts.                                                              *)

(* Where disk_init may be.                                                  *)
BootLabels == {"reset", "detect", "select", "issue", "down", "busy", "done"}

(* Somebody waits in sema_down for an interrupt; a command under way will    *)
(* raise one when it completes.                                              *)
Awaited == boot[1] = "down" \/ \E t \in Threads : pc[t] = "down"
UnderWay == st \in {"read", "identify", "write"}
Count(b) == IF b THEN 1 ELSE 0

(* Whoever waits for an interrupt has said so before issuing the command.    *)
ExpectInv ==
    /\ boot[1] \in {"issue", "down"} => expecting_interrupt
    /\ \A t \in Threads : pc[t] \in {"issue", "down", "busy", "data"} => expecting_interrupt

(* Without noise there is one interrupt on the way exactly while somebody    *)
(* waits for it: still to be raised by the controller, pending, or counted   *)
(* in completion_wait.                                                       *)
Balanced == completion_wait + Count(irq) + Count(UnderWay) = Count(Awaited)

IrqInv ==
    /\ boot \in BootLabels \X Dev /\ completion_wait \in Nat /\ spurious \in Nat
    /\ ExpectInv
    /\ (spurious = 0 /\ ~halted) => Balanced

-----------------------------------------------------------------------------
(* A thread inside is the only one that may wait.                           *)
LEMMA AwaitedInside ==
    ASSUME DInv, NEW t \in Threads, pc[t] \in Inside
    PROVE  Awaited <=> pc[t] = "down"
<1>1. boot = <<"done", 0>> /\ \A u \in Threads \ {t} : pc[u] \in Outside
  BY InsideFacts
<1> QED BY <1>1 DEF Awaited, Outside

(* So after its step somebody waits exactly if it has come to sema_down.    *)
LEMMA AwaitedMove ==
    ASSUME DInv, NEW t \in Threads, pc[t] \in Inside, NEW label,
           pc' = [pc EXCEPT ![t] = label], boot' = boot
    PROVE  Awaited' <=> label = "down"
<1>1. boot = <<"done", 0>> /\ \A u \in Threads \ {t} : pc[u] \in Outside
  BY InsideFacts
<1>2. pc'[t] = label /\ \A u \in Threads \ {t} : pc'[u] = pc[u]
  BY DEF DInv, CallInv
<1>3. boot' = <<"done", 0>> /\ \A u \in Threads \ {t} : pc'[u] # "down"
  BY <1>1, <1>2 DEF Outside
<1> QED BY <1>2, <1>3 DEF Awaited

(* Calls and lock_acquire change nothing for whoever waits.                 *)
LEMMA AwaitedOutside ==
    ASSUME DInv, NEW t \in Threads, pc[t] \in Outside, NEW label \in {"lock", "select"},
           pc' = [pc EXCEPT ![t] = label], boot' = boot
    PROVE  Awaited' <=> Awaited
<1>1. pc[t] # "down" /\ pc'[t] # "down" /\ \A u \in Threads \ {t} : pc'[u] = pc[u]
  BY DEF DInv, CallInv, Outside
<1>2. (\E u \in Threads : pc'[u] = "down") <=> (\E u \in Threads : pc[u] = "down")
  BY <1>1
<1> QED BY <1>2 DEF Awaited

(* A thread's step keeps what ExpectInv says of the others.                 *)
LEMMA ExpectMove ==
    ASSUME DInv, ExpectInv, NEW t \in Threads, NEW label,
           pc' = [pc EXCEPT ![t] = label], boot' = boot,
           label \in {"issue", "down", "busy", "data"} => expecting_interrupt',
           expecting_interrupt => expecting_interrupt'
    PROVE  ExpectInv'
<1>1. pc'[t] = label /\ \A u \in Threads \ {t} : pc'[u] = pc[u]
  BY DEF DInv, CallInv
<1>2. \A u \in Threads : pc'[u] \in {"issue", "down", "busy", "data"} => expecting_interrupt'
  BY <1>1 DEF ExpectInv
<1>3. boot'[1] \in {"issue", "down"} => expecting_interrupt'
  BY DEF ExpectInv
<1> QED BY <1>2, <1>3 DEF ExpectInv

(* At first nothing is under way.                                           *)
LEMMA InitIrq == Init => IrqInv
<1> SUFFICES ASSUME Init PROVE IrqInv
  OBVIOUS
<1>1. /\ boot = <<"reset", 0>> /\ completion_wait = 0 /\ spurious = 0 /\ irq = FALSE
      /\ st \in {"idle", "rdata"} /\ \A t \in Threads : pc[t] = "run"
  BY DEF Init
<1>2. ~Awaited /\ ~UnderWay /\ ~irq
  BY <1>1 DEF Awaited, UnderWay
<1>3. Balanced
  BY <1>1, <1>2 DEF Balanced, Count
<1>4. ExpectInv
  BY <1>1 DEF ExpectInv
<1>5. boot \in BootLabels \X Dev
  BY <1>1 DEF BootLabels, Dev
<1> QED BY <1>1, <1>3, <1>4, <1>5 DEF IrqInv

(* The controller raises the interrupt of the command it completes.         *)
LEMMA ControllerIrq ==
    ASSUME DInv, IrqInv, Controller
    PROVE  IrqInv'
<1>1. UNCHANGED <<boot, completion_wait, spurious, expecting_interrupt, pc, halted>>
  BY DEF Controller, chan, ident
<1>2. Awaited' <=> Awaited
  BY <1>1 DEF Awaited
<1>3. ASSUME Balanced PROVE Balanced'
  <2>1. CASE st = "wcmd"
    <3>1. ~UnderWay /\ ~UnderWay' /\ irq' = irq
      BY <2>1 DEF Controller, UnderWay
    <3> QED BY <3>1, <1>1, <1>2, <1>3 DEF Balanced, Count
  <2>2. CASE st # "wcmd"
    <3>1. UnderWay /\ ~UnderWay' /\ irq'
      BY <2>2 DEF Controller, UnderWay
    <3>2. completion_wait \in Nat
      BY DEF IrqInv
    <3> QED BY <3>1, <3>2, <1>1, <1>2, <1>3 DEF Balanced, Count
  <2> QED BY <2>1, <2>2
<1>4. ExpectInv'
  BY <1>1 DEF IrqInv, ExpectInv
<1> QED BY <1>1, <1>3, <1>4 DEF IrqInv

(* interrupt_handler counts an interrupt that is expected; noise is not     *)
(* balanced.                                                                *)
LEMMA InterruptIrq ==
    ASSUME DInv, IrqInv, Noise \/ interrupt_handler
    PROVE  IrqInv'
<1>1. UNCHANGED <<boot, expecting_interrupt, pc, halted, st>>
  BY DEF Noise, interrupt_handler, chan, ident
<1>2. (Awaited' <=> Awaited) /\ (UnderWay' <=> UnderWay) /\ ExpectInv'
  BY <1>1 DEF Awaited, UnderWay, IrqInv, ExpectInv
<1>3. /\ boot \in BootLabels \X Dev /\ completion_wait \in Nat /\ spurious \in Nat
      /\ ExpectInv /\ ((spurious = 0 /\ ~halted) => Balanced)
  BY DEF IrqInv
<1>4. CASE Noise
  <2>1. completion_wait' = completion_wait /\ spurious' \in Nat /\ spurious' # 0
    BY <1>3, <1>4 DEF Noise, chan
  <2> QED BY <2>1, <1>1, <1>2, <1>3 DEF IrqInv
<1>5. CASE interrupt_handler
  <2>1. /\ irq /\ ~irq' /\ spurious' = spurious
        /\ completion_wait' = IF expecting_interrupt THEN completion_wait + 1 ELSE completion_wait
    BY <1>5 DEF interrupt_handler
  <2>2. completion_wait' \in Nat
    BY <2>1, <1>3
  <2>3. ASSUME Balanced PROVE Balanced'
    <3>1. Awaited
      BY <2>1, <2>3, <1>3 DEF Balanced, Count
    <3>2. expecting_interrupt
      BY <3>1, <1>3 DEF Awaited, ExpectInv
    <3> QED BY <2>1, <2>3, <3>2, <1>2, <1>3 DEF Balanced, Count
  <2> QED BY <2>1, <2>2, <2>3, <1>1, <1>2, <1>3 DEF IrqInv
<1> QED BY <1>4, <1>5

(* disk_init waits for the interrupt of its own command.                    *)
LEMMA BootIrq ==
    ASSUME DInv, IrqInv, reset_channel \/ disk_init \/ identify_ata_device
    PROVE  IrqInv'
<1>1. boot # <<"done", 0>> /\ UNCHANGED <<irq, spurious, pc, halted>>
  BY DEF reset_channel, disk_init, identify_ata_device, Booting, hardware, chan
<1>2. \A t \in Threads : pc[t] = "run" /\ pc'[t] = "run"
  BY <1>1 DEF DInv, ChannelInv
<1>3. (Awaited <=> boot[1] = "down") /\ (Awaited' <=> boot'[1] = "down")
  BY <1>2 DEF Awaited
<1>4. /\ boot \in BootLabels \X Dev /\ completion_wait \in Nat /\ spurious \in Nat
      /\ ExpectInv /\ ((spurious = 0 /\ ~halted) => Balanced)
  BY DEF IrqInv
<1>5. ASSUME boot' \in BootLabels \X Dev, completion_wait' \in Nat,
             boot'[1] \in {"issue", "down"} => expecting_interrupt',
             Balanced => Balanced'
      PROVE  IrqInv'
  <2>1. ExpectInv'
    BY <1>2, <1>5 DEF ExpectInv
  <2> QED BY <2>1, <1>1, <1>4, <1>5 DEF IrqInv
<1>6. ASSUME boot'[1] # "down", boot[1] # "down", completion_wait' = completion_wait,
             UnderWay' => UnderWay
      PROVE  Balanced => Balanced'
  <2> SUFFICES ASSUME Balanced PROVE Balanced'
    OBVIOUS
  <2>1. ~Awaited /\ ~Awaited'
    BY <1>3, <1>6
  <2>2. completion_wait = 0 /\ Count(irq) = 0 /\ ~UnderWay
    BY <2>1, <1>4 DEF Balanced, Count
  <2> QED BY <2>1, <2>2, <1>1, <1>6 DEF Balanced, Count
<1>7. CASE reset_channel
  <2>1. /\ boot[1] = "reset" /\ boot' = <<"detect", 0>> /\ completion_wait' = completion_wait
        /\ ~UnderWay'
    BY <1>7 DEF reset_channel, UnderWay, chan
  <2> QED BY <2>1, <1>4, <1>5, <1>6 DEF BootLabels, Dev
<1>8. CASE disk_init
  <2>1. /\ boot[1] = "detect" /\ boot' = <<"select", 0>> /\ completion_wait' = completion_wait
        /\ (UnderWay' <=> UnderWay)
    BY <1>8 DEF disk_init, UnderWay, chan, hardware
  <2> QED BY <2>1, <1>4, <1>5, <1>6 DEF BootLabels, Dev
<1>9. CASE identify_ata_device
  <2>1. PICK d \in Dev :
       \/ /\ Booting("select", d)
          /\ boot' = AfterDev(d)
          /\ UNCHANGED <<st, completion_wait>>
       \/ /\ Booting("select", d)
          /\ expecting_interrupt'
          /\ boot' = <<"issue", d>>
          /\ UNCHANGED <<st, completion_wait>>
       \/ /\ Booting("issue", d)
          /\ st' = "identify"
          /\ boot' = <<"down", d>>
          /\ UNCHANGED <<expecting_interrupt, completion_wait>>
       \/ /\ Booting("down", d) /\ completion_wait > 0
          /\ completion_wait' = completion_wait - 1
          /\ boot' = <<"busy", d>>
          /\ UNCHANGED <<st, expecting_interrupt>>
       \/ /\ Booting("busy", d)
          /\ st' = IF DRQ THEN "idle" ELSE st
          /\ boot' = AfterDev(d)
          /\ UNCHANGED completion_wait
    BY ZenonT(60), <1>9 DEF identify_ata_device
  <2>2. AfterDev(d) \in {<<"select", 1>>, <<"done", 0>>}
    BY DEF AfterDev
  <2>3. CASE /\ Booting("select", d) /\ boot' = AfterDev(d) /\ UNCHANGED <<st, completion_wait>>
    <3>1. /\ boot' \in BootLabels \X Dev /\ boot[1] # "down" /\ boot'[1] \notin {"issue", "down"}
          /\ UnderWay' => UnderWay
      BY <2>2, <2>3 DEF Booting, BootLabels, Dev, UnderWay
    <3> QED BY <2>3, <3>1, <1>4, <1>5, <1>6
  <2>4. CASE /\ Booting("select", d) /\ expecting_interrupt' /\ boot' = <<"issue", d>>
             /\ UNCHANGED <<st, completion_wait>>
    <3>1. /\ boot' \in BootLabels \X Dev /\ boot[1] # "down" /\ boot'[1] # "down"
          /\ UnderWay' => UnderWay
      BY <2>4 DEF Booting, BootLabels, UnderWay
    <3> QED BY <2>4, <3>1, <1>4, <1>5, <1>6
  <2>5. CASE /\ Booting("issue", d) /\ st' = "identify" /\ boot' = <<"down", d>>
             /\ UNCHANGED <<expecting_interrupt, completion_wait>>
    <3>1. /\ boot' \in BootLabels \X Dev /\ boot[1] = "issue" /\ boot'[1] = "down" /\ UnderWay'
      BY <2>5 DEF Booting, BootLabels, UnderWay
    <3>2. expecting_interrupt'
      BY <2>5, <3>1, <1>4 DEF ExpectInv
    <3>3. ASSUME Balanced PROVE Balanced'
      <4>1. ~Awaited /\ Awaited'
        BY <3>1, <1>3
      <4>2. completion_wait = 0 /\ Count(irq) = 0
        BY <3>3, <4>1, <1>4 DEF Balanced, Count
      <4> QED BY <2>5, <3>1, <4>1, <4>2, <1>1 DEF Balanced, Count
    <3> QED BY <2>5, <3>1, <3>2, <3>3, <1>4, <1>5
  <2>6. CASE /\ Booting("down", d) /\ completion_wait > 0
             /\ completion_wait' = completion_wait - 1 /\ boot' = <<"busy", d>>
             /\ UNCHANGED <<st, expecting_interrupt>>
    <3>1. /\ boot' \in BootLabels \X Dev /\ boot[1] = "down" /\ boot'[1] = "busy"
          /\ completion_wait' \in Nat /\ (UnderWay' <=> UnderWay)
      BY <2>6, <1>4 DEF Booting, BootLabels, UnderWay
    <3>2. ASSUME Balanced PROVE Balanced'
      <4>1. Awaited /\ ~Awaited'
        BY <3>1, <1>3
      <4> QED BY <2>6, <3>1, <3>2, <4>1, <1>1, <1>4 DEF Balanced, Count
    <3> QED BY <2>6, <3>1, <3>2, <1>4, <1>5
  <2>7. CASE /\ Booting("busy", d) /\ st' = (IF DRQ THEN "idle" ELSE st) /\ boot' = AfterDev(d)
             /\ UNCHANGED completion_wait
    <3>1. /\ boot' \in BootLabels \X Dev /\ boot[1] # "down" /\ boot'[1] \notin {"issue", "down"}
          /\ UnderWay' => UnderWay
      BY <2>2, <2>7 DEF Booting, BootLabels, Dev, UnderWay
    <3> QED BY <2>7, <3>1, <1>4, <1>5, <1>6
  <2> QED BY <2>1, <2>3, <2>4, <2>5, <2>6, <2>7
<1> QED BY <1>7, <1>8, <1>9

(* A step of a call that moves a thread from one point inside to another:   *)
(* it starts a command exactly if it will wait for it.                      *)
LEMMA InsideIrq ==
    ASSUME DInv, IrqInv, NEW t \in Threads, pc[t] \in Inside \ {"down"}, NEW label,
           pc' = [pc EXCEPT ![t] = label], UNCHANGED <<boot, spurious, irq, completion_wait>>,
           halted => halted',
           label \in {"issue", "down", "busy", "data"} => expecting_interrupt',
           expecting_interrupt => expecting_interrupt',
           label = "down" => UnderWay', UnderWay' => UnderWay \/ label = "down"
    PROVE  IrqInv'
<1>1. ~Awaited /\ (Awaited' <=> label = "down")
  BY ZenonT(60), AwaitedInside, AwaitedMove
<1>2. ExpectInv'
  BY ZenonT(60), ExpectMove DEF IrqInv
<1>3. completion_wait \in Nat /\ ((spurious = 0 /\ ~halted) => Balanced)
  BY DEF IrqInv
<1>4. ASSUME Balanced PROVE Balanced'
  <2>1. completion_wait = 0 /\ Count(irq) = 0 /\ ~UnderWay
    BY <1>1, <1>3, <1>4 DEF Balanced, Count
  <2>2. UnderWay' <=> Awaited'
    BY <2>1, <1>1
  <2> QED BY <2>1, <2>2 DEF Balanced, Count
<1> QED BY <1>2, <1>3, <1>4 DEF IrqInv

(* A thread waits for the interrupt of its own command.                     *)
LEMMA ThreadIrq ==
    ASSUME DInv, IrqInv, NEW t \in Threads, Step(t)
    PROVE  IrqInv'
<1>1. /\ boot \in BootLabels \X Dev /\ completion_wait \in Nat /\ spurious \in Nat
      /\ ExpectInv /\ ((spurious = 0 /\ ~halted) => Balanced)
  BY DEF IrqInv
<1>2. CASE lock_acquire(t)
  <2>1. /\ pc[t] = "lock" /\ pc' = [pc EXCEPT ![t] = "select"]
        /\ UNCHANGED <<boot, st, irq, completion_wait, expecting_interrupt, spurious, halted>>
    BY <1>2 DEF lock_acquire, At, GoTo, hardware, ident
  <2>2. Awaited' <=> Awaited
    BY ZenonT(60), <2>1, AwaitedOutside DEF Outside
  <2>3. ExpectInv'
    BY ZenonT(60), <2>1, <1>1, ExpectMove
  <2>4. Balanced => Balanced'
    BY <2>1, <2>2 DEF Balanced, UnderWay, Count
  <2> QED BY <2>1, <2>3, <2>4, <1>1 DEF IrqInv
<1>3. CASE select_sector(t)
  <2>1. /\ pc[t] = "select" /\ pc' = [pc EXCEPT ![t] = "expect"]
        /\ UNCHANGED <<boot, st, irq, completion_wait, expecting_interrupt, spurious, halted>>
    BY <1>3 DEF select_sector, At, GoTo, chan, ident
  <2>2. UnderWay' <=> UnderWay
    BY <2>1 DEF UnderWay
  <2> QED BY ZenonT(60), <2>1, <2>2, <1>1, InsideIrq DEF Inside
<1>4. CASE issue_pio_command(t)
  <2>1. /\ pc[t] \in {"expect", "issue"}
        /\ UNCHANGED <<boot, irq, completion_wait, spurious, halted>>
    BY <1>4 DEF issue_pio_command, At, ident
  <2>2. CASE pc[t] = "expect"
    <3>1. pc' = [pc EXCEPT ![t] = "issue"] /\ expecting_interrupt' /\ (UnderWay' <=> UnderWay)
      BY <2>2, <1>4 DEF issue_pio_command, At, GoTo, UnderWay
    <3>2. pc[t] \in Inside \ {"down"} /\ "issue" # "down"
      BY <2>2 DEF Inside
    <3> QED BY ZenonT(30), <2>1, <3>1, <3>2, InsideIrq
  <2>3. CASE pc[t] = "issue"
    <3>1. op[t] \in Requests
      BY <2>3 DEF DInv, CallInv, Fits
    <3>2. op[t].op \in {"read", "write"}
      BY <3>1, RequestFacts
    <3>3. expecting_interrupt' = expecting_interrupt /\ expecting_interrupt
      BY <2>3, <1>1, <1>4 DEF issue_pio_command, At, ExpectInv
    <3>4. PICK label \in {"busy", "down"} :
            pc' = [pc EXCEPT ![t] = label] /\ (UnderWay' <=> label = "down")
      BY <2>3, <3>2, <1>4 DEF issue_pio_command, At, GoTo, Kind, UnderWay
    <3> QED BY ZenonT(60), <2>1, <2>3, <3>3, <3>4, <1>1, InsideIrq DEF Inside
  <2> QED BY <2>1, <2>2, <2>3
<1>5. CASE sema_down(t)
  <2>1. /\ pc[t] = "down" /\ completion_wait' = completion_wait - 1 /\ completion_wait > 0
        /\ UNCHANGED <<boot, st, irq, expecting_interrupt, spurious, halted>>
    BY <1>5 DEF sema_down, At, hardware, ident
  <2>2. PICK label \in {"busy", "unlock"} : pc' = [pc EXCEPT ![t] = label]
    BY ZenonT(60), <1>5 DEF sema_down, GoTo
  <2>3. expecting_interrupt /\ (UnderWay' <=> UnderWay) /\ completion_wait' \in Nat
    BY <2>1, <1>1 DEF ExpectInv, UnderWay
  <2>4. Awaited /\ ~Awaited'
    BY ZenonT(60), <2>1, <2>2, AwaitedInside, AwaitedMove DEF Inside
  <2>5. Balanced => Balanced'
    BY <2>1, <2>3, <2>4, <1>1 DEF Balanced, Count
  <2>6. ExpectInv'
    BY ZenonT(60), <2>1, <2>2, <2>3, <1>1, ExpectMove
  <2> QED BY <2>1, <2>3, <2>5, <2>6, <1>1 DEF IrqInv
<1>6. CASE wait_while_busy(t)
  <2>1. /\ pc[t] = "busy" /\ pc' = [pc EXCEPT ![t] = "data"] /\ ~halted
        /\ UNCHANGED <<boot, st, irq, completion_wait, expecting_interrupt, spurious>>
    BY <1>6 DEF wait_while_busy, At, GoTo, hardware, chan, ident
  <2>2. expecting_interrupt /\ expecting_interrupt' /\ (UnderWay' <=> UnderWay)
    BY <2>1, <1>1 DEF ExpectInv, UnderWay
  <2>3. pc[t] \in Inside \ {"down"} /\ "data" # "down"
    BY <2>1 DEF Inside
  <2> QED BY ZenonT(30), <2>1, <2>2, <2>3, InsideIrq
<1>7. CASE Transfer(t)
  <2>1. /\ pc[t] = "data"
        /\ UNCHANGED <<boot, irq, completion_wait, expecting_interrupt, spurious, halted>>
    BY <1>7 DEF Transfer, At, chan, ident
  <2>2. PICK label \in {"unlock", "down"} :
          pc' = [pc EXCEPT ![t] = label] /\ (UnderWay' <=> label = "down")
    BY <1>7 DEF Transfer, GoTo, UnderWay
  <2>3. expecting_interrupt
    BY <2>1, <1>1 DEF ExpectInv
  <2> QED BY ZenonT(60), <2>1, <2>2, <2>3, <1>1, InsideIrq DEF Inside
<1>8. CASE lock_release(t)
  <2>1. /\ pc[t] = "unlock" /\ pc' = [pc EXCEPT ![t] = "run"]
        /\ UNCHANGED <<boot, st, irq, completion_wait, expecting_interrupt, spurious, halted>>
    BY <1>8 DEF lock_release, At, GoTo, hardware, ident
  <2>2. UnderWay' <=> UnderWay
    BY <2>1 DEF UnderWay
  <2> QED BY ZenonT(60), <2>1, <2>2, <1>1, InsideIrq DEF Inside
<1> QED BY <1>2, <1>3, <1>4, <1>5, <1>6, <1>7, <1>8 DEF Step

(* A call touches nothing of the channel.                                   *)
LEMMA CallIrq ==
    ASSUME DInv, IrqInv, NEW t \in Threads, NEW d \in Dev, NEW n \in Sectors, Call(t, d, n)
    PROVE  IrqInv'
<1>1. /\ pc[t] = "run" /\ pc' = [pc EXCEPT ![t] = "lock"]
      /\ UNCHANGED <<boot, st, irq, completion_wait, expecting_interrupt, spurious, halted>>
  BY DEF Call, At, GoTo, hardware, chan, ident
<1>2. Awaited' <=> Awaited
  BY ZenonT(60), <1>1, AwaitedOutside DEF Outside
<1>3. ExpectInv'
  BY ZenonT(60), <1>1, ExpectMove DEF IrqInv
<1>4. Balanced => Balanced'
  BY <1>1, <1>2 DEF Balanced, UnderWay, Count
<1> QED BY <1>1, <1>3, <1>4 DEF IrqInv

(* Every step keeps the balance.                                            *)
LEMMA NextIrq == DInv /\ IrqInv /\ [Next]_vars => IrqInv'
<1> SUFFICES ASSUME DInv, IrqInv, [Next]_vars PROVE IrqInv'
  OBVIOUS
<1>1. CASE UNCHANGED vars
  <2>1. UNCHANGED <<boot, st, irq, completion_wait, expecting_interrupt, spurious, pc, halted>>
    BY <1>1 DEF vars, hardware, chan, ident
  <2> QED BY <2>1 DEF IrqInv, ExpectInv, Balanced, UnderWay, Awaited
<1>2. CASE Next
  BY <1>2, ControllerIrq, InterruptIrq, BootIrq, ThreadIrq, CallIrq DEF Next
<1> QED BY <1>1, <1>2

(* completion_wait pairs each command with its own interrupt, for any number *)
(* of threads, on healthy and on faulty devices, at boot and afterwards.     *)
THEOREM InterruptsArePaired == Spec => []OneInterruptPerCommand
<1>1. DInv /\ IrqInv => OneInterruptPerCommand
  <2> SUFFICES ASSUME DInv, IrqInv, spurious = 0, ~halted PROVE
        /\ completion_wait + (IF irq THEN 1 ELSE 0) <= 1
        /\ (holder = NoThread /\ boot = <<"done", 0>>) => completion_wait = 0 /\ ~irq
    BY DEF OneInterruptPerCommand
  <2>1. Balanced /\ completion_wait \in Nat
    BY DEF IrqInv
  <2>2. completion_wait + (IF irq THEN 1 ELSE 0) <= 1
    BY <2>1 DEF Balanced, Count
  <2>3. ASSUME holder = NoThread, boot = <<"done", 0>> PROVE completion_wait = 0 /\ ~irq
    <3>1. \A t \in Threads : pc[t] \notin Inside
      BY ZenonT(60), <2>3, DiskAssumption DEF DInv, ChannelInv
    <3>2. ~Awaited
      BY <2>3, <3>1 DEF Awaited, Inside
    <3> QED BY <2>1, <3>2 DEF Balanced, Count
  <2> QED BY <2>2, <2>3
<1> QED BY <1>1, InitIrq, NextIrq, ChannelIsConsistent, PTL DEF Spec

-----------------------------------------------------------------------------
(* Detection.                                                               *)

(* What disk_init has found out so far about the two devices: the registers *)
(* are right about the first and the second probe, and a device that has    *)
(* identified itself has a size.  While identification waits for a device   *)
(* that answers its commands, that device works on the command or offers    *)
(* the answer.                                                              *)
Probed(d) ==
    /\ is_ata[d] => DRDY(d)
    /\ hw[d] = "ata" => is_ata[d] \/ (d = 1 /\ ~DRDY(0))
Sized(d) == is_ata[d] => capacity[d] > 0
DetectInv ==
    /\ is_ata \in [Dev -> BOOLEAN] /\ capacity \in [Dev -> Nat]
    /\ boot[1] \notin {"reset", "detect"} => Probed(0) /\ Probed(1)
    /\ boot[1] \in {"issue", "down", "busy"} => is_ata[boot[2]] /\ sel = boot[2]
    /\ boot[1] \in {"down", "busy"} => st \in {"identify", "rdata"} \/ hw[sel] = "faulty"
    /\ boot[1] \in {"select", "issue", "down", "busy"} /\ boot[2] = 1 => Sized(0)
    /\ boot[1] = "done" => boot = <<"done", 0>> /\ Sized(0) /\ Sized(1)

(* Nothing is known before the channel is reset.                            *)
LEMMA InitDetect == Init => DetectInv
BY DEF Init, DetectInv, Dev

(* check_device_type recognises a disk by its registers; a master that is   *)
(* one does not hide its slave.                                             *)
LEMMA ProbeFacts ==
    ASSUME disk_init
    PROVE  /\ is_ata' \in [Dev -> BOOLEAN]
           /\ \A d \in Dev : /\ is_ata'[d] => DRDY(d)
                             /\ hw[d] = "ata" => is_ata'[d] \/ (d = 1 /\ ~DRDY(0))
<1>1. PICK e0 \in ErrorCodes(0), e1 \in ErrorCodes(1) :
        is_ata' = [d \in Dev |-> IF d = 0 THEN check_device_type(0, e0).ata
                                 ELSE check_device_type(0, e0).slave
                                      /\ check_device_type(1, e1).ata]
  BY DEF disk_init
<1>2. /\ check_device_type(0, e0).ata \in BOOLEAN /\ check_device_type(1, e1).ata \in BOOLEAN
      /\ check_device_type(0, e0).slave \in BOOLEAN
  BY DEF check_device_type
<1>3. /\ check_device_type(0, e0).ata => DRDY(0)
      /\ check_device_type(1, e1).ata => DRDY(1)
  BY ZenonT(60) DEF check_device_type
<1>4. hw[0] = "ata" => check_device_type(0, e0).ata
  <2> SUFFICES ASSUME hw[0] = "ata" PROVE check_device_type(0, e0).ata
    OBVIOUS
  <2>1. e0 \in {1, 129} /\ DRDY(0) /\ AtaSignature(0)
    BY DEF ErrorCodes, DRDY, AtaSignature
  <2>2. ~ (e0 # 1 /\ (e0 # 129 \/ 0 = 1))
    BY <2>1
  <2> QED BY ZenonT(60), <2>1, <2>2 DEF check_device_type
<1>5. DRDY(0) => check_device_type(0, e0).slave
  <2> SUFFICES ASSUME DRDY(0) PROVE check_device_type(0, e0).slave
    OBVIOUS
  <2>1. hw[0] # "none"
    BY DEF DRDY
  <2>2. e0 \in {1, 129}
    BY <2>1 DEF ErrorCodes
  <2>3. ~ (e0 # 1 /\ (e0 # 129 \/ 0 = 1))
    BY <2>2
  <2> QED BY ZenonT(60), <2>3 DEF check_device_type
<1>6. hw[1] = "ata" => check_device_type(1, e1).ata
  <2> SUFFICES ASSUME hw[1] = "ata" PROVE check_device_type(1, e1).ata
    OBVIOUS
  <2>1. e1 = 1
    BY DEF ErrorCodes
  <2>2. DRDY(1) /\ AtaSignature(1)
    BY DEF DRDY, AtaSignature
  <2> QED BY ZenonT(60), <2>1, <2>2 DEF check_device_type
<1>7. /\ is_ata' \in [Dev -> BOOLEAN]
      /\ is_ata'[0] <=> check_device_type(0, e0).ata
      /\ is_ata'[1] <=> check_device_type(0, e0).slave /\ check_device_type(1, e1).ata
  BY <1>1, <1>2 DEF Dev
<1> QED BY <1>3, <1>4, <1>5, <1>6, <1>7 DEF Dev

(* reset_channel and the two probes.                                        *)
LEMMA ProbeDetects ==
    ASSUME DetectInv, reset_channel \/ disk_init
    PROVE  DetectInv'
<1>1. CASE reset_channel
  BY ZenonT(60), <1>1 DEF reset_channel, DetectInv
<1>2. CASE disk_init
  <2>1. boot' = <<"select", 0>> /\ UNCHANGED <<hw, capacity>>
    BY ZenonT(60), <1>2 DEF disk_init, hardware
  <2>2. Probed(0)' /\ Probed(1)'
    BY ZenonT(60), <2>1, <1>2, ProbeFacts DEF Probed, DRDY, Dev
  <2>3. boot'[1] = "select" /\ boot'[2] # 1
    BY <2>1
  <2>4. is_ata' \in [Dev -> BOOLEAN] /\ capacity' \in [Dev -> Nat]
    BY ZenonT(60), <2>1, <1>2, ProbeFacts DEF DetectInv
  <2> QED BY ZenonT(60), <2>2, <2>3, <2>4 DEF DetectInv
<1> QED BY <1>1, <1>2

(* A disk has at least one sector.                                          *)
INSTANCE FiniteSetTheorems

(* The steps of identify_ata_device.                                        *)
LEMMA IdentifyDetects ==
    ASSUME DetectInv, IrqInv, identify_ata_device
    PROVE  DetectInv'
<1>1. /\ is_ata \in [Dev -> BOOLEAN] /\ capacity \in [Dev -> Nat] /\ hw' = hw
      /\ Cardinality(Sectors) \in Nat \ {0}
  <2>1. Cardinality(Sectors) \in Nat /\ Cardinality(Sectors) # 0
    <3>1. Cardinality(Sectors) \in Nat
      BY ZenonT(60), DiskAssumption, FS_CardinalityType
    <3>2. Cardinality(Sectors) = 0 <=> Sectors = {}
      BY ZenonT(60), DiskAssumption, FS_EmptySet
    <3> QED BY ZenonT(60), <3>1, <3>2, DiskAssumption
  <2> QED BY ZenonT(60), <2>1 DEF DetectInv, identify_ata_device
<1>2. PICK d \in Dev :
       \/ /\ Booting("select", d) /\ ~is_ata[d]
          /\ boot' = AfterDev(d)
          /\ UNCHANGED <<is_ata, capacity, st, sel, expecting_interrupt, completion_wait>>
       \/ /\ Booting("select", d) /\ is_ata[d] /\ select_device_wait
          /\ sel' = d
          /\ expecting_interrupt' = TRUE
          /\ boot' = <<"issue", d>>
          /\ UNCHANGED <<is_ata, capacity, st, completion_wait>>
       \/ /\ Booting("issue", d)
          /\ st' = "identify"
          /\ boot' = <<"down", d>>
          /\ UNCHANGED <<is_ata, capacity, sel, expecting_interrupt, completion_wait>>
       \/ /\ Booting("down", d) /\ completion_wait > 0
          /\ completion_wait' = completion_wait - 1
          /\ boot' = <<"busy", d>>
          /\ UNCHANGED <<is_ata, capacity, st, sel, expecting_interrupt>>
       \/ /\ Booting("busy", d) /\ (BSY => hw[sel] = "faulty")
          /\ is_ata' = [is_ata EXCEPT ![d] = DRQ]
          /\ capacity' = IF DRQ THEN [capacity EXCEPT ![d] = Cardinality(Sectors)] ELSE capacity
          /\ st' = IF DRQ THEN "idle" ELSE st
          /\ boot' = AfterDev(d)
          /\ UNCHANGED <<sel, expecting_interrupt, completion_wait>>
  BY ZenonT(60) DEF identify_ata_device
<1>3. /\ d = 0 => AfterDev(d) = <<"select", 1>>
      /\ d = 1 => AfterDev(d) = <<"done", 0>>
      /\ d \in {0, 1}
  BY DEF AfterDev, Dev
<1>4. ASSUME boot[2] = d, boot[1] \in {"select", "issue", "down", "busy"} PROVE
      /\ Probed(0) /\ Probed(1) /\ (d = 1 => Sized(0))
  BY ZenonT(60), <1>4 DEF DetectInv
<1>5. ASSUME UNCHANGED <<is_ata, capacity>>
      PROVE  \A e \in Dev : (Probed(e)' <=> Probed(e)) /\ (Sized(e)' <=> Sized(e))
  BY ZenonT(60), <1>1, <1>5 DEF Probed, Sized, DRDY
<1>6. CASE /\ Booting("select", d) /\ ~is_ata[d] /\ boot' = AfterDev(d)
           /\ UNCHANGED <<is_ata, capacity, st, sel>>
  <2>1. Probed(0)' /\ Probed(1)' /\ (d = 1 => Sized(0)') /\ Sized(d)'
    BY ZenonT(60), <1>3, <1>4, <1>5, <1>6 DEF Booting, Dev, Sized
  <2>2. CASE d = 0
    <3>0. boot' = <<"select", 1>>
      BY ZenonT(60), <2>2, <1>3, <1>6
    <3>1. boot'[1] = "select" /\ boot'[2] = 1
      BY <3>0
    <3> QED BY ZenonT(60), <2>1, <2>2, <3>1, <1>1, <1>6 DEF DetectInv
  <2>3. CASE d = 1
    <3>0. boot' = <<"done", 0>>
      BY ZenonT(60), <2>3, <1>3, <1>6
    <3>1. boot'[1] = "done" /\ boot'[2] = 0
      BY <3>0
    <3> QED BY ZenonT(60), <2>1, <2>3, <3>0, <3>1, <1>1, <1>6 DEF DetectInv
  <2> QED BY ZenonT(60), <2>2, <2>3, <1>3
<1>7. CASE /\ Booting("select", d) /\ is_ata[d] /\ sel' = d /\ boot' = <<"issue", d>>
           /\ UNCHANGED <<is_ata, capacity, st>>
  <2>1. Probed(0)' /\ Probed(1)' /\ (d = 1 => Sized(0)')
    BY ZenonT(60), <1>3, <1>4, <1>5, <1>7 DEF Booting, Dev
  <2> QED BY ZenonT(60), <2>1, <1>1, <1>3, <1>7 DEF DetectInv
<1>8. CASE /\ Booting("issue", d) /\ st' = "identify" /\ boot' = <<"down", d>>
           /\ UNCHANGED <<is_ata, capacity, sel>>
  <2>1. Probed(0)' /\ Probed(1)' /\ (d = 1 => Sized(0)')
    BY <1>3, <1>4, <1>5, <1>8 DEF Booting, Dev
  <2>2. is_ata[d] /\ sel = d
    BY <1>8 DEF Booting, DetectInv
  <2> QED BY ZenonT(60), <2>1, <2>2, <1>1, <1>3, <1>8 DEF DetectInv
<1>9. CASE /\ Booting("down", d) /\ boot' = <<"busy", d>>
           /\ UNCHANGED <<is_ata, capacity, st, sel>>
  <2>1. Probed(0)' /\ Probed(1)' /\ (d = 1 => Sized(0)')
    BY <1>3, <1>4, <1>5, <1>9 DEF Booting, Dev
  <2>2. is_ata[d] /\ sel = d /\ (st \in {"identify", "rdata"} \/ hw[sel] = "faulty")
    BY ZenonT(60), <1>9 DEF Booting, DetectInv
  <2> QED BY ZenonT(60), <2>1, <2>2, <1>1, <1>3, <1>9 DEF DetectInv
<1>10. CASE /\ Booting("busy", d) /\ (BSY => hw[sel] = "faulty")
            /\ is_ata' = [is_ata EXCEPT ![d] = DRQ]
            /\ capacity' = IF DRQ THEN [capacity EXCEPT ![d] = Cardinality(Sectors)] ELSE capacity
            /\ boot' = AfterDev(d)
  <2>1. is_ata[d] /\ sel = d /\ (st \in {"identify", "rdata"} \/ hw[sel] = "faulty")
    BY ZenonT(60), <1>10 DEF Booting, DetectInv
  <2>2. hw[d] = "ata" => DRQ
    BY ZenonT(60), <2>1, <1>10 DEF BSY, DRQ
  <2>3. DRQ \in BOOLEAN
    BY DEF DRQ
  <2>4. /\ is_ata' \in [Dev -> BOOLEAN] /\ capacity' \in [Dev -> Nat]
        /\ is_ata'[d] <=> DRQ
        /\ \A e \in Dev \ {d} : is_ata'[e] = is_ata[e] /\ capacity'[e] = capacity[e]
        /\ DRQ => capacity'[d] > 0
    <3>1. PICK n \in Nat \ {0} : n = Cardinality(Sectors)
      BY ZenonT(60), <1>1
    <3>2. capacity' = IF DRQ THEN [capacity EXCEPT ![d] = n] ELSE capacity
      BY ZenonT(60), <3>1, <1>10
    <3>3. /\ capacity' \in [Dev -> Nat] /\ (DRQ => capacity'[d] > 0)
          /\ \A e \in Dev \ {d} : capacity'[e] = capacity[e]
      BY <3>2, <1>1
    <3>4. /\ is_ata' \in [Dev -> BOOLEAN] /\ (is_ata'[d] <=> DRQ)
          /\ \A e \in Dev \ {d} : is_ata'[e] = is_ata[e]
      BY ZenonT(60), <2>3, <1>1, <1>10
    <3> QED BY ZenonT(60), <3>3, <3>4
  <2>5. Probed(0)' /\ Probed(1)' /\ (d = 1 => Sized(0)') /\ Sized(d)'
    BY ZenonT(60), <2>1, <2>2, <2>4, <1>1, <1>3, <1>4, <1>10 DEF Booting, Dev, Probed, Sized, DRDY
  <2>6. CASE d = 0
    <3>0. boot' = <<"select", 1>>
      BY ZenonT(60), <2>6, <1>3, <1>10
    <3>1. boot'[1] = "select" /\ boot'[2] = 1
      BY <3>0
    <3> QED BY ZenonT(60), <2>4, <2>5, <2>6, <3>1 DEF DetectInv
  <2>7. CASE d = 1
    <3>0. boot' = <<"done", 0>>
      BY ZenonT(60), <2>7, <1>3, <1>10
    <3>1. boot'[1] = "done"
      BY <3>0
    <3> QED BY ZenonT(60), <2>4, <2>5, <2>7, <3>0, <3>1 DEF DetectInv
  <2> QED BY ZenonT(60), <2>6, <2>7, <1>3
<1> QED BY ZenonT(60), <1>2, <1>6, <1>7, <1>8, <1>9, <1>10

(* The controller offers the answer of a device that answers its commands.  *)
LEMMA ControllerDetects ==
    ASSUME DInv, DetectInv, Controller
    PROVE  DetectInv'
<1>1. UNCHANGED <<hw, sel, is_ata, capacity, boot>>
  BY DEF Controller, ident
<1>2. st \in {"identify", "rdata"} => st' \in {"identify", "rdata"} \/ hw[sel] = "faulty"
  BY DEF Controller
<1>3. \A d \in Dev : (Probed(d)' <=> Probed(d)) /\ (Sized(d)' <=> Sized(d))
  BY <1>1 DEF Probed, Sized, DRDY
<1> QED BY ZenonT(60), <1>1, <1>2, <1>3 DEF DetectInv, Dev

(* Afterwards nothing changes what was found.                               *)
LEMMA NextDetect == DInv /\ IrqInv /\ DetectInv /\ [Next]_vars => DetectInv'
<1> SUFFICES ASSUME DInv, IrqInv, DetectInv, [Next]_vars PROVE DetectInv'
  OBVIOUS
<1>1. ASSUME UNCHANGED <<hw, is_ata, capacity, boot>>,
             UNCHANGED <<sel, st>> \/ boot = <<"done", 0>>
      PROVE  DetectInv'
  <2>1. \A d \in Dev : (Probed(d)' <=> Probed(d)) /\ (Sized(d)' <=> Sized(d))
    BY <1>1 DEF Probed, Sized, DRDY
  <2>2. boot = <<"done", 0>> => boot[1] = "done"
    OBVIOUS
  <2>3. 0 \in Dev /\ 1 \in Dev
    BY DEF Dev
  <2>4. CASE UNCHANGED <<sel, st>>
    BY ZenonT(60), <2>1, <2>3, <2>4, <1>1 DEF DetectInv
  <2>5. CASE boot = <<"done", 0>>
    <3>1. boot[1] = "done" /\ boot'[1] = "done" /\ boot' = <<"done", 0>>
      BY ZenonT(60), <2>2, <2>5, <1>1
    <3> QED BY ZenonT(60), <2>1, <2>3, <3>1, <1>1 DEF DetectInv
  <2> QED BY ZenonT(60), <2>4, <2>5, <1>1
<1>2. CASE UNCHANGED vars
  BY <1>1, <1>2 DEF vars, hardware, ident
<1>3. CASE Noise \/ interrupt_handler
  <2>1. UNCHANGED <<hw, is_ata, capacity, boot, sel, st>>
    BY <1>3 DEF Noise, interrupt_handler, ident
  <2> QED BY <2>1, <1>1
<1>4. ASSUME NEW t \in Threads, Step(t) \/ \E d \in Dev, s \in Sectors : Call(t, d, s)
      PROVE  DetectInv'
  <2>1. UNCHANGED <<hw, is_ata, capacity, boot>>
    <3>1. CASE Step(t)
      BY <3>1 DEF Step, lock_acquire, select_sector, issue_pio_command, sema_down,
                  wait_while_busy, Transfer, lock_release, hardware, ident
    <3>2. CASE \E d \in Dev, s \in Sectors : Call(t, d, s)
      BY <3>2 DEF Call, hardware, ident
    <3> QED BY <3>1, <3>2, <1>4
  <2>2. boot = <<"done", 0>>
    <3>1. CASE Step(t)
      <4>1. pc[t] # "run"
        BY <3>1 DEF Step, At, lock_acquire, select_sector, issue_pio_command, sema_down,
                    wait_while_busy, Transfer, lock_release
      <4> QED BY <4>1 DEF DInv, ChannelInv
    <3>2. CASE \E d \in Dev, s \in Sectors : Call(t, d, s)
      BY <3>2 DEF Call
    <3> QED BY <3>1, <3>2, <1>4
  <2> QED BY <2>1, <2>2, <1>1
<1>5. CASE Next
  BY <1>3, <1>4, <1>5, ControllerDetects, ProbeDetects, IdentifyDetects DEF Next
<1> QED BY <1>2, <1>5

(* disk_init finds every disk that answers, and only disks, whatever is     *)
(* plugged in and whatever interrupts come in between.                      *)
THEOREM DisksAreDetected == Spec => []DetectsDisks
<1>1. DetectInv => DetectsDisks
  <2> SUFFICES ASSUME DetectInv, boot = <<"done", 0>>, NEW d \in Dev
               PROVE  /\ is_ata[d] => DRDY(d) /\ capacity[d] > 0
                      /\ hw[d] = "ata" => is_ata[d] \/ (d = 1 /\ ~DRDY(0))
    BY DEF DetectsDisks
  <2>1. Probed(d) /\ Sized(d)
    BY DEF DetectInv, Dev
  <2> QED BY <2>1 DEF Probed, Sized
<1>2. Spec => []IrqInv
  BY InitIrq, NextIrq, ChannelIsConsistent, PTL DEF Spec
<1> QED BY <1>1, <1>2, InitDetect, NextDetect, ChannelIsConsistent, PTL DEF Spec
=============================================================================
