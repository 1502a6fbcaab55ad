-------------------------------- MODULE Inode --------------------------------
(***************************************************************************)
(* filesys/inode.c and filesys/file.c: how reads and writes of any size at *)
(* any position go through whole sectors and a bounce buffer that malloc   *)
(* may not have, and who may write while somebody denies writes.  One file *)
(* with a sector of somebody else's on either side, opened several times;  *)
(* one caller, an iteration of a transfer loop is one step.                *)
(***************************************************************************)
EXTENDS Integers, Sequences, FiniteSets

CONSTANTS
    SectorSize,     \* DISK_SECTOR_SIZE
    Length,         \* inode_length, in bytes
    Files,          \* the struct files there may be
    MaxPos,         \* seeks go up to here
    MaxSize,        \* transfers are at most this long
    Bytes,          \* 0 .. Bytes - 1 are the values of a byte
    Null

VARIABLES
    disk,              \* bytes by address
    open_cnt, deny_write_cnt,
    file,              \* Files -> [pos, deny], or Null
    io,                \* the transfer under way
    contents           \* what the file should hold

vars == <<disk, open_cnt, deny_write_cnt, file, io, contents>>

bytes_to_sectors == (Length + SectorSize - 1) \div SectorSize
Addresses == 0 .. (bytes_to_sectors + 2) * SectorSize - 1
Start == 1
Offsets == 0 .. Length - 1
MinOf(a, b) == IF a < b THEN a ELSE b
NoIo == [what |-> "idle", f |-> Null, at |-> FALSE, from |-> 0, left |-> 0, offset |-> 0,
         bounce |-> FALSE, short |-> FALSE, buf |-> <<>>]

Init ==
    /\ disk = [a \in Addresses |-> 0]
    /\ open_cnt = 0 /\ deny_write_cnt = 0
    /\ file = [f \in Files |-> Null]
    /\ io = NoIo
    /\ contents = [i \in Offsets |-> 0]

Idle == io.what = "idle"
Open(f) == file[f] # Null
transfer == <<disk, contents, io>>

-----------------------------------------------------------------------------
(* file_open of a fresh or reopened inode; without memory for the struct the *)
(* inode is closed again and nothing has changed.                            *)
file_open(f) ==
    /\ Idle /\ ~Open(f)
    /\ open_cnt' = open_cnt + 1
    /\ file' = [file EXCEPT ![f] = [pos |-> 0, deny |-> FALSE]]
    /\ UNCHANGED <<deny_write_cnt, transfer>>

(* Mutant: the file is closed with its denial still in place.                *)
file_close_denying(f) ==
    /\ Idle /\ Open(f)
    /\ open_cnt' = open_cnt - 1
    /\ file' = [file EXCEPT ![f] = Null]
    /\ UNCHANGED <<deny_write_cnt, transfer>>

file_close(f) ==
    /\ Idle /\ Open(f)
    /\ deny_write_cnt' = deny_write_cnt - (IF file[f].deny THEN 1 ELSE 0)
    /\ open_cnt' = open_cnt - 1
    /\ file' = [file EXCEPT ![f] = Null]
    /\ UNCHANGED transfer

file_deny_write(f) ==
    /\ Idle /\ Open(f) /\ ~file[f].deny
    /\ file' = [file EXCEPT ![f].deny = TRUE]
    /\ deny_write_cnt' = deny_write_cnt + 1
    /\ UNCHANGED <<open_cnt, transfer>>

file_allow_write(f) ==
    /\ Idle /\ Open(f) /\ file[f].deny
    /\ file' = [file EXCEPT ![f].deny = FALSE]
    /\ deny_write_cnt' = deny_write_cnt - 1
    /\ UNCHANGED <<open_cnt, transfer>>

file_seek(f, new_pos) ==
    /\ Idle /\ Open(f)
    /\ file' = [file EXCEPT ![f].pos = new_pos]
    /\ UNCHANGED <<open_cnt, deny_write_cnt, transfer>>

-----------------------------------------------------------------------------
(* file_read, file_write and their _at forms, which leave the position.      *)
(* Byte i of what is written is (v + i) modulo Bytes.                        *)
Begin(f, what, at, ofs, size, buf) ==
    /\ Idle /\ Open(f)
    /\ LET from == IF at THEN ofs ELSE file[f].pos IN
         io' = [NoIo EXCEPT !.what = what, !.f = f, !.at = at, !.from = from, !.left = size,
                            !.offset = from, !.buf = buf]
    /\ UNCHANGED <<disk, contents, open_cnt, deny_write_cnt, file>>

file_read(f, at, ofs, size) == Begin(f, "read", at, ofs, size, <<>>)

file_write(f, at, ofs, size, v) ==
    /\ deny_write_cnt = 0
    /\ Begin(f, "write", at, ofs, size, [i \in 1 .. size |-> (v + i) % Bytes])

(* One iteration of either loop: the chunk, where it lies in its sector, and *)
(* the bounce buffer a chunk that is not a whole sector needs.               *)
sector_ofs == io.offset % SectorSize
Sector == (Start + (io.offset \div SectorSize)) * SectorSize
SectorLeft == SectorSize - sector_ofs
chunk_size == MinOf(io.left, MinOf(Length - io.offset, SectorLeft))
Whole == sector_ofs = 0 /\ chunk_size = SectorSize
Advanced == [io EXCEPT !.left = @ - chunk_size, !.offset = @ + chunk_size, !.bounce = @ \/ ~Whole]

(* Mutant: a partial chunk is copied from the start of the bounce buffer.    *)
ReadChunk_start ==
    /\ io.what = "read" /\ io.left > 0 /\ chunk_size > 0
    /\ io' = [Advanced EXCEPT !.buf = @ \o [i \in 1 .. chunk_size |-> disk[Sector + i - 1]]]
    /\ UNCHANGED <<disk, contents, open_cnt, deny_write_cnt, file>>

ReadChunk ==
    /\ io.what = "read" /\ io.left > 0 /\ chunk_size > 0
    /\ io' = [Advanced EXCEPT !.buf = @ \o [i \in 1 .. chunk_size |-> disk[Sector + sector_ofs + i - 1]]]
    /\ UNCHANGED <<disk, contents, open_cnt, deny_write_cnt, file>>

(* Mutant: a chunk at the start of a sector is padded with zeros.            *)
SectorBuffer_zeros ==
    IF Whole \/ sector_ofs > 0
    THEN [i \in 0 .. SectorSize - 1 |-> disk[Sector + i]]
    ELSE [i \in 0 .. SectorSize - 1 |-> 0]

(* What the sector is written from: its old bytes where the chunk is not     *)
(* the whole of it.                                                          *)
SectorBuffer ==
    IF sector_ofs > 0 \/ chunk_size < SectorLeft
    THEN [i \in 0 .. SectorSize - 1 |-> disk[Sector + i]]
    ELSE [i \in 0 .. SectorSize - 1 |-> 0]

WriteChunk ==
    /\ io.what = "write" /\ io.left > 0 /\ chunk_size > 0
    /\ LET done == io.offset - io.from
           image == [i \in 0 .. SectorSize - 1 |->
                       IF i \in sector_ofs .. sector_ofs + chunk_size - 1
                       THEN io.buf[done + i - sector_ofs + 1] ELSE SectorBuffer[i]]
       IN  disk' = [a \in Addresses |-> IF a \in Sector .. Sector + SectorSize - 1
                                        THEN image[a - Sector] ELSE disk[a]]
    /\ io' = Advanced
    /\ UNCHANGED <<contents, open_cnt, deny_write_cnt, file>>

(* The first chunk that needs a bounce buffer finds no memory for one.       *)
NoBounce ==
    /\ io.what \in {"read", "write"} /\ io.left > 0 /\ chunk_size > 0 /\ ~Whole /\ ~io.bounce
    /\ io' = [io EXCEPT !.left = 0, !.short = TRUE]
    /\ UNCHANGED <<disk, contents, open_cnt, deny_write_cnt, file>>

(* The end of the loop; the position moves by the bytes transferred.         *)
bytes_done == io.offset - io.from
EndIo ==
    /\ io.what \in {"read", "write"} /\ (io.left = 0 \/ chunk_size <= 0)
    /\ file' = IF io.at THEN file ELSE [file EXCEPT ![io.f].pos = @ + bytes_done]
    /\ io' = [io EXCEPT !.what = IF @ = "read" THEN "was_read" ELSE "written"]
    /\ UNCHANGED <<disk, contents, open_cnt, deny_write_cnt>>

(* The caller takes the result; what it wrote is what the file should hold.  *)
Return ==
    /\ io.what \in {"was_read", "written"}
    /\ contents' = [i \in Offsets |-> IF io.what = "written" /\ i \in io.from .. io.offset - 1
                                      THEN io.buf[i - io.from + 1] ELSE contents[i]]
    /\ io' = NoIo
    /\ UNCHANGED <<disk, open_cnt, deny_write_cnt, file>>

Next ==
    \/ \E f \in Files :
         \/ file_open(f) \/ file_close(f) \/ file_deny_write(f) \/ file_allow_write(f)
         \/ \E p \in 0 .. MaxPos : file_seek(f, p)
         \/ \E size \in 0 .. MaxSize, at \in BOOLEAN, ofs \in 0 .. MaxPos :
              \/ file_read(f, at, ofs, size)
              \/ \E v \in 0 .. Bytes - 1 : file_write(f, at, ofs, size, v)
    \/ ReadChunk \/ WriteChunk \/ NoBounce \/ EndIo \/ Return

Spec == Init /\ [][Next]_vars

-----------------------------------------------------------------------------
Wanted == IF io.from >= Length THEN 0 ELSE MinOf(io.left + bytes_done, Length - io.from)

(* inode_read_at: the bytes returned are the file's bytes from the position  *)
(* on, as the writes before left them, however the transfer was cut into     *)
(* sectors; only end of file or a missing bounce buffer makes it short.      *)
ReadsSeeWrites ==
    io.what = "was_read" =>
        /\ io.buf = [i \in 1 .. bytes_done |-> contents[io.from + i - 1]]
        /\ ~io.short => bytes_done = Wanted

(* inode_write_at: between calls the disk holds exactly the file's contents  *)
(* in its sectors; the neighbouring sectors and the slack behind the end of  *)
(* the file are untouched, also by writes that end early.                    *)
WritesStayInFile ==
    Idle => \A a \in Addresses :
        LET i == a - Start * SectorSize IN
        disk[a] = IF i \in Offsets THEN contents[i] ELSE 0

(* file_deny_write and file_allow_write keep one count per inode: it is the  *)
(* number of open files that deny, as the assertions in inode.c need, so a   *)
(* file that is closed or allows again never leaves a denial behind.         *)
DenialsCounted ==
    /\ deny_write_cnt = Cardinality({f \in Files : Open(f) /\ file[f].deny})
    /\ deny_write_cnt <= open_cnt
=============================================================================
