------------------------------- MODULE Fsutil -------------------------------
(***************************************************************************)
(* threads/init.c:run_actions and filesys/fsutil.c: the actions of the     *)
(* kernel command line, executed one after another, that copy files        *)
(* between the scratch disk and the file system.  The file system is the   *)
(* function from names to contents that Filesys and Inode provide; a       *)
(* sector of the scratch disk is a signature, a size and data bytes.       *)
(***************************************************************************)
EXTENDS Integers, Sequences, SequencesExt

CONSTANTS
    SectorSize,
    Words,          \* file names
    Lines,          \* command lines: sequences of action names and file names
    Archives,       \* contents of the scratch disk: sequences of sectors
    Capacity,       \* bytes that fit into the file system
    Null

VARIABLES
    argv,                  \* the words still to be executed
    fs,                    \* Words -> contents, or Null
    scratch,               \* the scratch disk, sectors counted from 1
    put_sector, get_sector,\* the static counters of fsutil_put and fsutil_get
    act,                   \* the action under way
    archive, entries, listing, ref, out   \* for the properties

vars == <<argv, fs, scratch, put_sector, get_sector, act, archive, entries, listing, ref, out>>

Zeros(n) == [i \in 1 .. n |-> 0]
Sig(s, n) == [sig |-> s, size |-> n, data |-> Zeros(SectorSize)]
DataSector(bytes) == [sig |-> "", size |-> 0, data |-> bytes \o Zeros(SectorSize - Len(bytes))]
MinOf(a, b) == IF a < b THEN a ELSE b
Between == [pc |-> "next", name |-> Null, left |-> 0, buf |-> Zeros(SectorSize), pos |-> 0]
Panic == act' = [Between EXCEPT !.pc = "panic"]
Arg == argv[2]

Init ==
    /\ argv \in Lines
    /\ scratch \in Archives
    /\ fs = [w \in Words |-> Null]
    /\ put_sector = 1 /\ get_sector = 1
    /\ act = Between
    /\ archive = scratch /\ entries = 0 /\ listing = {} /\ ref = [w \in Words |-> Null] /\ out = <<>>

(* The table of run_actions: names and argument counts.                      *)
Argc == [ls |-> 1, cat |-> 2, rm |-> 2, put |-> 2, get |-> 2]
Known == argv # <<>> /\ Head(argv) \in DOMAIN Argc
Invoke(a) == act.pc = "next" /\ Known /\ Head(argv) = a /\ Len(argv) >= Argc[a]
Advance == argv' = SubSeq(argv, Argc[Head(argv)] + 1, Len(argv))

(* An unknown action or missing arguments stop the kernel.                   *)
BadAction ==
    /\ act.pc = "next" /\ argv # <<>>
    /\ ~(Known /\ Len(argv) >= Argc[Head(argv)])
    /\ Panic
    /\ UNCHANGED <<argv, fs, scratch, put_sector, get_sector, archive, entries, listing, ref, out>>

fsutil_ls ==
    /\ Invoke("ls")
    /\ listing' = {w \in Words : fs[w] # Null}
    /\ Advance
    /\ UNCHANGED <<fs, scratch, put_sector, get_sector, act, archive, entries, ref, out>>

fsutil_rm ==
    /\ Invoke("rm")
    /\ IF Arg \in Words /\ fs[Arg] # Null
       THEN fs' = [fs EXCEPT ![Arg] = Null] /\ ref' = [ref EXCEPT ![Arg] = Null] /\ Advance /\ UNCHANGED act
       ELSE Panic /\ UNCHANGED <<fs, argv, ref>>
    /\ UNCHANGED <<scratch, put_sector, get_sector, archive, entries, listing, out>>

(* cat reads pages and prints them until a read returns nothing; it changes  *)
(* nothing.                                                                  *)
fsutil_cat ==
    /\ Invoke("cat")
    /\ IF Arg \in Words /\ fs[Arg] # Null THEN Advance /\ UNCHANGED act ELSE Panic /\ UNCHANGED argv
    /\ UNCHANGED <<fs, scratch, put_sector, get_sector, archive, entries, listing, ref, out>>

-----------------------------------------------------------------------------
(* fsutil_put: the header, the file, then a sector at a time.                *)
RECURSIVE Used(_)
Used(names) == IF names = {} THEN 0
               ELSE LET w == CHOOSE x \in names : TRUE
                    IN  (IF fs[w] = Null THEN 0 ELSE Len(fs[w])) + Used(names \ {w})
Creatable(name, size) == name \in Words /\ fs[name] = Null /\ Used(Words) + size <= Capacity

fsutil_put ==
    /\ Invoke("put")
    /\ put_sector' = put_sector + 1
    /\ IF put_sector <= Len(scratch) /\ scratch[put_sector].sig = "PUT" /\ scratch[put_sector].size >= 0
          /\ Creatable(Arg, scratch[put_sector].size)
       THEN /\ fs' = [fs EXCEPT ![Arg] = Zeros(scratch[put_sector].size)]
            /\ act' = [Between EXCEPT !.pc = "put", !.name = Arg, !.left = scratch[put_sector].size]
       ELSE Panic /\ UNCHANGED fs
    /\ UNCHANGED <<argv, scratch, get_sector, archive, entries, listing, ref, out>>

(* What entry number n of the archive holds.                                 *)
RECURSIVE EntryAt(_, _)
EntryAt(n, s) == IF n = 1 THEN s
                 ELSE EntryAt(n - 1, s + 1 + (archive[s].size + SectorSize - 1) \div SectorSize)
EntryContents(n) ==
    LET s == EntryAt(n, 1) IN
    [i \in 1 .. archive[s].size |-> archive[s + 1 + (i - 1) \div SectorSize].data[((i - 1) % SectorSize) + 1]]

(* Mutant: the position advances only with the last chunk.                   *)
PutChunk_stuck ==
    /\ act.pc = "put" /\ act.left > 0
    /\ LET n == MinOf(act.left, SectorSize) IN
         /\ fs' = [fs EXCEPT ![act.name] = [i \in DOMAIN @ |->
                     IF i \in act.pos + 1 .. act.pos + n THEN scratch[put_sector].data[i - act.pos] ELSE @[i]]]
         /\ put_sector' = put_sector + (IF act.left = n THEN 1 ELSE 0)
         /\ act' = [act EXCEPT !.left = @ - n, !.pos = @ + n]
    /\ UNCHANGED <<argv, scratch, get_sector, archive, entries, listing, ref, out>>

PutChunk ==
    /\ act.pc = "put" /\ act.left > 0
    /\ LET n == MinOf(act.left, SectorSize) IN
       IF put_sector <= Len(scratch)
       THEN /\ fs' = [fs EXCEPT ![act.name] = [i \in DOMAIN @ |->
                        IF i \in act.pos + 1 .. act.pos + n THEN scratch[put_sector].data[i - act.pos] ELSE @[i]]]
            /\ put_sector' = put_sector + 1
            /\ act' = [act EXCEPT !.left = @ - n, !.pos = @ + n]
       ELSE Panic /\ UNCHANGED <<fs, put_sector>>
    /\ UNCHANGED <<argv, scratch, get_sector, archive, entries, listing, ref, out>>

PutDone ==
    /\ act.pc = "put" /\ act.left = 0
    /\ act' = Between /\ Advance
    /\ entries' = entries + 1
    /\ ref' = IF out = <<>> THEN [ref EXCEPT ![act.name] = EntryContents(entries + 1)]
              ELSE [ref EXCEPT ![act.name] = fs[act.name]]
    /\ UNCHANGED <<fs, scratch, put_sector, get_sector, archive, listing, out>>

-----------------------------------------------------------------------------
(* fsutil_get: the header goes to the next sector, then the data; behind the *)
(* end of the disk disk_write's assertion or the test in the loop stops it.  *)
fsutil_get ==
    /\ Invoke("get")
    /\ IF Arg \in Words /\ fs[Arg] # Null /\ get_sector <= Len(scratch)
       THEN /\ scratch' = [scratch EXCEPT ![get_sector] = Sig("GET", Len(fs[Arg]))]
            /\ get_sector' = get_sector + 1
            /\ act' = [Between EXCEPT !.pc = "get", !.name = Arg, !.left = Len(fs[Arg])]
       ELSE Panic /\ UNCHANGED <<scratch, get_sector>>
    /\ UNCHANGED <<argv, fs, put_sector, archive, entries, listing, ref, out>>

(* Mutant: what is left in the buffer follows the last bytes of the file.    *)
GetChunk_unpadded ==
    /\ act.pc = "get" /\ act.left > 0 /\ get_sector <= Len(scratch)
    /\ LET n == MinOf(act.left, SectorSize)
           read == SubSeq(fs[act.name], act.pos + 1, act.pos + n)
           buffer == read \o SubSeq(act.buf, n + 1, SectorSize)
       IN  /\ scratch' = [scratch EXCEPT ![get_sector] = DataSector(buffer)]
           /\ get_sector' = get_sector + 1
           /\ act' = [act EXCEPT !.left = @ - n, !.pos = @ + n, !.buf = buffer]
    /\ UNCHANGED <<argv, fs, put_sector, archive, entries, listing, ref, out>>

GetChunk ==
    /\ act.pc = "get" /\ act.left > 0
    /\ LET n == MinOf(act.left, SectorSize)
           buffer == SubSeq(fs[act.name], act.pos + 1, act.pos + n) \o Zeros(SectorSize - n)
       IN  IF get_sector <= Len(scratch)
           THEN /\ scratch' = [scratch EXCEPT ![get_sector] = DataSector(buffer)]
                /\ get_sector' = get_sector + 1
                /\ act' = [act EXCEPT !.left = @ - n, !.pos = @ + n, !.buf = buffer]
           ELSE Panic /\ UNCHANGED <<scratch, get_sector>>
    /\ UNCHANGED <<argv, fs, put_sector, archive, entries, listing, ref, out>>

SectorsOf(bytes) ==
    [k \in 1 .. (Len(bytes) + SectorSize - 1) \div SectorSize |->
        DataSector(SubSeq(bytes, (k - 1) * SectorSize + 1, MinOf(k * SectorSize, Len(bytes))))]

GetDone ==
    /\ act.pc = "get" /\ act.left = 0
    /\ act' = Between /\ Advance
    /\ out' = out \o <<Sig("GET", Len(fs[act.name]))>> \o SectorsOf(fs[act.name])
    /\ UNCHANGED <<fs, scratch, put_sector, get_sector, archive, entries, listing, ref>>

Next == BadAction \/ fsutil_ls \/ fsutil_rm \/ fsutil_cat \/ fsutil_put \/ PutChunk \/ PutDone
        \/ fsutil_get \/ GetChunk \/ GetDone

Spec == Init /\ [][Next]_vars

-----------------------------------------------------------------------------
(* fsutil_put advances across the disk: as long as all puts precede all gets *)
(* the n-th put stores exactly the n-th entry of the scratch disk, whatever  *)
(* the sizes of the entries and the removals in between.                     *)
PutsFollowArchive == act.pc = "next" => fs = ref

(* fsutil_get advances across the disk: after each action the scratch disk   *)
(* starts with the files got so far, each a GET header and the contents      *)
(* padded with zeros, and the rest is what it was.                           *)
GetsAppend ==
    act.pc = "next" => scratch = out \o SubSeq(archive, Len(out) + 1, Len(archive))
=============================================================================
