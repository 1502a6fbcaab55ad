-------------------------------- MODULE Boot --------------------------------
(***************************************************************************)
(* threads/init.c and lib/kernel/debug.c: how the kernel command line      *)
(* becomes options and actions, and how a run of the kernel ends: help,    *)
(* end of the actions, or a panic anywhere on the way.  Words of the       *)
(* command line are strings; what an action does and the steps that set up *)
(* the kernel are other modules'.                                          *)
(***************************************************************************)
EXTENDS Integers, Sequences, SequencesExt

CONSTANTS
    Words,       \* words of command lines
    MaxWords,    \* longest command line
    FILESYS,     \* built with the file system
    Contexts     \* where a panic may hit: "thread", "interrupt", or "locked",
                 \* in a thread that holds a lock of malloc

VARIABLES
    cmd,        \* the command line
    argv,       \* what is left of it
    pc,
    opts,       \* options that were given
    ran,        \* actions that were carried out, with their arguments
    mounted,    \* the free map file is open
    level,      \* debug_panic's level: 1, 2, more
    context     \* where the code runs

vars == <<cmd, argv, pc, opts, ran, mounted, level, context>>

Init ==
    /\ cmd \in UNION {[1 .. n -> Words] : n \in 0 .. MaxWords} /\ argv = cmd
    /\ pc = "options" /\ opts = {} /\ ran = <<>>
    /\ mounted = FALSE /\ level = 0 /\ context = "thread"

Ended == {"off", "exited", "halted"}
IsOption(word) == word \in {"-h", "-q", "-f", "-rs", "-rs=1", "-mlfqs", "-z"}
Flags == {"-q", "-rs=1", "-mlfqs"} \cup (IF FILESYS THEN {"-f"} ELSE {})
FileActions == IF FILESYS THEN {"ls", "rm"} ELSE {}
(* The table of actions: words an action takes, with its name; 0 if there is *)
(* no such action.                                                           *)
argc(word) == IF word = "run" THEN 2 ELSE IF word \notin FileActions THEN 0 ELSE IF word = "ls" THEN 1 ELSE 2

-----------------------------------------------------------------------------
(* parse_options, one word.  -rs without a value fails atoi's assertion;     *)
(* other words are unknown.                                                  *)
parse_options ==
    /\ pc = "options"
    /\ IF argv = <<>> \/ ~IsOption(argv[1])
       THEN pc' = "setup" /\ UNCHANGED <<argv, opts>>
       ELSE /\ argv' = Tail(argv)
            /\ opts' = opts \cup ({argv[1]} \cap Flags)
            /\ pc' = IF argv[1] = "-h" THEN "power_off" ELSE IF argv[1] \in Flags THEN pc ELSE "panic"
    /\ UNCHANGED <<cmd, ran, mounted, level, context>>

(* thread_init to timer_calibrate, and with a file system disk_init and      *)
(* filesys_init.                                                             *)
Setup ==
    /\ pc = "setup"
    /\ pc' = "actions" /\ mounted' = FILESYS
    /\ UNCHANGED <<cmd, argv, opts, ran, level, context>>

(* Mutant: only the name of an action is passed over.                        *)
Advance_name(words, cnt) == Tail(words)
Advance(words, cnt) == SubSeq(words, cnt + 1, Len(words))

(* run_actions, one action; then the end of main.                            *)
run_actions ==
    /\ pc = "actions"
    /\ IF argv = <<>>
       THEN pc' = (IF "-q" \in opts THEN "power_off" ELSE "exited") /\ UNCHANGED <<argv, ran>>
       ELSE LET cnt == argc(argv[1]) IN
            IF cnt = 0 \/ Len(argv) < cnt
            THEN pc' = "panic" /\ UNCHANGED <<argv, ran>>
            ELSE /\ ran' = Append(ran, SubSeq(argv, 1, cnt))
                 /\ argv' = Advance(argv, cnt)
                 /\ UNCHANGED pc
    /\ UNCHANGED <<cmd, opts, mounted, level, context>>

(* An assertion fails, or a fault, while the kernel is set up or an action   *)
(* runs; with interrupts on, in a handler too.                               *)
Fault(c) ==
    /\ pc \in {"setup", "actions"} /\ (c # "thread" => pc = "actions")
    /\ pc' = "panic" /\ context' = c
    /\ UNCHANGED <<cmd, argv, opts, ran, mounted, level>>

AfterPanic_halt == "halted"
AfterPanic_off == "power_off"
(* Where debug_panic goes at the end.                                        *)
AfterPanic == IF "-q" \in opts THEN "power_off" ELSE "halted"
debug_panic ==
    /\ pc = "panic"
    /\ level' = (IF level < 3 THEN level + 1 ELSE level)
    /\ pc' = AfterPanic
    /\ UNCHANGED <<cmd, argv, opts, ran, mounted, context>>

(* power_off: filesys_done closes the free map file if it is open, and       *)
(* closing it frees memory under a lock of malloc.  lock_acquire asserts     *)
(* that it is not in an interrupt and does not hold the lock already.        *)
power_off ==
    /\ pc = "power_off"
    /\ IF mounted /\ context # "thread"
       THEN pc' = "panic" /\ UNCHANGED mounted
       ELSE pc' = "off" /\ mounted' = FALSE
    /\ UNCHANGED <<cmd, argv, opts, ran, level, context>>

Next ==
    \/ parse_options \/ Setup \/ run_actions \/ debug_panic \/ power_off
    \/ \E c \in Contexts : Fault(c)
Step == parse_options \/ Setup \/ run_actions \/ debug_panic \/ power_off

FairSpec == Init /\ [][Next]_vars /\ WF_vars(Step)

-----------------------------------------------------------------------------
Prefix(n) == \A i \in 1 .. n : IsOption(cmd[i])
OptionCnt == CHOOSE n \in 0 .. Len(cmd) : Prefix(n) /\ (n = Len(cmd) \/ ~IsOption(cmd[n + 1]))
Rest == SubSeq(cmd, OptionCnt + 1, Len(cmd))
Good(word) == word \in Flags
Bad == {i \in 1 .. OptionCnt : ~Good(cmd[i])}
Words1 == FlattenSeq(ran)

(* "Options must precede actions. Actions are executed in the order          *)
(* specified.": what ran is the beginning of what follows the options, every *)
(* action with all its arguments, even those that look like options; nothing *)
(* runs after a wrong option or -h; and when the kernel has ended without a  *)
(* panic, all of it ran.                                                     *)
ActionsAsSpecified ==
    /\ ran # <<>> => Bad = {}
    /\ Len(Words1) <= Len(Rest) /\ Words1 = SubSeq(Rest, 1, Len(Words1))
    /\ \A i \in DOMAIN ran : Len(ran[i]) = argc(ran[i][1]) /\ Len(ran[i]) > 0
    /\ pc \in Ended /\ level = 0 /\ Bad = {} => Words1 = Rest

(* The machine is powered off only if the command line asks for it: by -q or *)
(* -h among its options, before the first that is wrong.                     *)
OffIfAsked ==
    pc = "off" => \E i \in 1 .. OptionCnt : cmd[i] \in {"-q", "-h"} /\ \A j \in 1 .. i - 1 : Good(cmd[j])

(* Every run of the kernel ends.                                             *)
HasEnded == pc \in Ended
RunEnds == <>HasEnded

(* "-q  Power off VM after actions or on panic."                             *)
QuitGiven == "-q" \in opts
PoweredOff == pc = "off"
=============================================================================
