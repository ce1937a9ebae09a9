------------------------------ MODULE Commands ------------------------------
(***************************************************************************)
(* How a command reaches a program: the name and the arguments             *)
(* system_execute takes from the command line, the copy system_getargs     *)
(* gives the program, the address check of system_vidmap, and the dispatch *)
(* of a system call number by syscall_wrapper.                             *)
(***************************************************************************)
EXTENDS Integers, Sequences, SequencesExt, FiniteSetsExt

CONSTANTS
    LINE_BUFFER,   \* size of the name and args buffers (types.h:14)
    Space,         \* the character ' '
    Nul,           \* the character '\0'
    Remnant,       \* a byte of the pcb on the stack which nothing stored
    MEM_128MB,     \* start of the program page
    MEM_132MB      \* its end

ASSUME CommandsAssumption ==
    /\ LINE_BUFFER \in Nat \ {0}
    /\ Space # Nul
    /\ MEM_128MB \in Nat \ {0} /\ MEM_132MB \in Nat
    /\ MEM_128MB < MEM_132MB

-----------------------------------------------------------------------------
(* The command line, a sequence of characters, followed by a NUL.          *)
CharAt(cmd, i) == IF i < Len(cmd) THEN cmd[i + 1] ELSE Nul

(* The loop that copies the name ends at a space or at the NUL.            *)
NameEnd(cmd) == Min({i \in 0 .. Len(cmd) : CharAt(cmd, i) \in {Space, Nul}})
NameOf(cmd)  == SubSeq(cmd, 1, NameEnd(cmd))

(* Mutant: a single space is skipped.                                      *)
ArgStartAfterOneSpace(cmd) ==
    IF CharAt(cmd, NameEnd(cmd)) = Space THEN NameEnd(cmd) + 1 ELSE NameEnd(cmd)

(* Extra spaces are skipped.                                               *)
ArgStart(cmd) ==
    Min({i \in NameEnd(cmd) .. Len(cmd) : CharAt(cmd, i) # Space})

(* The arguments are copied up to their NUL, but only while the index in   *)
(* the command is below LINE_BUFFER less the index they start from.        *)
Copied(cmd, k) ==
    /\ ArgStart(cmd) + k <= Len(cmd)
    /\ ArgStart(cmd) + k < LINE_BUFFER - ArgStart(cmd)

(* The args of the new pcb, whose other bytes are left from the stack.     *)
ArgsOf(cmd) ==
    [k \in 0 .. LINE_BUFFER - 1 |->
        IF Copied(cmd, k) THEN CharAt(cmd, ArgStart(cmd) + k) ELSE Remnant]

(* system_getargs fills the program's buffer of nbytes from args, and from *)
(* the pcb behind args when nbytes is larger, and ends it with a NUL       *)
(* behind the last byte.                                                   *)
Getargs(args, nbytes) ==
    [k \in 0 .. nbytes |->
        IF k = nbytes THEN Nul ELSE IF k < LINE_BUFFER THEN args[k] ELSE Remnant]

(* The string a program finds in such a buffer.                            *)
StringIn(buf) ==
    [k \in 1 .. Min({i \in DOMAIN buf : buf[i] = Nul}) |-> buf[k - 1]]

-----------------------------------------------------------------------------
(* Mutant: the bounds of the kernel's own page (Bug Log.txt:19).           *)
VidmapUnbounded(screen_start) == screen_start # 0

(* system_vidmap: a pointer it stores the address of video memory through. *)
VidmapAccepts(screen_start) ==
    /\ screen_start # 0
    /\ ~(screen_start < MEM_128MB \/ screen_start > MEM_132MB)

(* ece391sysnum.h, and the table of syscall_wrapper.                       *)
SystemCalls == <<"halt", "execute", "read", "write", "open", "close",
                 "getargs", "vidmap", "set_handler", "sigreturn">>

SYS(name) == SelectInSeq(SystemCalls, LAMBDA n : n = name)

system_calls_table == [k \in 0 .. 9 |-> SystemCalls[k + 1]]

(* syscall_wrapper: numbers out of range give -1 and reach no call.        *)
Dispatch(eax) ==
    IF eax <= 0 \/ eax > 10 THEN "fail" ELSE system_calls_table[eax - 1]
=============================================================================
