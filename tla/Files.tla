------------------------------- MODULE Files -------------------------------
(***************************************************************************)
(* The file descriptors of the programs: system_open, system_close,        *)
(* system_read and system_write of syscalls.c, the file system functions   *)
(* of fs.c they dispatch to, and the descriptors that system_execute makes *)
(* and system_halt closes.                                                 *)
(*                                                                         *)
(* Which program runs is the business of Processes, of which this module   *)
(* takes only what Processes is checked to implement: a stack of programs  *)
(* on every terminal (TerminalStacks).  A descriptor is found through      *)
(* curr_pcb, the program that calls, except in fs_read, which looks in the *)
(* pcb that the last fs_open was given.                                    *)
(***************************************************************************)
EXTENDS Integers, Sequences, FiniteSets, SequencesExt

CONSTANTS
    Terminal,        \* the terminals
    Slot,            \* the process slots, a set of numbers
    First(_),        \* the slot of the first shell of a terminal
    MAX_FD,          \* descriptors of a program (tasks.h:8)
    directory,       \* the boot block: a sequence of [name, type, length]
    num_inodes,      \* the number of inodes the boot block states
    Requests,        \* the nbytes that programs pass to read
    NULL             \* the null pointer

FD_BEGIN == 2

ASSUME FilesAssumption ==
    /\ Slot \subseteq Nat
    /\ MAX_FD \in Nat /\ MAX_FD > FD_BEGIN
    /\ NULL \notin Slot
    /\ Requests \subseteq Nat

(* Every terminal's first shell has a slot of its own.                     *)
ASSUME FirstAssumption ==
    /\ \A t \in Terminal : First(t) \in Slot
    /\ \A t, u \in Terminal : First(t) = First(u) => t = u

VARIABLES
    shown,         \* the terminal on the screen
    stack,         \* the programs of each terminal
    running,       \* the program in front of it: curr_pcb[curr_terminal]
    file_array,    \* pcb field: the descriptors of each slot
    pcb            \* fs.c: the pcb of the last fs_open

Procs == INSTANCE TerminalStacks WITH Program <- Slot

procVars == <<shown, stack, running>>
vars     == <<shown, stack, running, file_array, pcb>>

-----------------------------------------------------------------------------
(* Descriptors.                                                            *)

Fds   == 0 .. MAX_FD - 1
Names == {directory[k].name : k \in DOMAIN directory}

(* The image of the file system: no file has the name of the directory.    *)
ASSUME DirectoryAssumption ==
    /\ directory \in Seq([name : STRING, type : 0 .. 2, length : Nat])
    /\ num_inodes \in Nat /\ num_inodes >= Len(directory)
    /\ \A k \in DOMAIN directory :
         directory[k].name = "." => directory[k].type = 1
    /\ NULL \notin Names \cup {"."}

Entry(fname) == directory[SelectInSeq(directory, LAMBDA e : e.name = fname)]

Descriptor(fops, inode, flags) ==
    [fops_ptr |-> fops, inode_ptr |-> inode, file_position |-> 0, flags |-> flags]

Cleared == Descriptor(NULL, NULL, 0)

(* new_pcb_init: the keyboard and the screen, and nothing else.            *)
NewTable ==
    [fd \in Fds |-> IF fd < FD_BEGIN THEN Descriptor("terminal_fops", NULL, 1)
                                     ELSE Cleared]

Used(s) == {fd \in Fds : file_array[s][fd].flags # 0}

FreeFds(s) == {fd \in FD_BEGIN .. MAX_FD - 1 : fd \notin Used(s)}

Init ==
    /\ Procs!Init
    /\ file_array = [s \in Slot |-> NewTable]
    /\ pcb = NULL

-----------------------------------------------------------------------------
(* Programs come and go.                                                   *)

FreeSlot == CHOOSE s \in Slot \ Procs!Placed : \A r \in Slot \ Procs!Placed : s <= r

Execute ==
    /\ Slot \ Procs!Placed # {}
    /\ Procs!Push(FreeSlot)
    /\ file_array' = [file_array EXCEPT ![FreeSlot] = NewTable]
    /\ UNCHANGED pcb

(* Mutant: the loop ends before the last descriptor.                       *)
ClosedTableShort(table) ==
    [fd \in Fds |-> IF fd < FD_BEGIN \/ fd = MAX_FD - 1 THEN table[fd] ELSE Cleared]

(* system_close of every descriptor: the first two are refused.            *)
ClosedTable(table) == [fd \in Fds |-> IF fd < FD_BEGIN THEN table[fd] ELSE Cleared]

Halt ==
    /\ Procs!Pop
    /\ file_array' = [file_array EXCEPT ![running] = ClosedTable(@)]
    /\ UNCHANGED pcb

(* The first shell of the terminal halts: relaunch_shell executes another  *)
(* in its slot.                                                            *)
HaltFirstShell ==
    /\ Len(stack[shown]) = 1
    /\ file_array' = [file_array EXCEPT ![running] = NewTable]
    /\ UNCHANGED <<procVars, pcb>>

Switch(t) ==
    /\ Procs!Show(t)
    /\ UNCHANGED <<file_array, pcb>>

-----------------------------------------------------------------------------
(* system_open.                                                            *)

(* The descriptor it returns, or -1.                                       *)
OpenReturns(fname) ==
    IF fname \notin Names \/ FreeFds(running) = {}
      THEN -1
      ELSE CHOOSE fd \in FreeFds(running) : \A g \in FreeFds(running) : fd <= g

(* The clock, a type 0 entry, has no position of its own.                  *)
OpenRtc(fname) ==
    LET fd == OpenReturns(fname)
    IN  /\ fd # -1
        /\ Entry(fname).type = 0
        /\ file_array' = [file_array EXCEPT
             ![running][fd] = [fops_ptr |-> "rtc_fops", inode_ptr |-> NULL,
                               file_position |-> @.file_position, flags |-> 1]]
        /\ UNCHANGED <<procVars, pcb>>

(* Mutant: a directory is opened without fs_open.                          *)
OpenFileKeepsPcb(fname) ==
    LET fd == OpenReturns(fname)
        inode == IF Entry(fname).type = 1 THEN NULL ELSE fname
    IN  /\ fd # -1
        /\ Entry(fname).type # 0
        /\ file_array' = [file_array EXCEPT
             ![running][fd] = Descriptor("file_fops", inode, 1)]
        /\ pcb' = IF Entry(fname).type = 1 THEN pcb ELSE running
        /\ UNCHANGED procVars

(* A directory has no inode, a file has: in both fs_open keeps the pcb.    *)
OpenFile(fname) ==
    LET fd == OpenReturns(fname)
        inode == IF Entry(fname).type = 1 THEN NULL ELSE fname
    IN  /\ fd # -1
        /\ Entry(fname).type # 0
        /\ file_array' = [file_array EXCEPT
             ![running][fd] = Descriptor("file_fops", inode, 1)]
        /\ pcb' = running
        /\ UNCHANGED procVars

(* Mutant: the descriptor is only marked as free.                          *)
CloseMarks(d) == [d EXCEPT !.flags = 0]

CloseClears(d) == Cleared

(* Mutant: a descriptor that is not open is closed.                        *)
CloseReturnsUnopened(fd) == IF fd \notin FD_BEGIN .. MAX_FD - 1 THEN -1 ELSE 0

(* system_close, by rtc_close or fs_close: -1 for fd 0 and 1, for numbers  *)
(* out of range and for descriptors not open.                              *)
CloseReturns(fd) ==
    IF fd \notin FD_BEGIN .. MAX_FD - 1 \/ fd \notin Used(running) THEN -1 ELSE 0

Close(fd) ==
    /\ CloseReturns(fd) = 0
    /\ file_array' = [file_array EXCEPT ![running][fd] = CloseClears(@)]
    /\ UNCHANGED <<procVars, pcb>>

-----------------------------------------------------------------------------
(* system_read and system_write.                                           *)

CanRead(fd)  == fd \in Used(running) /\ fd # 1
CanWrite(fd) == fd \in Used(running) /\ fd # 0

(* What fs_read returns, and how far it moves the position: a directory    *)
(* gives one name a call, a file what is left of it, at most n bytes.      *)
Advance(d, n) ==
    IF d.inode_ptr = NULL
      THEN IF d.file_position < Len(directory) /\ d.file_position < num_inodes
             THEN 1 ELSE 0
      ELSE LET left == Entry(d.inode_ptr).length - d.file_position
           IN  IF left <= 0 THEN 0 ELSE IF n < left THEN n ELSE left

(* The pcb whose descriptor fs_read reads.                                 *)
ReadPcb == pcb

(* fs_read, reached through a descriptor of the running program.           *)
ReadFile(fd, n) ==
    /\ CanRead(fd)
    /\ file_array[running][fd].fops_ptr = "file_fops"
    /\ file_array' = [file_array EXCEPT
         ![ReadPcb][fd].file_position = @ + Advance(file_array[ReadPcb][fd], n)]
    /\ UNCHANGED <<procVars, pcb>>

(* fs_write returns -1: the file system is read-only.                      *)
WriteReturns(fd, n) ==
    IF ~CanWrite(fd) THEN -1
    ELSE CASE file_array[running][fd].fops_ptr = "file_fops" -> -1
           [] file_array[running][fd].fops_ptr = "rtc_fops" -> 0
           [] file_array[running][fd].fops_ptr = "terminal_fops" -> n + 1

-----------------------------------------------------------------------------
ProcessStep == Execute \/ Halt \/ HaltFirstShell \/ \E t \in Terminal : Switch(t)

FileStep ==
    \/ \E fname \in Names : OpenRtc(fname) \/ OpenFile(fname)
    \/ \E fd \in Fds : Close(fd) \/ \E n \in Requests : ReadFile(fd, n)

Next == ProcessStep \/ FileStep

Spec == Init /\ [][Next]_vars

(* Users who keep their files apart: a program opens a file or a directory *)
(* only while no other program has one open.                               *)
FilesOpen(s) == {fd \in Used(s) : file_array[s][fd].fops_ptr = "file_fops"}

TakesTurns == \A s \in Slot \ {running} : FilesOpen(s) = {}

PoliteNext ==
    \/ ProcessStep
    \/ \E fname \in Names : OpenRtc(fname) \/ (TakesTurns /\ OpenFile(fname))
    \/ \E fd \in Fds : Close(fd) \/ \E n \in Requests : ReadFile(fd, n)

PoliteSpec == Init /\ [][PoliteNext]_vars

-----------------------------------------------------------------------------
(* Properties.                                                             *)

(* Descriptors are open only in programs there are: a halt, also one that  *)
(* relaunches a first shell, leaves none behind for the next program of    *)
(* its slot.  And while programs take turns, the pcb of fs.c is that of    *)
(* the program which has files open, however many others have come and     *)
(* gone around it.                                                         *)
FilesHaveTheirProgram ==
    \A s \in Slot :
        /\ s \notin Procs!Placed => file_array[s] = NewTable
        /\ FilesOpen(s) # {} => pcb = s

(* fs.c:88: fs_read looks at the "file descriptor pointer for current pcb".*)
(* No step of a program moves the position of another program's file.      *)
PositionsAreTheirOwn ==
    [][\A fd \in Fds, n \in Requests :
         ReadFile(fd, n) => \A s \in Slot \ {running} : file_array'[s] = file_array[s]]_vars

-----------------------------------------------------------------------------
(* The handles of OpenFiles, read off the descriptors.                     *)
HandleOf(d) ==
    IF d.flags = 0 THEN [file |-> NULL, position |-> 0]
    ELSE [file |-> IF d.fops_ptr = "rtc_fops" THEN "rtc"
                   ELSE IF d.inode_ptr = NULL THEN "." ELSE d.inode_ptr,
          position |-> d.file_position]

SizeOf(f) == IF f = "." THEN Len(directory) ELSE Entry(f).length

Handles == INSTANCE OpenFiles
    WITH Program <- Slot,
         Handle <- FD_BEGIN .. MAX_FD - 1,
         File <- Names \cup {"rtc", "."},
         NoFile <- NULL,
         Size <- SizeOf,
         opened <- [s \in Slot |-> [fd \in FD_BEGIN .. MAX_FD - 1 |->
                                        HandleOf(file_array[s][fd])]]

(* While programs take turns with their files, every program has its own   *)
(* handles and only its own reads move them, as OpenFiles promises.        *)
RefinesOpenFiles == Handles!Spec
=============================================================================
