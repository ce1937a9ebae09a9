----------------------------- MODULE Processes -----------------------------
(***************************************************************************)
(* The process table of the kernel and the programs of its terminals:      *)
(* init_terminals, system_execute, system_halt, relaunch_shell,            *)
(* switch_terminal, start_shell and reload_program of syscalls.c, with the *)
(* parts of the keyboard handler and the page tables they drive.  The line *)
(* of the 8259 that a switch leaves unmasked and acknowledged is in Boot.   *)
(*                                                                         *)
(* The machine has one processor.  Every gate is an interrupt gate, so a   *)
(* system call or an interrupt handler runs to its iret without being      *)
(* interrupted, except in the loops of terminal_read and rtc_read, which   *)
(* turn the interrupts on.  Hence one action per system call, and two for  *)
(* a blocking read: ReadBlock enters the loop, ReadReturn leaves it.       *)
(* Nothing is scheduled: a program runs while it is in front of the        *)
(* terminal on the screen, and Alt+Fn is the only context switch.          *)
(***************************************************************************)
EXTENDS Integers, FiniteSets, Sequences, SequencesExt

CONSTANTS
    MAX_TERMINALS,   \* number of terminals (terminal.h:13)
    MAX_PROGS,       \* number of process slots (lib.h:12)
    Executables,     \* names of the ELF files in the file system
    Shell,           \* the name of the shell among them
    Unset,           \* a pcb name nobody wrote: it matches no chosen file
    NULL,            \* the null pcb pointer
    Statuses,        \* the exit statuses a program passes to halt
    Storers          \* bound: the slots whose programs store to their data

ASSUME SizesAssumption ==
    /\ MAX_TERMINALS \in Nat \ {0}
    /\ MAX_PROGS \in Nat
    /\ MAX_TERMINALS <= MAX_PROGS

ASSUME NamesAssumption ==
    /\ Shell \in Executables
    /\ Unset \notin Executables
    /\ NULL \notin 0 .. MAX_PROGS

Terminals == 0 .. MAX_TERMINALS - 1

(* A pcb, its kernel stack, its page directory and its 4MB program page    *)
(* are all found from the index of its slot, which is also its pid.        *)
Slots == 0 .. MAX_PROGS - 1

VARIABLES
    curr_terminal,   \* the terminal on the screen
    num_progs,       \* the programs the kernel counts on each terminal
    curr_pcb,        \* the slot in front of each terminal, or NULL
    pcb_track,       \* which slots are taken
    parent_ptr,      \* pcb field: the slot which executed this one, or NULL
    name,            \* pcb field: the file the program was loaded from
    save_frame,      \* save_esp and save_ebp: whose kernel frame they address
    user_page,       \* the physical page at 128MB in each page directory
    cr3,             \* the page directory in use
    esp0,            \* tss.esp0: on whose kernel stack the next trap lands
    image,           \* what each physical program page holds
    save_prog_regs,  \* the registers saved when a terminal was left
    cpu,             \* whose registers the processor holds, and where it is
    user_if,         \* the interrupt flag each program has in user mode
    result           \* what the system call which just ended returned

procVars == <<num_progs, curr_pcb, pcb_track, parent_ptr, name, save_frame>>
pageVars == <<user_page, cr3, esp0, image>>
cpuVars  == <<save_prog_regs, cpu, user_if, result>>
vars     == <<curr_terminal, procVars, pageVars, cpuVars>>

-----------------------------------------------------------------------------
(* The contents of a program page: the file it was loaded from and whether *)
(* the program has since stored to its initialised data.  Scrambled is a   *)
(* page into which some other file was read.                               *)
Empty     == "empty"
Scrambled == "scrambled"
Fresh(file) == [file |-> file, stored |-> FALSE]

Images == [file : Executables \cup {Empty, Scrambled}, stored : BOOLEAN]

(* Where the interrupted or running code is: in the boot code, in user     *)
(* mode, or in the loop of a blocking read with the interrupts on.         *)
Modes == {"boot", "user", "read"}

(* The value of save_prog_regs before anything is saved: all zero.         *)
ZeroRegs == [proc |-> NULL, mode |-> "user", stack |-> NULL]
Regs == [proc : Slots \cup {NULL}, mode : Modes, stack : Slots \cup {NULL}]

(* What execute, halt or read has just returned in eax; None after a step  *)
(* which is not the end of a call.                                         *)
None == 1000
Results == {None, 0, -1}

-----------------------------------------------------------------------------
(* init_terminals: the shells of the terminals other than the first have   *)
(* slots and loaded images before anything runs; only terminal 2's pcb is  *)
(* given a name.  The kernel then executes the first shell.                *)
Reserved == Terminals \ {0}

Init ==
    /\ curr_terminal = 0
    /\ num_progs = [t \in Terminals |-> IF t = 0 THEN 1 ELSE 0]
    /\ curr_pcb = [t \in Terminals |-> IF t = 0 THEN NULL ELSE t]
    /\ pcb_track = [s \in Slots |-> s \in Reserved]
    /\ parent_ptr = [s \in Slots |-> NULL]
    /\ name = [s \in Slots |-> IF s = 1 /\ s \in Reserved THEN Shell ELSE Unset]
    /\ save_frame = [s \in Slots |-> NULL]
    /\ user_page = [s \in Slots |-> IF s \in Reserved THEN s ELSE NULL]
    /\ cr3 = MAX_TERMINALS - 1
    /\ esp0 = 0
    /\ image = [s \in Slots |-> Fresh(IF s \in Reserved THEN Shell ELSE Empty)]
    /\ save_prog_regs = [t \in Terminals |-> ZeroRegs]
    /\ cpu = [proc |-> NULL, mode |-> "boot"]
    /\ user_if = [s \in Slots |-> FALSE]
    /\ result = None

FreeSlots(track) == {s \in Slots : ~track[s]}

(* Mutant: the search does not look at pcb_track.                          *)
FirstSlot(track) == 0

(* The search of system_execute takes the first free slot.                 *)
FirstFree(track) ==
    CHOOSE s \in FreeSlots(track) : \A r \in FreeSlots(track) : s <= r

(* Mutant: the frame is saved before curr_pcb is moved to the new pcb.     *)
FrameIndexBefore(new, front) == IF front = NULL THEN new ELSE front

(* save_esp and save_ebp are indexed by the pid of the new program.        *)
FrameIndex(new, front) == new

(* system_execute once the file is known to be a program and a slot is     *)
(* free.  The arguments are the process table and the front pcb it starts  *)
(* from, the counts, and the owner of the kernel stack it runs on, where   *)
(* it leaves the frame that system_halt will return to.                    *)
Load(file, track, front, counts, frame) ==
    LET s == FirstFree(track)
        c == curr_terminal
    IN  /\ pcb_track' = [track EXCEPT ![s] = TRUE]
        /\ parent_ptr' = [parent_ptr EXCEPT ![s] = front]
        /\ name' = [name EXCEPT ![s] = file]
        /\ curr_pcb' = [curr_pcb EXCEPT ![c] = s]
        /\ save_frame' = [save_frame EXCEPT ![FrameIndex(s, front)] = frame]
        /\ num_progs' = [counts EXCEPT ![c] = @ + 1]
        /\ cr3' = s
        /\ user_page' = [user_page EXCEPT ![s] = s]
        /\ esp0' = s
        /\ image' = [image EXCEPT ![s] = Fresh(file)]
        /\ cpu' = [proc |-> s, mode |-> "user"]
        /\ user_if' = [user_if EXCEPT ![s] = TRUE]

(* system_execute("shell") at the end of entry() in kernel.c.              *)
Boot ==
    /\ cpu.mode = "boot"
    /\ Load(Shell, pcb_track, curr_pcb[curr_terminal], num_progs, NULL)
    /\ result' = None
    /\ UNCHANGED <<curr_terminal, save_prog_regs>>

-----------------------------------------------------------------------------
(* System calls of the running program.                                    *)

Execute(file) ==
    /\ cpu.mode = "user"
    /\ FreeSlots(pcb_track) # {}
    /\ Load(file, pcb_track, curr_pcb[curr_terminal], num_progs, cpu.proc)
    /\ result' = None
    /\ UNCHANGED <<curr_terminal, save_prog_regs>>

(* No such file, or not an ELF file: nothing has been changed yet.         *)
ExecuteNotProgram ==
    /\ cpu.mode = "user"
    /\ result' = -1
    /\ UNCHANGED <<curr_terminal, procVars, pageVars,
                   save_prog_regs, cpu, user_if>>

(* Every slot is taken: a message is printed and 0 is returned.            *)
ExecuteTableFull ==
    /\ cpu.mode = "user"
    /\ FreeSlots(pcb_track) = {}
    /\ result' = 0
    /\ UNCHANGED <<curr_terminal, procVars, pageVars,
                   save_prog_regs, cpu, user_if>>

(* Mutants: the slot of a halted program is not freed; it is freed after   *)
(* curr_pcb has moved to the parent.                                       *)
KeepSlot(s)       == pcb_track
FreeParentSlot(s) == [pcb_track EXCEPT ![parent_ptr[s]] = FALSE]

FreeSlot(s) == [pcb_track EXCEPT ![s] = FALSE]

CountDown == [num_progs EXCEPT ![curr_terminal] = @ - 1]

(* Mutant: the NULL test of the parent is dropped.                         *)
AlwaysHasParent(s) == TRUE

HasParent(s) == parent_ptr[s] # NULL

(* system_halt returns on the frame saved for the front slot, into the end *)
(* of system_execute: a program with a parent gives way to it, and its     *)
(* caller's execute returns 0.                                             *)
HaltToParent(status) ==
    LET s == curr_pcb[curr_terminal]
        p == parent_ptr[s]
    IN  /\ cpu.mode = "user"
        /\ HasParent(s)
        /\ num_progs' = CountDown
        /\ esp0' = p
        /\ cr3' = p
        /\ pcb_track' = FreeSlot(s)
        /\ curr_pcb' = [curr_pcb EXCEPT ![curr_terminal] = p]
        /\ cpu' = [proc |-> save_frame[s], mode |-> "user"]
        /\ result' = 0
        /\ UNCHANGED <<curr_terminal, parent_ptr, name, save_frame, user_page,
                       image, save_prog_regs, user_if>>

(* A program without a parent is a terminal's first shell: relaunch_shell  *)
(* frees its slot and executes the shell anew, with no parent.             *)
HaltBaseShell(status) ==
    LET s == curr_pcb[curr_terminal]
    IN  /\ cpu.mode = "user"
        /\ ~HasParent(s)
        /\ Load(Shell, FreeSlot(s), NULL, CountDown, save_frame[s])
        /\ result' = None
        /\ UNCHANGED <<curr_terminal, save_prog_regs>>

Halt(status) == HaltToParent(status) \/ HaltBaseShell(status)

(* terminal_read and rtc_read turn the interrupts on and loop.             *)
ReadBlock ==
    /\ cpu.mode = "user"
    /\ cpu' = [cpu EXCEPT !.mode = "read"]
    /\ result' = None
    /\ UNCHANGED <<curr_terminal, procVars, pageVars,
                   save_prog_regs, user_if>>

ReadReturn ==
    /\ cpu.mode = "read"
    /\ cpu' = [cpu EXCEPT !.mode = "user"]
    /\ result' = 0
    /\ UNCHANGED <<curr_terminal, procVars, pageVars,
                   save_prog_regs, user_if>>

(* The running program stores to its initialised data.                     *)
Store ==
    /\ cpu.mode = "user"
    /\ cpu.proc \in Storers
    /\ image' = [image EXCEPT ![user_page[cr3]].stored = TRUE]
    /\ result' = None
    /\ UNCHANGED <<curr_terminal, procVars, user_page, cr3, esp0,
                   save_prog_regs, cpu, user_if>>

-----------------------------------------------------------------------------
(* Alt+Fn.  switch_terminal saves the interrupted registers, and the       *)
(* handler is abandoned: start_shell or reload_program irets by itself,    *)
(* with the keyboard's line as ready as it was.                            *)

InterruptsOn ==
    \/ cpu.mode = "read"
    \/ cpu.mode = "user" /\ user_if[cpu.proc]

(* Mutant: the registers are saved after curr_terminal has changed.        *)
SaveIndexAfter(t) == t

SaveIndex(t) == curr_terminal

SwitchTerminal(t) ==
    /\ InterruptsOn
    /\ t # curr_terminal
    /\ curr_terminal' = t
    /\ save_prog_regs' = [save_prog_regs EXCEPT ![SaveIndex(t)] =
                            [proc |-> cpu.proc, mode |-> cpu.mode, stack |-> esp0]]
    /\ result' = None
    /\ UNCHANGED <<curr_pcb, pcb_track, parent_ptr, name, save_frame, user_page>>

(* Mutant: the file is read before swap_tables.                            *)
PageBefore(pid) == user_page[cr3]

(* The physical page the file is read into, once swap_tables(pid) is done. *)
PageOf(pid) == user_page[pid]

(* Mutant: reload_program picks the tables the way start_shell does, by    *)
(* the number of the terminal.                                             *)
TablesByTerminal(t) == t

TablesOf(t) == curr_pcb[t]

(* start_shell, on the first visit of a terminal: the page directory is    *)
(* picked by the number of the terminal, and the interrupt flag of the     *)
(* handler, which is off, is the one the shell starts with.                *)
StartShell(t) ==
    /\ num_progs[t] = 0
    /\ SwitchTerminal(t)
    /\ esp0' = curr_pcb[t]
    /\ cr3' = t
    /\ image' = [image EXCEPT ![PageOf(t)] = Fresh(Shell)]
    /\ num_progs' = [num_progs EXCEPT ![t] = @ + 1]
    /\ cpu' = [proc |-> t, mode |-> "user"]
    /\ user_if' = [user_if EXCEPT ![t] = FALSE]

(* What reload_program reads over the program page of slot s: the file the *)
(* pcb names.  The lookup of a name nobody wrote may find nothing, and the *)
(* dentry it uses is then whatever the stack held, so that any file or     *)
(* none may be read over the page.                                         *)
Reloads(s) ==
    IF name[s] # Unset
      THEN {Fresh(name[s])}
      ELSE {image[user_page[s]], [file |-> Scrambled, stored |-> FALSE]}

(* reload_program, on every later visit.                                   *)
ReloadProgram(t) ==
    /\ num_progs[t] # 0
    /\ SwitchTerminal(t)
    /\ esp0' = save_prog_regs[t].stack
    /\ cr3' = TablesOf(t)
    /\ \E page \in Reloads(curr_pcb[t]) :
         image' = [image EXCEPT ![PageOf(TablesOf(t))] = page]
    /\ cpu' = [proc |-> save_prog_regs[t].proc, mode |-> save_prog_regs[t].mode]
    /\ UNCHANGED <<num_progs, user_if>>

-----------------------------------------------------------------------------
Next ==
    \/ Boot
    \/ \E file \in Executables : Execute(file)
    \/ ExecuteNotProgram
    \/ ExecuteTableFull
    \/ \E status \in Statuses : Halt(status)
    \/ ReadBlock
    \/ ReadReturn
    \/ Store
    \/ \E t \in Terminals : StartShell(t) \/ ReloadProgram(t)

Spec == Init /\ [][Next]_vars

-----------------------------------------------------------------------------
(* Properties.                                                             *)

TypeOK ==
    /\ curr_terminal \in Terminals
    /\ num_progs \in [Terminals -> Nat]
    /\ curr_pcb \in [Terminals -> Slots \cup {NULL}]
    /\ pcb_track \in [Slots -> BOOLEAN]
    /\ parent_ptr \in [Slots -> Slots \cup {NULL}]
    /\ name \in [Slots -> Executables \cup {Unset}]
    /\ save_frame \in [Slots -> Slots \cup {NULL}]
    /\ user_page \in [Slots -> Slots \cup {NULL}]
    /\ cr3 \in Slots
    /\ esp0 \in Slots
    /\ image \in [Slots -> Images]
    /\ save_prog_regs \in [Terminals -> Regs]
    /\ cpu \in [proc : Slots \cup {NULL}, mode : Modes]
    /\ user_if \in [Slots -> BOOLEAN]
    /\ result \in Results

Booted   == cpu.mode # "boot"
FrontPcb == curr_pcb[curr_terminal]

(* The registers, the page directory and the kernel stack in use always    *)
(* belong to one program, the one in front of the terminal on the screen:  *)
(* neither a switch, nor a halt that unwinds through a saved frame, leaves *)
(* the processor in one program with the pages or the stack of another.    *)
RunsFrontProgram ==
    Booted => cpu.proc = FrontPcb /\ cr3 = FrontPcb /\ esp0 = FrontPcb

(* What reload_program will restore on a terminal that has been visited    *)
(* and left is the context of the program in front of that terminal.       *)
SavedContextIsOfFrontProgram ==
    \A t \in Terminals \ {curr_terminal} :
        num_progs[t] # 0 => /\ save_prog_regs[t].proc = curr_pcb[t]
                            /\ save_prog_regs[t].stack = curr_pcb[t]
                            /\ save_prog_regs[t].mode # "boot"

(* The frame a program's halt returns to is that of the execute call of    *)
(* its parent, however many programs have come and gone on other terminals *)
(* or in its own slot since.                                               *)
HaltReturnsToParent ==
    \A s \in Slots :
        pcb_track[s] /\ parent_ptr[s] # NULL => save_frame[s] = parent_ptr[s]

(* The programs from s upwards, the parent of each before it; n bounds how *)
(* many are followed.                                                      *)
Chain[n \in 0 .. MAX_PROGS] ==
    IF n = 0
      THEN [s \in Slots \cup {NULL} |-> <<>>]
      ELSE [s \in Slots \cup {NULL} |->
              IF s = NULL THEN <<>> ELSE Append(Chain[n - 1][parent_ptr[s]], s)]

(* The programs of terminal t in the order they were executed: those that  *)
(* wait for one another, and the one in front.                             *)
ChainOf(t) == Chain[MAX_PROGS][curr_pcb[t]]

ProgramsOf(t) == ToSet(ChainOf(t))

Taken == {s \in Slots : pcb_track[s]}

(* The slots marked as taken are exactly the programs of the terminals,    *)
(* and no program is on two terminals: no slot leaks, none is shared.      *)
TerminalsPartitionSlots ==
    LET programs == [t \in Terminals |-> ProgramsOf(t)]
    IN  /\ Taken = UNION {programs[t] : t \in Terminals}
        /\ \A t, u \in Terminals : t # u => programs[t] \cap programs[u] = {}

(* num_progs decides whether a terminal is started or reloaded.  It counts *)
(* the programs of a terminal (one more on the first, which starts at 1),  *)
(* and it is zero only where nothing has run yet.                          *)
NumProgsCountsPrograms ==
    Booted =>
        \A t \in Terminals :
            IF num_progs[t] = 0
              THEN /\ ProgramsOf(t) = {t}
                   /\ save_prog_regs[t] = ZeroRegs
                   /\ t # curr_terminal
              ELSE num_progs[t] = Cardinality(ProgramsOf(t)) + (IF t = 0 THEN 1 ELSE 0)

(* start_shell takes the number of the terminal for the pid of its first   *)
(* shell.  The first shell of a terminal is in the slot with the number of *)
(* the terminal, through every relaunch, and only first shells have no     *)
(* parent.                                                                 *)
FirstShellsKeepTheirSlots ==
    Booted =>
        /\ \A t \in Terminals : t \in ProgramsOf(t)
        /\ \A s \in Taken : parent_ptr[s] = NULL <=> s \in Terminals

(* The process table after any history of executes, halts and switches:    *)
(* its slots are shared out among the terminals, with num_progs in step.   *)
ProcessTableAddsUp ==
    /\ TerminalsPartitionSlots
    /\ NumProgsCountsPrograms
    /\ FirstShellsKeepTheirSlots

(* Every program has a page of its own, which holds the file its pcb names *)
(* (the pcb of the last terminal's first shell has no name until that      *)
(* shell is relaunched).                                                   *)
PagesHoldTheirPrograms ==
    \A s \in Slots :
        pcb_track[s] => /\ user_page[s] = s
                        /\ name[s] # Unset => image[s].file = name[s]

(* A step changes the memory of no program but the one that was in front   *)
(* before it or is in front after it; it changes the pcb of no program but *)
(* the one in front and one it has just found a free slot for; and nothing *)
(* of a terminal which is on the screen neither before nor after.          *)
OthersUntouched ==
    [][/\ \A s \in Slots : image'[s] # image[s] => s \in {FrontPcb, FrontPcb'}
       /\ \A s \in Slots :
            \/ <<pcb_track'[s], parent_ptr'[s], name'[s], save_frame'[s]>> =
               <<pcb_track[s], parent_ptr[s], name[s], save_frame[s]>>
            \/ s = FrontPcb
            \/ s = FrontPcb' /\ ~pcb_track[s]
       /\ \A t \in Terminals \ {curr_terminal, curr_terminal'} :
            /\ curr_pcb'[t] = curr_pcb[t]
            /\ num_progs'[t] = num_progs[t]
            /\ save_prog_regs'[t] = save_prog_regs[t]]_vars

(* syscalls.c:682: reload_program "Restores the saved program for current  *)
(* terminal."  A program that has been left and come back to finds its     *)
(* memory as it left it.                                                   *)
ReloadRestoresProgram ==
    [][\A t \in Terminals : ReloadProgram(t) => image'[FrontPcb'] = image[FrontPcb']]_vars

-----------------------------------------------------------------------------
(* The shape of the process table in terms of single parent pointers, from *)
(* which the statements about whole chains above follow: the strengthening *)
(* the proofs of ProcessesProofs use.                                      *)

ChainsAreDisjoint ==
    /\ Terminals \subseteq Taken
    /\ \A t \in Terminals : curr_pcb[t] \in Taken
    /\ \A s \in Taken :
         /\ parent_ptr[s] \in Taken \cup {NULL}
         /\ parent_ptr[s] = NULL <=> s \in Terminals
         /\ \A t \in Terminals : parent_ptr[s] # curr_pcb[t]
         /\ \A r \in Taken : parent_ptr[r] = parent_ptr[s] => r = s \/ s \in Terminals

(* Every program belongs to the terminal of its parent and is one deeper,  *)
(* and num_progs is the depth of the program in front.                     *)
ProgramsAreOwned(owner, depth) ==
    /\ \A s \in Taken :
         IF s \in Terminals
           THEN owner[s] = s /\ depth[s] = 1
           ELSE /\ owner[s] = owner[parent_ptr[s]]
                /\ depth[s] = depth[parent_ptr[s]] + 1
    /\ \A t \in Terminals :
         /\ owner[curr_pcb[t]] = t
         /\ \/ num_progs[t] = depth[curr_pcb[t]] + (IF t = 0 THEN 1 ELSE 0)
            \/ num_progs[t] = 0 /\ curr_pcb[t] = t /\ t \notin {0, curr_terminal}
=============================================================================
