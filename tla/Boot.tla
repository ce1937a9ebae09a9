-------------------------------- MODULE Boot --------------------------------
(***************************************************************************)
(* From the boot loader to the first shell: _start of boot.S, entry of     *)
(* kernel.c, paging_init, init_terminals and the first system_execute, in  *)
(* the order of their steps.  Keys and ticks come from i8259_init on, and  *)
(* the interrupts are on from the middle of entry, so that they fall       *)
(* between any two of the later steps; a key can be Alt+Fn, which leaves   *)
(* the boot code for another terminal.  What a line would do before the    *)
(* 8259s are set up is not followed.                                       *)
(*                                                                         *)
(* Memory is counted in pages of 4KB.  What a program of a terminal does   *)
(* is left to Processes; here it runs, reads, and may raise an exception.  *)
(***************************************************************************)
EXTENDS Integers, Sequences, FiniteSets, SequencesExt

CONSTANTS
    MAX_TERMINALS,   \* terminals (terminal.h:13)
    MAX_PROGS,       \* programs, each with a page directory (lib.h:12)
    TABLE_SIZE,      \* pages of 4KB in one of 4MB, 1024 (paging.h:9)
    Exceptions,      \* bound: the exceptions that programs raise
    NULL

ASSUME SizesAssumption ==
    /\ MAX_TERMINALS \in Nat \ {0} /\ MAX_PROGS \in Nat
    /\ MAX_TERMINALS <= MAX_PROGS
    /\ TABLE_SIZE \in Nat \ {0, 1}
    /\ Exceptions \subseteq 0 .. 31

(* NULL is no address, no entry of a page directory and no handler.        *)
ASSUME NullAssumption ==
    /\ NULL \notin Nat
    /\ NULL \notin [pagesize : {0, 1}, page_addr : Nat]
    /\ NULL \notin {"double_fault", "page_fault", "keyboard_wrapper", "rtc_wrapper"}

Terminals == 0 .. MAX_TERMINALS - 1
Progs     == 0 .. MAX_PROGS - 1

VARIABLES
    pc,              \* the next step of the boot code, and the terminal it is for
    mbi,             \* what the boot loader gave: [magic, both] flags
    page_directory,  \* of every program: 4MB index -> entry
    page_table,      \* of every program: 4KB index -> physical page
    cr3,             \* the page directory in use, NULL before paging is on
    idt,             \* vector -> its handler, NULL without a present gate
    idtr, tr,        \* whether lidt and ltr have been executed
    vectors_moved,   \* whether the 8259s deliver to the kernel's vectors
    masked,          \* the masked lines of 1, the keyboard, and 8, the clock
    pending,         \* the lines with a request
    in_service,      \* line 1, from its delivery to its end of interrupt
    key,             \* the key of line 1: a letter or a terminal's Alt+Fn
    interrupts_on,   \* the processor's interrupt flag
    curr_terminal, num_progs, curr_pcb,
    in_user,         \* the terminals whose program has been entered
    machine,         \* "running", or what ended that
    early, raised    \* history: Alt+Fn before the first pcb; an exception

memVars  == <<page_directory, page_table, cr3>>
descVars == <<idt, idtr, tr, vectors_moved>>
procVars == <<curr_terminal, num_progs, curr_pcb, in_user>>
irqVars  == <<masked, pending, in_service, key>>
vars     == <<pc, mbi, memVars, descVars, irqVars, interrupts_on, procVars,
              machine, early, raised>>

Lines == {1, 8}

(* The vectors of the exceptions, of the lines before and after the 8259s  *)
(* are set up, and of system calls.                                        *)
Vector(line) == IF vectors_moved THEN 32 + line ELSE IF line = 1 THEN 9 ELSE 112
Vectors      == 0 .. 31 \cup {33, 40, 112, 128}

(* The start of 4MB, of the programs' memory, and of their virtual page.   *)
MB4            == TABLE_SIZE
KERNEL_MEM_END == 2 * MB4
MB128          == 32 * MB4

(* What boot.S finds, with the interrupts off; static variables are zero.  *)
Init ==
    /\ pc = <<"paging", 0>>
    /\ mbi \in [magic : BOOLEAN, both : BOOLEAN]
    /\ page_directory = [p \in Progs |-> [i \in {0, 1, 32} |-> NULL]]
    /\ page_table = [p \in Progs |-> [i \in 0 .. TABLE_SIZE - 1 |-> NULL]]
    /\ cr3 = NULL
    /\ idt = [v \in Vectors |-> NULL]
    /\ idtr = FALSE /\ tr = FALSE /\ vectors_moved = FALSE
    /\ masked = {}
    /\ pending = {} /\ in_service = {} /\ key = <<"letter", 0>>
    /\ interrupts_on = FALSE
    /\ curr_terminal = 0
    /\ num_progs = [t \in Terminals |-> 0]
    /\ curr_pcb = [t \in Terminals |-> NULL]
    /\ in_user = {}
    /\ machine = "running"
    /\ early = FALSE /\ raised = FALSE

-----------------------------------------------------------------------------
(* Paging.                                                                 *)

(* Entries of a page directory: a page of 4MB, or a page table.            *)
BigPage(address)   == [pagesize |-> 1, page_addr |-> address]
TableEntry(number) == [pagesize |-> 0, page_addr |-> number]

page_4mb(dir, physaddr, virtualaddr) ==
    [dir EXCEPT ![virtualaddr \div MB4] = BigPage(physaddr)]

(* page_4kb for every page but the first of the low 4MB.  Each program has *)
(* a table, but every directory is led to the first of them.               *)
LowTable == [i \in 0 .. TABLE_SIZE - 1 |-> IF i = 0 THEN NULL ELSE i]
page_4kb(dir) == [dir EXCEPT ![0] = TableEntry(0)]

(* Mutant: the page of every program is that of program 0.                 *)
SamePage(pid) == KERNEL_MEM_END

ProgramPage(pid) == KERNEL_MEM_END + pid * MB4

add_page(pid) ==
    page_directory' = [page_directory EXCEPT ![pid] = page_4mb(@, ProgramPage(pid), MB128)]

(* The physical page of a virtual one in a program's directory, or NULL.   *)
Translated(pid, page) ==
    LET entry == page_directory[pid][page \div MB4]
    IN  IF entry = NULL THEN NULL
        ELSE IF entry.pagesize = 1 THEN entry.page_addr + (page % MB4)
        ELSE page_table[entry.page_addr][page % MB4]

-----------------------------------------------------------------------------
(* Interrupts and exceptions.                                              *)

(* The exceptions' handlers by vector.  Gate 9 has the handler of gate 0,  *)
(* gate 11 is not present and 15 and 20 to 31 are not set.                 *)
ExceptionHandlers ==
    << "divide_error", "reserved", "nmi_interrupt", "breakpoint", "overflow",
       "bound_range_exceeded", "invalid_opcode", "device_not_available",
       "double_fault", "divide_error", "invalid_tss", NULL, "stack_segment_fault",
       "general_protection", "page_fault", NULL, "math_fault", "alignment_check",
       "machine_check", "simd_floating_exception" >>

Gates ==
    [v \in Vectors |-> CASE v < 20  -> ExceptionHandlers[v + 1]
                         [] v = 33  -> "keyboard_wrapper"
                         [] v = 40  -> "rtc_wrapper"
                         [] v = 128 -> "syscall_wrapper"
                         [] OTHER   -> NULL]

(* The handler the processor ends up in for a vector: for a missing gate   *)
(* it raises exception 11, and 8 if that has none; without that, or a TSS  *)
(* to find the kernel stack in, it resets.                                 *)
Reached(v) ==
    LET found == {w \in {v, 11, 8} : idtr /\ idt[w] # NULL}
    IN  IF found = {} \/ (~tr /\ curr_terminal \in in_user) THEN "reset"
        ELSE idt[IF v \in found THEN v ELSE IF 11 \in found THEN 11 ELSE 8]

(* Every exception handler prints its message and loops for ever.          *)
Stop(v) == machine' = Reached(v) /\ interrupts_on' = FALSE

-----------------------------------------------------------------------------
(* The steps of entry.                                                     *)

Booting == machine = "running" /\ curr_terminal = 0 /\ 0 \notin in_user

Step(from, to) == Booting /\ pc = <<from, 0>> /\ pc' = <<to, 0>>

outcome == <<machine, early, raised>>

PagingInit ==
    /\ Step("paging", "multiboot")
    /\ page_table' = [p \in Progs |-> LowTable]
    /\ page_directory' = [p \in Progs |-> page_4mb(page_4kb(page_directory[p]), MB4, MB4)]
    /\ cr3' = 0
    /\ UNCHANGED <<mbi, descVars, irqVars, interrupts_on, procVars, outcome>>

(* entry returns to the halt of boot.S if the magic number is wrong or     *)
(* both kinds of symbol table are announced.                               *)
CheckMultiboot ==
    /\ Step("multiboot", "tss")
    /\ machine' = IF mbi.magic /\ ~mbi.both THEN "running" ELSE "halted"
    /\ UNCHANGED <<mbi, memVars, descVars, irqVars, interrupts_on, procVars, early, raised>>

LoadTss ==
    /\ Step("tss", "idt")
    /\ tr' = TRUE
    /\ UNCHANGED <<mbi, memVars, idt, idtr, vectors_moved, irqVars, interrupts_on,
                   procVars, outcome>>

(* Mutant: the gate of the clock is forgotten.                             *)
GatesWithoutClock == [Gates EXCEPT ![40] = NULL]

GatesSet == Gates

SetGates ==
    /\ Step("idt", "lidt")
    /\ idt' = GatesSet
    /\ UNCHANGED <<mbi, memVars, idtr, tr, vectors_moved, irqVars, interrupts_on,
                   procVars, outcome>>

LoadIdt ==
    /\ Step("lidt", "i8259")
    /\ idtr' = TRUE
    /\ UNCHANGED <<mbi, memVars, idt, tr, vectors_moved, irqVars, interrupts_on,
                   procVars, outcome>>

(* i8259_init: every line masked but the slave's.                          *)
i8259_init ==
    /\ Step("i8259", "rtc")
    /\ vectors_moved' = TRUE
    /\ masked' = Lines
    /\ UNCHANGED <<mbi, memVars, idt, idtr, tr, pending, in_service, key, interrupts_on,
                   procVars, outcome>>

(* The mask registers, and the lines in service, after these calls.        *)
disable_irq(line, lines) == lines \cup {line}
enable_irq(line, lines)  == lines \ {line}
send_eoi(line, lines)    == lines \ {line}

EnableLine(from, to, line) ==
    /\ Step(from, to)
    /\ masked' = enable_irq(line, masked)
    /\ UNCHANGED <<mbi, memVars, descVars, pending, in_service, key, interrupts_on,
                   procVars, outcome>>

rtc_init     == EnableLine("rtc", "keyboard", 8)
EnableKeys   == EnableLine("keyboard", "sti", 1)

Sti ==
    /\ Step("sti", "fs")
    /\ interrupts_on' = TRUE
    /\ UNCHANGED <<mbi, memVars, descVars, irqVars, procVars, outcome>>

(* clear, set_new_position and setup_fs.                                   *)
SetupFs ==
    /\ Step("fs", "init")
    /\ UNCHANGED <<mbi, memVars, descVars, irqVars, interrupts_on, procVars, outcome>>

-----------------------------------------------------------------------------
(* init_terminals and system_execute("shell").  The terminals beyond the   *)
(* first are given a pcb and a page each, in their order.                  *)

AfterTerminal(t) == IF t + 1 \in Terminals THEN <<"pcb", t + 1>> ELSE <<"execute", 0>>

StartTerminals ==
    /\ Booting /\ pc = <<"init", 0>> /\ pc' = AfterTerminal(0)
    /\ curr_terminal' = 0
    /\ num_progs' = [t \in Terminals |-> IF t = 0 THEN 1 ELSE 0]
    /\ UNCHANGED <<mbi, memVars, descVars, irqVars, interrupts_on, curr_pcb, in_user, outcome>>

PlacePcb(t) ==
    /\ Booting /\ pc = <<"pcb", t>> /\ pc' = <<"page", t>>
    /\ curr_pcb' = [curr_pcb EXCEPT ![t] = t]
    /\ UNCHANGED <<mbi, memVars, descVars, irqVars, interrupts_on, curr_terminal,
                   num_progs, in_user, outcome>>

PlaceShell(t) ==
    /\ Booting /\ pc = <<"page", t>> /\ pc' = AfterTerminal(t)
    /\ cr3' = t
    /\ add_page(t)
    /\ UNCHANGED <<mbi, page_table, descVars, irqVars, interrupts_on, procVars, outcome>>

(* The first free slot is 0.                                               *)
FindSlot ==
    /\ Step("execute", "parent")
    /\ cr3' = 0
    /\ add_page(0)
    /\ UNCHANGED <<mbi, page_table, descVars, irqVars, interrupts_on, procVars, outcome>>

SetPcb ==
    /\ Step("parent", "enter")
    /\ curr_pcb' = [curr_pcb EXCEPT ![0] = 0]
    /\ UNCHANGED <<mbi, memVars, descVars, irqVars, interrupts_on, curr_terminal,
                   num_progs, in_user, outcome>>

EnterShell ==
    /\ Step("enter", "done")
    /\ num_progs' = [num_progs EXCEPT ![0] = @ + 1]
    /\ in_user' = in_user \cup {0}
    /\ interrupts_on' = TRUE
    /\ UNCHANGED <<mbi, memVars, descVars, irqVars, curr_terminal, curr_pcb, outcome>>

BootStep ==
    \/ PagingInit \/ CheckMultiboot \/ LoadTss \/ SetGates \/ LoadIdt
    \/ i8259_init \/ rtc_init \/ EnableKeys \/ Sti \/ SetupFs \/ StartTerminals
    \/ \E t \in Terminals : PlacePcb(t) \/ PlaceShell(t)
    \/ FindSlot \/ SetPcb \/ EnterShell

-----------------------------------------------------------------------------
(* Keys and ticks, and what their handlers leave behind.                   *)

Keys == {<<"letter", 0>>} \cup {<<"alt", t>> : t \in Terminals}

PressKey(k) ==
    /\ machine = "running" /\ vectors_moved
    /\ 1 \notin pending
    /\ pending' = pending \cup {1} /\ key' = k
    /\ UNCHANGED <<pc, mbi, memVars, descVars, masked, in_service, interrupts_on,
                   procVars, outcome>>

ClockTicks ==
    /\ machine = "running" /\ vectors_moved
    /\ 8 \notin pending \cup masked
    /\ pending' = pending \cup {8}
    /\ UNCHANGED <<pc, mbi, memVars, descVars, masked, in_service, key, interrupts_on,
                   procVars, outcome>>

(* The keyboard's line in service holds back itself and the lines after    *)
(* it, the clock's among them.                                             *)
Delivered(line) ==
    /\ machine = "running" /\ interrupts_on
    /\ line \in pending \ masked
    /\ 1 \notin in_service
    /\ pending' = pending \ {line}
    /\ UNCHANGED <<pc, mbi, page_directory, page_table, descVars, key, raised>>

(* The keyboard's line, which its handler masks first of all, on each way  *)
(* out: the handler's own end, start_shell, and reload_program, of which   *)
(* the last two come after the acknowledgement of switch_terminal.         *)
InHandler     == disable_irq(1, masked)
AfterHandler  == enable_irq(1, InHandler)
AfterStart    == enable_irq(1, InHandler)

(* Mutant: the line is not unmasked for the program that goes on.          *)
MaskedAfterReload == InHandler

AfterReload   == enable_irq(1, InHandler)
HandlerAcks   == send_eoi(1, in_service \cup {1})
SwitchAcks    == send_eoi(1, in_service \cup {1})

(* The key of line 1 leads the keyboard's handler to another terminal.     *)
Switches ==
    /\ Reached(Vector(1)) = "keyboard_wrapper"
    /\ key \in {<<"alt", t>> : t \in Terminals \ {curr_terminal}}

(* A letter and Alt+Fn of the terminal on the screen go back to what they  *)
(* interrupted, and so does a tick, whose acknowledgement Rtc has; another *)
(* handler than those of the two lines stops the machine.                  *)
Resume(line) ==
    /\ Delivered(line)
    /\ line = 1 => ~Switches
    /\ IF Reached(Vector(line)) \in {"keyboard_wrapper", "rtc_wrapper"}
       THEN /\ masked' = IF line = 1 THEN AfterHandler ELSE masked
            /\ in_service' = IF line = 1 THEN HandlerAcks ELSE in_service
            /\ UNCHANGED <<machine, interrupts_on>>
       ELSE /\ Stop(Vector(line))
            /\ UNCHANGED <<masked, in_service>>
    /\ UNCHANGED <<cr3, procVars, early>>

LeaveFor(t) ==
    /\ Delivered(1)
    /\ Switches /\ key = <<"alt", t>>
    /\ in_service' = SwitchAcks
    /\ early' = (early \/ curr_pcb[0] = NULL)

(* start_shell: the shell is read over the page of the terminal's first    *)
(* program and entered, with the interrupts still off.                     *)
StartShell(t) ==
    /\ LeaveFor(t)
    /\ num_progs[t] = 0
    /\ Translated(t, MB128) # NULL
    /\ curr_terminal' = t
    /\ num_progs' = [num_progs EXCEPT ![t] = @ + 1]
    /\ in_user' = in_user \cup {t}
    /\ cr3' = t
    /\ masked' = AfterStart
    /\ interrupts_on' = FALSE
    /\ UNCHANGED <<curr_pcb, machine>>

(* reload_program: the program in front, or the boot code, goes on.        *)
ReloadProgram(t) ==
    /\ LeaveFor(t)
    /\ num_progs[t] # 0 /\ curr_pcb[t] # NULL
    /\ curr_terminal' = t
    /\ cr3' = curr_pcb[t]
    /\ masked' = AfterReload
    /\ interrupts_on' = TRUE
    /\ UNCHANGED <<num_progs, curr_pcb, in_user, machine>>

(* Without a page for the shell, or with a NULL pcb to read the name from, *)
(* both fault, start_shell with the line unmasked already.                 *)
FaultOnSwitch(t) ==
    /\ LeaveFor(t)
    /\ IF num_progs[t] = 0
       THEN Translated(t, MB128) = NULL /\ masked' = AfterStart
       ELSE curr_pcb[t] = NULL /\ masked' = InHandler
    /\ Stop(14)
    /\ UNCHANGED <<cr3, procVars>>

KeyboardInterrupt ==
    \/ Resume(1)
    \/ \E t \in Terminals : StartShell(t) \/ ReloadProgram(t) \/ FaultOnSwitch(t)

-----------------------------------------------------------------------------
(* A program reads a line, which turns the interrupts on, or goes wrong.   *)
InProgram == machine = "running" /\ curr_terminal \in in_user

ReadLine ==
    /\ InProgram /\ ~interrupts_on
    /\ interrupts_on' = TRUE
    /\ UNCHANGED <<pc, mbi, memVars, descVars, irqVars, procVars, outcome>>

Raise(v) ==
    /\ InProgram
    /\ Stop(v)
    /\ raised' = TRUE
    /\ UNCHANGED <<pc, mbi, memVars, descVars, irqVars, procVars, early>>

Program == ReadLine \/ \E v \in Exceptions : Raise(v)

(* The endless loops of the exception handlers and of boot.S.              *)
Ended == machine # "running" /\ UNCHANGED vars

-----------------------------------------------------------------------------
Next ==
    \/ BootStep \/ KeyboardInterrupt \/ Resume(8) \/ Program \/ Ended
    \/ ClockTicks \/ \E k \in Keys : PressKey(k)

Spec == Init /\ [][Next]_vars

(* The boot code and a shell on its way to its first read do not stop, and *)
(* the processor takes an interrupt it accepts: the keyboard's line comes  *)
(* before the clock's at the 8259, so ticks cannot hold it back.           *)
FairSpec ==
    Spec /\ WF_vars(BootStep) /\ WF_vars(ReadLine) /\ WF_vars(KeyboardInterrupt)

-----------------------------------------------------------------------------
(* Properties.                                                             *)

TypeOK ==
    /\ mbi \in [magic : BOOLEAN, both : BOOLEAN]
    /\ cr3 \in Progs \cup {NULL}
    /\ idtr \in BOOLEAN /\ tr \in BOOLEAN /\ vectors_moved \in BOOLEAN
    /\ masked \subseteq Lines /\ pending \subseteq Lines /\ in_service \subseteq {1}
    /\ key \in Keys
    /\ interrupts_on \in BOOLEAN
    /\ curr_terminal \in Terminals
    /\ num_progs \in [Terminals -> 0 .. 2]
    /\ curr_pcb \in [Terminals -> Progs \cup {NULL}]
    /\ in_user \subseteq Terminals
    /\ early \in BOOLEAN /\ raised \in BOOLEAN

(* kernel.c:286-288: the interrupts are not enabled "until after you have  *)
(* set up your IDT correctly otherwise QEMU will triple fault".  The       *)
(* machine never resets, and it stops for three reasons only: a boot       *)
(* loader's bad information, an exception of a program, or an Alt+Fn       *)
(* before the first shell has its pcb, then or when the user comes back.   *)
MachineStopsForAReason ==
    /\ TypeOK
    /\ machine # "reset"
    /\ machine = "halted" => ~(mbi.magic /\ ~mbi.both)
    /\ machine \notin {"running", "halted"} =>
          raised \/ (early /\ machine = "page_fault")

(* Once paging is on, every directory leads the kernel to itself, NULL to  *)
(* nothing, and the programs' page, if there is one, to physical memory of *)
(* the program's own; and a program that runs has its page.                *)
MemoryIsApart ==
    cr3 # NULL =>
        /\ \A p \in Progs :
             /\ Translated(p, 0) = NULL
             /\ \A page \in 1 .. KERNEL_MEM_END - 1 : Translated(p, page) = page
             /\ \A i \in 0 .. MB4 - 1, q \in Progs \ {p} :
                  LET mine == Translated(p, MB128 + i)
                  IN  mine # NULL => /\ mine >= KERNEL_MEM_END
                                     /\ \A j \in 0 .. MB4 - 1 : mine # Translated(q, MB128 + j)
        /\ InProgram => cr3 = curr_pcb[curr_terminal] /\ Translated(cr3, MB128) # NULL

(* A key pressed once i8259_init has set the 8259s up, through the rest of *)
(* the boot, the first visits of terminals and the returns to them, is     *)
(* served: no way out of the keyboard's handler leaves its line masked or  *)
(* unacknowledged (Bug Log.txt:20), and no wait has the interrupts off.    *)
EveryKeyIsServed == 1 \in pending ~> 1 \notin pending \/ machine # "running"
=============================================================================
