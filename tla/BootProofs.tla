----------------------------- MODULE BootProofs -----------------------------
(***************************************************************************)
(* The boot, for every number of terminals, programs and pages: why the    *)
(* machine can stop, and how the memory of the programs is kept apart.     *)
(***************************************************************************)
EXTENDS Boot, DataLemmas

(* How far the boot code is.  It stays where it is while the user is on    *)
(* another terminal.                                                       *)
Stage == pc[1]

Done   == {"execute", "parent", "enter", "done"}
Stages == Done \cup {"paging", "multiboot", "tss", "idt", "lidt", "i8259", "rtc",
                     "keyboard", "sti", "fs", "init", "pcb", "page"}

BeforeTss    == {"paging", "multiboot", "tss"}
BeforeIdt    == BeforeTss \cup {"idt"}
BeforeLidt   == BeforeIdt \cup {"lidt"}
BeforeI8259  == BeforeLidt \cup {"i8259"}
BeforeSti    == BeforeI8259 \cup {"rtc", "keyboard", "sti"}
BeforeInit   == BeforeSti \cup {"fs", "init"}

(* The terminals that have been given their pcb, and their page.           *)
PcbGiven(t) ==
    IF t = 0 THEN Stage \in {"enter", "done"}
    ELSE \/ Stage \in Done
         \/ Stage = "pcb" /\ t < pc[2]
         \/ Stage = "page" /\ t <= pc[2]

PageGiven(t) ==
    IF t = 0 THEN Stage \in {"parent", "enter", "done"}
    ELSE \/ Stage \in Done
         \/ Stage \in {"pcb", "page"} /\ t < pc[2]

PlaceOK ==
    /\ pc \in Stages \X Terminals
    /\ Stage \in {"pcb", "page"} <=> pc[2] # 0

(* The tables of the processor, which the boot code fills in order before  *)
(* it turns the interrupts on.                                             *)
TablesOK ==
    /\ Stage \notin BeforeTss => tr = TRUE
    /\ Stage \notin BeforeIdt => idt = Gates
    /\ Stage \notin BeforeLidt => idtr = TRUE
    /\ Stage \notin BeforeI8259 => vectors_moved = TRUE
    /\ Stage \in BeforeSti => interrupts_on = FALSE

(* What every directory holds, by the stage alone.                         *)
Directory(programs) ==
    [i \in {0, 1, 32} |->
       IF i = 0 THEN TableEntry(0) ELSE IF i = 1 THEN BigPage(MB4) ELSE programs]

DirectoryOf(p) ==
    Directory(IF p \in Terminals /\ PageGiven(p) THEN BigPage(ProgramPage(p)) ELSE NULL)

MemoryOK ==
    IF Stage = "paging"
      THEN /\ page_directory = [p \in Progs |-> [i \in {0, 1, 32} |-> NULL]]
           /\ cr3 = NULL
      ELSE /\ page_directory = [p \in Progs |-> DirectoryOf(p)]
           /\ page_table = [p \in Progs |-> LowTable]
           /\ cr3 \in Progs

(* The programs: none before init_terminals, then those which the user or  *)
(* the boot code has entered.                                              *)
ProgramsOK ==
    /\ curr_pcb = [t \in Terminals |-> IF PcbGiven(t) THEN t ELSE NULL]
    /\ Stage \in BeforeInit =>
          curr_terminal = 0 /\ in_user = {} /\ num_progs = [t \in Terminals |-> 0]
    /\ Stage \notin BeforeInit =>
          \A t \in Terminals :
             num_progs[t] = (IF t = 0 THEN 1 ELSE 0) + (IF t \in in_user THEN 1 ELSE 0)
    /\ 0 \in in_user <=> Stage = "done"
    /\ \A t \in in_user : PcbGiven(t) /\ PageGiven(t)
    /\ curr_terminal # 0 => curr_terminal \in in_user /\ cr3 = curr_terminal
    /\ curr_terminal = 0 /\ Stage \in {"parent", "enter", "done"} => cr3 = 0

StopsOK ==
    /\ machine # "reset"
    /\ machine = "halted" => ~(mbi.magic /\ ~mbi.both)
    /\ machine \notin {"running", "halted"} =>
          raised \/ (early /\ machine = "page_fault")

BootInv == TypeOK /\ PlaceOK /\ TablesOK /\ MemoryOK /\ ProgramsOK /\ StopsOK

-----------------------------------------------------------------------------
LEMMA Places ==
    /\ 0 \in Terminals /\ Terminals \subseteq Progs /\ 0 \in Progs
    /\ Terminals \subseteq Nat /\ Progs \subseteq Nat
    /\ MB4 \in Nat \ {0, 1}
BY SizesAssumption DEF Terminals, Progs, MB4

LEMMA InitBootInv == Init => BootInv
<1>. SUFFICES ASSUME Init PROVE BootInv
  OBVIOUS
<1>1. pc = <<"paging", 0>> /\ Stage = "paging" /\ pc[2] = 0
  BY DEF Init, Stage
<1>2. TypeOK
  <2>1. num_progs \in [Terminals -> 0 .. 2] /\ curr_pcb \in [Terminals -> Progs \cup {NULL}]
    BY DEF Init
  <2>2. mbi \in [magic : BOOLEAN, both : BOOLEAN] /\ key \in Keys /\ curr_terminal \in Terminals
    BY Places DEF Init, Keys
  <2>3. /\ idtr = FALSE /\ tr = FALSE /\ vectors_moved = FALSE /\ interrupts_on = FALSE
        /\ early = FALSE /\ raised = FALSE /\ masked = {} /\ pending = {} /\ in_service = {}
        /\ cr3 = NULL /\ in_user = {}
    BY DEF Init
  <2>. QED
    BY <2>1, <2>2, <2>3 DEF TypeOK
<1>3. PlaceOK
  BY <1>1, Places DEF PlaceOK, Stages
<1>4. TablesOK
  BY <1>1 DEF Init, TablesOK, BeforeTss, BeforeIdt, BeforeLidt, BeforeI8259, BeforeSti
<1>5. MemoryOK
  BY <1>1 DEF Init, MemoryOK
<1>6. ProgramsOK
  BY <1>1, Places DEF Init, ProgramsOK, PcbGiven, Done, BeforeInit, BeforeSti, BeforeI8259,
     BeforeLidt, BeforeIdt, BeforeTss
<1>7. StopsOK
  BY DEF Init, StopsOK
<1>. QED
  BY <1>2, <1>3, <1>4, <1>5, <1>6, <1>7 DEF BootInv

-----------------------------------------------------------------------------
(* The steps of the boot code that only move on: nothing is given to a     *)
(* terminal before init_terminals.                                         *)
QuietStages == BeforeInit \ {"paging"}

LEMMA QuietStep ==
    ASSUME BootInv,
           NEW from \in QuietStages, NEW to \in QuietStages,
           pc = <<from, 0>>, pc' = <<to, 0>>, UNCHANGED <<memVars, procVars>>
    PROVE  PlaceOK' /\ MemoryOK' /\ ProgramsOK'
<1>. USE DEF QuietStages, BeforeInit, BeforeSti, BeforeI8259, BeforeLidt, BeforeIdt, BeforeTss
<1>1. Stage = from /\ Stage' = to
  BY DEF Stage
<1>2. PlaceOK'
  BY <1>1, Places DEF PlaceOK, Stages
<1>3. MemoryOK'
  BY <1>1 DEF BootInv, MemoryOK, DirectoryOf, PageGiven, Done, memVars
<1>4. ProgramsOK'
  BY <1>1 DEF BootInv, ProgramsOK, PcbGiven, PageGiven, Done, procVars, memVars
<1>. QED
  BY <1>2, <1>3, <1>4

(* The tables are filled in their order, and the interrupts turned on when *)
(* they are complete.                                                      *)
LEMMA TablesStep ==
    ASSUME BootInv,
           \/ LoadTss \/ SetGates \/ LoadIdt \/ i8259_init
           \/ rtc_init \/ EnableKeys \/ Sti \/ SetupFs
    PROVE  BootInv'
<1>. USE DEF BeforeInit, BeforeSti, BeforeI8259, BeforeLidt, BeforeIdt, BeforeTss
<1>1. PICK from \in QuietStages, to \in QuietStages :
        pc = <<from, 0>> /\ pc' = <<to, 0>> /\ UNCHANGED <<memVars, procVars, outcome, mbi>>
  BY DEF QuietStages, Step, LoadTss, SetGates, LoadIdt, i8259_init, rtc_init, EnableKeys,
     EnableLine, Sti, SetupFs, memVars, procVars, outcome
<1>2. PlaceOK' /\ MemoryOK' /\ ProgramsOK'
  BY <1>1, QuietStep
<1>3. StopsOK'
  BY <1>1 DEF BootInv, StopsOK, outcome
<1>. USE DEF LoadTss, SetGates, LoadIdt, i8259_init, rtc_init, EnableKeys, EnableLine, Sti,
             SetupFs, descVars, irqVars
<1>4. TypeOK'
  <2>1. UNCHANGED <<pending, in_service, key>> /\ masked' \subseteq masked \cup Lines
    BY DEF enable_irq
  <2>2. /\ tr' = tr \/ tr' = TRUE
        /\ idtr' = idtr \/ idtr' = TRUE
        /\ vectors_moved' = vectors_moved \/ vectors_moved' = TRUE
        /\ interrupts_on' = interrupts_on \/ interrupts_on' = TRUE
    OBVIOUS
  <2>3. TypeOK
    BY DEF BootInv
  <2>4. UNCHANGED <<mbi, cr3, curr_terminal, num_progs, curr_pcb, in_user, early, raised>>
    BY <1>1 DEF memVars, procVars, outcome
  <2>5. masked' \subseteq Lines /\ pending' \subseteq Lines /\ in_service' \subseteq {1} /\ key' \in Keys
    BY <2>1, <2>3 DEF TypeOK
  <2>6. tr' \in BOOLEAN /\ idtr' \in BOOLEAN
    BY <2>2, <2>3 DEF TypeOK
  <2>7. vectors_moved' \in BOOLEAN /\ interrupts_on' \in BOOLEAN
    BY <2>2, <2>3 DEF TypeOK
  <2>. QED
    BY <2>3, <2>4, <2>5, <2>6, <2>7 DEF TypeOK
<1>5. TablesOK'
  <2>1. TablesOK
    BY DEF BootInv
  <2>2. CASE LoadTss
    BY <2>1, <2>2 DEF TablesOK, Stage, Step
  <2>3. CASE SetGates
    BY <2>1, <2>3 DEF TablesOK, Stage, Step, GatesSet
  <2>4. CASE LoadIdt
    BY <2>1, <2>4 DEF TablesOK, Stage, Step
  <2>5. CASE i8259_init
    BY <2>1, <2>5 DEF TablesOK, Stage, Step
  <2>6. CASE rtc_init
    BY <2>1, <2>6 DEF TablesOK, Stage, Step
  <2>7. CASE EnableKeys
    BY <2>1, <2>7 DEF TablesOK, Stage, Step
  <2>8. CASE Sti
    BY <2>1, <2>8 DEF TablesOK, Stage, Step
  <2>9. CASE SetupFs
    BY <2>1, <2>9 DEF TablesOK, Stage, Step
  <2>. QED
    BY <2>2, <2>3, <2>4, <2>5, <2>6, <2>7, <2>8, <2>9
<1>. QED
  BY <1>2, <1>3, <1>4, <1>5 DEF BootInv
-----------------------------------------------------------------------------
(* paging_init gives every program the same directory.                     *)
LEMMA PagingStep == ASSUME BootInv, PagingInit PROVE BootInv'
<1>1. pc = <<"paging", 0>> /\ pc' = <<"multiboot", 0>> /\ Stage = "paging" /\ Stage' = "multiboot"
  BY DEF PagingInit, Step, Stage
<1>2. UNCHANGED <<mbi, descVars, irqVars, interrupts_on, procVars, outcome>>
  BY DEF PagingInit
<1>3. TypeOK'
  <2>1. cr3' \in Progs
    BY Places DEF PagingInit
  <2>. QED
    BY <1>2, <2>1 DEF BootInv, TypeOK, descVars, irqVars, procVars, outcome
<1>4. PlaceOK'
  BY <1>1, Places DEF PlaceOK, Stages
<1>5. TablesOK'
  BY <1>1, <1>2 DEF BootInv, TablesOK, BeforeTss, BeforeIdt, BeforeLidt, BeforeI8259, BeforeSti
<1>6. MemoryOK'
  <2>1. MB4 \div MB4 = 1
    BY Places
  <2>2. ASSUME NEW p \in Progs
        PROVE  page_4mb(page_4kb(page_directory[p]), MB4, MB4) = DirectoryOf(p)'
    <3>1. page_directory[p] = [i \in {0, 1, 32} |-> NULL]
      BY <1>1 DEF BootInv, MemoryOK
    <3>2. ~ PageGiven(p)'
      BY <1>1 DEF PageGiven, Done
    <3>. QED
      BY <2>1, <3>1, <3>2 DEF page_4mb, page_4kb, DirectoryOf, Directory
  <2>3. page_directory' = [p \in Progs |-> DirectoryOf(p)']
    BY <2>2 DEF PagingInit
  <2>. QED
    BY <1>1, <2>3, Places DEF PagingInit, MemoryOK
<1>7. ProgramsOK'
  BY <1>1, <1>2 DEF BootInv, ProgramsOK, PcbGiven, PageGiven, Done, BeforeInit, BeforeSti,
     BeforeI8259, BeforeLidt, BeforeIdt, BeforeTss, procVars
<1>8. StopsOK'
  BY <1>2 DEF BootInv, StopsOK, outcome
<1>. QED
  BY <1>3, <1>4, <1>5, <1>6, <1>7, <1>8 DEF BootInv

LEMMA MultibootStep == ASSUME BootInv, CheckMultiboot PROVE BootInv'
<1>1. pc = <<"multiboot", 0>> /\ pc' = <<"tss", 0>> /\ Stage = "multiboot" /\ Stage' = "tss"
  BY DEF CheckMultiboot, Step, Stage
<1>2. UNCHANGED <<mbi, memVars, descVars, irqVars, interrupts_on, procVars, early, raised>>
  BY DEF CheckMultiboot
<1>3. PlaceOK' /\ MemoryOK' /\ ProgramsOK'
  BY <1>1, <1>2, QuietStep DEF QuietStages, BeforeInit, BeforeSti, BeforeI8259, BeforeLidt,
     BeforeIdt, BeforeTss
<1>4. TypeOK'
  BY <1>2 DEF BootInv, TypeOK, memVars, descVars, irqVars, procVars
<1>5. TablesOK'
  BY <1>1, <1>2 DEF BootInv, TablesOK, descVars, BeforeTss, BeforeIdt, BeforeLidt, BeforeI8259,
     BeforeSti
<1>6. StopsOK'
  BY <1>2 DEF CheckMultiboot, StopsOK
<1>. QED
  BY <1>3, <1>4, <1>5, <1>6 DEF BootInv

-----------------------------------------------------------------------------
(* After the interrupts are turned on the boot code changes no table of    *)
(* the processor.                                                          *)
LateStages == {"init", "pcb", "page"} \cup Done

LEMMA LateTables ==
    ASSUME BootInv, Stage \in LateStages, Stage' \in LateStages, UNCHANGED descVars
    PROVE  TablesOK'
BY DEF BootInv, TablesOK, LateStages, Done, descVars, BeforeTss, BeforeIdt, BeforeLidt,
   BeforeI8259, BeforeSti

(* The entry of a directory for the programs' page is replaced.            *)
LEMMA EntryReplaced ==
    ASSUME NEW c, NEW d
    PROVE  [Directory(c) EXCEPT ![32] = d] = Directory(d)
<1>. DEFINE D == {0, 1, 32}
            f == Directory(c)
            g == Directory(d)
<1>1. f = [i \in D |-> f[i]] /\ g = [i \in D |-> g[i]]
  BY DEF Directory
<1>2. \A i \in D : (IF i = 32 THEN d ELSE f[i]) = g[i]
  BY DEF Directory
<1>. HIDE DEF f, g, D
<1>3. [f EXCEPT ![32] = d] = [i \in D |-> IF i = 32 THEN d ELSE f[i]]
  BY <1>1
<1>4. [f EXCEPT ![32] = d] = g
  BY <1>1, <1>2, <1>3
<1>. QED
  BY <1>4 DEF f, g

(* The page of a terminal's first program is added to its directory.       *)
LEMMA PageAdded ==
    ASSUME BootInv, Stage \in LateStages, Stage' \in LateStages,
           NEW pid \in Terminals, add_page(pid), cr3' = pid, UNCHANGED page_table,
           \A t \in Terminals : PageGiven(t)' <=> PageGiven(t) \/ t = pid
    PROVE  MemoryOK'
<1>1. Stage # "paging" /\ Stage' # "paging"
  BY DEF LateStages, Done
<1>2. page_directory = [p \in Progs |-> DirectoryOf(p)] /\ page_table = [p \in Progs |-> LowTable]
  BY <1>1 DEF BootInv, MemoryOK
<1>3. MB128 \div MB4 = 32
  BY Places DEF MB128
<1>4. ASSUME NEW p \in Progs PROVE page_directory'[p] = DirectoryOf(p)'
  <2>1. CASE p = pid
    <3>1. page_directory'[p] = [DirectoryOf(p) EXCEPT ![32] = BigPage(ProgramPage(p))]
      BY <1>2, <1>3, <2>1, Places DEF add_page, page_4mb
    <3>2. page_directory'[p] = Directory(BigPage(ProgramPage(p)))
      BY <3>1, <2>1, EntryReplaced DEF DirectoryOf
    <3>3. (p \in Terminals /\ PageGiven(p))'
      BY <2>1
    <3>. QED
      BY <3>2, <3>3 DEF DirectoryOf
  <2>2. CASE p # pid
    <3>1. page_directory'[p] = DirectoryOf(p)
      BY <1>2, <2>2, Places DEF add_page
    <3>2. p \in Terminals => (PageGiven(p)' <=> PageGiven(p))
      BY <2>2
    <3>. QED
      BY <3>1, <3>2 DEF DirectoryOf
  <2>. QED
    BY <2>1, <2>2
<1>5. page_directory' = [p \in Progs |-> DirectoryOf(p)']
  <2>1. page_directory' = [p \in Progs |-> page_directory'[p]]
    BY <1>2 DEF add_page
  <2>. QED
    BY <1>4, <2>1
<1>. QED
  BY <1>1, <1>2, <1>5, Places DEF MemoryOK
(* A step of the boot code that leaves the processor and what ended the    *)
(* machine alone.                                                          *)
LEMMA CalmStep ==
    ASSUME BootInv, Stage \in LateStages, Stage' \in LateStages,
           UNCHANGED <<mbi, descVars, irqVars, machine, early, raised>>,
           interrupts_on' \in BOOLEAN, cr3' \in Progs, curr_terminal' \in Terminals,
           num_progs' \in [Terminals -> 0 .. 2],
           curr_pcb' \in [Terminals -> Progs \cup {NULL}], in_user' \subseteq Terminals
    PROVE  TypeOK' /\ TablesOK' /\ StopsOK'
<1>1. TypeOK'
  BY DEF BootInv, TypeOK, descVars, irqVars
<1>2. TablesOK'
  BY LateTables
<1>3. StopsOK'
  BY DEF BootInv, StopsOK
<1>. QED
  BY <1>1, <1>2, <1>3

LEMMA StartStep == ASSUME BootInv, StartTerminals PROVE BootInv'
<1>1. /\ pc = <<"init", 0>> /\ Stage = "init" /\ pc' = AfterTerminal(0) /\ curr_terminal' = 0
      /\ num_progs' = [t \in Terminals |-> IF t = 0 THEN 1 ELSE 0]
      /\ UNCHANGED <<mbi, memVars, descVars, irqVars, interrupts_on, curr_pcb, in_user, outcome>>
  BY DEF StartTerminals, Stage
<1>2. \/ pc' = <<"pcb", 1>> /\ Stage' = "pcb" /\ pc'[2] = 1 /\ 1 \in Terminals
      \/ pc' = <<"execute", 0>> /\ Stage' = "execute" /\ pc'[2] = 0 /\ \A t \in Terminals : t = 0
  <2>1. AfterTerminal(0) = IF 1 \in Terminals THEN <<"pcb", 1>> ELSE <<"execute", 0>>
    BY DEF AfterTerminal
  <2>2. 1 \notin Terminals => \A t \in Terminals : t = 0
    BY SizesAssumption DEF Terminals
  <2>3. CASE 1 \in Terminals
    <3>1. pc' = <<"pcb", 1>>
      BY <1>1, <2>1, <2>3
    <3>. QED
      BY <2>3, <3>1 DEF Stage
  <2>4. CASE 1 \notin Terminals
    <3>1. pc' = <<"execute", 0>>
      BY <1>1, <2>1, <2>4
    <3>. QED
      BY <2>2, <2>4, <3>1 DEF Stage
  <2>. QED
    BY <2>3, <2>4
<1>3. Stage \in LateStages /\ Stage' \in LateStages
  BY <1>1, <1>2 DEF LateStages, Done
<1>4. in_user = {} /\ cr3 \in Progs
  BY <1>1 DEF BootInv, ProgramsOK, MemoryOK, BeforeInit
<1>5. TypeOK' /\ TablesOK' /\ StopsOK'
  <2>1. num_progs' \in [Terminals -> 0 .. 2] /\ curr_terminal' \in Terminals
    BY <1>1, Places
  <2>. QED
    BY <1>1, <1>3, <1>4, <2>1, CalmStep DEF BootInv, TypeOK, memVars, outcome
<1>6. PlaceOK'
  BY <1>2, Places DEF PlaceOK, Stages, Done
<1>7. \A t \in Terminals : /\ PcbGiven(t)' <=> PcbGiven(t)
                           /\ PageGiven(t)' <=> PageGiven(t)
  BY <1>1, <1>2, Places DEF PcbGiven, PageGiven, Done
<1>8. MemoryOK'
  <2>1. \A p \in Progs : DirectoryOf(p)' = DirectoryOf(p)
    BY <1>7 DEF DirectoryOf
  <2>2. Stage # "paging" /\ Stage' # "paging"
    BY <1>1, <1>2
  <2>. QED
    BY <1>1, <2>1, <2>2 DEF BootInv, MemoryOK, memVars
<1>9. ProgramsOK'
  <2>1. Stage' \notin BeforeInit /\ Stage' \notin {"parent", "enter", "done"}
    BY <1>2 DEF BeforeInit, BeforeSti, BeforeI8259, BeforeLidt, BeforeIdt, BeforeTss
  <2>2. curr_pcb' = [t \in Terminals |-> IF PcbGiven(t)' THEN t ELSE NULL]
    BY <1>1, <1>7 DEF BootInv, ProgramsOK
  <2>. QED
    BY <1>1, <1>4, <2>1, <2>2 DEF ProgramsOK
<1>. QED
  BY <1>5, <1>6, <1>8, <1>9 DEF BootInv

LEMMA PcbStep == ASSUME BootInv, NEW t \in Terminals, PlacePcb(t) PROVE BootInv'
<1>1. /\ pc = <<"pcb", t>> /\ Stage = "pcb" /\ pc[2] = t
      /\ pc' = <<"page", t>> /\ Stage' = "page" /\ pc'[2] = t
      /\ curr_pcb' = [curr_pcb EXCEPT ![t] = t]
      /\ UNCHANGED <<mbi, memVars, descVars, irqVars, interrupts_on, curr_terminal,
                     num_progs, in_user, outcome>>
  BY DEF PlacePcb, Stage
<1>2. t # 0 /\ Stage \in LateStages /\ Stage' \in LateStages /\ cr3 \in Progs
  BY <1>1 DEF BootInv, PlaceOK, LateStages, MemoryOK
<1>3. TypeOK' /\ TablesOK' /\ StopsOK'
  <2>1. curr_pcb' \in [Terminals -> Progs \cup {NULL}]
    BY <1>1, Places DEF BootInv, TypeOK
  <2>. QED
    BY <1>1, <1>2, <2>1, CalmStep DEF BootInv, TypeOK, memVars, outcome
<1>4. PlaceOK'
  BY <1>1, <1>2 DEF PlaceOK, Stages
<1>5. \A u \in Terminals : /\ PcbGiven(u)' <=> PcbGiven(u) \/ u = t
                           /\ PageGiven(u)' <=> PageGiven(u)
  BY <1>1, <1>2, Places DEF PcbGiven, PageGiven, Done
<1>6. MemoryOK'
  <2>1. \A p \in Progs : DirectoryOf(p)' = DirectoryOf(p)
    BY <1>5 DEF DirectoryOf
  <2>2. Stage # "paging" /\ Stage' # "paging"
    BY <1>1
  <2>. QED
    BY <1>1, <2>1, <2>2 DEF BootInv, MemoryOK, memVars
<1>7. ProgramsOK'
  <2>1. /\ Stage' \notin BeforeInit /\ Stage' \notin {"parent", "enter", "done"}
        /\ Stage \notin BeforeInit /\ Stage # "done"
    BY <1>1 DEF BeforeInit, BeforeSti, BeforeI8259, BeforeLidt, BeforeIdt, BeforeTss
  <2>2. curr_pcb' = [u \in Terminals |-> IF PcbGiven(u)' THEN u ELSE NULL]
    BY <1>1, <1>5 DEF BootInv, ProgramsOK
  <2>. QED
    BY <1>1, <1>5, <2>1, <2>2 DEF BootInv, TypeOK, ProgramsOK, memVars
<1>. QED
  BY <1>3, <1>4, <1>6, <1>7 DEF BootInv

LEMMA ShellStep == ASSUME BootInv, NEW t \in Terminals, PlaceShell(t) PROVE BootInv'
<1>1. /\ pc = <<"page", t>> /\ Stage = "page" /\ pc[2] = t
      /\ pc' = AfterTerminal(t)
      /\ cr3' = t /\ add_page(t) /\ curr_terminal = 0
      /\ UNCHANGED <<mbi, page_table, descVars, irqVars, interrupts_on, procVars, outcome>>
  BY DEF PlaceShell, Stage, Booting
<1>2. t # 0 /\ t \in Nat
  BY <1>1, Places DEF BootInv, PlaceOK
<1>3. \/ /\ pc' = <<"pcb", t + 1>> /\ Stage' = "pcb" /\ pc'[2] = t + 1 /\ t + 1 \in Terminals
      \/ /\ pc' = <<"execute", 0>> /\ Stage' = "execute" /\ pc'[2] = 0
         /\ \A u \in Terminals : u <= t
  BY <1>1, <1>2, SizesAssumption DEF AfterTerminal, Stage, Terminals
<1>4. Stage \in LateStages /\ Stage' \in LateStages /\ cr3' \in Progs
  BY <1>1, <1>3, Places DEF LateStages, Done
<1>5. TypeOK' /\ TablesOK' /\ StopsOK'
  BY <1>1, <1>4, CalmStep DEF BootInv, TypeOK, procVars, outcome
<1>6. PlaceOK'
  BY <1>2, <1>3, Places DEF PlaceOK, Stages, Done
<1>7. \A u \in Terminals : /\ PcbGiven(u)' <=> PcbGiven(u)
                           /\ PageGiven(u)' <=> PageGiven(u) \/ u = t
  BY <1>1, <1>2, <1>3, Places DEF PcbGiven, PageGiven, Done
<1>8. MemoryOK'
  BY <1>1, <1>4, <1>7, PageAdded
<1>9. ProgramsOK'
  <2>1. /\ Stage' \notin BeforeInit /\ Stage' \notin {"parent", "enter", "done"}
        /\ Stage \notin BeforeInit /\ Stage # "done"
    BY <1>1, <1>3 DEF BeforeInit, BeforeSti, BeforeI8259, BeforeLidt, BeforeIdt, BeforeTss
  <2>2. curr_pcb' = [u \in Terminals |-> IF PcbGiven(u)' THEN u ELSE NULL]
    BY <1>1, <1>7 DEF BootInv, ProgramsOK, procVars
  <2>. QED
    BY <1>1, <1>7, <2>1, <2>2 DEF BootInv, TypeOK, ProgramsOK, procVars
<1>. QED
  BY <1>5, <1>6, <1>8, <1>9 DEF BootInv

LEMMA SlotStep == ASSUME BootInv, FindSlot PROVE BootInv'
<1>1. /\ pc = <<"execute", 0>> /\ Stage = "execute" /\ pc' = <<"parent", 0>> /\ Stage' = "parent"
      /\ cr3' = 0 /\ add_page(0) /\ curr_terminal = 0
      /\ UNCHANGED <<mbi, page_table, descVars, irqVars, interrupts_on, procVars, outcome>>
  BY DEF FindSlot, Step, Stage, Booting
<1>2. Stage \in LateStages /\ Stage' \in LateStages /\ cr3' \in Progs
  BY <1>1, Places DEF LateStages, Done
<1>3. TypeOK' /\ TablesOK' /\ StopsOK'
  BY <1>1, <1>2, CalmStep DEF BootInv, TypeOK, procVars, outcome
<1>4. PlaceOK'
  BY <1>1, Places DEF PlaceOK, Stages, Done
<1>5. \A u \in Terminals : /\ PcbGiven(u)' <=> PcbGiven(u)
                           /\ PageGiven(u)' <=> PageGiven(u) \/ u = 0
  BY <1>1 DEF PcbGiven, PageGiven, Done
<1>6. MemoryOK'
  BY <1>1, <1>2, <1>5, PageAdded, Places
<1>7. ProgramsOK'
  <2>1. /\ Stage' \notin BeforeInit /\ Stage \notin BeforeInit
        /\ Stage # "done" /\ Stage' # "done"
    BY <1>1 DEF BeforeInit, BeforeSti, BeforeI8259, BeforeLidt, BeforeIdt, BeforeTss
  <2>2. curr_pcb' = [u \in Terminals |-> IF PcbGiven(u)' THEN u ELSE NULL]
    BY <1>1, <1>5 DEF BootInv, ProgramsOK, procVars
  <2>. QED
    BY <1>1, <1>5, <2>1, <2>2 DEF BootInv, TypeOK, ProgramsOK, procVars
<1>. QED
  BY <1>3, <1>4, <1>6, <1>7 DEF BootInv

(* The last steps give program 0 its pcb and enter it.                     *)
LEMMA LastSteps == ASSUME BootInv, SetPcb \/ EnterShell PROVE BootInv'
<1>1. /\ \/ pc = <<"parent", 0>> /\ Stage = "parent" /\ pc' = <<"enter", 0>> /\ Stage' = "enter"
         \/ pc = <<"enter", 0>> /\ Stage = "enter" /\ pc' = <<"done", 0>> /\ Stage' = "done"
      /\ curr_terminal = 0 /\ 0 \notin in_user
      /\ interrupts_on' = interrupts_on \/ interrupts_on' = TRUE
      /\ UNCHANGED <<mbi, memVars, descVars, irqVars, curr_terminal, outcome>>
  BY DEF SetPcb, EnterShell, Step, Stage, Booting
<1>2. /\ Stage \in LateStages /\ Stage' \in LateStages /\ cr3 \in Progs
      /\ Stage \notin BeforeInit /\ Stage' \notin BeforeInit
      /\ Stage \in {"parent", "enter", "done"} /\ Stage' \in {"enter", "done"}
  BY <1>1 DEF LateStages, Done, BootInv, MemoryOK, BeforeInit, BeforeSti, BeforeI8259,
     BeforeLidt, BeforeIdt, BeforeTss
<1>3. \A t \in Terminals : /\ PcbGiven(t)' <=> PcbGiven(t) \/ t = 0
                           /\ PageGiven(t)' <=> PageGiven(t)
  BY <1>1 DEF PcbGiven, PageGiven, Done
<1>4. PcbGiven(0)' /\ PageGiven(0)' /\ (PcbGiven(0) <=> Stage = "enter")
  BY <1>1 DEF PcbGiven, PageGiven
<1>5. /\ curr_pcb' = [t \in Terminals |-> IF PcbGiven(t)' THEN t ELSE NULL]
      /\ curr_pcb' \in [Terminals -> Progs \cup {NULL}]
  <2>1. curr_pcb = [t \in Terminals |-> IF PcbGiven(t) THEN t ELSE NULL]
    BY DEF BootInv, ProgramsOK
  <2>2. CASE SetPcb
    BY <1>3, <2>1, <2>2, Places DEF SetPcb
  <2>3. CASE EnterShell
    <3>1. \A t \in Terminals : PcbGiven(t)' <=> PcbGiven(t)
      BY <1>3, <1>4, <2>3 DEF EnterShell, Step, Stage
    <3>. QED
      BY <2>1, <2>3, <3>1, Places DEF EnterShell
  <2>. QED
    BY <2>2, <2>3
<1>6. /\ num_progs' \in [Terminals -> 0 .. 2] /\ in_user' \subseteq Terminals
      /\ \A t \in Terminals :
           num_progs'[t] = (IF t = 0 THEN 1 ELSE 0) + (IF t \in in_user' THEN 1 ELSE 0)
      /\ in_user' \subseteq in_user \cup {0}
      /\ 0 \in in_user' <=> Stage' = "done"
  <2>1. num_progs \in [Terminals -> 0 .. 2] /\ in_user \subseteq Terminals
    BY DEF BootInv, TypeOK
  <2>2. \A t \in Terminals :
           num_progs[t] = (IF t = 0 THEN 1 ELSE 0) + (IF t \in in_user THEN 1 ELSE 0)
    BY <1>2 DEF BootInv, ProgramsOK
  <2>3. CASE SetPcb
    BY <1>1, <2>1, <2>2, <2>3 DEF SetPcb, Step, Stage
  <2>4. CASE EnterShell
    <3>1. num_progs' = [num_progs EXCEPT ![0] = 2] /\ in_user' = in_user \cup {0}
      <4>1. num_progs[0] = 1
        BY <1>1, <2>2, Places
      <4>. QED
        BY <2>4, <4>1 DEF EnterShell
    <3>2. Stage' = "done"
      BY <2>4 DEF EnterShell, Step, Stage
    <3>. QED
      BY <1>1, <2>1, <2>2, <3>1, <3>2, Places
  <2>. QED
    BY <2>3, <2>4
<1>7. TypeOK' /\ TablesOK' /\ StopsOK'
  <2>1. interrupts_on' \in BOOLEAN /\ cr3' \in Progs /\ curr_terminal' \in Terminals
    BY <1>1, <1>2 DEF BootInv, TypeOK, memVars
  <2>. QED
    BY <1>1, <1>2, <1>5, <1>6, <2>1, CalmStep DEF outcome
<1>8. PlaceOK'
  BY <1>1, Places DEF PlaceOK, Stages, Done
<1>9. MemoryOK'
  <2>1. \A p \in Progs : DirectoryOf(p)' = DirectoryOf(p)
    BY <1>3 DEF DirectoryOf
  <2>2. Stage # "paging" /\ Stage' # "paging"
    BY <1>1
  <2>. QED
    BY <1>1, <2>1, <2>2 DEF BootInv, MemoryOK, memVars
<1>10. ProgramsOK'
  <2>1. \A t \in in_user' : PcbGiven(t)' /\ PageGiven(t)'
    BY <1>3, <1>4, <1>6 DEF BootInv, TypeOK, ProgramsOK
  <2>2. cr3' = 0 /\ curr_terminal' = 0
    BY <1>1, <1>2 DEF BootInv, ProgramsOK, memVars
  <2>. QED
    BY <1>2, <1>5, <1>6, <2>1, <2>2 DEF ProgramsOK
<1>. QED
  BY <1>7, <1>8, <1>9, <1>10 DEF BootInv
-----------------------------------------------------------------------------
(* What the tables make of an address and of a vector.                     *)

(* The virtual page of the programs is the terminal's own, once given.     *)
LEMMA ProgramsPage ==
    ASSUME BootInv, Stage # "paging", NEW p \in Progs, NEW i \in 0 .. MB4 - 1
    PROVE  Translated(p, MB128 + i) = IF p \in Terminals /\ PageGiven(p)
                                        THEN ProgramPage(p) + i ELSE NULL
<1>1. (MB128 + i) \div MB4 = 32 /\ (MB128 + i) % MB4 = i
  BY Places DEF MB128
<1>2. page_directory[p] = DirectoryOf(p)
  BY DEF BootInv, MemoryOK
<1>3. CASE p \in Terminals /\ PageGiven(p)
  <2>1. page_directory[p][32] = BigPage(ProgramPage(p))
    BY <1>2, <1>3 DEF DirectoryOf, Directory
  <2>2. BigPage(ProgramPage(p)) \in [pagesize : {0, 1}, page_addr : Nat]
    BY Places DEF BigPage, ProgramPage, KERNEL_MEM_END
  <2>3. BigPage(ProgramPage(p)) # NULL
    BY <2>2, NullAssumption
  <2>4. BigPage(ProgramPage(p)).pagesize = 1 /\ BigPage(ProgramPage(p)).page_addr = ProgramPage(p)
    BY DEF BigPage
  <2>. QED
    BY <1>1, <1>3, <2>1, <2>3, <2>4 DEF Translated
<1>4. CASE ~ (p \in Terminals /\ PageGiven(p))
  <2>1. page_directory[p][32] = NULL
    BY <1>2, <1>4 DEF DirectoryOf, Directory
  <2>. QED
    BY <1>1, <1>4, <2>1 DEF Translated
<1>. QED
  BY <1>3, <1>4

LEMMA FirstPage ==
    ASSUME BootInv, Stage # "paging", NEW p \in Progs
    PROVE  Translated(p, MB128) = IF p \in Terminals /\ PageGiven(p)
                                    THEN ProgramPage(p) ELSE NULL
<1>1. 0 \in 0 .. MB4 - 1 /\ MB128 + 0 = MB128 /\ ProgramPage(p) + 0 = ProgramPage(p)
  BY Places DEF MB128, ProgramPage, KERNEL_MEM_END
<1>. QED
  BY <1>1, ProgramsPage

(* No gate leads to a reset or to the halt of boot.S.                      *)
LEMMA GateValues ==
    /\ Gates[33] = "keyboard_wrapper" /\ Gates[40] = "rtc_wrapper"
    /\ Gates[14] = "page_fault" /\ Gates[8] = "double_fault"
    /\ \A v \in Vectors : Gates[v] = NULL \/ Gates[v] \notin {"reset", "halted"}
<1>1. Gates[33] = "keyboard_wrapper" /\ Gates[40] = "rtc_wrapper"
  BY DEF Gates, Vectors
<1>2. Gates[14] = "page_fault" /\ Gates[8] = "double_fault"
  BY DEF Gates, Vectors, ExceptionHandlers
<1>3. ASSUME NEW v \in Vectors PROVE Gates[v] = NULL \/ Gates[v] \notin {"reset", "halted"}
  <2>1. CASE v < 20
    <3>1. v \in 0 .. 19
      BY <2>1 DEF Vectors
    <3>2. Gates[v] = ExceptionHandlers[v + 1]
      BY <2>1 DEF Gates
    <3>3. \A k \in 1 .. 20 : \/ ExceptionHandlers[k] = NULL
                             \/ ExceptionHandlers[k] \notin {"reset", "halted"}
      BY DEF ExceptionHandlers
    <3>. QED
      BY <3>1, <3>2, <3>3
  <2>2. CASE ~ (v < 20)
    BY <2>2 DEF Gates
  <2>. QED
    BY <2>1, <2>2
<1>. QED
  BY <1>1, <1>2, <1>3

(* With the tables set a vector with a gate reaches its handler, and any   *)
(* other the double fault's at the worst.                                  *)
LEMMA Handlers ==
    ASSUME tr = TRUE, idtr = TRUE, idt = Gates
    PROVE  /\ Reached(33) = "keyboard_wrapper" /\ Reached(40) = "rtc_wrapper"
           /\ Reached(14) = "page_fault"
           /\ \A v \in Vectors : Reached(v) \notin {"reset", "halted"}
<1>1. ASSUME NEW v PROVE 8 \in {w \in {v, 11, 8} : idtr /\ idt[w] # NULL}
  BY GateValues, NullAssumption
<1>2. ASSUME NEW v, idt[v] # NULL PROVE Reached(v) = idt[v]
  BY <1>1, <1>2 DEF Reached
<1>3. ASSUME NEW v \in Vectors PROVE Reached(v) \notin {"reset", "halted"}
  <2>1. \E w \in {v, 11, 8} : idt[w] # NULL /\ Reached(v) = idt[w]
    BY <1>1 DEF Reached
  <2>2. {v, 11, 8} \subseteq Vectors
    BY DEF Vectors
  <2>. QED
    BY <2>1, <2>2, GateValues
<1>. QED
  BY <1>2, <1>3, GateValues, NullAssumption
-----------------------------------------------------------------------------
(* Keys, ticks and programs: the boot code stays where it is.              *)
procMem == <<pc, mbi, page_directory, page_table, descVars, curr_pcb>>

(* The interrupts are on only when the tables are set.                     *)
LEMMA TablesAreSet ==
    ASSUME BootInv, interrupts_on \/ Stage \notin BeforeSti
    PROVE  /\ Stage \notin BeforeSti /\ Stage # "paging"
           /\ tr = TRUE /\ idtr = TRUE /\ idt = Gates /\ vectors_moved = TRUE
BY DEF BootInv, TablesOK, BeforeSti, BeforeI8259, BeforeLidt, BeforeIdt, BeforeTss

LEMMA StageKept ==
    ASSUME BootInv, UNCHANGED procMem, cr3' = cr3 \/ (cr3' \in Progs /\ Stage # "paging"),
           interrupts_on' = TRUE => Stage \notin BeforeSti,
           interrupts_on' \in BOOLEAN
    PROVE  /\ Stage' = Stage /\ PlaceOK' /\ TablesOK' /\ MemoryOK'
           /\ curr_pcb' = [t \in Terminals |-> IF PcbGiven(t)' THEN t ELSE NULL]
           /\ \A t \in Terminals : /\ PcbGiven(t)' <=> PcbGiven(t)
                                   /\ PageGiven(t)' <=> PageGiven(t)
<1>1. Stage' = Stage /\ pc' = pc
  BY DEF procMem, Stage
<1>2. /\ \A t \in Terminals : PcbGiven(t)' <=> PcbGiven(t)
      /\ \A t \in Terminals : PageGiven(t)' <=> PageGiven(t)
  BY <1>1 DEF PcbGiven, PageGiven
<1>3. PlaceOK'
  BY <1>1 DEF BootInv, PlaceOK
<1>4. TablesOK'
  BY <1>1 DEF BootInv, TablesOK, procMem, descVars
<1>5. MemoryOK'
  <2>1. \A p \in Progs : DirectoryOf(p)' = DirectoryOf(p)
    BY <1>2 DEF DirectoryOf
  <2>. QED
    BY <1>1, <2>1 DEF BootInv, MemoryOK, procMem
<1>6. curr_pcb' = [t \in Terminals |-> IF PcbGiven(t)' THEN t ELSE NULL]
  BY <1>2 DEF BootInv, ProgramsOK, procMem
<1>. QED
  BY <1>1, <1>2, <1>3, <1>4, <1>5, <1>6

(* A request, and an interrupt that goes back to what it interrupted.      *)
LEMMA RequestStep ==
    ASSUME BootInv, pending' \subseteq Lines, key' \in Keys,
           masked' \subseteq Lines, in_service' \subseteq {1},
           UNCHANGED <<pc, mbi, memVars, descVars, interrupts_on, procVars, outcome>>
    PROVE  BootInv'
<1>1. TypeOK'
  BY DEF BootInv, TypeOK, memVars, descVars, procVars, outcome
<1>2. interrupts_on' = TRUE => Stage \notin BeforeSti
  BY TablesAreSet DEF BootInv, TypeOK
<1>3. UNCHANGED procMem /\ cr3' = cr3 /\ interrupts_on' \in BOOLEAN
  BY DEF procMem, memVars, procVars, BootInv, TypeOK
<1>4. /\ Stage' = Stage /\ PlaceOK' /\ TablesOK' /\ MemoryOK'
      /\ curr_pcb' = [t \in Terminals |-> IF PcbGiven(t)' THEN t ELSE NULL]
      /\ \A t \in Terminals : /\ PcbGiven(t)' <=> PcbGiven(t)
                              /\ PageGiven(t)' <=> PageGiven(t)
  BY <1>2, <1>3, StageKept
<1>5. ProgramsOK'
  BY <1>4 DEF BootInv, TypeOK, ProgramsOK, procVars, memVars
<1>6. StopsOK'
  BY DEF BootInv, StopsOK, outcome
<1>. QED
  BY <1>1, <1>4, <1>5, <1>6 DEF BootInv

LEMMA ResumeStep == ASSUME BootInv, NEW line \in Lines, Resume(line) PROVE BootInv'
<1>1. interrupts_on
  BY DEF Resume, Delivered
<1>2. Reached(Vector(line)) \in {"keyboard_wrapper", "rtc_wrapper"}
  <2>1. Vector(line) \in {33, 40}
    BY <1>1, TablesAreSet DEF Vector, Lines
  <2>. QED
    BY <1>1, <2>1, TablesAreSet, Handlers
<1>3. UNCHANGED <<pc, mbi, memVars, descVars, interrupts_on, procVars, outcome>>
  BY <1>2 DEF Resume, Delivered, memVars, outcome
<1>4. pending' \subseteq Lines /\ key' \in Keys
  BY DEF Resume, Delivered, BootInv, TypeOK
<1>5. masked' \subseteq Lines /\ in_service' \subseteq {1}
  <2>1. masked \subseteq Lines /\ in_service \subseteq {1}
    BY DEF BootInv, TypeOK
  <2>2. masked' \in {AfterHandler, masked} /\ in_service' \in {HandlerAcks, in_service}
    BY <1>2 DEF Resume
  <2>. QED
    BY <2>1, <2>2 DEF AfterHandler, InHandler, HandlerAcks, enable_irq, disable_irq, send_eoi
<1>. QED
  BY <1>3, <1>4, <1>5, RequestStep

(* What an Alt+Fn finds, and what it leaves alone.                         *)
LEMMA AltFn ==
    ASSUME BootInv, NEW t \in Terminals, LeaveFor(t), interrupts_on' \in BOOLEAN,
           cr3' = cr3 \/ cr3' \in Progs,
           masked' \in {AfterStart, AfterReload, InHandler}
    PROVE  /\ Stage # "paging" /\ machine = "running"
           /\ Reached(14) = "page_fault"
           /\ mbi' = mbi /\ raised' = raised
           /\ early' \in BOOLEAN /\ (early' = TRUE <=> early = TRUE \/ curr_pcb[0] = NULL)
           /\ masked' \subseteq Lines /\ pending' \subseteq Lines /\ key' \in Keys
           /\ in_service' \subseteq {1}
           /\ UNCHANGED <<pc, mbi, page_directory, page_table, descVars>>
           /\ Stage \notin BeforeSti
<1>1. interrupts_on
  BY DEF LeaveFor, Delivered
<1>2. Stage \notin BeforeSti /\ Stage # "paging" /\ Reached(14) = "page_fault"
  BY <1>1, TablesAreSet, Handlers
<1>3. /\ pending' \subseteq Lines /\ key' \in Keys /\ masked' \subseteq Lines
      /\ in_service' \subseteq {1}
  <2>1. masked \subseteq Lines /\ in_service \subseteq {1}
    BY DEF BootInv, TypeOK
  <2>2. masked' \subseteq Lines
    BY <2>1 DEF AfterStart, AfterReload, InHandler, enable_irq, disable_irq, Lines
  <2>3. in_service' \subseteq {1}
    BY <2>1 DEF LeaveFor, SwitchAcks, send_eoi
  <2>. QED
    BY <2>2, <2>3 DEF LeaveFor, Delivered, BootInv, TypeOK
<1>4. early' \in BOOLEAN /\ (early' = TRUE <=> early = TRUE \/ curr_pcb[0] = NULL)
  BY DEF LeaveFor, BootInv, TypeOK
<1>. QED
  BY <1>2, <1>3, <1>4 DEF LeaveFor, Delivered

(* The user goes to another terminal, whose program runs or is entered.    *)
LEMMA SwitchStep ==
    ASSUME BootInv, NEW t \in Terminals, StartShell(t) \/ ReloadProgram(t)
    PROVE  BootInv'
<1>1. /\ LeaveFor(t) /\ curr_terminal' = t /\ UNCHANGED <<curr_pcb, machine>>
      /\ interrupts_on' \in BOOLEAN /\ masked' \in {AfterStart, AfterReload, InHandler}
  BY DEF StartShell, ReloadProgram
<1>2. curr_pcb = [u \in Terminals |-> IF PcbGiven(u) THEN u ELSE NULL]
  BY DEF BootInv, ProgramsOK
<1>3. Stage # "paging" /\ Stage \notin BeforeSti
  <2>1. interrupts_on
    BY <1>1 DEF LeaveFor, Delivered
  <2>. QED
    BY <2>1, TablesAreSet
<1>4. cr3' = t
  BY <1>2 DEF StartShell, ReloadProgram
<1>5. Stage \notin BeforeInit
  <2>1. CASE StartShell(t)
    <3>1. PageGiven(t)
      BY <1>3, <2>1, FirstPage, Places DEF StartShell
    <3>. QED
      BY <1>3, <3>1 DEF PageGiven, Done, BeforeInit, BeforeSti, BeforeI8259, BeforeLidt,
         BeforeIdt, BeforeTss
  <2>2. CASE ReloadProgram(t)
    BY <2>2 DEF ReloadProgram, BootInv, ProgramsOK
  <2>. QED
    BY <2>1, <2>2
<1>6. \A u \in Terminals :
         num_progs[u] = (IF u = 0 THEN 1 ELSE 0) + (IF u \in in_user THEN 1 ELSE 0)
  BY <1>5 DEF BootInv, ProgramsOK
<1>7. /\ num_progs' \in [Terminals -> 0 .. 2]
      /\ \A u \in Terminals :
           num_progs'[u] = (IF u = 0 THEN 1 ELSE 0) + (IF u \in in_user' THEN 1 ELSE 0)
      /\ in_user' \subseteq in_user \cup {t} /\ (t # 0 => t \in in_user')
      /\ 0 \in in_user' <=> 0 \in in_user
      /\ t \in in_user' => PcbGiven(t) /\ PageGiven(t)
  <2>. num_progs \in [Terminals -> 0 .. 2] /\ \A u \in in_user : PcbGiven(u) /\ PageGiven(u)
    BY DEF BootInv, TypeOK, ProgramsOK
  <2>1. CASE StartShell(t)
    <3>1. PageGiven(t)
      BY <1>3, <2>1, FirstPage, Places DEF StartShell
    <3>2. t # 0 /\ t \notin in_user /\ num_progs[t] = 0
      BY <1>6, <2>1 DEF StartShell
    <3>3. PcbGiven(t)
      <4>1. pc[2] \in Nat /\ t \in Nat
        BY Places DEF BootInv, PlaceOK
      <4>. QED
        BY <3>1, <3>2, <4>1 DEF PageGiven, PcbGiven
    <3>4. in_user' = in_user \cup {t} /\ num_progs' = [num_progs EXCEPT ![t] = 1]
      BY <2>1, <3>2 DEF StartShell
    <3>. QED
      BY <1>6, <3>1, <3>2, <3>3, <3>4
  <2>2. CASE ReloadProgram(t)
    BY <1>6, <2>2 DEF ReloadProgram
  <2>. QED
    BY <2>1, <2>2
<1>8. /\ Stage' = Stage /\ PlaceOK' /\ TablesOK' /\ MemoryOK'
      /\ curr_pcb' = [u \in Terminals |-> IF PcbGiven(u)' THEN u ELSE NULL]
      /\ \A u \in Terminals : /\ PcbGiven(u)' <=> PcbGiven(u)
                              /\ PageGiven(u)' <=> PageGiven(u)
  <2>1. UNCHANGED procMem /\ cr3' \in Progs
    BY <1>1, <1>4, Places DEF LeaveFor, Delivered, procMem
  <2>. QED
    BY <1>1, <1>3, <2>1, StageKept
<1>9. TypeOK'
  <2>1. in_user' \subseteq Terminals /\ cr3' \in Progs
    BY <1>4, <1>7, Places DEF BootInv, TypeOK
  <2>2. /\ mbi' = mbi /\ raised' = raised /\ early' \in BOOLEAN
        /\ masked' \subseteq Lines /\ pending' \subseteq Lines /\ key' \in Keys
        /\ in_service' \subseteq {1} /\ UNCHANGED descVars
    BY <1>1, <2>1, AltFn
  <2>. QED
    BY <1>1, <1>7, <2>1, <2>2 DEF BootInv, TypeOK, descVars
<1>10. ProgramsOK'
  <2>1. \A u \in in_user' : PcbGiven(u)' /\ PageGiven(u)'
    BY <1>7, <1>8 DEF BootInv, TypeOK, ProgramsOK
  <2>2. 0 \in in_user' <=> Stage' = "done"
    BY <1>7, <1>8 DEF BootInv, ProgramsOK
  <2>. QED
    BY <1>1, <1>4, <1>5, <1>7, <1>8, <2>1, <2>2 DEF ProgramsOK
<1>11. StopsOK'
  <2>1. machine' = "running"
    BY <1>1 DEF LeaveFor, Delivered
  <2>. QED
    BY <2>1 DEF StopsOK
<1>. QED
  BY <1>8, <1>9, <1>10, <1>11 DEF BootInv

(* An Alt+Fn that faults came, or left, before program 0 had its pcb.      *)
LEMMA FaultStep ==
    ASSUME BootInv, NEW t \in Terminals, FaultOnSwitch(t) PROVE BootInv'
<1>1. /\ LeaveFor(t) /\ interrupts_on' = FALSE /\ UNCHANGED <<cr3, procVars>>
      /\ machine' = Reached(14) /\ masked' \in {AfterStart, AfterReload, InHandler}
  BY DEF FaultOnSwitch, Stop
<1>2. /\ Stage # "paging" /\ Reached(14) = "page_fault"
      /\ mbi' = mbi /\ raised' = raised
      /\ early' \in BOOLEAN /\ (early' = TRUE <=> early = TRUE \/ curr_pcb[0] = NULL)
      /\ masked' \subseteq Lines /\ pending' \subseteq Lines /\ key' \in Keys
      /\ in_service' \subseteq {1}
      /\ UNCHANGED <<pc, mbi, page_directory, page_table, descVars>>
  BY <1>1, AltFn
<1>3. curr_pcb[0] = NULL
  <2>. SUFFICES ASSUME curr_pcb[0] # NULL PROVE FALSE
    OBVIOUS
  <2>1. curr_pcb = [u \in Terminals |-> IF PcbGiven(u) THEN u ELSE NULL]
    BY DEF BootInv, ProgramsOK
  <2>2. Stage \in {"enter", "done"}
    BY <2>1, Places DEF PcbGiven
  <2>3. PcbGiven(t) /\ PageGiven(t)
    BY <2>2 DEF PcbGiven, PageGiven, Done
  <2>4. curr_pcb[t] = t /\ t # NULL
    BY <2>1, <2>3, Places, NullAssumption
  <2>5. Translated(t, MB128) = ProgramPage(t) /\ ProgramPage(t) \in Nat
    BY <1>2, <2>3, FirstPage, Places DEF ProgramPage, KERNEL_MEM_END
  <2>. QED
    BY <2>4, <2>5, NullAssumption DEF FaultOnSwitch
<1>4. /\ Stage' = Stage /\ PlaceOK' /\ TablesOK' /\ MemoryOK'
      /\ curr_pcb' = [u \in Terminals |-> IF PcbGiven(u)' THEN u ELSE NULL]
      /\ \A u \in Terminals : /\ PcbGiven(u)' <=> PcbGiven(u)
                              /\ PageGiven(u)' <=> PageGiven(u)
  <2>1. UNCHANGED procMem
    BY <1>1, <1>2 DEF procMem, procVars
  <2>. QED
    BY <1>1, <2>1, StageKept
<1>5. TypeOK'
  BY <1>1, <1>2 DEF BootInv, TypeOK, descVars, procVars
<1>6. ProgramsOK'
  BY <1>1, <1>4 DEF BootInv, TypeOK, ProgramsOK, procVars
<1>7. StopsOK'
  BY <1>1, <1>2, <1>3 DEF StopsOK
<1>. QED
  BY <1>4, <1>5, <1>6, <1>7 DEF BootInv

(* A program runs only when the tables are set.                            *)
LEMMA ProgramStep == ASSUME BootInv, ReadLine \/ \E v \in Exceptions : Raise(v) PROVE BootInv'
<1>1. /\ curr_terminal \in in_user
      /\ UNCHANGED <<pc, mbi, memVars, descVars, irqVars, procVars, early>>
      /\ interrupts_on' \in BOOLEAN
  BY DEF ReadLine, Raise, Stop, InProgram, outcome
<1>2. Stage \notin BeforeSti
  BY <1>1 DEF BootInv, ProgramsOK, BeforeInit
<1>3. /\ Stage' = Stage /\ PlaceOK' /\ TablesOK' /\ MemoryOK'
      /\ curr_pcb' = [u \in Terminals |-> IF PcbGiven(u)' THEN u ELSE NULL]
      /\ \A u \in Terminals : /\ PcbGiven(u)' <=> PcbGiven(u)
                              /\ PageGiven(u)' <=> PageGiven(u)
  <2>1. UNCHANGED procMem /\ cr3' = cr3
    BY <1>1 DEF procMem, procVars, memVars
  <2>. QED
    BY <1>1, <1>2, <2>1, StageKept
<1>4. raised' \in BOOLEAN /\ StopsOK'
  <2>1. CASE ReadLine
    BY <2>1 DEF ReadLine, BootInv, TypeOK, StopsOK, outcome
  <2>2. ASSUME NEW v \in Exceptions, Raise(v) PROVE raised' \in BOOLEAN /\ StopsOK'
    <3>1. Reached(v) \notin {"reset", "halted"}
      BY <1>2, TablesAreSet, Handlers, SizesAssumption DEF Vectors
    <3>2. machine' = Reached(v) /\ raised' = TRUE
      BY <2>2 DEF Raise, Stop
    <3>. QED
      BY <3>1, <3>2 DEF StopsOK
  <2>. QED
    BY <2>1, <2>2
<1>5. TypeOK'
  BY <1>1, <1>4 DEF BootInv, TypeOK, descVars, procVars, irqVars, memVars
<1>6. ProgramsOK'
  BY <1>1, <1>3 DEF BootInv, TypeOK, ProgramsOK, procVars, memVars
<1>. QED
  BY <1>3, <1>4, <1>5, <1>6 DEF BootInv
-----------------------------------------------------------------------------
LEMMA NextBootInv == BootInv /\ [Next]_vars => BootInv'
<1>. SUFFICES ASSUME BootInv, [Next]_vars PROVE BootInv'
  OBVIOUS
<1>1. CASE PagingInit
  BY <1>1, PagingStep
<1>2. CASE CheckMultiboot
  BY <1>2, MultibootStep
<1>3. CASE LoadTss \/ SetGates \/ LoadIdt \/ i8259_init \/ rtc_init \/ EnableKeys \/ Sti \/ SetupFs
  BY <1>3, TablesStep
<1>4. CASE StartTerminals
  BY <1>4, StartStep
<1>5. CASE \E t \in Terminals : PlacePcb(t) \/ PlaceShell(t)
  BY <1>5, PcbStep, ShellStep
<1>6. CASE FindSlot
  BY <1>6, SlotStep
<1>7. CASE SetPcb \/ EnterShell
  BY <1>7, LastSteps
<1>8. CASE KeyboardInterrupt \/ Resume(8)
  <2>1. 1 \in Lines /\ 8 \in Lines
    BY DEF Lines
  <2>. QED
    BY <1>8, <2>1, ResumeStep, SwitchStep, FaultStep DEF KeyboardInterrupt
<1>9. CASE Program
  BY <1>9, ProgramStep DEF Program
<1>10. CASE ClockTicks \/ \E k \in Keys : PressKey(k)
  <2>1. /\ pending' \subseteq Lines /\ key' \in Keys
        /\ masked' \subseteq Lines /\ in_service' \subseteq {1}
        /\ UNCHANGED <<pc, mbi, memVars, descVars, interrupts_on, procVars, outcome>>
    BY <1>10 DEF ClockTicks, PressKey, BootInv, TypeOK, Lines
  <2>. QED
    BY <2>1, RequestStep
<1>11. CASE UNCHANGED vars
  <2>1. /\ pending' \subseteq Lines /\ key' \in Keys
        /\ masked' \subseteq Lines /\ in_service' \subseteq {1}
        /\ UNCHANGED <<pc, mbi, memVars, descVars, interrupts_on, procVars, outcome>>
    BY <1>11 DEF vars, irqVars, outcome, BootInv, TypeOK
  <2>. QED
    BY <2>1, RequestStep
<1>. QED
  BY <1>1, <1>2, <1>3, <1>4, <1>5, <1>6, <1>7, <1>8, <1>9, <1>10, <1>11
     DEF Next, BootStep, Ended

LEMMA BootInvHolds == Spec => []BootInv
<1>1. Init => BootInv
  BY InitBootInv
<1>2. BootInv /\ [Next]_vars => BootInv'
  BY NextBootInv
<1>. QED
  BY <1>1, <1>2, PTL DEF Spec

(* Whatever the user presses during the boot, and whatever a program       *)
(* raises: the machine never resets, and what stops it is the boot         *)
(* loader's information, an exception of a program, or a switch to another *)
(* terminal before the first shell has its pcb.                            *)
THEOREM MachineStopsOnlyForAReason == Spec => []MachineStopsForAReason
<1>1. BootInv => MachineStopsForAReason
  BY DEF BootInv, StopsOK, MachineStopsForAReason
<1>. QED
  BY <1>1, BootInvHolds, PTL

-----------------------------------------------------------------------------
(* The pages of two programs are apart.                                    *)
LEMMA PagesApart ==
    ASSUME NEW p \in Progs, NEW q \in Progs \ {p},
           NEW i \in 0 .. MB4 - 1, NEW j \in 0 .. MB4 - 1
    PROVE  /\ ProgramPage(p) + i \in Nat /\ ProgramPage(p) + i >= KERNEL_MEM_END
           /\ ProgramPage(p) + i # ProgramPage(q) + j
<1>1. p \in Nat /\ q \in Nat /\ MB4 \in Nat /\ MB4 > 0 /\ i \in Nat /\ j \in Nat
      /\ i < MB4 /\ j < MB4
  BY Places
<1>2. p * MB4 \in Nat /\ q * MB4 \in Nat
  BY <1>1
<1>3. ASSUME p < q PROVE p * MB4 + i < q * MB4
  <2>1. (p + 1) * MB4 <= q * MB4
    BY <1>1, <1>3
  <2>2. (p + 1) * MB4 = p * MB4 + MB4
    BY <1>1
  <2>. QED
    BY <1>1, <1>2, <2>1, <2>2
<1>4. ASSUME q < p PROVE q * MB4 + j < p * MB4
  <2>1. (q + 1) * MB4 <= p * MB4
    BY <1>1, <1>4
  <2>2. (q + 1) * MB4 = q * MB4 + MB4
    BY <1>1
  <2>. QED
    BY <1>1, <1>2, <2>1, <2>2
<1>5. p * MB4 + i # q * MB4 + j
  BY <1>1, <1>2, <1>3, <1>4
<1>. QED
  BY <1>1, <1>2, <1>5 DEF ProgramPage, KERNEL_MEM_END

(* The kernel's memory in every directory: NULL, the page table's pages,   *)
(* and the 4MB of the kernel.                                              *)
LEMMA KernelsPages ==
    ASSUME BootInv, Stage # "paging", NEW p \in Progs
    PROVE  /\ Translated(p, 0) = NULL
           /\ \A page \in 1 .. KERNEL_MEM_END - 1 : Translated(p, page) = page
<1>1. page_directory[p] = DirectoryOf(p) /\ page_table[0] = LowTable
  BY Places DEF BootInv, MemoryOK
<1>2. /\ page_directory[p][0] = TableEntry(0) /\ TableEntry(0) # NULL
      /\ page_directory[p][1] = BigPage(MB4) /\ BigPage(MB4) # NULL
  <2>1. {TableEntry(0), BigPage(MB4)} \subseteq [pagesize : {0, 1}, page_addr : Nat]
    BY Places DEF TableEntry, BigPage
  <2>. QED
    BY <1>1, <2>1, NullAssumption DEF DirectoryOf, Directory
<1>3. ASSUME NEW page \in 0 .. MB4 - 1 PROVE Translated(p, page) = LowTable[page]
  <2>1. page \div MB4 = 0 /\ page % MB4 = page
    BY Places
  <2>. QED
    BY <1>1, <1>2, <2>1 DEF Translated, TableEntry
<1>4. ASSUME NEW i \in 0 .. MB4 - 1 PROVE Translated(p, MB4 + i) = MB4 + i
  <2>1. (MB4 + i) \div MB4 = 1 /\ (MB4 + i) % MB4 = i
    BY Places
  <2>. QED
    BY <1>2, <2>1 DEF Translated, BigPage
<1>5. Translated(p, 0) = NULL
  BY <1>3, Places DEF LowTable, MB4
<1>6. ASSUME NEW page \in 1 .. KERNEL_MEM_END - 1 PROVE Translated(p, page) = page
  <2>1. CASE page < MB4
    BY <1>3, <2>1, Places DEF LowTable, MB4
  <2>2. CASE page >= MB4
    <3>1. page - MB4 \in 0 .. MB4 - 1 /\ MB4 + (page - MB4) = page
      BY <2>2, Places DEF KERNEL_MEM_END
    <3>. QED
      BY <1>4, <3>1
  <2>. QED
    BY <2>1, <2>2, Places
<1>. QED
  BY <1>5, <1>6

(* The kernel is where it is in every directory, NULL is nowhere, the      *)
(* programs' memories are apart, and a program runs in its own.            *)
THEOREM ProgramsMemoryIsApart == Spec => []MemoryIsApart
<1>1. ASSUME BootInv PROVE MemoryIsApart
  <2>. SUFFICES ASSUME cr3 # NULL PROVE MemoryIsApart
    BY DEF MemoryIsApart
  <2>1. Stage # "paging"
    BY <1>1 DEF BootInv, MemoryOK
  <2>2. ASSUME NEW p \in Progs, NEW i \in 0 .. MB4 - 1, NEW q \in Progs \ {p},
               Translated(p, MB128 + i) # NULL
        PROVE  /\ Translated(p, MB128 + i) >= KERNEL_MEM_END
               /\ \A j \in 0 .. MB4 - 1 : Translated(p, MB128 + i) # Translated(q, MB128 + j)
    <3>1. Translated(p, MB128 + i) = ProgramPage(p) + i
      BY <1>1, <2>1, <2>2, ProgramsPage
    <3>2. ASSUME NEW j \in 0 .. MB4 - 1
          PROVE  Translated(p, MB128 + i) # Translated(q, MB128 + j)
      <4>1. \/ Translated(q, MB128 + j) = ProgramPage(q) + j
            \/ Translated(q, MB128 + j) = NULL
        BY <1>1, <2>1, ProgramsPage
      <4>. QED
        BY <2>2, <3>1, <4>1, PagesApart
    <3>. QED
      BY <3>1, <3>2, PagesApart
  <2>3. ASSUME InProgram
        PROVE  cr3 = curr_pcb[curr_terminal] /\ Translated(cr3, MB128) # NULL
    <3>. DEFINE t == curr_terminal
    <3>1. t \in Terminals /\ PcbGiven(t) /\ PageGiven(t)
      BY <1>1, <2>3 DEF InProgram, BootInv, TypeOK, ProgramsOK
    <3>2. curr_pcb[t] = t
      BY <1>1, <3>1 DEF BootInv, ProgramsOK
    <3>3. cr3 = t
      BY <1>1, <2>3 DEF InProgram, BootInv, ProgramsOK
    <3>4. Translated(t, MB128) = ProgramPage(t)
      BY <1>1, <2>1, <3>1, FirstPage, Places
    <3>5. ProgramPage(t) \in Nat
      BY <3>1, Places DEF ProgramPage, KERNEL_MEM_END
    <3>. QED
      BY <3>2, <3>3, <3>4, <3>5, NullAssumption
  <2>. QED
    BY <1>1, <2>1, <2>2, <2>3, KernelsPages DEF MemoryIsApart
<1>. QED
  BY <1>1, BootInvHolds, PTL
=============================================================================
