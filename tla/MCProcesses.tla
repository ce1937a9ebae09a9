---------------------------- MODULE MCProcesses ----------------------------
(***************************************************************************)
(* Processes for TLC, and its refinement of TerminalStacks.                *)
(***************************************************************************)
EXTENDS Processes

(* Before the boot code has executed the first shell, which has no pcb     *)
(* until then, its place is only reserved.                                 *)
StackOf(t) == IF curr_pcb[t] = NULL THEN <<t>> ELSE ChainOf(t)

StacksOfAll == [t \in Terminals |-> StackOf(t)]

(* Until then no program has the processor.                                *)
RunningProgram == IF Booted THEN cpu.proc ELSE curr_terminal

Stacks == INSTANCE TerminalStacks
    WITH Terminal <- Terminals,
         Program <- Slots,
         First <- LAMBDA t : t,
         shown <- curr_terminal,
         stack <- StacksOfAll,
         running <- RunningProgram

(* Every step of the kernel's process code is a push, a pop or a change of *)
(* terminal of TerminalStacks, or changes none of what it speaks of.       *)
RefinesTerminalStacks == Stacks!Spec
=============================================================================
