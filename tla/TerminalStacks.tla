--------------------------- MODULE TerminalStacks ---------------------------
(***************************************************************************)
(* What the process code promises: every terminal has a stack of programs, *)
(* only the top program of the terminal on the screen runs, execute pushes *)
(* onto that stack, halt pops from it but never empties it, and changing   *)
(* the terminal changes no stack.                                          *)
(***************************************************************************)
EXTENDS Naturals, Sequences, SequencesExt

CONSTANTS Terminal,   \* the terminals
          Program,    \* the places a program can have
          First(_)    \* the place of the first program of a terminal

VARIABLES shown,      \* the terminal on the screen
          stack,      \* the programs of each terminal, the running one last
          running     \* the program which has the processor

stackVars == <<shown, stack, running>>

Placed == UNION {ToSet(stack[t]) : t \in Terminal}

Init ==
    /\ shown \in Terminal
    /\ stack = [t \in Terminal |-> <<First(t)>>]
    /\ running = First(shown)

Push(p) ==
    /\ p \notin Placed
    /\ stack' = [stack EXCEPT ![shown] = Append(@, p)]
    /\ running' = p
    /\ UNCHANGED shown

Pop ==
    /\ Len(stack[shown]) > 1
    /\ stack' = [stack EXCEPT ![shown] = Front(@)]
    /\ running' = Last(Front(stack[shown]))
    /\ UNCHANGED shown

Show(t) ==
    /\ t # shown
    /\ shown' = t
    /\ running' = Last(stack[t])
    /\ UNCHANGED stack

Next == (\E p \in Program : Push(p)) \/ Pop \/ (\E t \in Terminal : Show(t))

Spec == Init /\ [][Next]_stackVars
=============================================================================
