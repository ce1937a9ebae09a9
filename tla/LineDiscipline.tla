--------------------------- MODULE LineDiscipline ---------------------------
(***************************************************************************)
(* What terminals promise the programs that read them: each terminal has a *)
(* line which the user edits and enters, and a program that reads takes    *)
(* the line entered on its terminal, whole or cut at the size it asked     *)
(* for, exactly once.                                                      *)
(***************************************************************************)
EXTENDS Naturals, Sequences

CONSTANTS
    Terminal,   \* the set of terminals
    Letter,     \* the characters the user can type on each of them
    Newline,
    MaxLine     \* the most characters a line has before its newline

VARIABLES
    line,       \* the line being edited on each terminal
    entered,    \* the line entered and not yet taken, or NoLine
    taken       \* what the last read of each terminal was given

vars == <<line, entered, taken>>

NoLine == <<>>

Init ==
    /\ line = [t \in Terminal |-> <<>>]
    /\ entered = [t \in Terminal |-> NoLine]
    /\ taken = [t \in Terminal |-> <<>>]

Type(t, c) ==
    /\ Len(line[t]) < MaxLine
    /\ line' = [line EXCEPT ![t] = Append(@, c)]
    /\ UNCHANGED <<entered, taken>>

Erase(t) ==
    /\ line[t] # <<>>
    /\ line' = [line EXCEPT ![t] = SubSeq(@, 1, Len(@) - 1)]
    /\ UNCHANGED <<entered, taken>>

Enter(t) ==
    /\ entered[t] = NoLine
    /\ entered' = [entered EXCEPT ![t] = Append(line[t], Newline)]
    /\ line' = [line EXCEPT ![t] = <<>>]
    /\ UNCHANGED taken

Take(t) ==
    /\ entered[t] # NoLine
    /\ \E n \in 0 .. Len(entered[t]) :
         taken' = [taken EXCEPT ![t] = SubSeq(entered[t], 1, n)]
    /\ entered' = [entered EXCEPT ![t] = NoLine]
    /\ UNCHANGED line

Next ==
    \E t \in Terminal :
        \/ \E c \in Letter[t] : Type(t, c)
        \/ Erase(t)
        \/ Enter(t)
        \/ Take(t)

Spec == Init /\ [][Next]_vars
=============================================================================
