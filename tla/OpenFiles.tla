----------------------------- MODULE OpenFiles -----------------------------
(***************************************************************************)
(* What file descriptors promise: every program has handles of its own,    *)
(* each on a file and with a position in it which begins at 0, moves only  *)
(* when its program reads through it, and never passes the end of the      *)
(* file.  A program starts with no handle open and ends with none.         *)
(***************************************************************************)
EXTENDS Naturals

CONSTANTS Program,     \* the places of programs
          Handle,      \* the descriptors a program can open
          File,        \* what can be opened
          NoFile,      \* what a closed handle is on
          Size(_)      \* how far the position of a file can go

VARIABLES running,     \* the program which has the processor
          opened       \* the handles of each program

openVars == <<running, opened>>

Closed   == [file |-> NoFile, position |-> 0]
NoneOpen == [h \in Handle |-> Closed]

Init ==
    /\ running \in Program
    /\ opened = [p \in Program |-> NoneOpen]

Start(p) ==
    /\ opened[p] = NoneOpen
    /\ running' = p
    /\ UNCHANGED opened

(* The running program ends, and the same place or another one goes on.    *)
End(p) ==
    /\ opened' = [opened EXCEPT ![running] = NoneOpen]
    /\ running' = p

Resume(p) == running' = p /\ UNCHANGED opened

Open(h, f) ==
    /\ opened[running][h] = Closed
    /\ opened' = [opened EXCEPT ![running][h] = [file |-> f, position |-> 0]]
    /\ UNCHANGED running

Close(h) ==
    /\ opened' = [opened EXCEPT ![running][h] = Closed]
    /\ UNCHANGED running

(* A read moves on, and stands still only at the end of the file.          *)
Read(h) ==
    LET now == opened[running][h]
    IN  /\ now.file # NoFile
        /\ now.position < Size(now.file)
        /\ \E p \in now.position + 1 .. Size(now.file) :
             opened' = [opened EXCEPT ![running][h] = [file |-> now.file, position |-> p]]
        /\ UNCHANGED running

Next ==
    \/ \E p \in Program : Start(p) \/ End(p) \/ Resume(p)
    \/ \E h \in Handle : Close(h) \/ Read(h) \/ (\E f \in File : Open(h, f))

Spec == Init /\ [][Next]_openVars
=============================================================================
