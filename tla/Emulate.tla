------------------------------- MODULE Emulate -------------------------------
(***************************************************************************)
(* ece391emulate.c: the system calls a program makes when it is built for  *)
(* a Linux host instead of for this kernel.  Commands has the kernel's own *)
(* side of execute and getargs.  Host calls do not fail here, but for the  *)
(* ones whose result is passed in.                                         *)
(***************************************************************************)
EXTENDS Commands, Library

CONSTANTS
    NewLine,       \* the character '\n'
    MAX_COMMAND,   \* the longest command that is executed (1023)
    NAME_SIZE,     \* bytes of a name a read of the directory gives (32)
    ERRNO_RANGE    \* 0x4000: results above WORD less this are errors

ASSUME EmulateAssumption ==
    /\ NewLine \notin {Space, Nul}
    /\ MAX_COMMAND \in Nat /\ NAME_SIZE \in Nat \ {0}
    /\ ERRNO_RANGE \in 1 .. WORD

-----------------------------------------------------------------------------
(* ece391_execute: the words of the command are the argv of the program.   *)

Separators == {Space, NewLine}

(* A word ends at a separator or at the NUL.                               *)
WordEnd(cmd, i) ==
    Min({j \in i .. Len(cmd) : CharAt(cmd, j) \in Separators \cup {Nul}})

Word(cmd, i) == SubSeq(cmd, i + 1, WordEnd(cmd, i))

(* Spaces before a word are skipped.                                       *)
AfterSpaces(cmd, i) == Min({j \in i .. Len(cmd) + 1 : CharAt(cmd, j) # Space})

(* An end of line ends the command unless it follows a word.               *)
ParseEnds(cmd, i) == CharAt(cmd, i) \in {Nul, NewLine}

(* Where the parser is with n arguments found: a separator is taken with   *)
(* the word before it.                                                     *)
ArgPlaces(cmd) ==
    LET scan[n \in 0 .. Len(cmd)] ==
            IF n = 0 THEN AfterSpaces(cmd, WordEnd(cmd, 0) + 1)
            ELSE LET i == scan[n - 1]
                 IN  IF ParseEnds(cmd, i) THEN i ELSE AfterSpaces(cmd, WordEnd(cmd, i) + 1)
    IN  scan

Argv(cmd) ==
    LET scan  == ArgPlaces(cmd)
        n_arg == Min({n \in 0 .. Len(cmd) : ParseEnds(cmd, scan[n])})
    IN  <<Word(cmd, 0)>> \o [n \in 1 .. n_arg |-> Word(cmd, scan[n - 1])]

(* A child that cannot execute the name kills itself with signal 9.        *)
KILL == 9

(* What execute returns, for a child that exits with a status or is ended  *)
(* by a signal; the host keeps a byte of the status.                       *)
ece391_execute(cmd, child) ==
    CASE Len(cmd) > MAX_COMMAND -> -1
      [] Len(cmd) <= MAX_COMMAND /\ child.exits -> child.status % 256
      [] Len(cmd) <= MAX_COMMAND /\ ~child.exits ->
           IF child.status = KILL THEN -1 ELSE 256

-----------------------------------------------------------------------------
(* ece391_getargs: the arguments with a space between two.  A word that    *)
(* fills the buffer is copied with its NUL, which then lies behind the     *)
(* buffer, before the call fails.                                          *)
AddWord(copy, word, nbytes) ==
    LET text == copy.buf \o word
    IN  CASE copy.value = -1 -> copy
          [] copy.value # -1 /\ Len(text) > nbytes -> [copy EXCEPT !.value = -1]
          [] copy.value # -1 /\ Len(text) = nbytes -> [value |-> -1, buf |-> text \o <<Nul>>]
          [] copy.value # -1 /\ Len(text) < nbytes -> [value |-> 0, buf |-> text \o <<Space>>]

(* The value, and the bytes stored from the start of the buffer; the last  *)
(* word is followed by the NUL.                                            *)
ece391_getargs(argv, nbytes) ==
    LET copied[idx \in 0 .. Len(argv) - 1] ==
            IF idx = 0 THEN [value |-> 0, buf |-> <<>>]
            ELSE AddWord(copied[idx - 1], argv[idx + 1], nbytes)
        copy == copied[Len(argv) - 1]
    IN  CASE Len(argv) > 1 /\ copy.value = 0 -> [copy EXCEPT !.buf = Front(@) \o <<Nul>>]
          [] Len(argv) > 1 /\ copy.value # 0 -> copy
          [] Len(argv) = 1 -> IF nbytes < 1 THEN [value |-> -1, buf |-> <<>>]
                                            ELSE [value |-> 0, buf |-> <<Nul>>]

-----------------------------------------------------------------------------
(* The descriptors: those the host has open, the directory stream (or      *)
(* NONE), which has a descriptor of its own, dir_fd, the one the program   *)
(* is given for it, and mem_fd, the one of the host's memory.              *)
NONE == -1

NoHost == [open |-> {}, dir |-> NONE, dir_fd |-> -1, mem_fd |-> -1]

HostFd(fds) == Min({fd \in 3 .. 4 + Cardinality(fds) : fd \notin fds})


(* What read, write and close ask of their descriptor.                     *)
ReachesDirectory(h, fd) == ~(h.dir = NONE \/ h.dir_fd # fd)

(* ece391_open of the directory: its stream, and a file to stand for it.   *)
OpenDir(h) ==
    LET stream == HostFd(h.open)
        fd     == HostFd(h.open \cup {stream})
    IN  [h EXCEPT !.open = @ \cup {stream, fd}, !.dir = stream, !.dir_fd = fd]

(* ece391_open of anything else.                                           *)
OpenHost(h) == [h EXCEPT !.open = @ \cup {HostFd(@)}]

ece391_open(h, fname) == IF fname = "." THEN OpenDir(h) ELSE OpenHost(h)

(* The descriptor an open returns.                                         *)
Opened(h, fname) == IF fname = "." THEN OpenDir(h).dir_fd ELSE HostFd(h.open)

ece391_close(h, fd) ==
    IF ReachesDirectory(h, fd)
      THEN [h EXCEPT !.open = @ \ {h.dir, h.dir_fd}, !.dir = NONE, !.dir_fd = -1]
      ELSE [h EXCEPT !.open = @ \ {fd}]

(* ece391_vidmap opens the memory once and maps it every time.             *)
ece391_vidmap(h) ==
    IF h.mem_fd # -1 THEN h
    ELSE [h EXCEPT !.open = @ \cup {HostFd(@)}, !.mem_fd = HostFd(h.open)]

(* A name of the directory, cut at nbytes, unless that is 0, and at        *)
(* NAME_SIZE, and filled up with NULs; all of it counts as read.           *)
ReadEntry(name, nbytes) ==
    LET copied == Min({Len(name), NAME_SIZE} \cup ({nbytes} \ {0}))
        filled == Max({copied, Min({nbytes, NAME_SIZE})})
    IN  [k \in 1 .. filled |-> IF k <= copied THEN name[k] ELSE Nul]

(* The host's results, as an unsigned word, and those the program sees.    *)
DO_CALL(eax) == IF eax > WORD - ERRNO_RANGE THEN -1 ELSE eax
=============================================================================
