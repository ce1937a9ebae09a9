---------------------------- MODULE MCUserland ----------------------------
(***************************************************************************)
(* Userland for TLC: a directory of five entries.  The programs of         *)
(* terminal 0 use files, those of terminal 1 only the keyboard, the screen *)
(* and the clock.                                                          *)
(***************************************************************************)
EXTENDS Userland

FirstSlot(t) == t

SmallContents ==
    [a      |-> <<"x", "y", "z", "x", "y">>,
     frame0 |-> <<"o", "\n", " ", "o">>,
     frame1 |-> <<" ", " ", "o">>]

File(fname) == [name |-> fname, type |-> 2, length |-> Len(SmallContents[fname])]

SmallDirectory ==
    << [name |-> ".", type |-> 1, length |-> 0], File("a"),
       [name |-> "rtc", type |-> 0, length |-> 0], File("frame0"), File("frame1") >>

Cmd(prog, arg) == [prog |-> prog, arg |-> arg]

FileCommands ==
    {Cmd("cat", arg) : arg \in {"a", ".", "b"}}
      \union {Cmd(prog, "") : prog \in {"ls", "grep", "fish", "shell"}}
      \union {Cmd("syserr", test) : test \in
               {"0", "neg_fd", "big_fd", "open_lots", "open", "unopened", "vidmap",
                "stdin_out", "syscall_num"}}

PlainCommands == {Cmd(prog, "") : prog \in {"hello", "counter", "testprint", "pingpong"}}

TerminalCommands == [t \in Terminal |-> IF t = 0 THEN FileCommands ELSE PlainCommands]

(* The run is of the machines the theorems of UserlandProofs are about.    *)
ASSUME OneFileTerminal /\ FramesThere
=============================================================================
