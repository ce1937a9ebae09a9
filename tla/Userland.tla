------------------------------ MODULE Userland ------------------------------
(***************************************************************************)
(* The user programs of src/syscalls and src/fish on the file descriptors  *)
(* of Files: the shell, cat, ls, grep, hello, counter, testprint,          *)
(* pingpong, syserr and fish.  Every system call of a program is a step,   *)
(* with the computation behind it; a read of the keyboard or of the clock  *)
(* is the step in which it returns.                                        *)
(*                                                                         *)
(* A program's text is a sequence of items: bytes of files, names, and one *)
(* item for each message.  What it has written since it was executed is    *)
(* kept for its terminal.  The programs' own files are not in the          *)
(* directory of the model: no program here opens one.                      *)
(***************************************************************************)
EXTENDS Files

CONSTANTS
    contents,     \* the bytes of each file
    Commands,     \* the commands typed on each terminal: [prog, arg]
    MEM_128MB,    \* start of the program page
    MEM_132MB,    \* its end
    CHUNK,        \* bytes cat and grep ask for at a time (1024)
    Counts        \* the numbers counter counts to (100, 10000 and 100000)

ASSUME UserlandAssumption ==
    /\ CHUNK \in Nat \ {0} /\ Counts \subseteq Nat
    /\ {1, 4, 32, 1023, CHUNK} \subseteq Requests

(* The image of the file system: a directory, the clock and regular files. *)
ASSUME ImageAssumption ==
    /\ "." \in Names
    /\ \A fname \in Names : /\ Entry(fname).type = 0 <=> fname = "rtc"
                            /\ Entry(fname).type = 1 <=> fname = "."
    /\ DOMAIN contents = {fname \in Names : Entry(fname).type = 2}
    /\ \A fname \in DOMAIN contents :
         contents[fname] \in Seq(STRING) /\ Len(contents[fname]) = Entry(fname).length

(* The kernel's check of vidmap's pointer and its table of system calls.   *)
Kernel == INSTANCE Commands WITH
    LINE_BUFFER <- 128, Space <- " ", Nul <- "", Remnant <- "?"

VARIABLES
    task,         \* the program in each slot and its own variables
    printed       \* history: what the last command of a terminal has written

userVars == <<vars, task, printed>>

-----------------------------------------------------------------------------
(* A program: its name, where it is, its argument, its descriptors and the *)
(* bytes it has just read.  fish has a descriptor, a byte and the end for  *)
(* each of its two frames, and its place on the screen.                    *)
FishVariables ==
    [fds |-> <<-1, -1>>, c |-> <<"0", "0">>, eof |-> <<FALSE, FALSE>>,
     row |-> 0, col |-> 0]

Started(prog, arg) ==
    [prog |-> prog, pc |-> "main", arg |-> arg, fd |-> -1, fd1 |-> -1,
     got |-> <<>>, frames |-> FishVariables]

Shell == Started("shell", "")

UserInit ==
    /\ Init
    /\ task = [s \in Slot |-> Shell]
    /\ printed = [t \in Terminal |-> <<>>]

Me == task[running]

At(prog, pc) == Me.prog = prog /\ Me.pc = pc

(* The running program goes on with new values of its variables.           *)
Continue(me) == task' = [task EXCEPT ![running] = me]

Goto(pc) == Continue([Me EXCEPT !.pc = pc])

Silent == UNCHANGED printed

Shows(items) == printed' = [printed EXCEPT ![shown] = @ \o items]

SameFiles == UNCHANGED vars

(* ece391_fdputs of a message, and on to the next place.                   *)
Puts(message, pc) ==
    /\ WriteReturns(1, 1) # -1
    /\ Shows(<<message>>)
    /\ Goto(pc)
    /\ SameFiles

(* ece391_syscall.S: main returns, and the program halts.  What it leaves  *)
(* behind, in its slot or on the screen, no program looks at.              *)
Return ==
    /\ Me.pc = "return"
    /\ Halt
    /\ task' = [task EXCEPT ![running] = Shell]
    /\ printed' = [printed EXCEPT ![shown] = <<>>]

(* What the next read of a descriptor returns.                             *)
ReadReturns(fd, n) ==
    IF ~CanRead(fd) THEN -1
    ELSE IF file_array[running][fd].fops_ptr = "file_fops"
      THEN Advance(file_array[ReadPcb][fd], n)
      ELSE 0

(* The bytes it stores: a name, or what the file has from the position on. *)
Bytes(fd, n) ==
    LET d == file_array[ReadPcb][fd]
    IN  IF ReadReturns(fd, n) <= 0 THEN <<>>
        ELSE IF d.inode_ptr = NULL
          THEN <<directory[d.file_position + 1].name>>
          ELSE SubSeq(contents[d.inode_ptr], d.file_position + 1,
                      d.file_position + ReadReturns(fd, n))

(* A read of the clock or the keyboard returns without moving a position.  *)
ReadCall(fd, n) ==
    IF CanRead(fd) /\ file_array[running][fd].fops_ptr = "file_fops"
      THEN ReadFile(fd, n)
      ELSE SameFiles

OpenCall(fname) ==
    IF OpenReturns(fname) = -1 THEN SameFiles ELSE OpenFile(fname) \/ OpenRtc(fname)

CloseCall(fd) == IF CloseReturns(fd) = -1 THEN SameFiles ELSE Close(fd)

-----------------------------------------------------------------------------
(* ece391shell.c.  The prompt and the read of a line are one step with     *)
(* what the line makes it do.                                              *)

ShellExecutes(cmd) ==
    /\ At("shell", "main")
    /\ Execute
    /\ task' = [task EXCEPT ![FreeSlot] = Started(cmd.prog, cmd.arg)]
    /\ printed' = [printed EXCEPT ![shown] = <<>>]

(* A name the directory does not have, or no slot free for the program.    *)
ShellFindsNoCommand ==
    /\ At("shell", "main")
    /\ printed' = [printed EXCEPT ![shown] = <<"no such command">>]
    /\ UNCHANGED <<vars, task>>

ShellExits ==
    /\ At("shell", "main")
    /\ Halt \/ HaltFirstShell
    /\ UNCHANGED <<task, printed>>

ShellStep ==
    \/ \E cmd \in Commands[shown] : ShellExecutes(cmd)
    \/ ShellFindsNoCommand
    \/ ShellExits

-----------------------------------------------------------------------------
(* ece391cat.c and ece391ls.c: open, then read and write until a read      *)
(* returns 0.  Neither closes its descriptor.                              *)

OpenStep(prog, from, fname, to) ==
    /\ At(prog, from)
    /\ OpenReturns(fname) # -1
    /\ OpenCall(fname)
    /\ Continue([Me EXCEPT !.pc = to, !.fd = OpenReturns(fname)])
    /\ Silent

OpenFails(prog, from, fname) ==
    /\ At(prog, from)
    /\ OpenReturns(fname) = -1
    /\ Puts("file not found", "return")

(* Mutant: a short read is taken for the last one.                         *)
NextAfterShortRead(fd, n) == IF ReadReturns(fd, n) < n THEN "return" ELSE "write"

(* Mutant: only an error ends the loop.                                    *)
NextAfterFailure(fd, n) == IF ReadReturns(fd, n) = -1 THEN "return" ELSE "write"

NextAfterRead(fd, n) == IF ReadReturns(fd, n) = 0 THEN "return" ELSE "write"

ReadStep(prog, n) ==
    /\ At(prog, "read")
    /\ ReadCall(Me.fd, n)
    /\ Continue([Me EXCEPT !.pc = NextAfterRead(Me.fd, n), !.got = Bytes(Me.fd, n)])
    /\ Silent

WriteStep(prog) ==
    /\ At(prog, "write")
    /\ Shows(Me.got)
    /\ Goto("read")
    /\ SameFiles

Cat ==
    \/ OpenStep("cat", "main", Me.arg, "read")
    \/ OpenFails("cat", "main", Me.arg)
    \/ ReadStep("cat", CHUNK)
    \/ WriteStep("cat")

Ls ==
    \/ OpenStep("ls", "main", ".", "read")
    \/ ReadStep("ls", 32)
    \/ WriteStep("ls")

-----------------------------------------------------------------------------
(* ece391grep.c: every name of the directory but those with a dot in front *)
(* is opened, read to its end and closed.  The lines that match are not    *)
(* picked out: all the bytes searched are kept.                            *)

Grep ==
    \/ OpenStep("grep", "main", ".", "names")
    \/ /\ At("grep", "names")
       /\ ReadCall(Me.fd, 32)
       /\ Continue([Me EXCEPT !.got = Bytes(Me.fd, 32),
                              !.pc = IF ReadReturns(Me.fd, 32) = 0 THEN "return"
                                     ELSE IF Bytes(Me.fd, 32) = <<".">> THEN "names"
                                     ELSE "open"])
       /\ Silent
    \/ /\ At("grep", "open")
       /\ OpenCall(Me.got[1])
       /\ Continue([Me EXCEPT !.fd1 = OpenReturns(Me.got[1]), !.pc = "search"])
       /\ Silent
    \/ /\ At("grep", "search")
       /\ ReadCall(Me.fd1, CHUNK)
       /\ Shows(Bytes(Me.fd1, CHUNK))
       /\ Goto(IF ReadReturns(Me.fd1, CHUNK) = 0 THEN "close" ELSE "search")
    \/ /\ At("grep", "close")
       /\ CloseCall(Me.fd1)
       /\ Goto("names")
       /\ Silent

-----------------------------------------------------------------------------
(* ece391hello.c asks for a line and then writes; ece391testprint.c only   *)
(* writes.                                                                 *)

Hello ==
    \/ /\ At("hello", "main")
       /\ Puts("Hi, what's your name? ", "line")
    \/ /\ At("hello", "line")
       /\ ReadCall(0, 1023)
       /\ Goto("answer")
       /\ Silent
    \/ /\ At("hello", "answer")
       /\ Puts("Hello, ", "return")

Testprint == At("testprint", "main") /\ Puts("Yay!", "return")

(* ece391counter.c asks how far to count.  A line of more than two         *)
(* characters is wrong, and one of a single character that is no choice;   *)
(* any other line that begins with no choice counts to nothing.            *)
Counter ==
    \/ /\ At("counter", "main")
       /\ Puts("Enter the Test Number", "line")
    \/ /\ At("counter", "line")
       /\ ReadCall(0, 1023)
       /\ \/ Goto("wrong")
          \/ \E max \in {0} \cup Counts :
               Continue([Me EXCEPT !.got = [i \in 1 .. max |-> ToString(i)], !.pc = "count"])
       /\ Silent
    \/ /\ At("counter", "wrong")
       /\ Puts("Wrong Choice!", "return")
    \/ /\ At("counter", "count")
       /\ IF Me.got = <<>>
            THEN Silent /\ Goto("return")
            ELSE Shows(<<Head(Me.got)>>) /\ Continue([Me EXCEPT !.got = Tail(@)])
       /\ SameFiles

(* ece391pingpong.c never returns: it writes a line and waits for a tick.  *)
Pingpong ==
    \/ OpenStep("pingpong", "main", "rtc", "rate")
    \/ /\ At("pingpong", "rate")
       /\ WriteReturns(Me.fd, 4) = 0
       /\ Goto("write")
       /\ Silent
       /\ SameFiles
    \/ /\ At("pingpong", "write")
       /\ Goto("tick")
       /\ Silent
       /\ SameFiles
    \/ /\ At("pingpong", "tick")
       /\ ReadCall(Me.fd, 4)
       /\ Goto("write")
       /\ Silent

-----------------------------------------------------------------------------
(* ece391syserr.c: the argument stands for the number of the test that is  *)
(* typed.  A test whose calls must all be refused is one step; the opens   *)
(* and closes of the others are a step each.                               *)

(* The tests a number can be typed for.                                    *)
Tests == {"neg_fd", "big_fd", "open_lots", "open", "unopened", "vidmap", "stdin_out",
          "syscall_num"}

AllRefused(calls) == \A k \in DOMAIN calls : calls[k] = -1

NEG_FD == -1073741823
BIG_FD == 1073741823

BIG_NUM == 1073741823
NEG_NUM == -1073741823

(* An address in the kernel.                                               *)
KERNEL_POINTER == 4194304

(* The program page is above the kernel, and the names that must not be    *)
(* found are not there.                                                    *)
ASSUME SyserrAssumption ==
    /\ MAX_FD <= BIG_FD
    /\ KERNEL_POINTER < MEM_128MB
    /\ Names \cap {"helloo", "shel", ""} = {}
    /\ \A t \in Terminal : \A cmd \in Commands[t] :
         cmd.prog = "syserr" => cmd.arg \in {"0"} \cup Tests

VidmapReturns(pointer) == IF Kernel!VidmapAccepts(pointer) THEN 0 ELSE -1

(* The system call of a number that no wrapper uses.                       *)
call_sys(num) == IF Kernel!Dispatch(num) = "fail" THEN -1 ELSE 0

NegFdPasses    == AllRefused(<<ReadReturns(NEG_FD, 31), WriteReturns(NEG_FD, 31),
                               CloseReturns(NEG_FD)>>)
BigFdPasses    == AllRefused(<<ReadReturns(BIG_FD, 31), WriteReturns(BIG_FD, 31),
                               CloseReturns(BIG_FD)>>)
OpenPasses     == AllRefused(<<OpenReturns("helloo"), OpenReturns("shel"),
                               OpenReturns("")>>)
StdinOutPasses == AllRefused(<<WriteReturns(0, 31), ReadReturns(1, 31)>>)
UnopenedPasses == AllRefused([k \in 1 .. MAX_FD |-> CloseReturns(k - 1)]
                             \o [k \in 1 .. MAX_FD - 2 |-> ReadReturns(k + 1, 31)]
                             \o [k \in 1 .. MAX_FD - 2 |-> WriteReturns(k + 1, 31)])
VidmapPasses   == AllRefused(<<VidmapReturns(0), VidmapReturns(KERNEL_POINTER)>>)
SyscallNumPasses == AllRefused(<<call_sys(BIG_NUM), call_sys(NEG_NUM), call_sys(0)>>)

Judge(test, passes, next) ==
    /\ At("syserr", test)
    /\ Goto(next)
    /\ Shows(<<IF passes THEN "PASS" ELSE "FAIL">>)
    /\ SameFiles

(* err_open_lots: one more open than there are free descriptors.           *)
OpenLots(next) ==
    /\ At("syserr", "open_lots")
    /\ OpenCall(".")
    /\ IF Len(Me.got) = MAX_FD - FD_BEGIN
         THEN /\ Continue([Me EXCEPT !.got = <<>>, !.pc = next])
              /\ Shows(<<IF AllRefused(<<OpenReturns(".")>>) THEN "PASS" ELSE "FAIL">>)
         ELSE /\ Continue([Me EXCEPT !.got = Append(@, OpenReturns("."))])
              /\ Silent

(* The tests in the order of main for test 0; any other runs alone.        *)
Syserr ==
    \/ /\ At("syserr", "main")
       /\ Goto(IF Me.arg = "0" THEN "neg_fd" ELSE Me.arg)
       /\ Silent
       /\ SameFiles
    \/ LET Then(test) == IF Me.arg = "0" THEN test ELSE "return"
       IN  \/ Judge("neg_fd", NegFdPasses, Then("big_fd"))
           \/ Judge("big_fd", BigFdPasses, Then("open_lots"))
           \/ OpenLots(Then("open"))
           \/ Judge("open", OpenPasses, Then("unopened"))
           \/ Judge("unopened", UnopenedPasses, Then("vidmap"))
           \/ Judge("vidmap", VidmapPasses, Then("stdin_out"))
           \/ Judge("stdin_out", StdinOutPasses, Then("syscall_num"))
           \/ Judge("syscall_num", SyscallNumPasses, "return")
-----------------------------------------------------------------------------
(* fish.c, up to the frames: add_frames reads its two files side by side,  *)
(* a byte of each at a time, to the end of the longer of the two lines.    *)

Frames == <<"frame0", "frame1">>

(* add_frames fails by a halt of its own.                                  *)
OpenFrame(k, from, to) ==
    /\ At("fish", from)
    /\ OpenCall(Frames[k])
    /\ IF OpenReturns(Frames[k]) = -1
         THEN Goto("return")
         ELSE Continue([Me EXCEPT !.pc = to,
                                  !.frames.fds[k] = OpenReturns(Frames[k])])
    /\ Silent

LineEnds(c) == c = "\n"

(* A read of frame k is made unless its line is at its end.                *)
ReadFrame(k, from, to) ==
    LET fd == Me.frames.fds[k]
    IN  /\ At("fish", from)
        /\ IF LineEnds(Me.frames.c[k])
             THEN SameFiles /\ Goto(to)
             ELSE /\ ReadCall(fd, 1)
                  /\ Continue(IF ReadReturns(fd, 1) = 0
                       THEN [Me EXCEPT !.pc = to, !.frames.c[k] = "\n",
                                       !.frames.eof[k] = TRUE]
                       ELSE [Me EXCEPT !.pc = to, !.frames.c[k] = Bytes(fd, 1)[1]])
        /\ Silent

Shown(c) == IF c = "\n" THEN " " ELSE c

(* mp1_ioctl with RTC_ADD for a pair that is not blank.                    *)
AddBlink ==
    /\ At("fish", "add")
    /\ Me.frames.c # <<"\n", "\n">>
    /\ LET f == Me.frames
       IN  Shows(IF {f.c[1], f.c[2]} \subseteq {" ", "\n"} THEN <<>>
                 ELSE <<[row |-> f.row, col |-> f.col,
                         on |-> Shown(f.c[1]), off |-> Shown(f.c[2])]>>)
    /\ Continue([Me EXCEPT !.pc = "read0", !.frames.col = @ + 1])
    /\ SameFiles

(* The end of both lines: a file at its end is closed, on every line.      *)
CloseFrame(k, from, to) ==
    /\ At("fish", from)
    /\ Me.frames.c[k] = "\n"
    /\ IF Me.frames.eof[k]
         THEN CloseCall(Me.frames.fds[k]) /\ Goto(to)
         ELSE SameFiles /\ Continue([Me EXCEPT !.pc = to, !.frames.c[k] = "0"])
    /\ Silent

NextRow ==
    /\ At("fish", "row")
    /\ Continue([Me EXCEPT !.frames.row = @ + 1, !.frames.col = 0,
           !.pc = IF Me.frames.eof = <<TRUE, TRUE>> THEN "rate" ELSE "read0"])
    /\ Silent
    /\ SameFiles

(* The rate is set, the clock is read for every tick, and closed.  The     *)
(* blinking itself does not touch the files.                               *)
Blinking ==
    \/ /\ At("fish", "rate")
       /\ WriteReturns(Me.fd, 4) = 0
       /\ Goto("ticks")
       /\ Silent
       /\ SameFiles
    \/ /\ At("fish", "ticks")
       /\ ReadCall(Me.fd, 4)
       /\ Goto("close")
       /\ Silent
    \/ /\ At("fish", "close")
       /\ CloseCall(Me.fd)
       /\ Goto("return")
       /\ Silent

Fish ==
    \/ OpenStep("fish", "main", "rtc", "open0")
    \/ OpenFrame(1, "open0", "open1")
    \/ OpenFrame(2, "open1", "read0")
    \/ ReadFrame(1, "read0", "read1")
    \/ ReadFrame(2, "read1", "add")
    \/ AddBlink
    \/ (Me.frames.c = <<"\n", "\n">> /\ CloseFrame(1, "add", "close1"))
    \/ CloseFrame(2, "close1", "row")
    \/ NextRow
    \/ Blinking

-----------------------------------------------------------------------------
Program ==
    \/ Cat \/ Ls \/ Grep \/ Hello \/ Counter \/ Testprint \/ Pingpong \/ Syserr \/ Fish
    \/ Return

(* Alt and a function key, pressed while a program of the terminal runs or *)
(* waits.                                                                  *)
SwitchKey(t) == Switch(t) /\ UNCHANGED <<task, printed>>

UserNext == ShellStep \/ Program \/ \E t \in Terminal : SwitchKey(t)

(* A program on the screen has the processor, a key or a tick it waits for *)
(* comes, and the user returns to every terminal.                          *)
UserFairness ==
    \A t \in Terminal :
        /\ SF_userVars(shown = t /\ Program)
        /\ SF_userVars(SwitchKey(t))

UserSpec == UserInit /\ [][UserNext]_userVars /\ UserFairness

-----------------------------------------------------------------------------
(* Properties.                                                             *)

Finished(prog) == Me.prog = prog /\ Me.pc = "return"

DirectoryNames == [k \in DOMAIN directory |-> directory[k].name]

Text(fname) == IF fname \in DOMAIN contents THEN contents[fname] ELSE <<>>

Searched ==
    FlattenSeq([k \in DOMAIN directory |->
                   IF directory[k].name = "." THEN <<>> ELSE Text(directory[k].name)])

(* The bytes of a frame in lines: the k-th byte is in the row of as many   *)
(* ends of lines as come before it.                                        *)
Cell(text, row, col) ==
    LET Row(k) == Cardinality({j \in 1 .. k - 1 : text[j] = "\n"})
        places == {k \in DOMAIN text : text[k] # "\n" /\ Row(k) = row
                     /\ col = Cardinality({j \in 1 .. k - 1 :
                                              Row(j) = row /\ text[j] # "\n"})}
    IN  IF places = {} THEN " " ELSE text[CHOOSE k \in places : TRUE]

(* cat, ls and grep write the whole of a file, every name of the directory *)
(* once and in order, or search every byte of every file; counter counts.  *)
WholeFilesAreRead ==
    /\ Finished("cat") =>
         printed[shown] = CASE Me.arg = "." -> DirectoryNames
                            [] Me.arg \in Names \ {"."} -> Text(Me.arg)
                            [] Me.arg \notin Names -> <<"file not found">>
    /\ Finished("ls") => printed[shown] = DirectoryNames
    /\ Finished("grep") => printed[shown] = Searched
    /\ Finished("counter") =>
         Tail(printed[shown]) \in {<<"Wrong Choice!">>}
              \cup {[i \in 1 .. max |-> ToString(i)] : max \in {0} \cup Counts}

(* fish reads two files in turns, line by line: every place of the picture *)
(* blinks between its bytes in the two frames.                             *)
FramesAreDrawn ==
    Finished("fish") =>
        LET Size(k) == Len(Text(Frames[k]))
            Area == 0 .. Size(1) + Size(2)
            At0(p) == <<Cell(Text(Frames[1]), p[1], p[2]), Cell(Text(Frames[2]), p[1], p[2])>>
        IN  ToSet(printed[shown]) =
              {[row |-> p[1], col |-> p[2], on |-> At0(p)[1], off |-> At0(p)[2]] :
                  p \in {q \in Area \X Area : At0(q) # <<" ", " ">>}}

(* cat.c, ls.c, grep.c and fish.c: a program that returns has got all it   *)
(* should from its files, also when its terminal was left and returned to  *)
(* between two of its reads.                                               *)
ProgramsGetTheirData == WholeFilesAreRead /\ FramesAreDrawn

(* ece391syserr.c: each of its tests passes when it runs by itself.        *)
ErrorTestsPass ==
    Finished("syserr") /\ Me.arg # "0" => printed[shown] = <<"PASS">>

(* Every program but pingpong ends, and its slot is free again, whatever   *)
(* the other terminal does meanwhile.                                      *)
ProgramsReturn ==
    \A s \in Slot :
        (s \in Procs!Placed /\ task[s].prog \notin {"shell", "pingpong"})
            ~> (s \notin Procs!Placed)

(* The users of Files: the programs that open files are typed on only one  *)
(* terminal.                                                               *)
FilePrograms == {"cat", "ls", "grep", "syserr", "fish"}

UsesFiles(t) == \E cmd \in Commands[t] : cmd.prog \in FilePrograms

OneFileTerminal == \A t, u \in Terminal : UsesFiles(t) /\ UsesFiles(u) => t = u

(* What fish is built for: its two frames, and descriptors for them and    *)
(* for the clock.                                                          *)
FramesThere ==
    /\ {"frame0", "frame1"} \subseteq DOMAIN contents
    /\ MAX_FD - FD_BEGIN >= 3

(* The programs use the descriptors of Files as its users who take turns.  *)
UsersTakeTurns == PoliteSpec
=============================================================================
