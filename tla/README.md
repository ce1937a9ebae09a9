# A verification project for the kernel in `src/student-distrib`

The program is a small i386 kernel: one processor, six processes, three
terminals switched with Alt+F1..F3, a read-only file system, a real-time clock
and a dozen system calls. `src/student-distrib` is its final state; the user
programs of `src/syscalls` and the demo of `src/fish` run on it. `src/save` and
`src/backup` are earlier copies of the kernel. `src/Bug Log.txt` records
defects the authors met while writing it; several properties below are the
regression tests those entries never had.

Line numbers without a path are of files in `src/student-distrib`.

## How the machine runs

All gates of the IDT are interrupt gates (kernel.c:164-264). A system call or an
interrupt handler therefore runs from its entry to its iret with the interrupts
off, with three exceptions: `terminal_read` executes `sti` in its waiting loop
(terminal.c:369), `rtc_read` executes it before its own (rtc.c:133), and the boot
code after kernel.c:290. So one system call is one action of a model, unless it
waits, and what it does after the wait is as many actions as there are
interruptible steps.

There is no scheduler. The program in front of the terminal on the screen runs;
programs of other terminals are frozen where Alt+Fn interrupted them. All
concurrency is between the running program or the boot code, the keyboard handler
and the clock's handler, and between the frozen programs through the state all
terminals share.

## Inventory

| component | source | state | operations | modules |
|---|---|---|---|---|
| process management | syscalls.c, tasks.h | `curr_terminal`, `num_progs`, `curr_pcb`, `pcb_track`, the pcbs, `save_esp`/`save_ebp`, `save_prog_regs`, tss.esp0 | `init_terminals`, `system_execute`, `system_halt`, `relaunch_shell`, `switch_terminal`, `start_shell`, `reload_program` | `Processes`, `TerminalStacks`; `ProcessesProofs` |
| file descriptors, dispatch | syscalls.c, tasks.h, wrappers.S | `file_array` of each pcb | `system_open`, `system_close`, `system_read`, `system_write`, `system_getargs`, `system_vidmap`, `new_pcb_init`, `syscall_wrapper` | `Files`, `OpenFiles`, `Commands`; `UserlandProofs`, `FunctionsProofs` |
| file system | fs.c | the boot block, the global `pcb`, file positions | `fs_open`, `fs_read`, `fs_close`, `read_dir`, `read_data`, `read_dentry_by_name`, `read_dentry_by_index` | `Files`, `FileData`; `UserlandProofs`, `FunctionsProofs` |
| keyboard, line discipline | terminal.c | `key_line_buffer`, `key_read_buffer`, positions and sizes, `keyboard_read`, modifier flags | `keyboard_handler`, `do_enter`, `do_backspace`, `clear_buffer`, `terminal_read`, `terminal_write` | `Terminal`, `LineDiscipline`, `Keymap`; `TerminalProofs`, `FunctionsProofs` |
| screen | lib.c, terminal.c | `screen_x`, `screen_y`, video memory and its three copies, `start_position`, `buf_offset` | `putc`, `scrollscreen`, `set_new_position`, `clear`, `print_line_buffer`, Ctrl+L, the copies of `switch_terminal` | `Screen`; `ScreenProofs` |
| real-time clock | rtc.c | `rtc_flag`, the rate in register A | `rtc_handler`, `rtc_read`, `rtc_write`, `rtc_open`, `rtc_close` | `Rtc`; `FunctionsProofs` |
| interrupt controller | i8259.c | mask and in-service bits | `i8259_init`, `enable_irq`, `disable_irq`, `send_eoi` | parts of `Rtc`, `Boot` |
| paging | paging.c | page directories and tables, cr3 | `paging_init`, `add_page`, `page_4kb`, `page_4mb`, `swap_tables` | `Boot`, parts of `Processes` |
| boot, tables, entry code, exceptions | boot.S, kernel.c, x86_desc.S, wrappers.S, exceptions.c | GDT, IDT, TSS | run once; the wrappers save and restore; an exception handler loops for ever | `Boot`, the saved context of `Processes`; `BootProofs` |
| library functions | lib.c, ece391support.c | none | memory and string functions, `itoa`, `printf` | `Library` |
| user programs | `src/syscalls` | their variables and descriptors | shell, cat, ls, grep, hello, counter, testprint, pingpong, syserr | `Userland`, `Search`; `UserlandProofs` |
| user programs on a Linux host | `src/syscalls/ece391emulate.c` | the stream and descriptor of the directory, the descriptor of the memory | `ece391_execute`, `ece391_getargs`, `ece391_open`, `ece391_read`, `ece391_close`, `ece391_vidmap` | `Emulate`; `FunctionsProofs` |
| fish | `src/fish` | `blink_array`, the list of blinks | `mp1_ioctl_add`, `mp1_ioctl_remove`, `mp1_ioctl_sync`, `mp1_rtc_tasklet`, `add_frames` | `Blink`, `BlinkList`, `Userland`; `BlinkProofs` |

How they interact: the keyboard handler calls `switch_terminal` and never returns
from it when the terminal changes, since `start_shell` and `reload_program` end
in an iret of their own. `system_halt` jumps into the middle of the
`system_execute` call that started its program, on that call's saved frame.
`terminal_read` and `rtc_read` wait for a flag the interrupt handlers raise.
`fs_read` finds its descriptor through a global that `fs_open` sets. All file
system calls go through the operations table of a descriptor in the pcb in front
of `curr_terminal`.

How the modules are composed: `TerminalStacks` is what `Processes` is checked to
implement, and `Files` takes the coming and going of programs from it instead of
from `Processes`. `Userland` extends `Files` with the programs, and is checked to
be one of the users `Files` has its refinement for (`UsersTakeTurns`). `Terminal`
and `Rtc` detail the two reads that are a single waiting state in `Processes`;
`Screen` is the picture of the keys `Terminal` has the buffers of. `Boot` ends
where `Processes` begins.

What is hard, and what must be true:

- Process management. Halts unwind through frames saved by other calls, in any
  order across terminals, and terminals are abandoned inside the handler of the
  key. The processor must never hold the registers of one program with the page
  directory or kernel stack of another; a halt must return to its parent; slots
  must neither leak nor be shared; the keyboard must survive every path.
- Descriptors. A stale global pcb; positions that must advance by what was read;
  a halt that alone stands between a program's open files and the next program of
  its slot.
- File system. Reads clipped at the end of a file and cut at block boundaries.
- Line discipline. Two counters and two buffers per terminal are updated by the
  handler and by a reader with the interrupts on, under one flag for all
  terminals. Buffers must stay terminated and in bounds, lines must stay on their
  terminal, and be read whole and once.
- Screen. A cursor kept in bounds by routines that disagree on when to wrap, with
  one offset for all terminals, and copies made while terminals change.
- Clock. A flag shared by all readers, tested and lowered with the interrupts on.
  A tick must not be counted twice, a reader must not hang, and the interrupt must
  stay enabled at the clock and at both 8259s.
- Boot. Interrupts on before the terminals are set up; every gate, mask and table
  must be in place by then.
- Fish. A list of links edited in assembly between ticks, and a pool that tells a free
  block only by its location.

The same list, line by line, is under `hazards` in `PROJECT.json`, with the
properties that catch each.

## The modules

### Processes

Slots stand for what the code derives from a slot's index: pid, pcb, kernel
stack, page directory, physical page. `save_frame[s]` abstracts `save_esp[s]` and
`save_ebp[s]` to the program on whose kernel stack they point; `cpu` says whose
registers the processor holds and whether it is in the boot code, in user mode or
in a waiting read; `save_prog_regs` is the same for a terminal that was left, and
`esp0` the owner of the stack the next trap lands on. A page holds a file and
whether the program has written its data since. One action per system call
(`Execute` and its two failures, `Halt` with and without a parent), two for a
blocking read, one for each kind of Alt+Fn (`StartShell` on the first visit,
`ReloadProgram` later), each with the calls it makes. `Store` is a user program
writing its own data.

Two outcomes the code leaves open are choices: the third terminal's first shell
has no name in its pcb (syscalls.c:152-159), so `reload_program` looks up whatever
is there and may read any file, or none, over the shell's page.

`TerminalStacks` is what this should amount to: a stack of programs for each
terminal, pushed by execute, popped by halt, with the top of the shown terminal's
stack running. `MCProcesses!RefinesTerminalStacks` maps the process table to it:
a terminal's stack is `ChainOf`, the programs that `parent_ptr` leads through from
`curr_pcb`, and before the boot code has executed the first shell, its slot.

### Files

The descriptors on top of `TerminalStacks`. A system call that finds its
descriptor through `curr_pcb` works on `running`; `fs_read` works on `pcb`, the
variable of fs.c, and that is the difference the module is about. A descriptor is
the code's record; of a file only the length is kept, since positions move by
counts. `OpenRtc`, `OpenFile`, `Close` and `ReadFile` are the calls that change
something; `OpenReturns`, `CloseReturns` and `WriteReturns` are the results of all
of them, failures included. A relaunched first shell gets its table from
`new_pcb_init` in the same step as the halt that caused it.

`OpenFiles` is what descriptors promise: handles of a program's own, with a
position that only its own reads move and that ends at the end of the file.
`RefinesOpenFiles` holds for programs that take turns with their files
(`PoliteSpec`); `files_stale` shows why it holds for no others.

### FileData, Library, Search, Commands, Keymap, Emulate

Pure functions, written over the code's own indices and checked by `MCFunctions`
against what they are for. `FileData!CopyBlocks` is the loop of `read_data`: a
byte is named by its address in the image, so that a copy past a block's end is
seen. `Library` has the memory functions with their choice of direction, alignment
and unit on a memory of bytes that are all different, the string functions of the
kernel and of user programs, and the conversions of `printf`. `Search` is the
buffer loop of grep. `Commands` is the parsing in `system_execute`,
`system_getargs`, the bounds of `system_vidmap` and the table of
`syscall_wrapper`. `Keymap` folds the handler's flags over a sequence of scan
codes. `Emulate` is the other side of the same calls for programs built for a
Linux host: the words of a command, the arguments put together again, the status
of the child, and the descriptors, of which the directory takes two. It shares
`ArgumentsReachTheProgram` and `SystemCallsReachTheirHandlers` with the kernel's
own `Commands`.

### Userland

The shipped programs, a system call a step, on the descriptors of `Files`, with a
switch of terminals possible between any two. `task[s]` has a program's place and
its variables, `printed[t]` what the last command of a terminal has written, which
is what the properties look at; both begin afresh when a program has returned. A
message is one item whatever its length. The shell's prompt, its read and the
execute that follows are one step. fish is modelled from its two frames, read a byte at a time in turns, up to the pairs it
hands to `mp1_ioctl`; what the pairs then do is `Blink`.

### Terminal

The buffers are arrays of characters with the code's insertion, shift, padded
copy and clear, because the properties are about their last cells and about
counters that disagree with them. Each step of `terminal_read` that an interrupt
can separate from the next is an action: leaving the loop, each byte, each cell of
`clear_buffer`, the position, the size, the flag. A byte is loaded once for the
test and again for the copy, so `FindByte` and `CopyByte` are two. A read that finds the flag up
never turns the interrupts on and is one action (`ReadAtOnce`). Each key is one
action. Each terminal is given letters of its own, so that a character in a buffer
tells where it was typed; the code never looks at which letter it handles.

The module has three users, in order of politeness. `Spec` lets keys arrive at
any instant. `UnhurriedSpec` types, erases and enters at any instant but between
the stores of a read's `clear_buffer`, and switches terminals even there.
`PatientSpec` presses nothing while a read copies and clears, enters a line only
when a program waits for one, and lets it be read before going on. What holds depends on the user: see the
runs, and "What the code does otherwise" for what the last two do not meet.

Two history variables serve the properties: `unread`, whether the entered line of a
terminal has been taken by a read, and `seen`, the lines that have been in the read
buffer since a read began to copy it. An Enter in the copy makes `seen` two lines
or more; `ReadGivesTheLine` says that the program then gets every byte from its
place in one of them, and the line itself if there was one.

`LineDiscipline` is the abstract terminal: an edited line and an entered line per
terminal, taken exactly once. `MCTerminal!RefinesLineDiscipline` reads both off
the buffers.

### Screen

Video memory as cells, the position, the echo of each key as `print_line_buffer`
makes it from `start_position` and `buf_offset`, the output of programs and the
copies of a switch. A key is one step and a system call is one step; how they meet
inside a read is `Terminal`'s. The k-th character of a line is always the k-th
letter, since only places matter.

The echo cannot always be right: the code wraps by the position on the way forward
and by the size of the line on the way back, and keeps one offset for all
terminals. `echo` is the history of that, the module's own judgement of each line:
"calm" while nothing the code does not follow has happened to it, "left" when its
terminal was left and returned to, "broken" after; an empty line is "strayed" while
the handler has yet to take it to the place the screen is at, which is after an
Enter, after the erasure of its last letter and after a message of the kernel.
`do_enter` and `do_backspace` run whether Alt is held or not, and the next key, of
which Alt+Fn may be one, stores the position the handler read before it
(terminal.c:118, 163). The properties claim what is
shown for lines that are not broken, and the position of an empty line that comes
back with its terminal if it is not strayed either; `PositionOnScreen` and the cells
that return with a terminal are claimed without that condition. `KernelPrints` is
the kernel's own `printf` on the way of a system call (syscalls.c:270, 353), which
moves the position and not `start_position`.

### Rtc

A tick is the whole of `rtc_handler`, including register C, without which the
clock does not tick again, and the acknowledgement of both 8259s. A read is its
call, the load that sees the flag up, and the store that lowers it, with ticks and
Alt+Fn possible in between. `RateOf` is the loop of `rtc_write`. `unused` is
history: whether any read has been ended by the last tick.

### Boot

The steps of `entry` from `_start` on, in order, with `ClockTicks` and `PressKey`
at any time from `i8259_init` on, which moves the vectors away from the exceptions,
and their delivery when the processor and the 8259 allow it: an `sti` put before
`i8259_init` would not be noticed. A key is delivered with its line neither masked
nor in service. Its handler masks the line and sets it in service, and leaves by its
own end (`AfterHandler`, `HandlerAcks`) or through `switch_terminal`, which
acknowledges, and `start_shell` or `reload_program`, each of which unmasks
(`SwitchAcks`, `AfterStart`, `AfterReload`): with any of these left out
`EveryKeyIsServed` fails. Page
directories and tables have entries for the low 4MB, the kernel and the programs'
page, in pages of 4KB. `Reached` says where a vector leads: to its handler, to the
handlers of exceptions 11 and 8 if its gate is not present, or to a reset. The
Alt+Fn that leaves the boot code takes with it the half-made table: `StartShell`,
`ReloadProgram` or `FaultOnSwitch`. `early` and `raised` are history.

### Blink

The blocks of `blink_array` with their links, the list as the loops walk it,
countdowns in 16 bits, and each command and tick as one action: fish is one
program and calls them in turn. `BlinkList` is a sequence of blinks, newest first.
`RefinesBlinkList` reads a length beyond the middle of the signed range as one that
is over at once, which is how the tick treats it.

## The runs

Passing runs:

| run | configuration | shows |
|---|---|---|
| `processes` | 3 terminals, 5 slots, two program files, the program of slot 3 writes its data; 308 thousand states | the structure of the process table and of the saved contexts, page contents, that nothing else changes, and the refinement of `TerminalStacks`, in every order of executes, halts, reads and switches |
| `files` | `PoliteSpec`, 2 terminals, 4 slots, 2 descriptors besides the first two, a directory, a file and the clock | no descriptor outlives its program, the pcb of fs.c is the right one, and the refinement of `OpenFiles` |
| `functions` | every input of the bounds below, one call each; 216 thousand states | each pure function against its definition |
| `userland` | 2 terminals, 4 slots, 4 descriptors to open; file programs on terminal 0, the others on terminal 1; a file of 5 bytes | the programs get all their data, the tests of syserr pass, every program returns, and together they are `PoliteSpec` |
| `terminal` | `UnhurriedSpec`, 2 terminals, buffers of 4, lines of up to 2 letters on the first and empty ones on the second, reads of 2 bytes; 4.2 million states | the buffers stay terminated and agree with their counters, a read gives the entered line or, with an Enter in its copy, bytes of the lines that were there at their places, terminals do not mix |
| `terminal_patient` | `PatientSpec`, lines of 2 letters, two different letters on the first terminal; 438 thousand states | refinement of `LineDiscipline`, and every entered line is read |
| `screen` | 2 terminals, 3 rows of 4 columns of which the prompt takes 2, lines of up to 4 letters, 7 keys; 17.5 million states | the position stays on the screen, an unbroken echo shows its line, terminals keep their screens |
| `rtc` | `FairSpec`, 2 terminals, all 16-bit powers of two and their neighbours written | the clock stays alive, no tick is counted twice, valid frequencies are set, waiting programs get on |
| `boot` | 3 terminals, 6 programs, tables of 3 pages, exceptions 0, 11, 13, 14; 1728 states | the machine stops only for a reason; kernel and programs are apart, by address; every key from `i8259_init` on is served, whichever way its handler is left |
| `blink` | 3 blocks, 3 cells, words of 2 bits; 44 thousand states | pool and list are complementary, cells show their blinks, refinement of `BlinkList` |

Runs that find a disagreement (each is an entry of `findings`):

| run | what TLC finds |
|---|---|
| `processes_reload` | leaving and re-entering a terminal reads the program's file over its data (syscalls.c:703): its variables go back to their initial values in the middle of its run |
| `files_stale` | a program that reads after another has opened a file reads, and moves, the other's position (fs.c:89) |

Bounds, and why they are enough.

- `processes`: with 3 terminals the third's shell has no name, and a switch between
  two must leave another alone; 5 slots leave two after the first shells, so that
  the table fills and terminals compete for it. `Storers` is the set of slots whose
  programs write their data, `Statuses` what they pass to halt.
- `files`: two slots besides the first shells let a slot be taken by a second
  program while the pcb of fs.c is of the first; `Requests` of 1 and 3 on a file
  of 2 bytes are a read inside it and one past its end.
- `functions`: blocks of 4 bytes and files of up to 3 blocks, which lie anywhere and
  in any order in the 5 places up to `MaxBlock`, have every combination of offset,
  length and boundary; words of 8 bits have both
  signs; memories of 12 bytes have each alignment before, in and behind a unit of
  4; grep's buffer of 4 is smaller than the texts of up to 7; sequences of 4 scan
  codes hold two Shift keys at once. On the Linux host: command lines of up to
  `MaxHostLine` 5 of three characters, one more than `MAX_COMMAND`; sequences of up
  to `MaxHostCalls` 5 opens, vidmaps and closes of the first four descriptors
  (`MaxHostFd` 6); names cut at `NAME_SIZE` 3; an
  `ERRNO_RANGE` of 16 in words of 8 bits. Every state is one call, so `CHECK_DEADLOCK
  FALSE`.
- `userland`: `CHUNK` of 2 makes cat and grep read a file in several calls, the last
  of them short; 6 descriptors are enough for syserr to run out of them. `Counts`
  has one number, since the loop of counter has no other state.
- `terminal`: `LINE_BUFFER` is 4 for 128: the code treats only the last two
  cells and the empty line specially, and lines of zero, one, some and the most
  letters all occur. `WORD` is 8 for 2^32: it is only ever reached by a decrement
  of zero. Two terminals suffice where the terminals only share flags. Reads of 2 bytes are
  shorter than the longest line and longer than the empty one; what is typed on the
  first terminal must not reach the second, which needs no letters of its own for it.
- `screen`: the row of the prompt is full after two letters, and a line of four ends
  in the row below; seven keys write a wrapped line, scroll, switch and return. Keys are
  counted and then end, so `CHECK_DEADLOCK FALSE`.
- `boot`: the code's own numbers but for the pages of a table, all but the first of
  which are alike. The exceptions are one of a known gate, the shared gate's, the
  missing gate 11 and the page fault.
- `blink`: words of 2 bits have lengths of 0, of 1 and beyond the sign; three blocks
  are a head, a middle and an end; two locations let a list have two blinks of one
  place.

Fairness. Nothing in the safety runs. `ReaderFairness`: the loops of a read are
the only code on the processor while their terminal is on the screen, so a step of
theirs that stays possible is taken. `WF_vars(Tick)`: `rtc_init` enables the
periodic interrupt and nothing disables it. `UserFairness`: while its terminal is
on the screen a program has the processor, and a key it waits for comes; and the
user comes back to every terminal, strongly, because a switch is only possible
from another one. Boot: weak fairness of the boot code, of a shell on its way to
its first read, which runs with the interrupts off, and of the keyboard's
interrupt: its line comes before the clock's at the 8259, so ticks cannot hold it
back. No user is ever made to press Enter on a line, and no program to call read,
except in `userland`, where programs are followed to their ends.

Deadlock is checked in all runs but the two named.

## What the code does otherwise

Behaviour met while modelling which a doc or comment denies, or a reader would not
expect. The models have all of it; it is the reason for the conditions in the
properties.

- The status given to halt is lost: `system_halt` jumps to the end of
  `system_execute`, which returns 0 (syscalls.c:336).
- `keyboard_read` is one flag for all terminals (terminal.c:369, 380). Enter on a
  terminal whose program is busy, then Alt+Fn to one whose shell waits, ends that
  shell's read with its previous line; the busy terminal's line then stays unread.
- A letter between the two stores at the end of `clear_buffer` (terminal.c:353),
  called with the interrupts on, leaves position 1 and size 0; a Backspace then
  takes the size to 2^32 - 1.
- Enter while `terminal_read` copies (terminal.c:373-377), which it does with the
  interrupts on, rewrites the buffer under it: the program gets the start of one
  line and the end of another, a line longer than either, or, when the Enter falls
  between the test of a byte and its copy, a NUL inside its text. The new line's
  flag is then lowered with the old one's (terminal.c:380).
- A tick from before the call ends `rtc_read` at once (rtc.c:135). `rtc_open_flag` is
  never set.
- No number is refused by `rtc_write` (rtc.c:100): what is no power of two is
  rounded.
- `read_data` clips the number of blocks of a read past the end to those of the rest
  of the file and then skips the offset's blocks from it (fs.c:186-211). Such a
  read returns bytes of the wrong blocks unless the file's blocks follow each
  other, which they do in the images the tools make.
- err_unopened of syserr fails in "run all": err_open_lots before it leaves its
  descriptors open. It returns 2 whatever happens (src/syscalls/ece391syserr.c:174),
  though the comment at 141-144 says 0 for a pass.
- The position of an empty line after Enter is the one before the newline, so every
  second Enter on an empty line stays in its row (terminal.c:163).
- With Alt held, Enter and then Alt+F2 and Alt+F1 bring an empty line back one row
  up, over what the screen shows there, although `src/Bug Log.txt:22` has this as
  fixed: the next key stores the position from before the newline (terminal.c:163),
  and Alt+Fn is that key. Erasing the last letter with Alt held, and a message of
  the kernel (syscalls.c:270, 353) after the last key, do the same by a column or a row.
- Every page is mapped for the user (paging.c:80, 132), so programs and kernel are
  apart in addresses only: nothing keeps a program from writing the kernel's page.
- A line wraps forward when a letter is typed in column 79, which is its 73rd behind
  the prompt, and back when an erasure leaves 79 letters (terminal.c:306).
- Returning to a half-typed line puts the position at the line's beginning until
  Enter; the echo of a line on one terminal uses the offset of another's
  (terminal.c:337).
- `ece391_getargs` of the Linux host stores a NUL behind the buffer when a word ends
  exactly at its end, and then fails.
- The copies of memmove backwards leave the direction flag set (lib.c:529).
- The gate of vector 9 holds `divide_error`, gate 11 is not present and leads to the
  double fault. Alt+Fn before the first shell has its pcb faults, then or when the
  user comes back to terminal 1.
- `mp1_ioctl_sync` always shows the off character: `testb` leaves no sign for the
  conditional move behind it. A length beyond 2^15 - 1 is over at once. fish.c:67
  passes its loop counter, not the location, to RTC_REMOVE. A blink at location 0
  would be given out again; fish never asks for one.

## What is proved

Every theorem holds for all values of the constants that the named assumptions of
the component's module allow, and the runs evaluate those assumptions. Each safety
theorem follows from one inductive invariant: a lemma that the initial states have
it, one lemma per action (or group of actions) that it is kept, one that puts them
together, and the theorem from it in a line or two. The action properties and
refinements are proved step by step from the same invariants.

| module | assumptions | theorems |
|---|---|---|
| `ProcessesProofs` | `SizesAssumption`, `NamesAssumption` of `Processes` | `TypeOK`, `RunsFrontProgram`, `SavedContextIsOfFrontProgram`, `HaltReturnsToParent`, `PagesHoldTheirPrograms`, `OthersUntouched`, `ProcessTableAddsUp`, `RefinesTerminalStacks`, and the chains of parents and their counts |
| `UserlandProofs` | `FilesAssumption`, `FirstAssumption`, `DirectoryAssumption` of `Files`; `UserlandAssumption`, `ImageAssumption`, `SyserrAssumption` of `Userland` | under `PoliteSpec`: `FilesHaveTheirProgram`, `RefinesOpenFiles`; under `UserSpec`, with `OneFileTerminal`: `UsersTakeTurns`, hence the two before it again, `WholeFilesAreRead` and `ErrorTestsPass`; with `FramesThere` as well: `ProgramsGetTheirData` |
| `TerminalProofs` | `SizesAssumption`, `LettersAssumption` of `Terminal` | under `UnhurriedSpec`: `BuffersAreSound`, `ReadGivesTheLine`; under `PatientSpec`: `RefinesLineDiscipline` |
| `ScreenProofs` | `ScreenAssumption` | `PositionOnScreen`, `TerminalsKeepTheirScreens`, `EchoShowsTheLine`, `NextLetterFollows` |
| `FunctionsProofs` | `FileDataAssumption`, `CommandsAssumption`, `EmulateAssumption`, `LibraryAssumption`, `BoundsAssumption` and `CharactersAssumption` of the functions, `SizesAssumption` of `Rtc` | under `CallSpec`: `ReadsReturnTheFile`, `ArgumentsReachTheProgram`, `SystemCallsReachTheirHandlers`, `KeysTypeTheirCharacters`; of the clock: `ClockIsSound`, `TicksAreNotShared`, `ValidFrequenciesAreSet`, and that every rate `rtc_write` computes fits |
| `BootProofs` | `SizesAssumption`, `NullAssumption` of `Boot` | `MachineStopsForAReason`, `MemoryIsApart` |
| `BlinkProofs` | `SizesAssumption` of `Blink` | `PoolIsListed`, `CellsShowTheirBlinks`, `RefinesBlinkList` |

`DataLemmas` has what several of them need: the least and the greatest of a set of
numbers, what holds by counting up from 0, the elements of a sequence, its front and
its prefixes, sequences one after the other, and that a definition by recursion on
0 .. n or on the numbers has the values it is written with. The library's induction
theorems cannot be instantiated here, so each induction takes the least number
for which a statement fails and refutes it (`LeastNumber`); the recursive
functions of the models (`Chain`, `puts`, `MovedBy`) are unfolded through
`RecursionOn`, which is proved the same way.

Why the invariants are what they are:

- `IndInv` of `ProcessesProofs`. That a halt leaves the processor in the right
  program needs `HaltReturnsToParent`; that the parent it returns to is a live
  program in a slot of its own needs to know that the parent pointers form chains
  that do not meet; that the relaunch of a first shell finds its own slot again
  needs every smaller slot to be taken, hence that first shells never move; and
  that `num_progs` is zero exactly on unvisited terminals needs it to count the
  programs of a chain. So `IndInv` adds `ChainsAreDisjoint` (a chain ends in NULL
  at slot t for terminal t and nowhere else, no two taken slots have the same
  parent, and no front program is a parent), `Ownership` (there are an owner and a
  depth for every taken slot, inherited along parent pointers, with `num_progs`
  the depth of the front program), and what unvisited terminals and the state
  before the boot look like.
- `StackInv` is `IndInv` and that there is a sequence of slots for
  every terminal whose neighbours are parent and child, which share out the taken
  slots. Each action says what becomes of these sequences: one grows, one shrinks,
  or all stay. `ChainsAreStacks` shows that the recursive `Chain` computes them,
  which is how the statements about whole chains and the refinement follow.
- `FilesInv`: the stacks are those of `TerminalStacks`, every table has the two
  terminal descriptors in their places, and `FilesHaveTheirProgram`. Without the
  first, the pcb of fs.c could belong to a program that is no longer placed;
  without the second, a halt could leave a descriptor behind.
- `UsersInv` adds to `FilesInv` where each program is: a program that waits for another
  is a shell, one that opens files is on a terminal where such commands are typed, and
  whoever has a file open is a program that opens files. `OneFileTerminal` (the programs that open files run
  on one terminal) is what the one `pcb` of fs.c asks of users, and `MCUserland` gives
  its constants that shape and assumes it, so TLC evaluates it.
- `DataInv` adds what the program in front has made of its files (`Sound`): what it has
  printed, with what it has read and not yet printed, is the part of its file that the
  position of its descriptor has passed (`Holds`); for ls the names of the entries
  before the position, for grep the whole files before it and the part of the current
  one; for fish, of each of its frames apart, since it reads them in turns. A program
  that closes after a read of 0 has therefore the whole file. A test of syserr begins, and is left by each refused call, with
  the table of a program just executed. `FramesThere` says the
  two frames of fish are in the directory and a program has descriptors for both.
  TLC checked both invariants on the states of the run `userland` first.
- The copy loop of `read_data`: `Counted` (the blocks still counted and the bytes still
  wanted never overtake the end of the file) gives the number of bytes for every
  request; `Exact` (the count and the position end in the same block) gives the bytes.
  The rounds are counted down by the least number of blocks for which a copy fails.
- `CallsInv` is that the call of `MCFunctions` is one of the inputs and its result, once
  called, that of the function. The statements then are about the functions alone:
  `Tidy`, kept by every call of an emulated program (its descriptors are different, all
  that is open is one of them, the directory's stream or the memory, and the
  directory's is the one it opened), and `FlagsTell`, kept by every scan code (a flag
  is up exactly while a key of its kind is held, Caps Lock after an odd number of
  presses). For the arguments on a host it is `Spelled`: when the parser has come to a
  place, getargs has stored the characters of the arguments before it, the last one a
  space, or has failed because they do not fit (`WordSpelled`, a word at a time).
- `TerminalInv` says of every terminal what its buffers hold at each place a read
  can be interrupted at, and that only the terminal on the screen is inside one. Of a
  copy it says that the buffer is one of the lines `seen`, that every byte copied so
  far comes from its place in one of them, and that the bytes are the beginning of
  the line as long as there is one.
  `PatientInv` adds that a line is unread exactly while the shared flag is up, on
  the terminal on the screen: that is what makes one flag enough for a patient
  user.
- `ScreenInv`: the copy of a screen is what it was when it was left, and its line
  begins where it was left, if the line is empty and neither broken nor strayed. A
  switch needs the latter of the terminal it leaves. It has it as long as no Enter,
  erasure or message of the kernel comes between the press of Alt and Fn: that press
  takes an empty line to begin where the screen is, and
  `terminal_write` moves the beginning as `putc` moves the position
  (`BeginningFollowsOutput`).
- `EchoKept`: a line whose echo is not broken is in one row, short of its last
  cell, while the offset is 0, and behind the prompt and at the beginning of the
  next while the offset is the rest of the first row; a line of a terminal off the
  screen is in one row of the copy of its screen, because there is one offset for
  all terminals. What a text does to the cells is shown character by character
  (`WritesInRow`, `WritesToTheEnd`): it goes where it should and leaves the cells
  before it alone, and a row that fills on the last line of the screen stays above
  the new one. TLC
  checked `EchoKept` on the states of the run `screen` before it was proved.
- `RtcInv`: besides the clock's own registers, that the flag is up because of a
  tick nobody has used or because the read it ended has yet to lower it.
- `BootInv` fixes, for every stage of the boot, which tables are in place, which
  pages are mapped and which terminals have programs; Alt+Fn in the middle of it
  is what makes most of it necessary.
- `BlinkInv`: the blocks of `Listed` are different and each leads to the next, the
  head to the first and the last to NULL (`Linked`), and a block has a location
  exactly if it is among them. `Linked` determines the list (`ListedIs`: the walk
  from the head goes through it and stops), so each command is shown to leave a list
  that is linked, and that list is what the loops walk next. A tick is an induction
  over the list (`PokedIs`): the cell has the character of the last block so far
  that turned there.

Model-checked only:

- all liveness (`EveryLineIsRead`, `BlockedReadReturns`, `ProgramsReturn`,
  `EveryKeyIsServed`), which is out of the provers' reach;
- `LibraryFunctionsAgree` and `GrepFindsTheLines`: the loops of lib.c and of grep are
  folds and recursions over memories and texts, whose values for every input need an
  induction over the data.

## What is not modelled

- The depth of the kernel stacks: relaunching first shells leaves frames behind
  (syscalls.c:354), `reload_program` lowers esp0 (syscalls.c:696) and the frames of
  the first shells of terminals 2 and 3 lie on the boot stack (syscalls.c:139). How
  much each takes is up to the compiler.
- The bits of descriptors and page table entries beyond address, presence and size;
  the printed multiboot information; the hardware cursor and the colours.
- `sigtest`, which needs signals this kernel does not have, and ends in a page fault
  that stops the machine; `sched`, which calls an `itoa` the programs are not linked
  with and is not built.
- `syscall_handler.S`, which no gate leads to; `createfs` and `elfconvert`, whose
  source is not in the repository; the older copies in `src/save` and `src/backup`.

## Plan

1. `KernelStack`: the depth of each stack in frames instead of bytes.
2. `Kernel`: `Processes` with `Terminal` and `Rtc` in place of its abstract read.
3. The loops of `Library` as functions with an argument, as `FileData!CopyBlocks` is,
   to prove `LibraryFunctionsAgree`.
