------------------------------- MODULE Screen -------------------------------
(***************************************************************************)
(* The screen: the character output of lib.c (putc, scrolling, the         *)
(* position), the echo of the keyboard in terminal.c, terminal_write, and  *)
(* the copies switch_terminal makes of the video memory.                   *)
(*                                                                         *)
(* The contents of a line do not matter to this code: the k-th character   *)
(* of a line is the k-th of Letters.  A keyboard interrupt and a system    *)
(* call are each one step, as both run with the interrupts off; how a read *)
(* meets the keyboard is the subject of Terminal.  The colour of a cell is *)
(* always ATTRIB and is left out, and so is the cursor of the hardware.    *)
(***************************************************************************)
EXTENDS Integers, Sequences, SequencesExt

CONSTANTS
    Terminal,      \* the terminals
    FirstShown,    \* the terminal on the screen at boot
    NUM_COLS,      \* 80 in the code
    NUM_ROWS,      \* 25 in the code
    LINE_BUFFER,   \* 128 in the code
    Prompt,        \* "391OS> ": the prompt of the shell
    Letters,       \* the characters of a line, in the order they are typed
    Outputs,       \* what a program may write
    Messages       \* what the kernel itself may print

BYTE == 256

OFFSET_X == Len(Prompt)

Characters ==
    {" ", "\n"} \cup ToSet(Prompt) \cup ToSet(Letters)
                \cup UNION {ToSet(text) : text \in Outputs \cup Messages}

(* A line takes at most two rows, as it does in the code.  Its characters  *)
(* do not end it: Enter has a branch of its own.                           *)
ASSUME ScreenAssumption ==
    /\ NUM_COLS \in Nat \ {0} /\ NUM_ROWS \in 2 .. BYTE - 1 /\ LINE_BUFFER \in Nat
    /\ {Prompt, Letters} \cup Outputs \cup Messages \subseteq Seq(Characters)
    /\ "\n" \notin ToSet(Prompt) \cup ToSet(Letters)
    /\ OFFSET_X < NUM_COLS
    /\ LINE_BUFFER - 2 < 2 * NUM_COLS - OFFSET_X
    /\ Len(Letters) >= LINE_BUFFER - 2
    /\ FirstShown \in Terminal

VARIABLES
    screen,          \* video memory, screen_x and screen_y
    start_position,  \* of each terminal: where its line begins
    line,            \* key_line_buffer up to cur_buffer_size
    buf_offset,      \* characters of the line in the row above
    curr_terminal,   \* the terminal on the screen
    vbuffer,         \* VBUFFER1 to VBUFFER3
    alt_pressed,     \* the Alt key is held
    keyboard_read,   \* Enter was pressed
    task,            \* what the program of each terminal does next
    left,            \* history: the screen of a terminal when it was left
    echo             \* history: what became of the line of each terminal

screenVars == <<screen, start_position, line, buf_offset, curr_terminal, vbuffer,
                alt_pressed, keyboard_read, task, left, echo>>

-----------------------------------------------------------------------------
(* lib.c.                                                                  *)

Cells == 0 .. NUM_ROWS * NUM_COLS - 1

Blank == [i \in Cells |-> " "]

Position(x, y) == [x |-> x, y |-> y]

Scrolled(cells) ==
    [i \in Cells |-> IF i + NUM_COLS \in Cells THEN cells[i + NUM_COLS] ELSE " "]

scrollscreen(s) ==
    IF s.y # NUM_ROWS THEN s
    ELSE [s EXCEPT !.cells = Scrolled(@), !.y = @ - 1]

(* Mutant: a row below the screen is kept.                                 *)
set_new_position_below(s, x, y) ==
    [s EXCEPT !.x = x % NUM_COLS, !.y = (y + (x \div NUM_COLS)) % BYTE]

(* A column off the screen is in another row, a row above the screen is    *)
(* counted from its end, and one below it is the last.                     *)
set_new_position(s, x, y) ==
    LET row == y + (x \div NUM_COLS)
    IN  [s EXCEPT !.x = x % NUM_COLS,
                  !.y = IF row >= NUM_ROWS THEN NUM_ROWS - 1 ELSE row % NUM_ROWS]

putc(s, c) ==
    IF c = "\n" THEN scrollscreen([s EXCEPT !.x = 0, !.y = @ + 1])
    ELSE LET put == [s EXCEPT !.cells[NUM_COLS * s.y + s.x] = c]
         IN  IF s.x + 1 = NUM_COLS
               THEN scrollscreen([put EXCEPT !.x = 0, !.y = @ + 1])
               ELSE [put EXCEPT !.x = @ + 1]

puts(s, text) ==
    LET after[n \in 0 .. Len(text)] ==
            IF n = 0 THEN s ELSE putc(after[n - 1], text[n])
    IN  after[Len(text)]

get_cur_position(s) == Position(s.x, s.y)

-----------------------------------------------------------------------------
(* What the keyboard functions of terminal.c do to the screen.             *)

T == curr_terminal

Here == get_cur_position(screen)

At(s, position) == set_new_position(s, position.x, position.y)

(* The text from its offset on: nothing when that lies behind its end.     *)
From(text, offset) == SubSeq(text, offset + 1, Len(text))

print_line_buffer(s, position, text, offset) == puts(At(s, position), From(text, offset))

LineFull == Len(line[T]) >= LINE_BUFFER - 2

(* Mutant: the line begins where the last one did.                         *)
BeganBefore(starts, lines) == starts

(* The keyboard handler moves the beginning of an empty line to where the  *)
(* screen was when the key came.                                           *)
Began(starts, lines) ==
    IF lines[T] = <<>> THEN [starts EXCEPT ![T] = Here] ELSE starts

(* A line is "calm" while its echo is where it was typed, "left" once its  *)
(* terminal was left and returned to, which puts the position back to its  *)
(* beginning, and "broken" after something the echo does not follow: an    *)
(* offset that is not its own, a wrap or an erasure it does not expect,    *)
(* output in the middle of it.  An empty line is "strayed" while the       *)
(* screen has gone on without its beginning: after Enter, after its last   *)
(* character was erased, after a message of the kernel, until the next key.*)
Echo(kind) == echo' = [echo EXCEPT ![T] = kind]

WrapsInPlace(begin, size) ==
    begin.x = OFFSET_X /\ size = NUM_COLS - OFFSET_X /\ buf_offset = 0

(* A key that leaves an empty line has put its beginning to the screen.    *)
EchoAfterKey == Echo(IF line'[T] = <<>> THEN "calm" ELSE echo[T])

EchoAfterLetter(begin, size, wraps) ==
    CASE size = 1 -> IF buf_offset = 0 /\ ~wraps THEN "calm" ELSE "broken"
      [] size > 1 /\ wraps ->
           IF echo[T] = "calm" /\ WrapsInPlace(begin, size) THEN "calm" ELSE "broken"
      [] size > 1 /\ ~wraps ->
           IF echo[T] = "left" /\ begin.x + size >= NUM_COLS THEN "broken" ELSE echo[T]

(* Mutant: the prompt is not counted.                                      *)
FullRow == NUM_COLS

(* The characters of a line in its first row, behind the prompt.           *)
FirstRow == NUM_COLS - OFFSET_X

(* keyboard_abstraction, for a key that has a character.                   *)
TypeLetter ==
    /\ ~alt_pressed
    /\ ~LineFull
    /\ LET size  == Len(line[T]) + 1
           text  == Append(line[T], Letters[size])
           begin == Began(start_position, line)[T]
           shown == print_line_buffer(screen, begin, text, buf_offset)
           wraps == Here.x + 1 = NUM_COLS
           below == Position(0, (begin.y + 1) % BYTE)
       IN  /\ line' = [line EXCEPT ![T] = text]
           /\ Echo(EchoAfterLetter(begin, size, wraps))
           /\ IF wraps
                THEN /\ start_position' = [start_position EXCEPT ![T] = below]
                     /\ screen' = At(shown, below)
                     /\ buf_offset' = FirstRow
                ELSE /\ start_position' = [start_position EXCEPT ![T] = begin]
                     /\ screen' = At(shown, Position(Here.x + 1, Here.y))
                     /\ UNCHANGED buf_offset
    /\ UNCHANGED <<curr_terminal, vbuffer, alt_pressed, keyboard_read, task, left>>

(* do_backspace, whether Alt is held or not; the beginning of a line that  *)
(* is now empty is put to where the screen was before it.                  *)
Erase ==
    LET size  == Len(line[T]) - 1
        text  == Front(line[T])
        back  == size = NUM_COLS - 1
        begin == IF back THEN [start_position[T] EXCEPT !.y = (@ - 1) % BYTE]
                         ELSE start_position[T]
        from  == IF back THEN Position(NUM_COLS - 1, (Here.y - 1) % BYTE) ELSE Here
        offset == IF back THEN 0 ELSE buf_offset
        shown == putc(print_line_buffer(screen, begin, text, offset), " ")
        starts == [start_position EXCEPT ![T] = begin]
    IN  /\ line' = [line EXCEPT ![T] = text]
        /\ buf_offset' = offset
        /\ screen' = set_new_position(shown, from.x - 1, from.y)
        /\ start_position' = Began(starts, line')
        /\ Echo(IF text = <<>> THEN "strayed"
                ELSE IF buf_offset # 0 THEN "broken" ELSE echo[T])

Backspace ==
    /\ \/ line[T] # <<>> /\ Erase
       \/ /\ line[T] = <<>>
          /\ start_position' = Began(start_position, line)
          /\ UNCHANGED <<screen, line, buf_offset>>
          /\ EchoAfterKey
    /\ UNCHANGED <<curr_terminal, vbuffer, alt_pressed, keyboard_read, task, left>>

(* do_enter, whether Alt is held or not; the handler then takes the line,  *)
(* now empty, to begin where the screen was before it.                     *)
Enter ==
    /\ screen' = print_line_buffer(screen, start_position[T],
                                   Append(line[T], "\n"), buf_offset)
    /\ line' = [line EXCEPT ![T] = <<>>]
    /\ start_position' = [start_position EXCEPT ![T] = Here]
    /\ keyboard_read' = TRUE
    /\ buf_offset' = 0
    /\ Echo("strayed")
    /\ UNCHANGED <<curr_terminal, vbuffer, alt_pressed, task, left>>

(* A key without a character: Shift, Ctrl and the others; while Alt is     *)
(* held, a letter too.                                                     *)
OtherKey ==
    /\ start_position' = Began(start_position, line)
    /\ UNCHANGED <<screen, line, buf_offset, curr_terminal, vbuffer, alt_pressed,
                   keyboard_read, task, left>>
    /\ EchoAfterKey

AltPress ==
    /\ ~alt_pressed
    /\ alt_pressed' = TRUE
    /\ start_position' = Began(start_position, line)
    /\ UNCHANGED <<screen, line, buf_offset, curr_terminal, vbuffer, keyboard_read,
                   task, left>>
    /\ EchoAfterKey

AltRelease ==
    /\ alt_pressed
    /\ alt_pressed' = FALSE
    /\ UNCHANGED <<screen, start_position, line, buf_offset, curr_terminal, vbuffer,
                   keyboard_read, task, left, echo>>

(* Ctrl and L: an empty screen with the prompt and the line.               *)
ClearScreen ==
    /\ ~alt_pressed
    /\ LET empty == [screen EXCEPT !.cells = Blank, !.x = 0, !.y = 0]
           fits  == Len(line[T]) < NUM_COLS - OFFSET_X
       IN  /\ screen' = print_line_buffer(puts(empty, Prompt), Position(OFFSET_X, 0),
                                          line[T], 0)
           /\ Echo(IF fits <=> buf_offset = 0 THEN "calm" ELSE "broken")
    /\ start_position' = [start_position EXCEPT ![T] =
           IF buf_offset = 0 THEN Position(OFFSET_X, 0) ELSE Position(0, 1)]
    /\ UNCHANGED <<line, buf_offset, curr_terminal, vbuffer, alt_pressed,
                   keyboard_read, task, left>>

-----------------------------------------------------------------------------
(* update_and_switch and the copies of switch_terminal.                    *)

EchoAfterSwitch ==
    [t \in Terminal |-> IF line[t] # <<>> /\ buf_offset # 0 THEN "broken"
                        ELSE IF t = T /\ echo[t] = "calm" THEN "left" ELSE echo[t]]

(* Mutant: the new screen is brought in before the old one is kept.        *)
KeptTooLate(t) == vbuffer[t]

(* What is kept of the screen that is left for terminal t.                 *)
Kept(t) == screen.cells

Switch(t) ==
    /\ alt_pressed
    /\ t # T
    /\ vbuffer' = [vbuffer EXCEPT ![T] = Kept(t)]
    /\ screen' = [At(screen, start_position[t]) EXCEPT !.cells = vbuffer[t]]
    /\ curr_terminal' = t
    /\ left' = [left EXCEPT ![T] = screen]
    /\ echo' = EchoAfterSwitch
    /\ UNCHANGED <<start_position, line, buf_offset, alt_pressed, keyboard_read, task>>

(* The key of the terminal on the screen: the position still moves.        *)
SwitchToSame ==
    /\ alt_pressed
    /\ screen' = At(screen, start_position[T])
    /\ start_position' = Began(start_position, line)
    /\ Echo(IF line[T] # <<>> /\ buf_offset # 0 THEN "broken"
            ELSE IF echo[T] = "calm" THEN "left" ELSE echo[T])
    /\ UNCHANGED <<line, buf_offset, curr_terminal, vbuffer, alt_pressed,
                   keyboard_read, task, left>>

-----------------------------------------------------------------------------
(* The program on the screen: it reads a line, writes, and in the end the  *)
(* shell writes its prompt.                                                *)

Moved(position, c) ==
    IF position.x + 1 = NUM_COLS \/ c = "\n"
      THEN Position(0, IF position.y + 1 >= NUM_ROWS THEN NUM_ROWS - 1
                       ELSE position.y + 1)
      ELSE Position(position.x + 1, position.y)

MovedBy(position, text) ==
    LET after[n \in 0 .. Len(text)] ==
            IF n = 0 THEN position ELSE Moved(after[n - 1], text[n])
    IN  after[Len(text)]

terminal_write(text) ==
    /\ screen' = puts(screen, text)
    /\ start_position' = [start_position EXCEPT ![T] = MovedBy(@, text)]
    /\ Echo(IF line[T] # <<>> THEN "broken" ELSE echo[T])
    /\ UNCHANGED <<line, buf_offset, curr_terminal, vbuffer, alt_pressed,
                   keyboard_read, left>>

WritePrompt ==
    /\ task[T] = "prompt"
    /\ terminal_write(Prompt)
    /\ task' = [task EXCEPT ![T] = "read"]

(* A program writes and ends, or writes and reads a line of its own.       *)
WriteOutput(text) ==
    /\ task[T] = "run"
    /\ terminal_write(text)
    /\ \E next \in {"prompt", "read"} : task' = [task EXCEPT ![T] = next]

(* The kernel's own printf, in system_execute and in relaunch_shell, moves *)
(* the screen and not the beginning of the line; a prompt comes next.      *)
KernelPrints(text) ==
    /\ task[T] = "run"
    /\ screen' = puts(screen, text)
    /\ task' = [task EXCEPT ![T] = "prompt"]
    /\ Echo(IF line[T] # <<>> THEN "broken" ELSE "strayed")
    /\ UNCHANGED <<start_position, line, buf_offset, curr_terminal, vbuffer,
                   alt_pressed, keyboard_read, left>>

(* terminal_read returns; clear_buffer leaves buf_offset as it is.         *)
ReadReturns ==
    /\ task[T] = "read"
    /\ keyboard_read
    /\ line' = [line EXCEPT ![T] = <<>>]
    /\ keyboard_read' = FALSE
    /\ task' = [task EXCEPT ![T] = "run"]
    /\ Echo(IF line[T] # <<>> THEN "broken" ELSE echo[T])
    /\ UNCHANGED <<screen, start_position, buf_offset, curr_terminal, vbuffer,
                   alt_pressed, left>>

-----------------------------------------------------------------------------
Clear == [cells |-> Blank, x |-> 0, y |-> 0]

Init ==
    /\ screen = Clear
    /\ start_position = [t \in Terminal |-> Position(0, 0)]
    /\ line = [t \in Terminal |-> <<>>]
    /\ buf_offset = 0
    /\ curr_terminal = FirstShown
    /\ vbuffer = [t \in Terminal |-> Blank]
    /\ alt_pressed = FALSE
    /\ keyboard_read = FALSE
    /\ task = [t \in Terminal |-> "prompt"]
    /\ left = [t \in Terminal |-> Clear]
    /\ echo = [t \in Terminal |-> "calm"]

Typing == TypeLetter \/ Backspace \/ Enter \/ OtherKey \/ ClearScreen

Alternating ==
    AltPress \/ AltRelease \/ SwitchToSame \/ \E t \in Terminal : Switch(t)

Writing ==
    \/ WritePrompt \/ ReadReturns
    \/ \E text \in Outputs : WriteOutput(text)
    \/ \E text \in Messages : KernelPrints(text)

Next == Typing \/ Alternating \/ Writing

Spec == Init /\ [][Next]_screenVars

-----------------------------------------------------------------------------
(* Properties.                                                             *)

Row(position) == IF position.y >= NUM_ROWS THEN NUM_ROWS - 1 ELSE position.y

(* The cell in which the line on the screen begins.                        *)
Beginning ==
    IF buf_offset = 0
      THEN NUM_COLS * Row(start_position[T]) + start_position[T].x
      ELSE NUM_COLS * (Row(start_position[T]) - 1) + OFFSET_X

ShownFrom(i) ==
    \A k \in DOMAIN line[T] : i + k - 1 \in Cells /\ screen.cells[i + k - 1] = line[T][k]

(* The position is on the screen, also after the row a line begins in has  *)
(* been counted below zero (terminal.c:306) or past the last.              *)
PositionOnScreen == screen.x \in 0 .. NUM_COLS - 1 /\ screen.y \in 0 .. NUM_ROWS - 1

(* The line being typed is on the screen from where it began, in one row   *)
(* or wrapped into a second one (Bug Log.txt:10), scrolled or not, also    *)
(* after other terminals have been on the screen (Bug Log.txt:22); unless  *)
(* its echo is broken.                                                     *)
EchoShowsTheLine ==
    line[T] # <<>> /\ echo[T] # "broken" => ShownFrom(Beginning)

(* The next character of a calm line goes behind its last (Bug Log.txt:5). *)
NextLetterFollows ==
    line[T] # <<>> /\ echo[T] = "calm" =>
        NUM_COLS * screen.y + screen.x = Beginning + Len(line[T])

(* A terminal returns with the cells it was left with, whatever was        *)
(* written on the others meanwhile, and if its line is empty with the      *)
(* position too (Bug Log.txt:22), however often Alt+Fn was pressed in      *)
(* between.  It does not if nothing but Enter, Backspace or a message of   *)
(* the kernel came between the last key and Alt+Fn: with Alt held, Enter   *)
(* and Alt+Fn there and back, the position is a row further up.            *)
TerminalsKeepTheirScreens ==
    [][curr_terminal' # curr_terminal =>
         /\ screen'.cells = left[curr_terminal'].cells
         /\ line[curr_terminal'] = <<>> /\ echo[curr_terminal'] \in {"calm", "left"} =>
              get_cur_position(screen') = get_cur_position(left[curr_terminal'])]_screenVars
=============================================================================
