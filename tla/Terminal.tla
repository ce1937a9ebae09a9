------------------------------ MODULE Terminal ------------------------------
(***************************************************************************)
(* The line discipline of terminal.c: what keyboard_handler does to the    *)
(* line buffers, against terminal_read, which waits for a line and copies  *)
(* it to the program.                                                      *)
(*                                                                         *)
(* Programs only run on the terminal on the screen, and terminal_read is   *)
(* the code they may be interrupted in: every step of its loops is an      *)
(* action.  The keyboard handler runs to its end with the interrupts off:  *)
(* one action per key.  Where text lands on the screen, the cursor, the    *)
(* table a character is taken from (Shift, Ctrl, Caps Lock) and Ctrl+L,    *)
(* which only repaints, are left out.                                      *)
(***************************************************************************)
EXTENDS Integers, Sequences, FiniteSetsExt

CONSTANTS
    MAX_TERMINALS,   \* number of terminals (terminal.h:13)
    LINE_BUFFER,     \* size of a line buffer (terminal.h:12)
    WORD,            \* 2^32 in the code: the range of an unsigned counter
    Letters,         \* the characters the user types on each terminal
    ReadSizes        \* the nbytes that programs pass to read

NUL     == 0
NewLine == 10

Terminals == 0 .. MAX_TERMINALS - 1

ASSUME SizesAssumption ==
    /\ MAX_TERMINALS \in Nat \ {0}
    /\ LINE_BUFFER \in Nat /\ LINE_BUFFER > 2
    /\ WORD \in Nat /\ WORD > LINE_BUFFER
    /\ ReadSizes \subseteq Nat

(* The code never looks at which letter it handles, so the user can be     *)
(* given letters of its own on each terminal: a character in a buffer then *)
(* tells where it was typed.                                               *)
ASSUME LettersAssumption ==
    /\ Letters \in [Terminals -> SUBSET (Nat \ {NUL, NewLine})]
    /\ \A t, u \in Terminals : t # u => Letters[t] \cap Letters[u] = {}

Cells == 0 .. LINE_BUFFER - 1
Chars == {NUL, NewLine} \cup UNION {Letters[t] : t \in Terminals}

VARIABLES
    curr_terminal,         \* the terminal on the screen
    alt_pressed,
    key_line_buffer,       \* the line being typed on each terminal
    cur_buffer_position,   \* where the next character goes
    cur_buffer_size,       \* how many characters there are
    key_read_buffer,       \* the last line entered on each terminal
    keyboard_read,         \* whether Enter was pressed: one flag for all
    pc,                    \* where the program in front of each terminal is
    i,                     \* terminal_read's index
    nbytes,                \* terminal_read's argument
    buf,                   \* what terminal_read has copied so far
    received,              \* what the last read of each terminal returned
    unread,                \* history: no read has copied the entered line yet
    seen                   \* history: the lines a read has found in its buffer

keyVars  == <<alt_pressed, key_line_buffer, cur_buffer_position,
              cur_buffer_size, key_read_buffer>>
readVars == <<pc, i, nbytes, buf, received>>
history  == <<unread, seen>>
vars     == <<curr_terminal, keyVars, keyboard_read, readVars, history>>

Init ==
    /\ curr_terminal = 0
    /\ alt_pressed = FALSE
    /\ key_line_buffer = [t \in Terminals |-> [k \in Cells |-> NUL]]
    /\ cur_buffer_position = [t \in Terminals |-> 0]
    /\ cur_buffer_size = [t \in Terminals |-> 0]
    /\ key_read_buffer = [t \in Terminals |-> [k \in Cells |-> NUL]]
    /\ keyboard_read = FALSE
    /\ pc = [t \in Terminals |-> "user"]
    /\ i = [t \in Terminals |-> 0]
    /\ nbytes = [t \in Terminals |-> 0]
    /\ buf = [t \in Terminals |-> <<>>]
    /\ received = [t \in Terminals |-> <<>>]
    /\ unread = [t \in Terminals |-> FALSE]
    /\ seen = [t \in Terminals |-> {}]

-----------------------------------------------------------------------------
(* The string at the start of a buffer, up to its first NUL.               *)
StringLength(row) == Min({k \in Cells : row[k] = NUL} \cup {LINE_BUFFER})
Contents(row)     == [k \in 1 .. StringLength(row) |-> row[k - 1]]

(* What a read of n bytes takes of a buffer.                               *)
Prefix(row, n) == SubSeq(Contents(row), 1, Min({n, StringLength(row)}))

(* strncpy stops at a NUL and fills the rest with NUL.                     *)
Strncpy(row) == [k \in Cells |-> IF k < StringLength(row) THEN row[k] ELSE NUL]

(* A store beyond the end of a row leaves the row alone.                   *)
Store(row, k, c) == IF k \in Cells THEN [row EXCEPT ![k] = c] ELSE row

(* keyboard_abstraction makes room at the position and stores the letter.  *)
Insert(row, pos, size, c) ==
    Store([k \in Cells |-> IF pos < k /\ k <= size THEN row[k - 1] ELSE row[k]],
          pos, c)

(* do_backspace closes the gap; the cell behind the row is not of the row. *)
Shifted(row, pos, size) ==
    [k \in Cells |-> IF pos <= k /\ k <= size + 1 /\ k + 1 \in Cells
                       THEN row[k + 1] ELSE row[k]]

Decrement(x) == (x - 1) % WORD

-----------------------------------------------------------------------------
(* keyboard_handler.                                                       *)

(* Mutant: room is kept for nothing but the newline.                       *)
RoomForOneMore(t) == cur_buffer_size[t] < LINE_BUFFER

HasRoom(t) == cur_buffer_size[t] < LINE_BUFFER - 2

(* A letter, with or without Shift, Caps Lock or Ctrl: ignored while Alt   *)
(* is held and when the line is full.                                      *)
TypeLetter(t, c) ==
    /\ ~alt_pressed
    /\ HasRoom(t)
    /\ key_line_buffer' = [key_line_buffer EXCEPT ![t] =
                             Insert(@, cur_buffer_position[t], cur_buffer_size[t], c)]
    /\ cur_buffer_position' = [cur_buffer_position EXCEPT ![t] = @ + 1]
    /\ cur_buffer_size' = [cur_buffer_size EXCEPT ![t] = @ + 1]
    /\ UNCHANGED <<curr_terminal, alt_pressed, key_read_buffer, keyboard_read,
                   readVars, history>>

CanErase(t) == cur_buffer_position[t] > 0

(* do_backspace, whether Alt is held or not.                               *)
Backspace(t) ==
    LET pos  == Decrement(cur_buffer_position[t])
        size == Decrement(cur_buffer_size[t])
    IN  /\ CanErase(t)
        /\ cur_buffer_position' = [cur_buffer_position EXCEPT ![t] = pos]
        /\ cur_buffer_size' = [cur_buffer_size EXCEPT ![t] = size]
        /\ key_line_buffer' = [key_line_buffer EXCEPT ![t] = Shifted(@, pos, size)]
        /\ UNCHANGED <<curr_terminal, alt_pressed, key_read_buffer, keyboard_read,
                       readVars, history>>

(* Mutant: the flag is not raised.                                         *)
FlagKept == keyboard_read

LineOf(t)  == key_line_buffer[t]
FlagRaised == TRUE

(* clear_buffer.                                                           *)
ClearBuffer(t) ==
    /\ key_line_buffer' = [key_line_buffer EXCEPT ![t] = [k \in Cells |-> NUL]]
    /\ cur_buffer_position' = [cur_buffer_position EXCEPT ![t] = 0]
    /\ cur_buffer_size' = [cur_buffer_size EXCEPT ![t] = 0]

(* do_enter, whether Alt is held or not.                                   *)
Enter(t) ==
    /\ key_read_buffer' = [key_read_buffer EXCEPT ![t] =
                             Strncpy(Store(LineOf(t), cur_buffer_size[t], NewLine))]
    /\ ClearBuffer(t)
    /\ keyboard_read' = FlagRaised
    /\ unread' = [unread EXCEPT ![t] = TRUE]
    /\ seen' = [seen EXCEPT ![t] = IF pc[t] \in {"copy", "store"}
                                     THEN @ \cup {key_read_buffer'[t]} ELSE @]
    /\ UNCHANGED <<curr_terminal, alt_pressed, readVars>>

(* The Alt key goes down or up.                                            *)
AltKey ==
    /\ alt_pressed' = ~alt_pressed
    /\ UNCHANGED <<curr_terminal, key_line_buffer, cur_buffer_position,
                   cur_buffer_size, key_read_buffer, keyboard_read, readVars, history>>

(* Alt+Fn: of all this, switch_terminal only changes curr_terminal.        *)
Switch(t) ==
    /\ alt_pressed
    /\ t # curr_terminal
    /\ curr_terminal' = t
    /\ UNCHANGED <<keyVars, keyboard_read, readVars, history>>

EditKey ==
    \/ \E c \in Letters[curr_terminal] : TypeLetter(curr_terminal, c)
    \/ Backspace(curr_terminal)

SwitchKey == AltKey \/ \E t \in Terminals : Switch(t)

Keyboard == EditKey \/ Enter(curr_terminal) \/ SwitchKey

-----------------------------------------------------------------------------
(* terminal_read, called by the program in front of terminal t.            *)

Goto(t, from, to) ==
    /\ pc[t] = from
    /\ pc' = [pc EXCEPT ![t] = to]

(* The flag is down: the loop turns the interrupts on and spins.           *)
CallRead(t, n) ==
    /\ ~keyboard_read
    /\ Goto(t, "user", "spin")
    /\ nbytes' = [nbytes EXCEPT ![t] = n]
    /\ UNCHANGED <<curr_terminal, keyVars, keyboard_read, i, buf, received, history>>

(* Mutant: the flag is left up.                                            *)
FlagLeftUp == keyboard_read

FlagTaken == FALSE

(* The flag is up at the call: the loop is not entered, the interrupts     *)
(* stay off, and the whole read is one step.                               *)
ReadAtOnce(t, n) ==
    /\ keyboard_read
    /\ pc[t] = "user"
    /\ received' = [received EXCEPT ![t] = Prefix(key_read_buffer[t], n)]
    /\ ClearBuffer(t)
    /\ keyboard_read' = FlagTaken
    /\ unread' = [unread EXCEPT ![t] = FALSE]
    /\ UNCHANGED <<curr_terminal, alt_pressed, key_read_buffer, pc, i, nbytes, buf, seen>>

LeaveSpin(t) ==
    /\ keyboard_read
    /\ Goto(t, "spin", "copy")
    /\ seen' = [seen EXCEPT ![t] = {key_read_buffer[t]}]
    /\ UNCHANGED <<curr_terminal, keyVars, keyboard_read, i, nbytes, buf, received, unread>>

(* Mutant: the loop does not look for the NUL.                             *)
MoreThanAsked(t) == i[t] < nbytes[t] /\ i[t] \in Cells

MoreToCopy(t) ==
    /\ i[t] < nbytes[t]
    /\ i[t] \in Cells
    /\ key_read_buffer[t][i[t]] # NUL

(* The byte is loaded once for the test and again for the copy.            *)
FindByte(t) ==
    /\ MoreToCopy(t)
    /\ Goto(t, "copy", "store")
    /\ UNCHANGED <<curr_terminal, keyVars, keyboard_read, i, nbytes, buf, received, history>>

CopyByte(t) ==
    /\ Goto(t, "store", "copy")
    /\ buf' = [buf EXCEPT ![t] = Append(@, key_read_buffer[t][i[t]])]
    /\ i' = [i EXCEPT ![t] = @ + 1]
    /\ UNCHANGED <<curr_terminal, keyVars, keyboard_read, nbytes, received, history>>

CopyDone(t) ==
    /\ ~MoreToCopy(t)
    /\ Goto(t, "copy", "clear")
    /\ i' = [i EXCEPT ![t] = 0]
    /\ UNCHANGED <<curr_terminal, keyVars, keyboard_read, nbytes, buf, received, history>>

(* clear_buffer, with the interrupts on: cell by cell, then the position,  *)
(* then the size.                                                          *)
ClearCell(t) ==
    /\ pc[t] = "clear"
    /\ i[t] \in Cells
    /\ key_line_buffer' = [key_line_buffer EXCEPT ![t][i[t]] = NUL]
    /\ i' = [i EXCEPT ![t] = @ + 1]
    /\ UNCHANGED <<curr_terminal, alt_pressed, cur_buffer_position, cur_buffer_size,
                   key_read_buffer, keyboard_read, pc, nbytes, buf, received, history>>

ClearPosition(t) ==
    /\ i[t] \notin Cells
    /\ Goto(t, "clear", "size")
    /\ cur_buffer_position' = [cur_buffer_position EXCEPT ![t] = 0]
    /\ i' = [i EXCEPT ![t] = 0]
    /\ UNCHANGED <<curr_terminal, alt_pressed, key_line_buffer, cur_buffer_size,
                   key_read_buffer, keyboard_read, nbytes, buf, received, history>>

ClearSize(t) ==
    /\ Goto(t, "size", "return")
    /\ cur_buffer_size' = [cur_buffer_size EXCEPT ![t] = 0]
    /\ UNCHANGED <<curr_terminal, alt_pressed, key_line_buffer, cur_buffer_position,
                   key_read_buffer, keyboard_read, i, nbytes, buf, received, history>>

ReadReturn(t) ==
    /\ Goto(t, "return", "user")
    /\ keyboard_read' = FlagTaken
    /\ received' = [received EXCEPT ![t] = buf[t]]
    /\ buf' = [buf EXCEPT ![t] = <<>>]
    /\ nbytes' = [nbytes EXCEPT ![t] = 0]
    /\ unread' = [unread EXCEPT ![t] = FALSE]
    /\ seen' = [seen EXCEPT ![t] = {}]
    /\ UNCHANGED <<curr_terminal, keyVars, i>>

ReadStep(t) ==
    \/ LeaveSpin(t)
    \/ FindByte(t)
    \/ CopyByte(t)
    \/ CopyDone(t)
    \/ ClearCell(t)
    \/ ClearPosition(t)
    \/ ClearSize(t)
    \/ ReadReturn(t)

Program ==
    \/ \E n \in ReadSizes : CallRead(curr_terminal, n) \/ ReadAtOnce(curr_terminal, n)
    \/ ReadStep(curr_terminal)

-----------------------------------------------------------------------------
(* Three users.  The first may press a key at any moment.                  *)
Next == Program \/ Keyboard

Spec == Init /\ [][Next]_vars

(* The second leaves only the stores of a read's clear_buffer alone, in    *)
(* which a letter would be lost or counted twice, but for Alt+Fn.  It      *)
(* types, erases, enters and switches while a read copies its line.        *)
ClearsItsLine == pc[curr_terminal] \in {"clear", "size"}

UnhurriedNext ==
    \/ Program
    \/ SwitchKey
    \/ ~ClearsItsLine /\ (EditKey \/ Enter(curr_terminal))

UnhurriedSpec == Init /\ [][UnhurriedNext]_vars

(* The third presses no key between the moment the flag ends a read's loop *)
(* and its return, and Enter only when a program waits for a line, and     *)
(* lets it have the line before pressing anything else.                    *)
BetweenReads ==
    \/ pc[curr_terminal] = "user"
    \/ pc[curr_terminal] = "spin" /\ ~keyboard_read

PatientKeyboard ==
    /\ BetweenReads
    /\ ~keyboard_read
    /\ \/ EditKey
       \/ SwitchKey
       \/ pc[curr_terminal] = "spin" /\ Enter(curr_terminal)

PatientNext == Program \/ PatientKeyboard

(* The loops of terminal_read make progress while their terminal is on the *)
(* screen: nothing else runs there.                                        *)
ReaderFairness == WF_vars(ReadStep(curr_terminal))

PatientSpec == Init /\ [][PatientNext]_vars /\ ReaderFairness

-----------------------------------------------------------------------------
(* Properties.                                                             *)

ReadPlaces == {"user", "spin", "copy", "store", "clear", "size", "return"}

TypeOK ==
    /\ curr_terminal \in Terminals
    /\ alt_pressed \in BOOLEAN
    /\ key_line_buffer \in [Terminals -> [Cells -> Chars]]
    /\ cur_buffer_position \in [Terminals -> 0 .. WORD - 1]
    /\ cur_buffer_size \in [Terminals -> 0 .. WORD - 1]
    /\ key_read_buffer \in [Terminals -> [Cells -> Chars]]
    /\ keyboard_read \in BOOLEAN
    /\ pc \in [Terminals -> ReadPlaces]
    /\ i \in [Terminals -> 0 .. LINE_BUFFER]
    /\ nbytes \in [Terminals -> {0} \cup ReadSizes]
    /\ buf \in [Terminals -> Seq(Chars)]
    /\ received \in [Terminals -> Seq(Chars)]
    /\ unread \in [Terminals -> BOOLEAN]
    /\ seen \in [Terminals -> SUBSET [Cells -> Chars]]

(* terminal.c:188-189: "Range for buffer is up to 126 (LINE_BUFFER - 2) to *)
(* allow for '\n' character".  The size of a line stays in that range.      *)
LineFits == \A t \in Terminals : cur_buffer_size[t] <= LINE_BUFFER - 2

(* The two counters of a line, which the handler and terminal_read update  *)
(* one after the other, agree but in the middle of clear_buffer, and the   *)
(* line is what they say: characters up to the size, NUL from there on, so *)
(* that print_line_buffer and strncpy always find its end.                 *)
LineWellFormed ==
    \A t \in Terminals :
        /\ pc[t] # "size" => cur_buffer_position[t] = cur_buffer_size[t]
        /\ \A k \in Cells :
             /\ k >= cur_buffer_size[t] => key_line_buffer[t][k] = NUL
             /\ k < cur_buffer_size[t] /\ pc[t] \notin {"clear", "size"} =>
                  key_line_buffer[t][k] \in Letters[t]

(* A read buffer is empty, if no line was entered, or holds one line, with *)
(* its newline and a NUL behind it: the loop of terminal_read, whose       *)
(* caller may ask for more bytes than the buffer has, ends within the      *)
(* buffer, and no entered line is without its newline.                     *)
ReadBufferHoldsALine ==
    \A t \in Terminals :
        \/ ~unread[t] /\ key_read_buffer[t] = [k \in Cells |-> NUL]
        \/ \E n \in 0 .. LINE_BUFFER - 2 :
             \A k \in Cells :
                 /\ k < n => key_read_buffer[t][k] \in Letters[t]
                 /\ k = n => key_read_buffer[t][k] = NewLine
                 /\ k > n => key_read_buffer[t][k] = NUL

(* A program only receives what was typed on its own terminal, whatever    *)
(* was typed on the others while it waited.  An Enter between the test of  *)
(* a byte and its copy can put the NUL of a shorter line in its place.     *)
TerminalsDoNotMix ==
    \A t \in Terminals :
        \A k \in 1 .. Len(received[t]) : received[t][k] \in Letters[t] \cup {NewLine, NUL}

(* The line buffers and read buffers of all terminals, after any history   *)
(* of keys, switches and reads.                                            *)
BuffersAreSound ==
    /\ TypeOK
    /\ LineFits
    /\ LineWellFormed
    /\ ReadBufferHoldsALine
    /\ TerminalsDoNotMix

(* terminal_read copies byte by byte with the interrupts on, and an Enter  *)
(* may put a new line under it (terminal.c:373-377 against 284).  Whatever *)
(* the user does meanwhile, every byte is the byte of its place in a line  *)
(* which was in the buffer during the copy, no byte is skipped, the copy   *)
(* ends at the number of bytes asked for or at the end of such a line; and *)
(* if no line was entered meanwhile it is the line, cut at that number.    *)
ReadGivesTheLine ==
    [][\A t \in Terminals : ReadReturn(t) =>
         LET n == Len(received'[t]) IN
         /\ \A k \in 1 .. n : \E row \in seen[t] : received'[t][k] = row[k - 1]
         /\ n = nbytes[t] \/ (n \in Cells /\ \E row \in seen[t] : row[n] = NUL)
         /\ \A row \in seen[t] : seen[t] = {row} => received'[t] = Prefix(row, nbytes[t])]_vars

(* Every line entered is read, if the user waits for the programs.         *)
EveryLineIsRead == \A t \in Terminals : unread[t] ~> ~unread[t]
=============================================================================
