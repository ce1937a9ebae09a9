------------------------------- MODULE Keymap -------------------------------
(***************************************************************************)
(* From scan codes to characters: the flags keyboard_handler keeps for     *)
(* Shift, Ctrl, Alt and Caps Lock, and the four tables it takes a          *)
(* character from.                                                         *)
(*                                                                         *)
(* A scan code is [key, down]: the release of a key has the bit            *)
(* KEY_RELEASED_MASK set.  Every letter key behaves like LETTER and every  *)
(* key with a digit or another sign like SIGN; the keys F1 to F3, L with   *)
(* Ctrl, Enter and Backspace, which do not type, are in Terminal and       *)
(* Screen.                                                                 *)
(***************************************************************************)
EXTENDS Integers, Sequences, FiniteSets, SequencesExt

ShiftKeys == {"LEFT_SHIFT", "RIGHT_SHIFT"}
TypingKeys == {"LETTER", "SIGN"}
Keys == ShiftKeys \cup {"CTRL", "ALT", "CAPS_LOCK"} \cup TypingKeys

Codes == [key : Keys, down : BOOLEAN]

NoFlags == [shift_pressed |-> FALSE, ctrl_pressed |-> FALSE,
            alt_pressed |-> FALSE, caps_activated |-> FALSE]

lowercase_char  == [key \in TypingKeys |-> IF key = "LETTER" THEN "a" ELSE "1"]
uppercase_char  == [key \in TypingKeys |-> IF key = "LETTER" THEN "A" ELSE "!"]
caps_char       == [key \in TypingKeys |-> IF key = "LETTER" THEN "A" ELSE "1"]
caps_shift_char == [key \in TypingKeys |-> IF key = "LETTER" THEN "a" ELSE "!"]

(* The flags after a key has gone down.                                    *)
Pressed(flags, key) ==
    CASE key \in ShiftKeys  -> [flags EXCEPT !.shift_pressed = TRUE]
      [] key = "CTRL"       -> [flags EXCEPT !.ctrl_pressed = TRUE]
      [] key = "ALT"        -> [flags EXCEPT !.alt_pressed = TRUE]
      [] key = "CAPS_LOCK"  -> [flags EXCEPT !.caps_activated = ~@]
      [] key \in TypingKeys -> flags

(* Mutant: a release of the right Shift key is not recognised.             *)
ReleasedLeftOnly(flags, key) ==
    CASE key = "LEFT_SHIFT" -> [flags EXCEPT !.shift_pressed = FALSE]
      [] key = "CTRL"       -> [flags EXCEPT !.ctrl_pressed = FALSE]
      [] key = "ALT"        -> [flags EXCEPT !.alt_pressed = FALSE]
      [] OTHER              -> flags

(* The flags after a key has been released: one flag for both Shift keys.  *)
Released(flags, key) ==
    CASE key \in ShiftKeys -> [flags EXCEPT !.shift_pressed = FALSE]
      [] key = "CTRL"      -> [flags EXCEPT !.ctrl_pressed = FALSE]
      [] key = "ALT"       -> [flags EXCEPT !.alt_pressed = FALSE]
      [] OTHER             -> flags

FlagsAfter(flags, code) ==
    IF code.down THEN Pressed(flags, code.key) ELSE Released(flags, code.key)

(* The table a typing key is looked up in.                                 *)
Table(flags) ==
    IF ~flags.shift_pressed /\ ~flags.caps_activated /\ ~flags.ctrl_pressed
      THEN lowercase_char
    ELSE IF flags.shift_pressed /\ flags.caps_activated THEN caps_shift_char
    ELSE IF flags.caps_activated THEN caps_char
    ELSE uppercase_char

(* What a scan code adds to the line; with Alt held, nothing.              *)
TypedBy(flags, code) ==
    IF code.down /\ code.key \in TypingKeys /\ ~flags.alt_pressed
      THEN <<Table(flags)[code.key]>>
      ELSE <<>>

(* keyboard_handler over a sequence of scan codes.                         *)
Handle(state, code) ==
    LET flags == FlagsAfter(state.flags, code)
    IN  [flags |-> flags, line |-> state.line \o TypedBy(flags, code)]

Typed(codes) ==
    LET after[n \in 0 .. Len(codes)] ==
            IF n = 0 THEN [flags |-> NoFlags, line |-> <<>>]
                     ELSE Handle(after[n - 1], codes[n])
    IN  after[Len(codes)].line

-----------------------------------------------------------------------------
(* The keys held down and the times Caps Lock was pressed.                 *)
HeldAfter(codes, n) ==
    {key \in Keys :
        \E i \in 1 .. n : /\ codes[i] = [key |-> key, down |-> TRUE]
                          /\ \A j \in i + 1 .. n : codes[j].key # key}

CapsPresses(codes, n) ==
    Cardinality({i \in 1 .. n : codes[i] = [key |-> "CAPS_LOCK", down |-> TRUE]})

(* A user who never holds both Shift keys, nor types with Ctrl.            *)
PlainTyping(codes) ==
    \A n \in 1 .. Len(codes) :
        LET held == HeldAfter(codes, n)
        IN  /\ ~(ShiftKeys \subseteq held)
            /\ "CTRL" \in held => codes[n].key \notin TypingKeys

(* The character the n-th code should add: Shift picks the other sign, and *)
(* Shift or Caps Lock, but not both, the capital letter.                   *)
Expected(codes, n) ==
    LET shift == HeldAfter(codes, n) \cap ShiftKeys # {}
        caps  == CapsPresses(codes, n) % 2 = 1
    IN  IF ~codes[n].down \/ codes[n].key \notin TypingKeys
           \/ "ALT" \in HeldAfter(codes, n)
          THEN <<>>
        ELSE IF codes[n].key = "SIGN" THEN <<IF shift THEN "!" ELSE "1">>
        ELSE <<IF shift # caps THEN "A" ELSE "a">>

ExpectedLine(codes) == FlattenSeq([n \in 1 .. Len(codes) |-> Expected(codes, n)])
=============================================================================
