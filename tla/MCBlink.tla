------------------------------ MODULE MCBlink ------------------------------
(***************************************************************************)
(* Blink for TLC: two cells to blink in and one place off the screen,      *)
(* lengths of one tick and of two, none, and one negative in two bits.     *)
(***************************************************************************)
EXTENDS Blink

Structure(location, on, off, on_length, off_length) ==
    [location |-> location, on_char |-> on, off_char |-> off,
     on_length |-> on_length, off_length |-> off_length]

SmallInputs == { Structure(1, "a", "b", 2, 1), Structure(1, "b", "a", 2, 1),
                 Structure(2, "a", "b", 0, 3), Structure(3, "a", "b", 1, 1) }
=============================================================================
