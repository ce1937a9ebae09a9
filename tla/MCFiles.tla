------------------------------ MODULE MCFiles ------------------------------
(***************************************************************************)
(* Files for TLC: a directory with itself, a file and the clock, and the   *)
(* first shell of every terminal in the slot with its number.              *)
(***************************************************************************)
EXTENDS Files

FirstSlot(t) == t

SmallDirectory == << [name |-> ".",   type |-> 1, length |-> 0],
                     [name |-> "rtc", type |-> 0, length |-> 0],
                     [name |-> "a",   type |-> 2, length |-> 2] >>
=============================================================================
