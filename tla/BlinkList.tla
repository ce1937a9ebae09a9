----------------------------- MODULE BlinkList -----------------------------
(***************************************************************************)
(* What the blinking characters of fish promise: a list of blinks, the     *)
(* newest first, of which each shows its two characters in turn, each for  *)
(* its own number of ticks.                                                *)
(***************************************************************************)
EXTENDS Integers, Sequences, SequencesExt

CONSTANTS
    Blink,           \* what a blink can be: [location, on_char, off_char,
                     \*   on_length, off_length]
    MaxBlinks        \* how many there is room for

VARIABLES
    blinks           \* what blinks: [blink, on, left]

Newly(b) == [blink |-> b, on |-> TRUE, left |-> b.on_length]

(* A tick: one less to go, or the other character's turn.                  *)
Ticked(x) ==
    IF x.left > 1 THEN [x EXCEPT !.left = @ - 1]
    ELSE [x EXCEPT !.on = ~@,
                   !.left = IF x.on THEN x.blink.off_length ELSE x.blink.on_length]

(* The newest blink of every location: only it can be found.             *)
Newest(list) ==
    {i \in DOMAIN list :
       \A j \in 1 .. i - 1 : list[j].blink.location # list[i].blink.location}

(* Blink i takes over the rhythm of blink j, its lengths with it.          *)
Following(list, i, j) ==
    [list EXCEPT ![i] = [list[j] EXCEPT !.blink =
        [list[i].blink EXCEPT !.on_length  = list[j].blink.on_length,
                              !.off_length = list[j].blink.off_length]]]

Init == blinks = <<>>

Add ==
    /\ Len(blinks) < MaxBlinks
    /\ LET list == blinks
       IN  blinks' \in {<<Newly(b)>> \o list : b \in Blink}

Drop ==
    LET list == blinks
    IN  blinks' \in {RemoveAt(list, i) : i \in Newest(list)}

Sync ==
    LET list == blinks
    IN  blinks' \in {Following(list, i, j) : i, j \in Newest(list)}

Tick ==
    LET list == blinks
    IN  blinks' = [i \in DOMAIN list |-> Ticked(list[i])]

Next == Add \/ Drop \/ Sync \/ Tick

Spec == Init /\ [][Next]_blinks
=============================================================================
