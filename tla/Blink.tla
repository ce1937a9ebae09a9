------------------------------- MODULE Blink -------------------------------
(***************************************************************************)
(* The blinking characters of fish/blink.S, with the pool of fish.c they   *)
(* are allocated from: mp1_ioctl with its four commands, mp1_rtc_tasklet,  *)
(* mp1_malloc and mp1_free.                                                *)
(*                                                                         *)
(* The structures are the blocks of blink_array, linked through their next *)
(* field in the order they were added.  A block with location 0 is free,   *)
(* so the user must not blink there: Inputs has no location 0.             *)
(***************************************************************************)
EXTENDS Integers, Sequences, FiniteSets, SequencesExt

CONSTANTS
    POOL,            \* blocks of blink_array (fish.c:21)
    SCREEN,          \* cells of the screen, 80*25
    WORD,            \* 2^16: the lengths and countdowns wrap there
    Inputs,          \* bound: the structures passed to RTC_ADD
    NULL

ASSUME SizesAssumption ==
    /\ POOL \in Nat \ {0} /\ SCREEN \in Nat \ {0}
    /\ WORD \in Nat \ {0} /\ WORD % 2 = 0
    /\ NULL \notin 1 .. POOL
    /\ \A b \in Inputs : /\ b.location \in 1 .. WORD - 1
                         /\ b.on_length \in 0 .. WORD - 1
                         /\ b.off_length \in 0 .. WORD - 1

Blocks    == 1 .. POOL
Locations == {b.location : b \in Inputs}

VARIABLES
    blink_array,     \* the blocks
    mp1_list_head,   \* the newest block in the list, or NULL
    video            \* the characters on the screen

vars == <<blink_array, mp1_list_head, video>>

Freed == [location |-> 0, on_char |-> NULL, off_char |-> NULL, on_length |-> 0,
          off_length |-> 0, countdown |-> 0, status |-> 0, next |-> NULL]

Init ==
    /\ blink_array = [b \in Blocks |-> Freed]
    /\ mp1_list_head = NULL
    /\ video = [cell \in 0 .. SCREEN - 1 |-> " "]

(* The list as its loops walk it, to one step beyond the last block: if it *)
(* is longer than the pool it has no end.                                  *)
Listed ==
    LET node[n \in 1 .. POOL + 1] ==
            IF n = 1 THEN mp1_list_head
            ELSE LET b == node[n - 1] IN IF b = NULL THEN NULL ELSE blink_array[b].next
    IN  [n \in {m \in 1 .. POOL + 1 : node[m] # NULL} |-> node[n]]

(* mp1_find_helper: the block nearest to the head with the location.       *)
Found(location) == \E b \in ToSet(Listed) : blink_array[b].location = location

mp1_find_helper(location) ==
    LET Here(b) == blink_array[b].location = location
    IN  Listed[SelectInSeq(Listed, Here)]

Free == {b \in Blocks : blink_array[b].location = 0}

mp1_malloc == CHOOSE b \in Free : \A c \in Free : b <= c

Started(b, next) ==
    [location |-> b.location, on_char |-> b.on_char, off_char |-> b.off_char,
     on_length |-> b.on_length, off_length |-> b.off_length,
     countdown |-> b.on_length, status |-> 1, next |-> next]

mp1_ioctl_add(b) ==
    /\ b.location < SCREEN
    /\ Free # {}
    /\ LET block == mp1_malloc
       IN  /\ blink_array' = [blink_array EXCEPT ![block] = Started(b, mp1_list_head)]
           /\ mp1_list_head' = block
    /\ video' = [video EXCEPT ![b.location] = b.on_char]

(* Mutant: the block is not cleared.                                       *)
NotFreed(block) == block

mp1_free(block) == Freed

(* The link that leads to a block, the head or the next field of another,  *)
(* is made to lead to the one behind it.                                   *)
Unlinked(block) ==
    [b \in Blocks |-> IF b \in ToSet(Listed) /\ blink_array[b].next = block
                        THEN [blink_array[b] EXCEPT !.next = blink_array[block].next]
                        ELSE blink_array[b]]

mp1_ioctl_remove(location) ==
    /\ Found(location)
    /\ LET block == mp1_find_helper(location)
       IN  /\ blink_array' = [Unlinked(block) EXCEPT ![block] = mp1_free(@)]
           /\ mp1_list_head' = IF mp1_list_head = block THEN blink_array[block].next
                               ELSE mp1_list_head
    /\ UNCHANGED video

SameRhythm(to, from) ==
    [to EXCEPT !.on_length = from.on_length, !.off_length = from.off_length,
               !.countdown = from.countdown, !.status = from.status]

(* mp1_ioctl_sync shows the second blink's off character, whatever its     *)
(* status: testb leaves no sign for the cmovl behind it.                   *)
mp1_ioctl_sync(first, second) ==
    /\ Found(first) /\ Found(second)
    /\ LET from == mp1_find_helper(first)
           to   == mp1_find_helper(second)
       IN  /\ blink_array' = [blink_array EXCEPT ![to] = SameRhythm(@, blink_array[from])]
           /\ video' = [video EXCEPT ![second] = blink_array[to].off_char]
    /\ UNCHANGED mp1_list_head

-----------------------------------------------------------------------------
(* mp1_rtc_tasklet: every block counts down, in 16 bits with a sign.       *)
CountedDown(d) == (d.countdown - 1) % WORD

(* Mutant: the countdown is tested before it is decremented.               *)
ExpiresLate(d) == d.countdown \notin 1 .. (WORD \div 2) - 1

Expires(d) == CountedDown(d) \notin 1 .. (WORD \div 2) - 1

Turned(d) ==
    [d EXCEPT !.countdown = IF d.status = 1 THEN d.off_length ELSE d.on_length,
              !.status = 1 - @]

CharOf(d) == IF d.status = 1 THEN d.on_char ELSE d.off_char

(* Mutant: the character is written before the status has turned.          *)
CharBefore(d) == CharOf(d)

CharAfter(d) == CharOf(Turned(d))

(* The screen when the blocks of the list have been gone through.          *)
Poked(list) ==
    LET screen[n \in 0 .. Len(list)] ==
            IF n = 0 THEN video
            ELSE LET d == blink_array[list[n]]
                 IN  IF Expires(d) THEN [screen[n - 1] EXCEPT ![d.location] = CharAfter(d)]
                     ELSE screen[n - 1]
    IN  screen[Len(list)]

mp1_rtc_tasklet ==
    /\ LET list == Listed
       IN  /\ blink_array' = [b \in Blocks |->
                LET d == blink_array[b]
                IN  IF b \notin ToSet(list) THEN d
                    ELSE IF Expires(d) THEN Turned(d)
                    ELSE [d EXCEPT !.countdown = CountedDown(d)]]
           /\ video' = Poked(list)
    /\ UNCHANGED mp1_list_head

-----------------------------------------------------------------------------
mp1_ioctl ==
    \/ \E b \in Inputs : mp1_ioctl_add(b)
    \/ \E location \in Locations : mp1_ioctl_remove(location)
    \/ \E first, second \in Locations : mp1_ioctl_sync(first, second)

Next == mp1_ioctl \/ mp1_rtc_tasklet

Spec == Init /\ [][Next]_vars

-----------------------------------------------------------------------------
(* Properties.                                                             *)

Characters == {b.on_char : b \in Inputs} \cup {b.off_char : b \in Inputs} \cup {" "}

Block == [location : {0} \cup Locations, on_char : Characters \cup {NULL},
          off_char : Characters \cup {NULL}, on_length : 0 .. WORD - 1,
          off_length : 0 .. WORD - 1, countdown : 0 .. WORD - 1, status : {0, 1},
          next : Blocks \cup {NULL}]

TypeOK ==
    /\ blink_array \in [Blocks -> Block]
    /\ mp1_list_head \in Blocks \cup {NULL}
    /\ video \in [0 .. SCREEN - 1 -> Characters]

(* After any history of commands the list has an end, and it holds exactly *)
(* the blocks that mp1_malloc will not give out: no block is lost, none is *)
(* free while it is still counted down.                                    *)
PoolIsListed ==
    /\ TypeOK
    /\ Len(Listed) <= POOL
    /\ ToSet(Listed) = Blocks \ Free

(* The places in the list of the blinks of a cell that turn in this step.  *)
Turning(cell) ==
    {i \in DOMAIN Listed :
       LET b == Listed[i]
       IN  /\ blink_array[b].location = cell
           /\ blink_array'[b].status # blink_array[b].status}

ShowsItsBlinks(cell) ==
    IF Turning(cell) = {} THEN video'[cell] = video[cell]
    ELSE \E i \in Turning(cell) : /\ \A j \in Turning(cell) : j <= i
                                 /\ video'[cell] = CharOf(blink_array'[Listed[i]])

(* In a tick a cell changes only if a blink of it turns, and then shows    *)
(* the character whose turn it is, of the oldest if several turn at once.  *)
CellsShowTheirBlinks ==
    [][mp1_rtc_tasklet => \A cell \in DOMAIN video : ShowsItsBlinks(cell)]_vars

-----------------------------------------------------------------------------
(* The blinks of BlinkList.  A length is a signed number, and one beyond   *)
(* the middle of its range is over at once, like 0.                        *)
Ticks(length) == IF length > WORD \div 2 THEN 0 ELSE length

BlinkOf(d) == [location |-> d.location, on_char |-> d.on_char, off_char |-> d.off_char,
               on_length |-> Ticks(d.on_length), off_length |-> Ticks(d.off_length)]

Shows(d) == [blink |-> BlinkOf(d), on |-> d.status = 1, left |-> Ticks(d.countdown)]

Shown == LET list == Listed IN [i \in DOMAIN list |-> Shows(blink_array[list[i]])]

Blinks == INSTANCE BlinkList
    WITH Blink <- {BlinkOf(b) : b \in Inputs},
         MaxBlinks <- POOL,
         blinks <- Shown

(* The links and the countdowns implement the list of blinks of BlinkList. *)
RefinesBlinkList == Blinks!Spec
=============================================================================
