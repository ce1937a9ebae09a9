----------------------------- MODULE ScreenProofs -----------------------------
(***************************************************************************)
(* The invariants of Screen, for every size of the screen and any number   *)
(* of terminals.                                                           *)
(***************************************************************************)
EXTENDS Screen, DataLemmas

-----------------------------------------------------------------------------
(* The position.                                                           *)

Columns == 0 .. NUM_COLS - 1
Rows    == 0 .. NUM_ROWS - 1

(* Where the screen is, and where a line can begin: the row of a beginning *)
(* may lie below the screen.                                               *)
Places     == [x : Columns, y : Rows]
Beginnings == [x : Columns, y : Nat]
Screens    == [cells : [Cells -> Characters], x : Columns, y : Rows]

(* The place that set_new_position makes of a beginning.                   *)
PlaceOf(position) == Position(position.x, Row(position))

LEMMA Remainders ==
    ASSUME NEW b \in Nat, b > 0, NEW a \in Int
    PROVE  /\ a % b \in 0 .. b - 1
           /\ a \div b \in Int
           /\ a \in 0 .. b - 1 => a % b = a /\ a \div b = 0
OBVIOUS

(* Whatever column and row it is given, set_new_position stays on the      *)
(* screen and touches no cell.                                             *)
LEMMA NewPositionOnScreen ==
    ASSUME NEW s \in Screens, NEW x \in Int, NEW y \in Int
    PROVE  /\ set_new_position(s, x, y) \in Screens
           /\ set_new_position(s, x, y).cells = s.cells
<1>1. NUM_COLS \in Nat /\ NUM_COLS > 0 /\ NUM_ROWS \in Nat /\ NUM_ROWS > 1
  BY ScreenAssumption
<1>2. x % NUM_COLS \in Columns /\ x \div NUM_COLS \in Int
  BY <1>1, Remainders DEF Columns
<1>3. y + (x \div NUM_COLS) \in Int
  BY <1>2
<1>. DEFINE row == y + (x \div NUM_COLS)
<1>4. row \in Int
  BY <1>3
<1>. HIDE DEF row
<1>5. row % NUM_ROWS \in Rows /\ NUM_ROWS - 1 \in Rows
  BY <1>1, <1>4, Remainders DEF Rows
<1>6. set_new_position(s, x, y) =
        [s EXCEPT !.x = x % NUM_COLS,
                  !.y = IF row >= NUM_ROWS THEN NUM_ROWS - 1 ELSE row % NUM_ROWS]
  BY DEF set_new_position, row
<1>. QED
  BY <1>2, <1>5, <1>6 DEF Screens

LEMMA AtOnScreen ==
    ASSUME NEW s \in Screens, NEW position \in Beginnings
    PROVE  /\ At(s, position) \in Screens
           /\ At(s, position).cells = s.cells
           /\ get_cur_position(At(s, position)) = PlaceOf(position)
<1>1. NUM_COLS \in Nat /\ NUM_COLS > 0 /\ NUM_ROWS \in Nat /\ NUM_ROWS > 1
  BY ScreenAssumption
<1>2. position.x \in Columns /\ position.x \in Int /\ position.y \in Nat /\ position.y \in Int
  BY DEF Beginnings, Columns
<1>3. position.x % NUM_COLS = position.x /\ position.x \div NUM_COLS = 0
  BY <1>1, <1>2, Remainders DEF Columns
<1>4. position.y < NUM_ROWS => position.y % NUM_ROWS = position.y
  <2>1. position.y < NUM_ROWS => position.y \in 0 .. NUM_ROWS - 1
    BY <1>1, <1>2
  <2>. QED
    BY <1>1, <1>2, <2>1, Remainders
<1>5. At(s, position) =
        [s EXCEPT !.x = position.x,
                  !.y = IF position.y >= NUM_ROWS THEN NUM_ROWS - 1 ELSE position.y]
  <2>1. position.y + (position.x \div NUM_COLS) = position.y
    BY <1>2, <1>3
  <2>2. (IF position.y >= NUM_ROWS THEN NUM_ROWS - 1 ELSE position.y % NUM_ROWS) =
        (IF position.y >= NUM_ROWS THEN NUM_ROWS - 1 ELSE position.y)
    BY <1>1, <1>2, <1>4
  <2>. QED
    BY <1>3, <2>1, <2>2, Zenon DEF At, set_new_position
<1>6. s = [cells |-> s.cells, x |-> s.x, y |-> s.y]
  BY DEF Screens
<1>. QED
  BY <1>2, <1>5, <1>6, NewPositionOnScreen DEF At, get_cur_position, PlaceOf, Row, Position, Screens
-----------------------------------------------------------------------------
(* Characters written one after the other.                                 *)

LEMMA ScrollOnScreen ==
    ASSUME NEW cells \in [Cells -> Characters], NEW x \in Columns, NEW y \in 0 .. NUM_ROWS
    PROVE  LET s == scrollscreen([cells |-> cells, x |-> x, y |-> y])
           IN  /\ s \in Screens
               /\ s.x = x
               /\ s.y = IF y = NUM_ROWS THEN NUM_ROWS - 1 ELSE y
<1>1. NUM_ROWS \in Nat /\ NUM_ROWS > 1
  BY ScreenAssumption
<1>2. " " \in Characters
  BY DEF Characters
<1>3. Scrolled(cells) \in [Cells -> Characters]
  BY <1>2 DEF Scrolled
<1>. DEFINE r == [cells |-> cells, x |-> x, y |-> y]
<1>4. CASE y = NUM_ROWS
  <2>1. scrollscreen(r) = [cells |-> Scrolled(cells), x |-> x, y |-> NUM_ROWS - 1]
    BY <1>4 DEF scrollscreen
  <2>. QED
    BY <1>1, <1>3, <1>4, <2>1 DEF Screens, Rows
<1>5. CASE y # NUM_ROWS
  <2>1. scrollscreen(r) = r /\ y \in Rows
    BY <1>1, <1>5 DEF scrollscreen, Rows
  <2>. QED
    BY <1>5, <2>1 DEF Screens
<1>. QED
  BY <1>4, <1>5

(* A character keeps the position on the screen, and moves it as           *)
(* terminal_write moves the beginning of a line that is there.             *)
LEMMA putcOnScreen ==
    ASSUME NEW s \in Screens, NEW c \in Characters
    PROVE  /\ putc(s, c) \in Screens
           /\ \A position \in Beginnings :
                get_cur_position(s) = PlaceOf(position) =>
                  get_cur_position(putc(s, c)) = PlaceOf(Moved(position, c))
<1>1. NUM_COLS \in Nat /\ NUM_COLS > 0 /\ NUM_ROWS \in Nat /\ NUM_ROWS > 1
  BY ScreenAssumption
<1>2. /\ s.cells \in [Cells -> Characters] /\ s.x \in Columns /\ s.y \in Rows
      /\ s = [cells |-> s.cells, x |-> s.x, y |-> s.y]
  BY DEF Screens
<1>. DEFINE put == [s.cells EXCEPT ![NUM_COLS * s.y + s.x] = c]
<1>3. put \in [Cells -> Characters]
  BY <1>2
<1>. HIDE DEF put
<1>4. /\ s.y + 1 \in 0 .. NUM_ROWS /\ s.y \in 0 .. NUM_ROWS /\ 0 \in Columns
      /\ s.x + 1 # NUM_COLS => s.x + 1 \in Columns
  BY <1>1, <1>2 DEF Columns, Rows
<1>5. putc(s, c) =
        IF c = "\n" THEN scrollscreen([cells |-> s.cells, x |-> 0, y |-> s.y + 1])
        ELSE IF s.x + 1 = NUM_COLS THEN scrollscreen([cells |-> put, x |-> 0, y |-> s.y + 1])
        ELSE [cells |-> put, x |-> s.x + 1, y |-> s.y]
  <2>. DEFINE p == [s EXCEPT !.cells[NUM_COLS * s.y + s.x] = c]
              a == [s EXCEPT !.x = 0, !.y = @ + 1]
              d == [p EXCEPT !.x = 0, !.y = @ + 1]
              e == [p EXCEPT !.x = @ + 1]
  <2>1. p \in [cells : {put}, x : {s.x}, y : {s.y}]
    BY <1>2 DEF put
  <2>. HIDE DEF p
  <2>2. p.cells = put /\ p.x = s.x /\ p.y = s.y
    BY <2>1
  <2>3. a \in [cells : {s.cells}, x : {0}, y : {s.y + 1}]
    BY <1>2
  <2>4. /\ d \in [cells : {put}, x : {0}, y : {s.y + 1}]
        /\ e \in [cells : {put}, x : {s.x + 1}, y : {s.y}]
    BY <2>1, <2>2
  <2>. HIDE DEF a, d, e
  <2>5. /\ a = [cells |-> s.cells, x |-> 0, y |-> s.y + 1]
        /\ d = [cells |-> put, x |-> 0, y |-> s.y + 1]
        /\ e = [cells |-> put, x |-> s.x + 1, y |-> s.y]
    BY <2>3, <2>4
  <2>6. putc(s, c) = IF c = "\n" THEN scrollscreen(a)
                     ELSE IF s.x + 1 = NUM_COLS THEN scrollscreen(d) ELSE e
    BY DEF putc, a, d, e, p
  <2>. QED
    BY <2>5, <2>6
<1>6. /\ putc(s, c) \in Screens
      /\ putc(s, c).x = IF c = "\n" \/ s.x + 1 = NUM_COLS THEN 0 ELSE s.x + 1
      /\ putc(s, c).y = IF c = "\n" \/ s.x + 1 = NUM_COLS
                          THEN IF s.y + 1 = NUM_ROWS THEN NUM_ROWS - 1 ELSE s.y + 1
                          ELSE s.y
  <2>1. CASE c = "\n"
    BY <1>2, <1>4, <1>5, <2>1, ScrollOnScreen
  <2>2. CASE c # "\n" /\ s.x + 1 = NUM_COLS
    BY <1>3, <1>4, <1>5, <2>2, ScrollOnScreen
  <2>3. CASE c # "\n" /\ s.x + 1 # NUM_COLS
    BY <1>2, <1>3, <1>4, <1>5, <2>3 DEF Screens
  <2>. QED
    BY <2>1, <2>2, <2>3
<1>7. ASSUME NEW position \in Beginnings, get_cur_position(s) = PlaceOf(position)
      PROVE  get_cur_position(putc(s, c)) = PlaceOf(Moved(position, c))
  <2>1. s.x = position.x /\ s.y = Row(position) /\ position.y \in Nat
    BY <1>7 DEF get_cur_position, PlaceOf, Position, Beginnings
  <2>2. Moved(position, c).x = putc(s, c).x
    BY <1>6, <2>1 DEF Moved, Position
  <2>3. Row(Moved(position, c)) = putc(s, c).y
    BY <1>1, <1>6, <2>1 DEF Moved, Position, Row
  <2>. QED
    BY <2>2, <2>3 DEF get_cur_position, PlaceOf
<1>. QED
  BY <1>6, <1>7

LEMMA MovedBegins ==
    ASSUME NEW position \in Beginnings, NEW c \in Characters
    PROVE  Moved(position, c) \in Beginnings
<1>1. NUM_COLS \in Nat /\ NUM_COLS > 0 /\ NUM_ROWS \in Nat /\ NUM_ROWS > 1
  BY ScreenAssumption
<1>2. position.x \in Columns /\ position.y \in Nat
  BY DEF Beginnings
<1>3. 0 \in Columns /\ (position.x + 1 # NUM_COLS => position.x + 1 \in Columns)
  BY <1>1, <1>2 DEF Columns
<1>. QED
  BY <1>1, <1>2, <1>3 DEF Moved, Position, Beginnings

(* The screens after each character of a text, and the beginnings.         *)
Putting(s, text, f) ==
    /\ f \in [0 .. Len(text) -> Screens]
    /\ f[0] = s /\ f[Len(text)] = puts(s, text)
    /\ \A n \in 1 .. Len(text) : f[n] = putc(f[n - 1], text[n])

Moving(position, text, g) ==
    /\ g \in [0 .. Len(text) -> Beginnings]
    /\ g[0] = position /\ g[Len(text)] = MovedBy(position, text)
    /\ \A n \in 1 .. Len(text) : g[n] = Moved(g[n - 1], text[n])

LEMMA putsUnfolds ==
    ASSUME NEW s \in Screens, NEW text \in Seq(Characters)
    PROVE  \E f : Putting(s, text, f)
<1>. DEFINE N    == Len(text)
            step == [n \in 1 .. N |-> [g \in Screens |-> putc(g, text[n])]]
            IsAfter(f) == f = [n \in 0 .. N |-> IF n = 0 THEN s ELSE putc(f[n - 1], text[n])]
<1>1. N \in Nat /\ \A n \in 1 .. N : text[n] \in Characters
  BY LenProperties, ElementOfSeq
<1>2. step \in [1 .. N -> [Screens -> Screens]]
  BY <1>1, putcOnScreen
<1>3. PICK f \in [0 .. N -> Screens] :
        f[0] = s /\ \A n \in 1 .. N : f[n] = step[n][f[n - 1]]
  <2>. HIDE DEF step, N
  <2>1. Recursion(N, Screens, s, step)
    BY <1>1, <1>2, RecursionOn
  <2>. QED
    BY <2>1 DEF Recursion
<1>4. ASSUME NEW n \in 1 .. N PROVE f[n] = putc(f[n - 1], text[n])
  <2>1. n - 1 \in 0 .. N
    BY <1>1
  <2>2. f[n - 1] \in Screens
    BY <2>1
  <2>. QED
    BY <1>3, <2>2
<1>5. IsAfter(f)
  <2>1. ASSUME NEW n \in 0 .. N
        PROVE  f[n] = IF n = 0 THEN s ELSE putc(f[n - 1], text[n])
    <3>1. CASE n = 0
      BY <1>3, <3>1
    <3>2. CASE n # 0
      BY <1>1, <1>4, <3>2
    <3>. QED
      BY <3>1, <3>2
  <2>. QED
    BY <2>1
<1>. DEFINE after == CHOOSE g : IsAfter(g)
<1>6. IsAfter(after)
  <2>. HIDE DEF IsAfter
  <2>. QED
    BY <1>5
<1>7. puts(s, text) = after[N]
  BY DEF puts
<1>. HIDE DEF after
<1>8. after[N] = f[N]
  <2>. DEFINE B == {n \in Nat : n <= N /\ after[n] # f[n]}
  <2>. SUFFICES ASSUME B # {} PROVE FALSE
    BY <1>1
  <2>1. PICK n \in B : \A k \in B : n <= k
    BY LeastNumber
  <2>2. n \in 0 .. N /\ n # 0 /\ n \in 1 .. N
    BY <1>1, <1>3, <1>6, <2>1
  <2>3. after[n - 1] = f[n - 1]
    BY <1>1, <2>1, <2>2
  <2>. QED
    BY <1>4, <1>6, <2>1, <2>2, <2>3
<1>. QED
  BY <1>3, <1>4, <1>7, <1>8 DEF Putting

LEMMA MovedByUnfolds ==
    ASSUME NEW position \in Beginnings, NEW text \in Seq(Characters)
    PROVE  \E g : Moving(position, text, g)
<1>. DEFINE N    == Len(text)
            step == [n \in 1 .. N |-> [p \in Beginnings |-> Moved(p, text[n])]]
            IsAfter(f) ==
                f = [n \in 0 .. N |-> IF n = 0 THEN position ELSE Moved(f[n - 1], text[n])]
<1>1. N \in Nat /\ \A n \in 1 .. N : text[n] \in Characters
  BY LenProperties, ElementOfSeq
<1>2. step \in [1 .. N -> [Beginnings -> Beginnings]]
  BY <1>1, MovedBegins
<1>3. PICK f \in [0 .. N -> Beginnings] :
        f[0] = position /\ \A n \in 1 .. N : f[n] = step[n][f[n - 1]]
  <2>. HIDE DEF step, N
  <2>1. Recursion(N, Beginnings, position, step)
    BY <1>1, <1>2, RecursionOn
  <2>. QED
    BY <2>1 DEF Recursion
<1>4. ASSUME NEW n \in 1 .. N PROVE f[n] = Moved(f[n - 1], text[n])
  <2>1. n - 1 \in 0 .. N
    BY <1>1
  <2>2. f[n - 1] \in Beginnings
    BY <2>1
  <2>. QED
    BY <1>3, <2>2
<1>5. IsAfter(f)
  <2>1. ASSUME NEW n \in 0 .. N
        PROVE  f[n] = IF n = 0 THEN position ELSE Moved(f[n - 1], text[n])
    <3>1. CASE n = 0
      BY <1>3, <3>1
    <3>2. CASE n # 0
      BY <1>1, <1>4, <3>2
    <3>. QED
      BY <3>1, <3>2
  <2>. QED
    BY <2>1
<1>. DEFINE after == CHOOSE g : IsAfter(g)
<1>6. IsAfter(after)
  <2>. HIDE DEF IsAfter
  <2>. QED
    BY <1>5
<1>7. MovedBy(position, text) = after[N]
  BY DEF MovedBy
<1>. HIDE DEF after
<1>8. after[N] = f[N]
  <2>. DEFINE B == {n \in Nat : n <= N /\ after[n] # f[n]}
  <2>. SUFFICES ASSUME B # {} PROVE FALSE
    BY <1>1
  <2>1. PICK n \in B : \A k \in B : n <= k
    BY LeastNumber
  <2>2. n \in 0 .. N /\ n # 0 /\ n \in 1 .. N
    BY <1>1, <1>3, <1>6, <2>1
  <2>3. after[n - 1] = f[n - 1]
    BY <1>1, <2>1, <2>2
  <2>. QED
    BY <1>4, <1>6, <2>1, <2>2, <2>3
<1>. QED
  BY <1>3, <1>4, <1>7, <1>8 DEF Moving

LEMMA putsOnScreen ==
    ASSUME NEW s \in Screens, NEW text \in Seq(Characters)
    PROVE  puts(s, text) \in Screens
<1>1. PICK f : Putting(s, text, f)
  BY putsUnfolds
<1>2. Len(text) \in 0 .. Len(text)
  BY LenProperties
<1>. QED
  BY <1>1, <1>2 DEF Putting

(* The beginning of a line that terminal_write moves along with its output *)
(* stays where the screen is, scrolled or not.                             *)
LEMMA BeginningFollowsOutput ==
    ASSUME NEW s \in Screens, NEW position \in Beginnings, NEW text \in Seq(Characters)
    PROVE  /\ MovedBy(position, text) \in Beginnings
           /\ get_cur_position(s) = PlaceOf(position) =>
                get_cur_position(puts(s, text)) = PlaceOf(MovedBy(position, text))
<1>. DEFINE N == Len(text)
<1>1. N \in Nat /\ \A n \in 1 .. N : text[n] \in Characters
  BY LenProperties, ElementOfSeq
<1>2. PICK f : Putting(s, text, f)
  BY putsUnfolds
<1>3. PICK g : Moving(position, text, g)
  BY MovedByUnfolds
<1>4. ASSUME get_cur_position(s) = PlaceOf(position)
      PROVE  \A n \in 0 .. N : get_cur_position(f[n]) = PlaceOf(g[n])
  <2>. DEFINE B == {n \in Nat : n <= N /\ get_cur_position(f[n]) # PlaceOf(g[n])}
  <2>. SUFFICES ASSUME B # {} PROVE FALSE
    BY <1>1
  <2>1. PICK n \in B : \A k \in B : n <= k
    BY LeastNumber
  <2>2. n # 0
    BY <1>2, <1>3, <1>4, <2>1 DEF Putting, Moving
  <2>3. n \in 1 .. N /\ n - 1 \in 0 .. N /\ n - 1 \in Nat /\ n - 1 <= N /\ n - 1 \notin B
    BY <1>1, <2>1, <2>2
  <2>4. get_cur_position(f[n - 1]) = PlaceOf(g[n - 1])
    BY <2>3
  <2>5. /\ f[n - 1] \in Screens /\ f[n] = putc(f[n - 1], text[n])
        /\ g[n - 1] \in Beginnings /\ g[n] = Moved(g[n - 1], text[n])
    BY <1>2, <1>3, <2>3 DEF Putting, Moving
  <2>6. get_cur_position(f[n]) = PlaceOf(g[n])
    BY <1>1, <2>3, <2>4, <2>5, putcOnScreen
  <2>. QED
    BY <2>1, <2>6
<1>5. N \in 0 .. N
  BY <1>1
<1>. QED
  BY <1>2, <1>3, <1>4, <1>5 DEF Putting, Moving

LEMMA FromIsText ==
    ASSUME NEW text \in Seq(Characters), NEW offset \in Nat
    PROVE  From(text, offset) \in Seq(Characters)
<1>1. \A i \in 1 .. Len(text) : text[i] \in Characters
  BY ElementOfSeq
<1>2. Len(text) \in Int /\ offset + 1 \in Int
  BY LenProperties
<1>3. \A i \in offset + 1 .. Len(text) : text[i] \in Characters
  BY <1>1, <1>2
<1>. QED
  BY <1>2, <1>3, SubSeqProperties DEF From

LEMMA LineOnScreen ==
    ASSUME NEW s \in Screens, NEW position \in Beginnings,
           NEW text \in Seq(Characters), NEW offset \in Nat
    PROVE  print_line_buffer(s, position, text, offset) \in Screens
BY AtOnScreen, FromIsText, putsOnScreen DEF print_line_buffer
-----------------------------------------------------------------------------
(* The inductive invariant.                                                *)

ScreenTypes ==
    /\ screen \in Screens
    /\ start_position \in [Terminal -> Beginnings]
    /\ line \in [Terminal -> Seq(Characters)]
    /\ buf_offset \in Nat
    /\ curr_terminal \in Terminal
    /\ vbuffer \in [Terminal -> [Cells -> Characters]]
    /\ alt_pressed \in BOOLEAN
    /\ left \in [Terminal -> Screens]
    /\ echo = [t \in Terminal |-> echo[t]]

(* A terminal comes back to the beginning of its line.  That is the place  *)
(* it was left at, because Alt+Fn takes two keys: the Alt key has put the  *)
(* beginning of an empty line to where the screen is, and what is written  *)
(* while it is held moves both; after Enter, an erasure or a message it is *)
(* "strayed".                                                              *)
ScreensKept ==
    /\ \A t \in Terminal : vbuffer[t] = left[t].cells
    /\ \A t \in Terminal \ {T} :
         line[t] = <<>> /\ echo[t] \in {"calm", "left"} =>
           get_cur_position(left[t]) = PlaceOf(start_position[t])
    /\ alt_pressed /\ line[T] = <<>> /\ echo[T] \in {"calm", "left"} =>
         Here = PlaceOf(start_position[T])

ScreenInv == ScreenTypes /\ ScreensKept

LEMMA Sizes ==
    /\ NUM_COLS \in Nat /\ NUM_COLS > 0 /\ NUM_ROWS \in Nat /\ NUM_ROWS > 1
    /\ LINE_BUFFER \in Nat /\ OFFSET_X \in Nat /\ FirstRow \in Nat
    /\ Prompt \in Seq(Characters) /\ Letters \in Seq(Characters)
    /\ \A text \in Outputs \cup Messages : text \in Seq(Characters)
    /\ Position(OFFSET_X, 0) \in Beginnings /\ Position(0, 0) \in Beginnings
    /\ \A y \in Nat : Position(0, y) \in Beginnings
    /\ Blank \in [Cells -> Characters]
<1>1. /\ NUM_COLS \in Nat /\ NUM_COLS > 0 /\ NUM_ROWS \in Nat /\ NUM_ROWS > 1
      /\ LINE_BUFFER \in Nat
      /\ Prompt \in Seq(Characters) /\ Letters \in Seq(Characters)
      /\ \A text \in Outputs \cup Messages : text \in Seq(Characters)
  BY ScreenAssumption
<1>2. OFFSET_X \in Nat /\ OFFSET_X < NUM_COLS
  BY <1>1, ScreenAssumption, LenProperties DEF OFFSET_X
<1>3. FirstRow \in Nat /\ OFFSET_X \in Columns /\ 0 \in Columns
  BY <1>1, <1>2 DEF FirstRow, Columns
<1>4. Blank \in [Cells -> Characters]
  BY DEF Blank, Characters
<1>. QED
  BY <1>1, <1>2, <1>3, <1>4 DEF Position, Beginnings

LEMMA HereBegins ==
    ASSUME ScreenTypes
    PROVE  Here \in Beginnings /\ PlaceOf(Here) = Here
<1>1. screen.x \in Columns /\ screen.y \in Rows
  BY DEF ScreenTypes, Screens
<1>2. screen.y \in Nat /\ ~ (screen.y >= NUM_ROWS)
  BY <1>1, Sizes DEF Rows
<1>. QED
  BY <1>1, <1>2 DEF Here, get_cur_position, Position, Beginnings, PlaceOf, Row

LEMMA InitScreenInv == Init => ScreenInv
<1>. SUFFICES ASSUME Init PROVE ScreenInv
  OBVIOUS
<1>1. 0 \in Columns /\ 0 \in Rows
  BY Sizes DEF Columns, Rows
<1>2. Clear \in Screens /\ Clear.cells = Blank
  BY <1>1, Sizes DEF Clear, Screens
<1>3. get_cur_position(Clear) = PlaceOf(Position(0, 0))
  BY Sizes DEF Clear, get_cur_position, PlaceOf, Row, Position
<1>4. ScreenTypes
  <2>1. echo = [t \in Terminal |-> echo[t]]
    BY DEF Init
  <2>2. /\ start_position \in [Terminal -> Beginnings]
        /\ line \in [Terminal -> Seq(Characters)]
        /\ vbuffer \in [Terminal -> [Cells -> Characters]]
        /\ left \in [Terminal -> Screens]
    BY <1>2, Sizes DEF Init
  <2>3. /\ screen \in Screens /\ buf_offset \in Nat
        /\ curr_terminal \in Terminal /\ alt_pressed \in BOOLEAN
    BY <1>2, ScreenAssumption DEF Init
  <2>. QED
    BY <2>1, <2>2, <2>3 DEF ScreenTypes
<1>5. ScreensKept
  BY <1>2, <1>3 DEF Init, ScreensKept, Here, T
<1>. QED
  BY <1>4, <1>5 DEF ScreenInv

(* A key that is pressed while Alt is not, and leaves it so, can write and *)
(* move what it likes on its own terminal.                                 *)
OwnTerminal ==
    /\ screen' \in Screens
    /\ \E p \in Beginnings : start_position' = [start_position EXCEPT ![T] = p]
    /\ \E text \in Seq(Characters) : line' = [line EXCEPT ![T] = text]
    /\ \E e : echo' = [echo EXCEPT ![T] = e]
    /\ buf_offset' \in Nat
    /\ UNCHANGED <<curr_terminal, vbuffer, left>>

(* ... if Alt is held, the beginning of an empty line must stay with it.   *)
LEMMA OwnTerminalScreenInv ==
    ASSUME ScreenInv, OwnTerminal, alt_pressed' \in BOOLEAN,
           alt_pressed' /\ line'[T] = <<>> /\ echo'[T] \in {"calm", "left"} =>
             get_cur_position(screen') = PlaceOf(start_position'[T])
    PROVE  ScreenInv'
<1>1. ScreenTypes'
  BY DEF ScreenInv, ScreenTypes, OwnTerminal, T
<1>2. \A t \in Terminal \ {T} :
        /\ line'[t] = line[t] /\ echo'[t] = echo[t]
        /\ start_position'[t] = start_position[t]
  BY DEF ScreenInv, ScreenTypes, OwnTerminal, T
<1>3. T' = T /\ Here' = get_cur_position(screen') /\ left' = left /\ vbuffer' = vbuffer
  BY DEF OwnTerminal, T, Here, get_cur_position
<1>4. \A t \in Terminal \ {T} :
         line'[t] = <<>> /\ echo'[t] \in {"calm", "left"} =>
           get_cur_position(left[t]) = PlaceOf(start_position'[t])
  BY <1>2 DEF ScreenInv, ScreensKept
<1>5. ScreensKept'
  BY <1>3, <1>4 DEF ScreenInv, ScreensKept, PlaceOf, Position, Row, get_cur_position
<1>. QED
  BY <1>1, <1>5 DEF ScreenInv

LEMMA TypingScreenInv ==
    ASSUME ScreenInv, OwnTerminal, UNCHANGED alt_pressed,
           alt_pressed => line'[T] # <<>> \/ echo'[T] = "strayed"
    PROVE  ScreenInv'
<1>1. alt_pressed' \in BOOLEAN
  BY DEF ScreenInv, ScreenTypes
<1>2. ~ (alt_pressed' /\ line'[T] = <<>> /\ echo'[T] \in {"calm", "left"})
  OBVIOUS
<1>. HIDE DEF OwnTerminal
<1>. QED
  BY <1>1, <1>2, OwnTerminalScreenInv, Zenon

(* Began puts no line but that of the terminal on the screen elsewhere.    *)
LEMMA BeganBegins ==
    ASSUME ScreenTypes, NEW starts \in [Terminal -> Beginnings], NEW lines
    PROVE  /\ \E p \in Beginnings : Began(starts, lines) = [starts EXCEPT ![T] = p]
           /\ lines[T] = <<>> => Began(starts, lines)[T] = Here
           /\ Began(starts, lines)[T] \in Beginnings
<1>1. T \in Terminal /\ Here \in Beginnings
  BY HereBegins DEF ScreenTypes, T
<1>2. starts = [starts EXCEPT ![T] = starts[T]] /\ starts[T] \in Beginnings
  BY <1>1
<1>. QED
  BY <1>1, <1>2 DEF Began

-----------------------------------------------------------------------------
(* The keys.                                                               *)

LEMMA TypeLetterScreenInv ==
    ASSUME ScreenInv, TypeLetter
    PROVE  ScreenInv'
<1>. DEFINE size  == Len(line[T]) + 1
            text  == Append(line[T], Letters[size])
            begin == Began(start_position, line)[T]
            shown == print_line_buffer(screen, begin, text, buf_offset)
            below == Position(0, (begin.y + 1) % BYTE)
            wraps == Here.x + 1 = NUM_COLS
<1>1. /\ ScreenTypes /\ T \in Terminal /\ screen \in Screens /\ buf_offset \in Nat
      /\ line[T] \in Seq(Characters) /\ Len(line[T]) \in Nat
      /\ start_position \in [Terminal -> Beginnings]
  BY LenProperties DEF ScreenInv, ScreenTypes, T
<1>2. begin \in Beginnings /\ begin.y \in Nat
  BY <1>1, BeganBegins DEF Beginnings
<1>3. text \in Seq(Characters)
  <2>1. size <= LINE_BUFFER - 2
    BY <1>1, Sizes DEF TypeLetter, LineFull
  <2>2. Len(Letters) \in Nat /\ Len(Letters) >= LINE_BUFFER - 2
    BY Sizes, ScreenAssumption, LenProperties
  <2>3. size \in 1 .. Len(Letters)
    BY <1>1, <2>1, <2>2, Sizes
  <2>4. Letters[size] \in Characters
    BY <2>3, Sizes, ElementOfSeq
  <2>. QED
    BY <1>1, <2>4, AppendProperties
<1>4. below \in Beginnings
  <2>1. (begin.y + 1) % BYTE \in Nat
    BY <1>2, Remainders DEF BYTE
  <2>. QED
    BY <2>1, Sizes
<1>. HIDE DEF text, begin, below
<1>5. shown \in Screens
  BY <1>1, <1>2, <1>3, LineOnScreen
<1>6. /\ At(shown, below) \in Screens
      /\ At(shown, Position(Here.x + 1, Here.y)) \in Screens
  <2>1. Here.x \in Int /\ Here.y \in Int
    BY <1>1, HereBegins, Sizes DEF Beginnings, Columns
  <2>2. At(shown, Position(Here.x + 1, Here.y)) \in Screens
    BY <1>5, <2>1, NewPositionOnScreen DEF At, Position
  <2>. QED
    BY <1>4, <1>5, <2>2, AtOnScreen
<1>. HIDE DEF shown
<1>7. /\ line' = [line EXCEPT ![T] = text]
      /\ \E e : echo' = [echo EXCEPT ![T] = e]
      /\ \/ /\ start_position' = [start_position EXCEPT ![T] = below]
            /\ screen' = At(shown, below)
            /\ buf_offset' = FirstRow
         \/ /\ start_position' = [start_position EXCEPT ![T] = begin]
            /\ screen' = At(shown, Position(Here.x + 1, Here.y))
            /\ buf_offset' = buf_offset
      /\ UNCHANGED <<curr_terminal, vbuffer, alt_pressed, left>>
  BY DEF TypeLetter, Echo, text, begin, below, shown
<1>8. OwnTerminal
  BY <1>1, <1>2, <1>3, <1>4, <1>6, <1>7, Sizes DEF OwnTerminal
<1>9. ~ alt_pressed
  BY DEF TypeLetter
<1>. QED
  BY <1>7, <1>8, <1>9, TypingScreenInv

(* The Alt key, the others without a character and Backspace on an empty   *)
(* line take it to begin where the screen is.                              *)
LEMMA OtherKeyScreenInv ==
    ASSUME ScreenInv, OtherKey \/ AltPress \/ (Backspace /\ line[T] = <<>>)
    PROVE  ScreenInv'
<1>1. /\ ScreenTypes /\ T \in Terminal /\ screen \in Screens /\ buf_offset \in Nat
      /\ line \in [Terminal -> Seq(Characters)] /\ line[T] \in Seq(Characters)
      /\ start_position \in [Terminal -> Beginnings]
  BY DEF ScreenInv, ScreenTypes, T
<1>2. /\ start_position' = Began(start_position, line)
      /\ UNCHANGED <<screen, line, buf_offset, curr_terminal, vbuffer, left>>
      /\ EchoAfterKey
  BY DEF OtherKey, AltPress, Backspace
<1>3. alt_pressed' \in BOOLEAN
  BY <1>1 DEF OtherKey, AltPress, Backspace, ScreenTypes
<1>4. PICK p \in Beginnings : start_position' = [start_position EXCEPT ![T] = p]
  BY <1>1, <1>2, BeganBegins
<1>5. line' = [line EXCEPT ![T] = line[T]]
  BY <1>1, <1>2
<1>6. OwnTerminal
  BY <1>1, <1>2, <1>4, <1>5 DEF OwnTerminal, EchoAfterKey, Echo
<1>7. line'[T] = <<>> => get_cur_position(screen') = PlaceOf(start_position'[T])
  <2>. SUFFICES ASSUME line'[T] = <<>> PROVE get_cur_position(screen') = PlaceOf(start_position'[T])
    OBVIOUS
  <2>1. start_position'[T] = Here
    BY <1>1, <1>2, BeganBegins
  <2>2. PlaceOf(Here) = Here
    BY <1>1, HereBegins
  <2>3. get_cur_position(screen') = Here
    BY <1>2 DEF Here
  <2>. QED
    BY <2>1, <2>2, <2>3
<1>. QED
  BY <1>3, <1>6, <1>7, OwnTerminalScreenInv

LEMMA BackspaceScreenInv ==
    ASSUME ScreenInv, Backspace
    PROVE  ScreenInv'
<1>1. /\ ScreenTypes /\ T \in Terminal /\ screen \in Screens /\ buf_offset \in Nat
      /\ line \in [Terminal -> Seq(Characters)] /\ line[T] \in Seq(Characters)
      /\ start_position \in [Terminal -> Beginnings] /\ start_position[T] \in Beginnings
  BY DEF ScreenInv, ScreenTypes, T
<1>2. UNCHANGED <<curr_terminal, vbuffer, left, alt_pressed>>
  BY DEF Backspace
<1>3. CASE line[T] # <<>> /\ Erase
  <2>. DEFINE size  == Len(line[T]) - 1
              text  == Front(line[T])
              back  == size = NUM_COLS - 1
              above == [start_position[T] EXCEPT !.y = (@ - 1) % BYTE]
              begin == IF back THEN above ELSE start_position[T]
              from  == IF back THEN Position(NUM_COLS - 1, (Here.y - 1) % BYTE) ELSE Here
              offset == IF back THEN 0 ELSE buf_offset
              printed == print_line_buffer(screen, begin, text, offset)
              shown == putc(printed, " ")
              starts == [start_position EXCEPT ![T] = begin]
  <2>1. text \in Seq(Characters)
    <3>1. Len(line[T]) >= 1
      BY <1>1, <1>3, EmptySeq, LenProperties
    <3>. QED
      BY <1>1, <3>1, FrontOf
  <2>2. Here.x \in Int /\ Here.y \in Int /\ NUM_COLS \in Int
    BY <1>1, HereBegins, Sizes DEF Beginnings, Columns
  <2>3. above \in Beginnings
    <3>1. start_position[T].y \in Nat
      BY <1>1 DEF Beginnings
    <3>2. (start_position[T].y - 1) % BYTE \in Nat
      BY <3>1, Remainders DEF BYTE
    <3>. QED
      BY <1>1, <3>2 DEF Beginnings
  <2>4. from.x - 1 \in Int /\ from.y \in Int
    <3>1. (Here.y - 1) % BYTE \in Int
      BY <2>2, Remainders DEF BYTE
    <3>. QED
      BY <2>2, <3>1 DEF Position
  <2>5. begin \in Beginnings /\ offset \in Nat /\ starts \in [Terminal -> Beginnings]
    BY <1>1, <2>3
  <2>. HIDE DEF above, text, begin, from, offset, starts
  <2>6. printed \in Screens
    BY <1>1, <2>1, <2>5, LineOnScreen
  <2>. HIDE DEF printed
  <2>7. shown \in Screens
    BY <2>6, putcOnScreen DEF Characters
  <2>. HIDE DEF shown
  <2>8. set_new_position(shown, from.x - 1, from.y) \in Screens
    BY <2>4, <2>7, NewPositionOnScreen
  <2>9. /\ line' = [line EXCEPT ![T] = text]
        /\ buf_offset' = offset
        /\ screen' = set_new_position(shown, from.x - 1, from.y)
        /\ start_position' = Began(starts, line')
        /\ \E e : echo' = [echo EXCEPT ![T] = e]
    BY <1>3 DEF Erase, Echo, text, begin, above, from, offset, starts, printed, shown
  <2>10. PICK p \in Beginnings : start_position' = [starts EXCEPT ![T] = p]
    BY <1>1, <2>5, <2>9, BeganBegins
  <2>11. start_position' = [start_position EXCEPT ![T] = p]
    BY <1>1, <2>10 DEF starts
  <2>12. OwnTerminal
    BY <1>2, <2>1, <2>5, <2>8, <2>9, <2>11 DEF OwnTerminal
  <2>13. line'[T] # <<>> \/ echo'[T] = "strayed"
    BY <1>1, <1>3, <2>9 DEF Erase, Echo, text, ScreenTypes
  <2>. HIDE DEF OwnTerminal
  <2>. QED
    BY <1>2, <2>12, <2>13, TypingScreenInv
<1>4. CASE line[T] = <<>>
  BY <1>4, OtherKeyScreenInv
<1>. QED
  BY <1>3, <1>4 DEF Backspace

LEMMA EnterScreenInv ==
    ASSUME ScreenInv, Enter
    PROVE  ScreenInv'
<1>1. /\ ScreenTypes /\ T \in Terminal /\ screen \in Screens /\ buf_offset \in Nat
      /\ line[T] \in Seq(Characters) /\ start_position[T] \in Beginnings
  BY DEF ScreenInv, ScreenTypes, T
<1>2. Append(line[T], "\n") \in Seq(Characters)
  BY <1>1, AppendProperties, "\n" \in Characters DEF Characters
<1>3. screen' \in Screens
  BY <1>1, <1>2, LineOnScreen DEF Enter
<1>4. Here \in Beginnings /\ <<>> \in Seq(Characters)
  BY <1>1, HereBegins
<1>5. OwnTerminal /\ UNCHANGED alt_pressed
  BY <1>3, <1>4 DEF Enter, OwnTerminal, Echo
<1>6. echo'[T] = "strayed"
  BY <1>1 DEF Enter, Echo, ScreenTypes
<1>. HIDE DEF OwnTerminal
<1>. QED
  BY <1>5, <1>6, TypingScreenInv

LEMMA AltReleaseScreenInv ==
    ASSUME ScreenInv, AltRelease
    PROVE  ScreenInv'
<1>1. /\ UNCHANGED <<screen, start_position, line, buf_offset, curr_terminal, vbuffer, left, echo>>
      /\ alt_pressed' = FALSE
  BY DEF AltRelease
<1>2. ScreenTypes'
  BY <1>1 DEF ScreenInv, ScreenTypes
<1>3. ScreensKept'
  BY <1>1 DEF ScreenInv, ScreensKept, T, Here, PlaceOf, Position, Row, get_cur_position
<1>. QED
  BY <1>2, <1>3 DEF ScreenInv

LEMMA ClearScreenScreenInv ==
    ASSUME ScreenInv, ClearScreen
    PROVE  ScreenInv'
<1>. DEFINE empty == [screen EXCEPT !.cells = Blank, !.x = 0, !.y = 0]
<1>1. /\ ScreenTypes /\ T \in Terminal /\ screen \in Screens /\ buf_offset \in Nat
      /\ line \in [Terminal -> Seq(Characters)] /\ line[T] \in Seq(Characters)
  BY DEF ScreenInv, ScreenTypes, T
<1>2. empty \in Screens
  <2>1. 0 \in Columns /\ 0 \in Rows /\ Blank \in [Cells -> Characters]
    BY Sizes DEF Columns, Rows
  <2>. QED
    BY <1>1, <2>1 DEF Screens
<1>. HIDE DEF empty
<1>3. print_line_buffer(puts(empty, Prompt), Position(OFFSET_X, 0), line[T], 0) \in Screens
  BY <1>1, <1>2, Sizes, putsOnScreen, LineOnScreen
<1>4. /\ screen' = print_line_buffer(puts(empty, Prompt), Position(OFFSET_X, 0), line[T], 0)
      /\ start_position' = [start_position EXCEPT ![T] =
           IF buf_offset = 0 THEN Position(OFFSET_X, 0) ELSE Position(0, 1)]
      /\ \E e : echo' = [echo EXCEPT ![T] = e]
      /\ UNCHANGED <<line, buf_offset, curr_terminal, vbuffer, left, alt_pressed>>
      /\ ~alt_pressed
  BY DEF ClearScreen, Echo, empty
<1>5. line' = [line EXCEPT ![T] = line[T]]
  BY <1>1, <1>4
<1>6. OwnTerminal
  BY <1>1, <1>3, <1>4, <1>5, Sizes DEF OwnTerminal
<1>. QED
  BY <1>4, <1>6, TypingScreenInv

-----------------------------------------------------------------------------
(* Alt+Fn.                                                                 *)

LEMMA SwitchScreenInv ==
    ASSUME ScreenInv, NEW t \in Terminal, Switch(t)
    PROVE  ScreenInv'
<1>1. /\ ScreenTypes /\ ScreensKept /\ T \in Terminal /\ screen \in Screens
      /\ start_position[t] \in Beginnings /\ vbuffer[t] \in [Cells -> Characters]
  BY DEF ScreenInv, ScreenTypes, T
<1>2. /\ t # T /\ T' = t /\ curr_terminal' = t
      /\ vbuffer' = [vbuffer EXCEPT ![T] = screen.cells]
      /\ screen' = [At(screen, start_position[t]) EXCEPT !.cells = vbuffer[t]]
      /\ left' = [left EXCEPT ![T] = screen]
      /\ echo' = EchoAfterSwitch
      /\ UNCHANGED <<start_position, line, buf_offset, alt_pressed>>
  BY DEF Switch, Kept, T
<1>3. /\ At(screen, start_position[t]) \in Screens
      /\ get_cur_position(At(screen, start_position[t])) = PlaceOf(start_position[t])
  BY <1>1, AtOnScreen
<1>4. /\ screen' \in Screens
      /\ get_cur_position(screen') = PlaceOf(start_position[t])
  BY <1>1, <1>2, <1>3 DEF Screens, get_cur_position
<1>5. \A u \in Terminal :
        line[u] = <<>> /\ echo'[u] \in {"calm", "left"} => echo[u] \in {"calm", "left"}
  BY <1>2 DEF EchoAfterSwitch
<1>6. ScreenTypes'
  <2>1. screen.cells \in [Cells -> Characters]
    BY <1>1 DEF Screens
  <2>2. echo' = [u \in Terminal |-> echo'[u]]
    BY <1>2 DEF EchoAfterSwitch
  <2>3. /\ vbuffer' \in [Terminal -> [Cells -> Characters]]
        /\ left' \in [Terminal -> Screens]
    BY <1>1, <1>2, <2>1 DEF ScreenTypes
  <2>. QED
    BY <1>1, <1>2, <1>4, <2>2, <2>3 DEF ScreenTypes
<1>7. \A u \in Terminal : vbuffer'[u] = left'[u].cells
  BY <1>1, <1>2 DEF ScreenTypes, ScreensKept
<1>8. \A u \in Terminal \ {t} :
         line[u] = <<>> /\ echo'[u] \in {"calm", "left"} =>
           get_cur_position(left'[u]) = PlaceOf(start_position[u])
  <2>1. left'[T] = screen /\ \A u \in Terminal \ {T} : left'[u] = left[u]
    BY <1>1, <1>2 DEF ScreenTypes
  <2>2. alt_pressed
    BY DEF Switch
  <2>. QED
    BY <1>1, <1>5, <2>1, <2>2 DEF ScreensKept, Here
<1>9. Here' = get_cur_position(screen')
  BY DEF Here, get_cur_position
<1>10. ScreensKept'
  BY <1>2, <1>4, <1>7, <1>8, <1>9 DEF ScreensKept, PlaceOf, Position, Row, get_cur_position
<1>. QED
  BY <1>6, <1>10 DEF ScreenInv

LEMMA SwitchToSameScreenInv ==
    ASSUME ScreenInv, SwitchToSame
    PROVE  ScreenInv'
<1>1. /\ ScreenTypes /\ ScreensKept /\ T \in Terminal /\ screen \in Screens /\ buf_offset \in Nat
      /\ line \in [Terminal -> Seq(Characters)] /\ line[T] \in Seq(Characters)
      /\ start_position \in [Terminal -> Beginnings] /\ start_position[T] \in Beginnings
  BY DEF ScreenInv, ScreenTypes, T
<1>2. /\ screen' = At(screen, start_position[T])
      /\ start_position' = Began(start_position, line)
      /\ \E e : echo' = [echo EXCEPT ![T] = e]
      /\ UNCHANGED <<line, buf_offset, curr_terminal, vbuffer, alt_pressed, left>>
  BY DEF SwitchToSame, Echo
<1>3. /\ screen' \in Screens
      /\ get_cur_position(screen') = PlaceOf(start_position[T])
  BY <1>1, <1>2, AtOnScreen
<1>4. PICK p \in Beginnings : start_position' = [start_position EXCEPT ![T] = p]
  BY <1>1, <1>2, BeganBegins
<1>5. line' = [line EXCEPT ![T] = line[T]]
  BY <1>1, <1>2
<1>6. OwnTerminal
  BY <1>1, <1>2, <1>3, <1>4, <1>5 DEF OwnTerminal
<1>7. ASSUME line'[T] = <<>>, echo'[T] \in {"calm", "left"}
      PROVE  get_cur_position(screen') = PlaceOf(start_position'[T])
  <2>1. line[T] = <<>>
    BY <1>2, <1>7
  <2>2. echo[T] \in {"calm", "left"}
    BY <1>1, <1>7, <2>1 DEF SwitchToSame, Echo, ScreenTypes
  <2>3. Here = PlaceOf(start_position[T])
    BY <1>1, <2>1, <2>2 DEF ScreensKept, SwitchToSame
  <2>4. start_position'[T] = Here /\ PlaceOf(Here) = Here
    BY <1>1, <1>2, <2>1, BeganBegins, HereBegins
  <2>. QED
    BY <1>3, <2>3, <2>4
<1>8. alt_pressed' \in BOOLEAN
  BY <1>1, <1>2 DEF ScreenTypes
<1>. QED
  BY <1>6, <1>7, <1>8, OwnTerminalScreenInv

-----------------------------------------------------------------------------
(* The programs.                                                           *)

LEMMA WriteScreenInv ==
    ASSUME ScreenInv, NEW text \in Seq(Characters), terminal_write(text)
    PROVE  ScreenInv'
<1>1. /\ ScreenTypes /\ ScreensKept /\ T \in Terminal /\ screen \in Screens /\ buf_offset \in Nat
      /\ line \in [Terminal -> Seq(Characters)] /\ line[T] \in Seq(Characters)
      /\ start_position \in [Terminal -> Beginnings] /\ start_position[T] \in Beginnings
  BY DEF ScreenInv, ScreenTypes, T
<1>2. /\ screen' = puts(screen, text)
      /\ start_position' = [start_position EXCEPT ![T] = MovedBy(start_position[T], text)]
      /\ echo' = [echo EXCEPT ![T] = IF line[T] # <<>> THEN "broken" ELSE echo[T]]
      /\ UNCHANGED <<line, buf_offset, curr_terminal, vbuffer, alt_pressed, left>>
  BY DEF terminal_write, Echo
<1>3. screen' \in Screens /\ MovedBy(start_position[T], text) \in Beginnings
  BY <1>1, <1>2, putsOnScreen, BeginningFollowsOutput
<1>4. line' = [line EXCEPT ![T] = line[T]]
  BY <1>1, <1>2
<1>5. OwnTerminal
  BY <1>1, <1>2, <1>3, <1>4 DEF OwnTerminal
<1>6. ASSUME alt_pressed', line'[T] = <<>>, echo'[T] \in {"calm", "left"}
      PROVE  get_cur_position(screen') = PlaceOf(start_position'[T])
  <2>1. line[T] = <<>> /\ echo[T] \in {"calm", "left"}
    BY <1>1, <1>2, <1>6 DEF ScreenTypes
  <2>2. get_cur_position(screen) = PlaceOf(start_position[T])
    BY <1>1, <1>2, <1>6, <2>1 DEF ScreensKept, Here
  <2>3. get_cur_position(puts(screen, text)) = PlaceOf(MovedBy(start_position[T], text))
    BY <1>1, <2>2, BeginningFollowsOutput
  <2>. QED
    BY <1>1, <1>2, <2>3
<1>7. alt_pressed' \in BOOLEAN
  BY <1>1, <1>2 DEF ScreenTypes
<1>. QED
  BY <1>5, <1>6, <1>7, OwnTerminalScreenInv

LEMMA KernelPrintsScreenInv ==
    ASSUME ScreenInv, NEW text \in Messages, KernelPrints(text)
    PROVE  ScreenInv'
<1>1. /\ ScreenTypes /\ T \in Terminal /\ screen \in Screens /\ buf_offset \in Nat
      /\ line \in [Terminal -> Seq(Characters)] /\ line[T] \in Seq(Characters)
      /\ start_position \in [Terminal -> Beginnings] /\ start_position[T] \in Beginnings
  BY DEF ScreenInv, ScreenTypes, T
<1>2. /\ screen' = puts(screen, text)
      /\ echo' = [echo EXCEPT ![T] = IF line[T] # <<>> THEN "broken" ELSE "strayed"]
      /\ UNCHANGED <<start_position, line, buf_offset, curr_terminal, vbuffer, alt_pressed, left>>
  BY DEF KernelPrints, Echo
<1>3. screen' \in Screens
  BY <1>1, <1>2, Sizes, putsOnScreen
<1>4. /\ line' = [line EXCEPT ![T] = line[T]]
      /\ start_position' = [start_position EXCEPT ![T] = start_position[T]]
  BY <1>1, <1>2
<1>5. OwnTerminal
  BY <1>1, <1>2, <1>3, <1>4 DEF OwnTerminal
<1>6. line'[T] # <<>> \/ echo'[T] = "strayed"
  BY <1>1, <1>2 DEF ScreenTypes
<1>. HIDE DEF OwnTerminal
<1>. QED
  BY <1>2, <1>5, <1>6, TypingScreenInv

LEMMA ReadReturnsScreenInv ==
    ASSUME ScreenInv, ReadReturns
    PROVE  ScreenInv'
<1>1. /\ ScreenTypes /\ ScreensKept /\ T \in Terminal /\ screen \in Screens /\ buf_offset \in Nat
      /\ line \in [Terminal -> Seq(Characters)]
      /\ start_position \in [Terminal -> Beginnings] /\ start_position[T] \in Beginnings
  BY DEF ScreenInv, ScreenTypes, T
<1>2. /\ line' = [line EXCEPT ![T] = <<>>]
      /\ echo' = [echo EXCEPT ![T] = IF line[T] # <<>> THEN "broken" ELSE echo[T]]
      /\ UNCHANGED <<screen, start_position, buf_offset, curr_terminal, vbuffer, alt_pressed, left>>
  BY DEF ReadReturns, Echo
<1>3. start_position' = [start_position EXCEPT ![T] = start_position[T]]
  BY <1>1, <1>2
<1>4. OwnTerminal
  <2>1. <<>> \in Seq(Characters)
    OBVIOUS
  <2>. QED
    BY <1>1, <1>2, <1>3, <2>1 DEF OwnTerminal
<1>5. ASSUME alt_pressed', echo'[T] \in {"calm", "left"}
      PROVE  get_cur_position(screen') = PlaceOf(start_position'[T])
  <2>1. line[T] = <<>> /\ echo[T] \in {"calm", "left"}
    BY <1>1, <1>2, <1>5 DEF ScreenTypes
  <2>. QED
    BY <1>1, <1>2, <1>5, <2>1 DEF ScreensKept, Here
<1>6. alt_pressed' \in BOOLEAN
  BY <1>1, <1>2 DEF ScreenTypes
<1>. QED
  BY <1>4, <1>5, <1>6, OwnTerminalScreenInv

LEMMA NextScreenInv == ScreenInv /\ [Next]_screenVars => ScreenInv'
<1>. SUFFICES ASSUME ScreenInv, [Next]_screenVars PROVE ScreenInv'
  OBVIOUS
<1>1. CASE Typing
  BY <1>1, TypeLetterScreenInv, BackspaceScreenInv, EnterScreenInv, OtherKeyScreenInv,
     ClearScreenScreenInv DEF Typing
<1>2. CASE Alternating
  BY <1>2, OtherKeyScreenInv, AltReleaseScreenInv, SwitchToSameScreenInv, SwitchScreenInv
  DEF Alternating
<1>3. CASE Writing
  <2>1. CASE WritePrompt
    BY <2>1, WriteScreenInv, Sizes DEF WritePrompt
  <2>2. ASSUME NEW text \in Outputs, WriteOutput(text) PROVE ScreenInv'
    BY <2>2, WriteScreenInv, Sizes DEF WriteOutput
  <2>. QED
    BY <1>3, <2>1, <2>2, KernelPrintsScreenInv, ReadReturnsScreenInv DEF Writing
<1>4. CASE UNCHANGED screenVars
  <2>1. UNCHANGED <<screen, start_position, line, buf_offset, curr_terminal, vbuffer,
                    alt_pressed, left, echo>>
    BY <1>4 DEF screenVars
  <2>. QED
    BY <2>1 DEF ScreenInv, ScreenTypes, ScreensKept, T, Here, PlaceOf, Position, Row,
                get_cur_position
<1>. QED
  BY <1>1, <1>2, <1>3, <1>4 DEF Next

LEMMA ScreenInvariance == Spec => []ScreenInv
BY InitScreenInv, NextScreenInv, PTL DEF Spec

-----------------------------------------------------------------------------
(* The echo of a line.                                                     *)

(* What can be typed: a line is two rows at most, short of the last cell.  *)
Lines == {text \in Seq(ToSet(Letters)) : Len(text) < FirstRow + NUM_COLS}

(* A text is on the screen from a cell on.                                 *)
Shows(cells, i, text) ==
    \A k \in 1 .. Len(text) : i + k - 1 \in Cells /\ cells[i + k - 1] = text[k]

(* A line that has not wrapped is in the row it began in, which it leaves  *)
(* room in: printing it again does not scroll.                             *)
OneRow(begin, text, cells) ==
    /\ begin.y \in Rows
    /\ begin.x + Len(text) < NUM_COLS
    /\ Shows(cells, NUM_COLS * begin.y + begin.x, text)

(* One that has, began behind the prompt of the row above its beginning.   *)
TwoRows(begin, text, cells) ==
    /\ begin.x = 0 /\ begin.y \in 1 .. NUM_ROWS
    /\ Len(text) \in FirstRow .. FirstRow + NUM_COLS - 1
    /\ Shows(cells, NUM_COLS * (Row(begin) - 1) + OFFSET_X, text)

(* The line of the terminal on the screen, while its echo is not broken.   *)
InPlace(begin, text, s, offset, kind) ==
    \/ /\ offset = 0 /\ kind \in {"calm", "left"}
       /\ OneRow(begin, text, s.cells)
       /\ kind = "calm" =>
            get_cur_position(s) = Position(begin.x + Len(text), begin.y)
    \/ /\ offset = FirstRow /\ kind = "calm"
       /\ TwoRows(begin, text, s.cells)
       /\ get_cur_position(s) = Position(Len(text) - FirstRow, Row(begin))

(* A line of a terminal off the screen is where it was left, in one row:   *)
(* the offset is shared, so one in two rows breaks all that wait.          *)
EchoKept ==
    /\ buf_offset \in {0, FirstRow}
    /\ \A t \in Terminal : line[t] \in Lines
    /\ \A t \in Terminal \ {T} :
         line[t] # <<>> /\ echo[t] # "broken" =>
           echo[t] = "left" /\ OneRow(start_position[t], line[t], vbuffer[t])
    /\ line[T] # <<>> /\ echo[T] # "broken" =>
         InPlace(start_position[T], line[T], screen, buf_offset, echo[T])

EchoInv == ScreenInv /\ EchoKept

LEMMA CellOfPlace ==
    ASSUME NEW x \in Columns, NEW y \in Rows
    PROVE  NUM_COLS * y + x \in Cells
<1>1. NUM_COLS \in Nat /\ NUM_COLS > 0 /\ NUM_ROWS \in Nat /\ NUM_ROWS > 1
  BY Sizes
<1>2. x \in Nat /\ x < NUM_COLS /\ y \in Nat /\ y <= NUM_ROWS - 1
  BY <1>1 DEF Columns, Rows
<1>3. NUM_COLS * y \in Nat /\ NUM_COLS * y <= NUM_COLS * (NUM_ROWS - 1)
  BY <1>1, <1>2, SMT
<1>4. NUM_COLS * (NUM_ROWS - 1) = NUM_ROWS * NUM_COLS - NUM_COLS
  BY <1>1, SMT
<1>5. NUM_ROWS * NUM_COLS \in Nat
  BY <1>1, SMT
<1>. DEFINE base == NUM_COLS * y
            size == NUM_ROWS * NUM_COLS
<1>6. base \in Nat /\ size \in Nat /\ base <= size - NUM_COLS
  BY <1>3, <1>4, <1>5
<1>. HIDE DEF base, size
<1>7. base + x \in 0 .. size - 1
  BY <1>1, <1>2, <1>6
<1>. QED
  BY <1>7 DEF Cells, base, size

(* The cells after scrolling are those a row further on.                   *)
LEMMA ScrolledCells ==
    ASSUME NEW cells \in [Cells -> Characters], NEW i \in Int,
           i \in Cells, i - NUM_COLS \in Nat
    PROVE  i - NUM_COLS \in Cells /\ Scrolled(cells)[i - NUM_COLS] = cells[i]
<1>1. NUM_COLS \in Nat /\ NUM_COLS > 0 /\ NUM_ROWS * NUM_COLS \in Nat
  BY Sizes
<1>2. i - NUM_COLS \in Cells /\ (i - NUM_COLS) + NUM_COLS = i
  BY <1>1 DEF Cells
<1>. QED
  BY <1>2 DEF Scrolled

(* A character that does not end the line, in the row or at its end.       *)
LEMMA putcInRow ==
    ASSUME NEW s \in Screens, NEW c \in Characters, c # "\n", s.x + 1 # NUM_COLS
    PROVE  /\ NUM_COLS * s.y + s.x \in Cells
           /\ putc(s, c) = [cells |-> [s.cells EXCEPT ![NUM_COLS * s.y + s.x] = c],
                            x |-> s.x + 1, y |-> s.y]
<1>1. /\ s.cells \in [Cells -> Characters] /\ s.x \in Columns /\ s.y \in Rows
      /\ s = [cells |-> s.cells, x |-> s.x, y |-> s.y]
  BY DEF Screens
<1>. DEFINE p == [s EXCEPT !.cells[NUM_COLS * s.y + s.x] = c]
            put == [s.cells EXCEPT ![NUM_COLS * s.y + s.x] = c]
<1>2. putc(s, c) = [p EXCEPT !.x = @ + 1]
  BY DEF putc
<1>3. p \in [cells : {put}, x : {s.x}, y : {s.y}]
  BY <1>1
<1>. HIDE DEF p, put
<1>4. [p EXCEPT !.x = @ + 1] \in [cells : {put}, x : {s.x + 1}, y : {s.y}]
  BY <1>3
<1>5. putc(s, c) = [cells |-> put, x |-> s.x + 1, y |-> s.y]
  BY <1>2, <1>4
<1>. QED
  BY <1>1, <1>5, CellOfPlace DEF put

LEMMA putcEndsRow ==
    ASSUME NEW s \in Screens, NEW c \in Characters, c # "\n", s.x + 1 = NUM_COLS
    PROVE  LET put == [s.cells EXCEPT ![NUM_COLS * s.y + s.x] = c]
           IN  /\ NUM_COLS * s.y + s.x \in Cells
               /\ put \in [Cells -> Characters]
               /\ putc(s, c) =
                    IF s.y + 1 = NUM_ROWS
                      THEN [cells |-> Scrolled(put), x |-> 0, y |-> s.y]
                      ELSE [cells |-> put, x |-> 0, y |-> s.y + 1]
<1>1. /\ s.cells \in [Cells -> Characters] /\ s.x \in Columns /\ s.y \in Rows
      /\ s = [cells |-> s.cells, x |-> s.x, y |-> s.y] /\ s.y \in Int
  BY Sizes DEF Screens, Rows
<1>. DEFINE p == [s EXCEPT !.cells[NUM_COLS * s.y + s.x] = c]
            put == [s.cells EXCEPT ![NUM_COLS * s.y + s.x] = c]
            d == [p EXCEPT !.x = 0, !.y = @ + 1]
            up == [d EXCEPT !.cells = Scrolled(@), !.y = @ - 1]
<1>2. putc(s, c) = IF d.y # NUM_ROWS THEN d ELSE up
  BY DEF putc, scrollscreen
<1>3. p \in [cells : {put}, x : {s.x}, y : {s.y}]
  BY <1>1
<1>4. put \in [Cells -> Characters]
  BY <1>1
<1>. HIDE DEF p, put
<1>5. d \in [cells : {put}, x : {0}, y : {s.y + 1}]
  BY <1>3
<1>. HIDE DEF d
<1>6. d.cells = put /\ d.y = s.y + 1 /\ d = [cells |-> put, x |-> 0, y |-> s.y + 1]
  BY <1>5
<1>7. up \in [cells : {Scrolled(put)}, x : {0}, y : {s.y}]
  <2>1. Scrolled(d.cells) = Scrolled(put) /\ d.y - 1 = s.y
    BY <1>1, <1>6
  <2>. QED
    BY <1>5, <2>1
<1>. HIDE DEF up
<1>8. up = [cells |-> Scrolled(put), x |-> 0, y |-> s.y]
  BY <1>7
<1>9. NUM_COLS * s.y + s.x \in Cells
  BY <1>1, CellOfPlace
<1>. QED
  BY <1>2, <1>4, <1>6, <1>8, <1>9 DEF put

(* What the characters m + 1 to n of a text have made of a screen, in one  *)
(* row: nothing before them has changed.                                   *)
InRow(s, r, text, m, n) ==
    LET i == NUM_COLS * s.y + s.x
    IN  /\ r.x = s.x + (n - m) /\ r.y = s.y
        /\ \A k \in m + 1 .. n :
             i + (k - m) - 1 \in Cells /\ r.cells[i + (k - m) - 1] = text[k]
        /\ \A j \in Cells : j < i => r.cells[j] = s.cells[j]

LEMMA CellBegins ==
    ASSUME NEW s \in Screens
    PROVE  /\ NUM_COLS * s.y + s.x \in Nat /\ NUM_COLS * s.y \in Nat
           /\ s.x \in Nat /\ s.x < NUM_COLS /\ s.y \in Nat /\ s.y <= NUM_ROWS - 1
<1>1. s.x \in Nat /\ s.x < NUM_COLS /\ s.y \in Nat /\ s.y <= NUM_ROWS - 1
  BY Sizes DEF Screens, Columns, Rows
<1>2. NUM_COLS * s.y \in Nat
  BY <1>1, Sizes, SMT
<1>. QED
  BY <1>1, <1>2

LEMMA InRowGrows ==
    ASSUME NEW s \in Screens, NEW r \in Screens, NEW text, NEW m \in Nat, NEW n \in Nat,
           m <= n, InRow(s, r, text, m, n), text[n + 1] \in Characters, text[n + 1] # "\n",
           s.x + (n - m) + 1 < NUM_COLS
    PROVE  InRow(s, putc(r, text[n + 1]), text, m, n + 1)
<1>. DEFINE i == NUM_COLS * s.y + s.x
            q == putc(r, text[n + 1])
<1>1. /\ i \in Nat /\ s.x \in Nat /\ NUM_COLS * s.y \in Nat /\ NUM_COLS \in Nat
      /\ r.cells \in [Cells -> Characters]
  BY CellBegins, Sizes DEF Screens
<1>2. /\ r.x = s.x + (n - m) /\ r.y = s.y
      /\ \A k \in m + 1 .. n : i + (k - m) - 1 \in Cells /\ r.cells[i + (k - m) - 1] = text[k]
      /\ \A j \in Cells : j < i => r.cells[j] = s.cells[j]
  BY DEF InRow
<1>3. NUM_COLS * r.y + r.x = i + (n - m)
  BY <1>1, <1>2
<1>4. r.x + 1 # NUM_COLS
  BY <1>1, <1>2
<1>5. /\ i + (n - m) \in Cells
      /\ q = [cells |-> [r.cells EXCEPT ![i + (n - m)] = text[n + 1]],
              x |-> r.x + 1, y |-> r.y]
  BY <1>3, <1>4, putcInRow
<1>. HIDE DEF i, q
<1>6. q.x = s.x + (n + 1 - m) /\ q.y = s.y
  BY <1>1, <1>2, <1>5
<1>7. \A k \in m + 1 .. n + 1 : i + (k - m) - 1 \in Cells /\ q.cells[i + (k - m) - 1] = text[k]
  <2>. TAKE k \in m + 1 .. n + 1
  <2>1. CASE k = n + 1
    <3>1. i + (k - m) - 1 = i + (n - m)
      BY <1>1, <2>1
    <3>. QED
      BY <1>1, <1>5, <2>1, <3>1
  <2>2. CASE k # n + 1
    <3>1. k \in m + 1 .. n /\ i + (k - m) - 1 # i + (n - m)
      BY <1>1, <2>2
    <3>. QED
      BY <1>1, <1>2, <1>5, <3>1
  <2>. QED
    BY <2>1, <2>2
<1>8. \A j \in Cells : j < i => q.cells[j] = s.cells[j]
  <2>. TAKE j \in Cells
  <2>. HAVE j < i
  <2>1. j # i + (n - m)
    BY <1>1 DEF Cells
  <2>. QED
    BY <1>1, <1>2, <1>5, <2>1
<1>. QED
  BY <1>6, <1>7, <1>8 DEF InRow, i, q

(* A text that does not end the line and leaves room in the row.           *)
LEMMA WritesInRow ==
    ASSUME NEW s \in Screens, NEW text \in Seq(Characters), NEW f, Putting(s, text, f),
           \A k \in 1 .. Len(text) : text[k] # "\n",
           NEW m \in 0 .. Len(text), NEW n \in m .. Len(text),
           f[m].x + (n - m) < NUM_COLS
    PROVE  InRow(f[m], f[n], text, m, n)
<1>. DEFINE N == Len(text)
            B == {l \in Nat : /\ m <= l /\ l <= N /\ f[m].x + (l - m) < NUM_COLS
                              /\ ~ InRow(f[m], f[l], text, m, l)}
<1>1. N \in Nat /\ \A k \in 1 .. N : text[k] \in Characters
  BY LenProperties, ElementOfSeq
<1>2. m \in Nat /\ n \in Nat /\ m <= n /\ n <= N
  BY <1>1
<1>3. f[m] \in Screens
  BY DEF Putting
<1>4. f[m].x \in Nat /\ NUM_COLS * f[m].y + f[m].x \in Nat /\ NUM_COLS \in Nat
  BY <1>3, CellBegins, Sizes
<1>5. InRow(f[m], f[m], text, m, m)
  BY <1>2, <1>4 DEF InRow
<1>. SUFFICES ASSUME B # {} PROVE FALSE
  BY <1>2
<1>6. PICK l \in B : \A k \in B : l <= k
  BY LeastNumber
<1>7. l \in Nat /\ m < l /\ l <= N /\ f[m].x + (l - m) < NUM_COLS
  BY <1>2, <1>5, <1>6
<1>8. /\ l - 1 \in Nat /\ m <= l - 1 /\ l - 1 <= N /\ l - 1 < l
      /\ (l - 1) + 1 = l /\ l \in 1 .. N /\ l - 1 \in 0 .. N
  <2>. HIDE DEF N, B
  <2>. QED
    BY <1>1, <1>2, <1>7
<1>9. f[m].x + (l - 1 - m) + 1 < NUM_COLS /\ f[m].x + (l - 1 - m) < NUM_COLS
  <2>. DEFINE x == f[m].x
  <2>1. x \in Nat /\ x + (l - m) < NUM_COLS
    BY <1>4, <1>7
  <2>. HIDE DEF x, B, N
  <2>2. x + (l - 1 - m) + 1 = x + (l - m) /\ x + (l - 1 - m) < x + (l - m)
    BY <1>2, <1>7, <2>1
  <2>3. x + (l - 1 - m) \in Int /\ x + (l - m) \in Int
    BY <1>2, <1>7, <2>1
  <2>4. x + (l - 1 - m) + 1 < NUM_COLS /\ x + (l - 1 - m) < NUM_COLS
    BY <1>4, <2>1, <2>2, <2>3
  <2>. QED
    BY <2>4 DEF x
<1>10. InRow(f[m], f[l - 1], text, m, l - 1)
  <2>1. l - 1 \notin B
    <3>. HIDE DEF B
    <3>1. l \in Int /\ l - 1 \in Int /\ ~(l <= l - 1)
      BY <1>7
    <3>. QED
      BY <1>6, <3>1
  <2>. QED
    BY <1>8, <1>9, <2>1
<1>11. f[l - 1] \in Screens /\ f[l] = putc(f[l - 1], text[l])
  BY <1>8 DEF Putting
<1>12. text[l] \in Characters /\ text[l] # "\n"
  BY <1>1, <1>8
<1>13. InRow(f[m], putc(f[l - 1], text[(l - 1) + 1]), text, m, (l - 1) + 1)
  BY <1>2, <1>3, <1>8, <1>9, <1>10, <1>11, <1>12, InRowGrows
<1>. QED
  BY <1>6, <1>8, <1>11, <1>13

LEMMA RowAbove ==
    ASSUME NEW y \in Nat, y >= 1
    PROVE  NUM_COLS * (y - 1) = NUM_COLS * y - NUM_COLS /\ NUM_COLS * (y - 1) \in Nat
<1>1. NUM_COLS \in Nat /\ y - 1 \in Nat
  BY Sizes
<1>. QED
  BY <1>1, SMT

(* A text that fills the row to its end: it stays behind where it began,   *)
(* in the row above the new one, scrolled or not.                          *)
LEMMA WritesToTheEnd ==
    ASSUME NEW s \in Screens, NEW text \in Seq(Characters), NEW f, Putting(s, text, f),
           \A k \in 1 .. Len(text) : text[k] # "\n",
           NEW m \in 0 .. Len(text), NEW n \in m + 1 .. Len(text),
           f[m].x + (n - m) = NUM_COLS
    PROVE  /\ f[n].x = 0
           /\ f[n].y = IF f[m].y + 1 = NUM_ROWS THEN f[m].y ELSE f[m].y + 1
           /\ \A k \in m + 1 .. n :
                LET i == NUM_COLS * (f[n].y - 1) + f[m].x + (k - m) - 1
                IN  i \in Cells /\ f[n].cells[i] = text[k]
<1>. DEFINE N == Len(text)
            a == NUM_COLS * f[m].y
            i == a + f[m].x
            r == f[n - 1]
            put == [r.cells EXCEPT ![NUM_COLS * r.y + r.x] = text[n]]
<1>1. N \in Nat /\ \A k \in 1 .. N : text[k] \in Characters
  BY LenProperties, ElementOfSeq
<1>2. /\ m \in Nat /\ n \in Nat /\ m <= n - 1 /\ n <= N /\ n - 1 \in m .. N
      /\ n - 1 \in 0 .. N /\ n \in 1 .. N
  BY <1>1
<1>3. f[m] \in Screens /\ r \in Screens /\ f[n] = putc(r, text[n])
  BY <1>2 DEF Putting
<1>4. /\ f[m].x \in Nat /\ a \in Nat /\ i \in Nat /\ NUM_COLS \in Nat /\ NUM_COLS > 0
      /\ f[m].y \in Nat /\ NUM_ROWS \in Nat /\ NUM_ROWS > 1
  BY <1>3, CellBegins, Sizes
<1>5. InRow(f[m], r, text, m, n - 1)
  <2>1. f[m].x + (n - 1 - m) < NUM_COLS
    BY <1>2, <1>4
  <2>. QED
    BY <1>2, <2>1, WritesInRow
<1>6. /\ r.x = f[m].x + (n - 1 - m) /\ r.y = f[m].y
      /\ \A k \in m + 1 .. n - 1 : i + (k - m) - 1 \in Cells /\ r.cells[i + (k - m) - 1] = text[k]
  BY <1>5 DEF InRow
<1>7. r.x + 1 = NUM_COLS /\ NUM_COLS * r.y + r.x = i + (n - m) - 1
  <2>1. NUM_COLS * r.y = a
    BY <1>6
  <2>. HIDE DEF a, r
  <2>2. r.x = f[m].x + (n - 1 - m)
    BY <1>6
  <2>3. \A x \in Nat : a + (x + (n - 1 - m)) = a + x + (n - m) - 1
    BY <1>2, <1>4
  <2>4. r.x + 1 = NUM_COLS
    BY <1>2, <1>4, <2>2
  <2>. QED
    BY <1>4, <2>1, <2>2, <2>3, <2>4
<1>8. /\ i + (n - m) - 1 \in Cells
      /\ put \in [Cells -> Characters]
      /\ f[n] = IF f[m].y + 1 = NUM_ROWS
                  THEN [cells |-> Scrolled(put), x |-> 0, y |-> f[m].y]
                  ELSE [cells |-> put, x |-> 0, y |-> f[m].y + 1]
  <2>1. text[n] \in Characters /\ text[n] # "\n" /\ r.y = f[m].y
    BY <1>1, <1>2, <1>6
  <2>. HIDE DEF i, a, r
  <2>. QED
    BY <1>3, <1>7, <2>1, putcEndsRow
<1>9. put = [r.cells EXCEPT ![i + (n - m) - 1] = text[n]] /\ r.cells \in [Cells -> Characters]
  BY <1>3, <1>7 DEF Screens
<1>. HIDE DEF put, r
<1>10. \A k \in m + 1 .. n : i + (k - m) - 1 \in Cells /\ put[i + (k - m) - 1] = text[k]
  <2>. HIDE DEF i
  <2>. TAKE k \in m + 1 .. n
  <2>1. CASE k = n
    BY <1>8, <1>9, <2>1
  <2>2. CASE k # n
    <3>1. k \in m + 1 .. n - 1
      BY <1>2, <2>2
    <3>2. i + (k - m) - 1 # i + (n - m) - 1
      BY <1>2, <1>4, <2>2
    <3>. QED
      BY <1>6, <1>8, <1>9, <3>1, <3>2
  <2>. QED
    BY <2>1, <2>2
<1>11. CASE f[m].y + 1 # NUM_ROWS
  <2>1. f[n].x = 0 /\ f[n].y = f[m].y + 1 /\ f[n].cells = put
    BY <1>8, <1>11
  <2>2. NUM_COLS * (f[n].y - 1) = a
    BY <1>4, <2>1
  <2>. QED
    BY <1>10, <1>11, <2>1, <2>2
<1>12. CASE f[m].y + 1 = NUM_ROWS
  <2>1. f[n].x = 0 /\ f[n].y = f[m].y /\ f[n].cells = Scrolled(put)
    BY <1>8, <1>12
  <2>2. f[m].y \in Nat /\ f[m].y >= 1
    <3>. HIDE DEF a
    <3>. QED
      BY <1>4, <1>12
  <2>3. NUM_COLS * (f[n].y - 1) = a - NUM_COLS /\ a - NUM_COLS \in Nat
    BY <2>1, <2>2, RowAbove
  <2>. HIDE DEF a
  <2>4. ASSUME NEW k \in m + 1 .. n
        PROVE  LET j == (a - NUM_COLS) + f[m].x + (k - m) - 1
               IN  j \in Cells /\ Scrolled(put)[j] = text[k]
    <3>. DEFINE x == f[m].x
                d == k - m
    <3>1. x \in Nat /\ d \in Nat /\ d >= 1
      BY <1>2, <1>4
    <3>2. a + x + d - 1 \in Cells /\ put[a + x + d - 1] = text[k]
      BY <1>10
    <3>. HIDE DEF x, d
    <3>3. PICK c : c = a + x + d - 1
      OBVIOUS
    <3>4. c \in Int /\ c - NUM_COLS \in Nat /\ (a - NUM_COLS) + x + d - 1 = c - NUM_COLS
      BY <1>4, <2>3, <3>1, <3>3
    <3>5. c - NUM_COLS \in Cells /\ Scrolled(put)[c - NUM_COLS] = put[c]
      BY <1>8, <3>2, <3>3, <3>4, ScrolledCells
    <3>6. LET j == (a - NUM_COLS) + x + d - 1 IN j \in Cells /\ Scrolled(put)[j] = text[k]
      BY <3>2, <3>3, <3>4, <3>5
    <3>. QED
      BY <3>6 DEF x, d
  <2>. QED
    BY <1>12, <2>1, <2>3, <2>4
<1>. QED
  BY <1>11, <1>12

(* The rest of a text.                                                     *)
LEMMA FromElements ==
    ASSUME NEW text \in Seq(Characters), NEW offset \in 0 .. Len(text)
    PROVE  /\ From(text, offset) \in Seq(Characters)
           /\ Len(From(text, offset)) = Len(text) - offset
           /\ \A k \in 1 .. Len(text) - offset : From(text, offset)[k] = text[offset + k]
<1>1. Len(text) \in Nat /\ offset \in Nat /\ offset <= Len(text)
  BY LenProperties
<1>2. \A i \in offset + 1 .. Len(text) : text[i] \in Characters
  BY <1>1, ElementOfSeq
<1>. DEFINE a == offset + 1
            b == Len(text)
<1>3. a \in Int /\ b \in Int /\ a <= b + 1 /\ \A i \in a .. b : text[i] \in Characters
  BY <1>1, <1>2
<1>. HIDE DEF a, b
<1>4. /\ SubSeq(text, a, b) \in Seq(Characters)
      /\ Len(SubSeq(text, a, b)) = IF a <= b THEN b - a + 1 ELSE 0
      /\ \A i \in 1 .. b - a + 1 : SubSeq(text, a, b)[i] = text[a + i - 1]
  BY <1>3, SubSeqProperties
<1>5. /\ Len(SubSeq(text, a, b)) = b - a + 1
      /\ \A i \in 1 .. b - a + 1 : SubSeq(text, a, b)[i] = text[a + i - 1]
  BY <1>3, <1>4
<1>6. b - a + 1 = b - offset /\ \A i \in Int : a + i - 1 = offset + i
  BY <1>1, <1>3 DEF a
<1>7. /\ Len(SubSeq(text, a, b)) = b - offset
      /\ \A i \in 1 .. b - offset : SubSeq(text, a, b)[i] = text[offset + i]
  <2>1. \A i \in 1 .. b - offset : i \in 1 .. b - a + 1 /\ a + i - 1 = offset + i
    BY <1>1, <1>3, <1>6
  <2>. QED
    BY <1>5, <1>6, <2>1
<1>. QED
  BY <1>4, <1>7 DEF From, a, b

(* A line printed from its beginning, in one row.                          *)
LEMMA PrintsInRow ==
    ASSUME NEW s \in Screens, NEW begin \in Beginnings, NEW text \in Seq(Characters),
           NEW offset \in 0 .. Len(text), \A k \in 1 .. Len(text) : text[k] # "\n",
           begin.x + (Len(text) - offset) < NUM_COLS
    PROVE  LET r == print_line_buffer(s, begin, text, offset)
               i == NUM_COLS * Row(begin) + begin.x
           IN  /\ r \in Screens
               /\ r.x = begin.x + (Len(text) - offset) /\ r.y = Row(begin)
               /\ \A k \in offset + 1 .. Len(text) :
                    i + (k - offset) - 1 \in Cells /\ r.cells[i + (k - offset) - 1] = text[k]
               /\ \A j \in Cells : j < i => r.cells[j] = s.cells[j]
<1>. DEFINE p == At(s, begin)
            rest == From(text, offset)
            r == puts(p, rest)
            i == NUM_COLS * Row(begin) + begin.x
<1>1. p \in Screens /\ p.cells = s.cells /\ p.x = begin.x /\ p.y = Row(begin)
  BY AtOnScreen DEF get_cur_position, PlaceOf, Position
<1>2. /\ rest \in Seq(Characters) /\ Len(rest) = Len(text) - offset
      /\ \A k \in 1 .. Len(text) - offset : rest[k] = text[offset + k]
  BY FromElements
<1>3. Len(text) \in Nat /\ offset \in Nat /\ Len(text) - offset \in Nat
  BY LenProperties
<1>4. i \in Nat /\ begin.x \in Nat
  BY <1>1, CellBegins
<1>. HIDE DEF p, rest
<1>5. PICK f : Putting(p, rest, f)
  BY <1>1, <1>2, putsUnfolds
<1>6. f[0] = p /\ f[Len(rest)] = r /\ r \in Screens
  BY <1>2, <1>3, <1>5 DEF Putting
<1>7. InRow(p, r, rest, 0, Len(rest))
  <2>1. \A k \in 1 .. Len(rest) : rest[k] # "\n"
    BY <1>2, <1>3
  <2>2. f[0].x + (Len(rest) - 0) < NUM_COLS
    BY <1>1, <1>2, <1>3, <1>6
  <2>3. 0 \in 0 .. Len(rest) /\ Len(rest) \in 0 .. Len(rest)
    BY <1>2, <1>3
  <2>. QED
    BY <1>1, <1>2, <1>5, <1>6, <2>1, <2>2, <2>3, WritesInRow
<1>. HIDE DEF r
<1>8. /\ r.x = begin.x + (Len(text) - offset) /\ r.y = Row(begin)
      /\ \A k \in 1 .. Len(text) - offset :
           i + k - 1 \in Cells /\ r.cells[i + k - 1] = text[offset + k]
      /\ \A j \in Cells : j < i => r.cells[j] = s.cells[j]
  BY <1>1, <1>2, <1>3, <1>4, <1>7 DEF InRow
<1>. HIDE DEF i
<1>9. \A k \in offset + 1 .. Len(text) :
        i + (k - offset) - 1 \in Cells /\ r.cells[i + (k - offset) - 1] = text[k]
  <2>. TAKE k \in offset + 1 .. Len(text)
  <2>1. k - offset \in 1 .. Len(text) - offset /\ offset + (k - offset) = k
    BY <1>3
  <2>. QED
    BY <1>8, <2>1
<1>10. print_line_buffer(s, begin, text, offset) = r
  BY DEF print_line_buffer, r, p, rest
<1>. QED
  BY <1>6, <1>8, <1>9, <1>10 DEF i

(* ... that fills its row to the end.                                      *)
LEMMA PrintsToTheEnd ==
    ASSUME NEW s \in Screens, NEW begin \in Beginnings, NEW text \in Seq(Characters),
           \A k \in 1 .. Len(text) : text[k] # "\n",
           begin.x + Len(text) = NUM_COLS
    PROVE  LET r == print_line_buffer(s, begin, text, 0)
               i == NUM_COLS * (r.y - 1) + begin.x
           IN  /\ r \in Screens
               /\ r.x = 0
               /\ r.y = IF Row(begin) + 1 = NUM_ROWS THEN Row(begin) ELSE Row(begin) + 1
               /\ Shows(r.cells, i, text)
<1>. DEFINE p == At(s, begin)
            rest == From(text, 0)
            r == puts(p, rest)
            i == NUM_COLS * (r.y - 1) + begin.x
<1>1. p \in Screens /\ p.cells = s.cells /\ p.x = begin.x /\ p.y = Row(begin)
  BY AtOnScreen DEF get_cur_position, PlaceOf, Position
<1>2. Len(text) \in Nat /\ 0 \in 0 .. Len(text) /\ begin.x \in Nat
      /\ begin.x < NUM_COLS /\ NUM_COLS \in Nat
  <2>1. Len(text) \in Nat
    BY LenProperties
  <2>. QED
    BY <1>1, <2>1, CellBegins, Sizes
<1>3. Len(text) \in 0 + 1 .. Len(text)
  BY <1>2
<1>4. /\ rest \in Seq(Characters) /\ Len(rest) = Len(text)
      /\ \A k \in 1 .. Len(text) : rest[k] = text[k]
  <2>1. /\ rest \in Seq(Characters) /\ Len(rest) = Len(text) - 0
        /\ \A k \in 1 .. Len(text) - 0 : rest[k] = text[0 + k]
    BY <1>2, FromElements
  <2>2. Len(text) - 0 = Len(text) /\ \A k \in 1 .. Len(text) : 0 + k = k
    BY <1>2
  <2>. QED
    BY <2>1, <2>2
<1>. HIDE DEF p, rest
<1>5. PICK f : Putting(p, rest, f)
  BY <1>1, <1>4, putsUnfolds
<1>6. f[0] = p /\ f[Len(text)] = r /\ r \in Screens
  BY <1>2, <1>4, <1>5 DEF Putting
<1>7. /\ r.x = 0
      /\ r.y = IF p.y + 1 = NUM_ROWS THEN p.y ELSE p.y + 1
      /\ \A k \in 0 + 1 .. Len(text) :
           LET j == NUM_COLS * (r.y - 1) + p.x + (k - 0) - 1
           IN  j \in Cells /\ r.cells[j] = rest[k]
  <2>1. \A k \in 1 .. Len(rest) : rest[k] # "\n"
    BY <1>4
  <2>2. f[0].x + (Len(text) - 0) = NUM_COLS
    BY <1>1, <1>2, <1>6
  <2>. HIDE DEF r
  <2>. QED
    BY <1>1, <1>2, <1>3, <1>4, <1>5, <1>6, <2>1, <2>2, WritesToTheEnd
<1>. HIDE DEF r
<1>8. ASSUME NEW k \in 1 .. Len(text)
      PROVE  i + k - 1 \in Cells /\ r.cells[i + k - 1] = text[k]
  <2>1. k \in 0 + 1 .. Len(text) /\ k - 0 = k
    BY <1>2
  <2>. QED
    BY <1>1, <1>4, <1>7, <2>1
<1>9. print_line_buffer(s, begin, text, 0) = r
  BY DEF print_line_buffer, r, p, rest
<1>. QED
  BY <1>1, <1>6, <1>7, <1>8, <1>9 DEF Shows

(* ... that goes on into a second row, from behind the prompt in the first *)
(* row of the screen.                                                      *)
LEMMA PrintsTwoRows ==
    ASSUME NEW s \in Screens, NEW text \in Seq(Characters),
           \A k \in 1 .. Len(text) : text[k] # "\n",
           Len(text) \in FirstRow .. FirstRow + NUM_COLS - 1
    PROVE  LET r == print_line_buffer(s, Position(OFFSET_X, 0), text, 0)
           IN  /\ r \in Screens
               /\ r.x = Len(text) - FirstRow /\ r.y = 1
               /\ Shows(r.cells, OFFSET_X, text)
<1>. DEFINE begin == Position(OFFSET_X, 0)
            p == At(s, begin)
            rest == From(text, 0)
            r == puts(p, rest)
<1>1. /\ NUM_COLS \in Nat /\ NUM_COLS > 0 /\ NUM_ROWS \in Nat /\ NUM_ROWS > 1
      /\ OFFSET_X \in Nat /\ FirstRow \in Nat /\ OFFSET_X + FirstRow = NUM_COLS
      /\ FirstRow > 0 /\ Len(text) \in Nat /\ Len(text) >= FirstRow
      /\ Len(text) - FirstRow < NUM_COLS
  <2>1. Len(text) \in Nat
    BY LenProperties
  <2>2. OFFSET_X < NUM_COLS
    BY ScreenAssumption
  <2>3. FirstRow = NUM_COLS - OFFSET_X
    BY DEF FirstRow
  <2>. QED
    BY <2>1, <2>2, <2>3, Sizes
<1>2. p \in Screens /\ p.x = OFFSET_X /\ p.y = 0
  <2>1. begin \in Beginnings /\ begin.x = OFFSET_X /\ Row(begin) = 0
    BY <1>1, Sizes DEF Position, Row
  <2>. QED
    BY <2>1, AtOnScreen DEF get_cur_position, PlaceOf, Position
<1>3. /\ rest \in Seq(Characters) /\ Len(rest) = Len(text)
      /\ \A k \in 1 .. Len(text) : rest[k] = text[k]
  <2>1. /\ rest \in Seq(Characters) /\ Len(rest) = Len(text) - 0
        /\ \A k \in 1 .. Len(text) - 0 : rest[k] = text[0 + k]
    BY <1>1, FromElements
  <2>2. Len(text) - 0 = Len(text) /\ \A k \in 1 .. Len(text) : 0 + k = k
    BY <1>1
  <2>. QED
    BY <2>1, <2>2
<1>. HIDE DEF p, rest
<1>4. PICK f : Putting(p, rest, f)
  BY <1>2, <1>3, putsUnfolds
<1>5. f[0] = p /\ f[Len(text)] = r /\ r \in Screens /\ f[FirstRow] \in Screens
  BY <1>1, <1>3, <1>4 DEF Putting
<1>. HIDE DEF r
<1>6. \A k \in 1 .. Len(rest) : rest[k] # "\n"
  BY <1>3
<1>. DEFINE q == f[FirstRow]
<1>7. /\ q.x = 0 /\ q.y = 1
      /\ \A k \in 1 .. FirstRow :
           OFFSET_X + k - 1 \in Cells /\ q.cells[OFFSET_X + k - 1] = rest[k]
  <2>1. 0 \in 0 .. Len(rest) /\ FirstRow \in 0 + 1 .. Len(rest)
    BY <1>1, <1>3
  <2>2. f[0].x + (FirstRow - 0) = NUM_COLS
    <3>1. f[0].x = OFFSET_X
      BY <1>2, <1>5
    <3>2. OFFSET_X + (FirstRow - 0) = NUM_COLS
      BY <1>1
    <3>. QED
      BY <3>1, <3>2
  <2>3. /\ q.x = 0
        /\ q.y = IF f[0].y + 1 = NUM_ROWS THEN f[0].y ELSE f[0].y + 1
        /\ \A k \in 0 + 1 .. FirstRow :
             LET j == NUM_COLS * (q.y - 1) + f[0].x + (k - 0) - 1
             IN  j \in Cells /\ q.cells[j] = rest[k]
    <3>. HIDE DEF q
    <3>1. q = f[FirstRow]
      BY DEF q
    <3>. QED
      BY <1>2, <1>3, <1>4, <1>6, <2>1, <2>2, <3>1, WritesToTheEnd
  <2>. HIDE DEF q
  <2>4. q.y = 1
    BY <1>1, <1>2, <1>5, <2>3
  <2>5. NUM_COLS * (q.y - 1) = 0
    BY <1>1, <2>4
  <2>6. ASSUME NEW k \in 1 .. FirstRow
        PROVE  OFFSET_X + k - 1 \in Cells /\ q.cells[OFFSET_X + k - 1] = rest[k]
    <3>1. k \in 0 + 1 .. FirstRow /\ 0 + OFFSET_X + (k - 0) - 1 = OFFSET_X + k - 1
      BY <1>1
    <3>. QED
      BY <1>2, <1>5, <2>3, <2>5, <3>1
  <2>. QED
    BY <2>3, <2>4, <2>6
<1>8. InRow(q, r, rest, FirstRow, Len(text))
  <2>1. FirstRow \in 0 .. Len(rest) /\ Len(text) \in FirstRow .. Len(rest)
    BY <1>1, <1>3
  <2>2. f[FirstRow].x + (Len(text) - FirstRow) < NUM_COLS
    BY <1>1, <1>7
  <2>. HIDE DEF q
  <2>3. InRow(f[FirstRow], f[Len(text)], rest, FirstRow, Len(text))
    BY <1>2, <1>3, <1>4, <1>6, <2>1, <2>2, WritesInRow
  <2>. QED
    BY <1>5, <2>3 DEF q
<1>. HIDE DEF q
<1>9. NUM_COLS * q.y + q.x = NUM_COLS
  BY <1>1, <1>7
<1>10. /\ r.x = Len(text) - FirstRow /\ r.y = 1
       /\ \A k \in FirstRow + 1 .. Len(text) :
            /\ NUM_COLS + (k - FirstRow) - 1 \in Cells
            /\ r.cells[NUM_COLS + (k - FirstRow) - 1] = rest[k]
       /\ \A j \in Cells : j < NUM_COLS => r.cells[j] = q.cells[j]
  <2>1. 0 + (Len(text) - FirstRow) = Len(text) - FirstRow
    BY <1>1
  <2>. QED
    BY <1>7, <1>8, <1>9, <2>1 DEF InRow
<1>11. ASSUME NEW k \in 1 .. Len(text)
       PROVE  OFFSET_X + k - 1 \in Cells /\ r.cells[OFFSET_X + k - 1] = text[k]
  <2>1. CASE k <= FirstRow
    <3>1. k \in 1 .. FirstRow /\ OFFSET_X + k - 1 < NUM_COLS
      BY <1>1, <2>1
    <3>. QED
      BY <1>3, <1>7, <1>10, <3>1
  <2>2. CASE k > FirstRow
    <3>1. k \in FirstRow + 1 .. Len(text) /\ NUM_COLS + (k - FirstRow) - 1 = OFFSET_X + k - 1
      BY <1>1, <2>2
    <3>. QED
      BY <1>3, <1>10, <3>1
  <2>. QED
    BY <1>1, <2>1, <2>2
<1>12. print_line_buffer(s, begin, text, 0) = r
  BY DEF print_line_buffer, r, p, rest
<1>. QED
  BY <1>5, <1>10, <1>11, <1>12 DEF Shows

LEMMA LineCharacters ==
    ASSUME NEW text \in Lines
    PROVE  /\ text \in Seq(ToSet(Letters)) /\ text \in Seq(Characters) /\ Len(text) \in Nat
           /\ \A k \in 1 .. Len(text) : text[k] # "\n"
<1>1. ToSet(Letters) \subseteq Characters /\ "\n" \notin ToSet(Letters)
  BY ScreenAssumption DEF Characters
<1>2. /\ text \in Seq(ToSet(Letters))
      /\ Len(text) \in Nat /\ DOMAIN text = 1 .. Len(text)
      /\ text \in [1 .. Len(text) -> ToSet(Letters)]
  BY LenProperties DEF Lines
<1>3. text \in [1 .. Len(text) -> Characters]
  BY <1>1, <1>2
<1>4. text \in Seq(Characters)
  BY <1>2, <1>3, SeqDef
<1>. QED
  BY <1>1, <1>2, <1>4

(* What a step leaves alone unless it is a switch.                         *)
OthersKept ==
    /\ T' = T /\ vbuffer' = vbuffer
    /\ \A t \in Terminal \ {T} :
         /\ line'[t] = line[t] /\ echo'[t] = echo[t]
         /\ start_position'[t] = start_position[t]

LEMMA OthersAreKept ==
    ASSUME ScreenInv, Typing \/ AltPress \/ AltRelease \/ SwitchToSame \/ Writing
    PROVE  OthersKept
<1>1. /\ T \in Terminal
      /\ start_position \in [Terminal -> Beginnings]
      /\ line \in [Terminal -> Seq(Characters)]
      /\ echo = [t \in Terminal |-> echo[t]]
  BY DEF ScreenInv, ScreenTypes, T
<1>2. ASSUME TypeLetter \/ Enter \/ ClearScreen \/ AltRelease PROVE OthersKept
  BY <1>1, <1>2 DEF TypeLetter, Enter, ClearScreen, AltRelease, Echo, EchoAfterKey,
                    OthersKept, T
<1>3. ASSUME Backspace PROVE OthersKept
  <2>1. CASE Erase
    BY <1>1, <1>3, <2>1 DEF Backspace, Erase, Echo, Began, OthersKept, T
  <2>2. CASE ~Erase
    BY <1>1, <1>3, <2>2 DEF Backspace, EchoAfterKey, Echo, Began, OthersKept, T
  <2>. QED
    BY <2>1, <2>2
<1>4. ASSUME OtherKey \/ AltPress \/ SwitchToSame PROVE OthersKept
  BY <1>1, <1>4 DEF OtherKey, AltPress, SwitchToSame, EchoAfterKey, Echo, Began, OthersKept, T
<1>5. ASSUME Writing PROVE OthersKept
  BY <1>1, <1>5 DEF Writing, WritePrompt, WriteOutput, terminal_write, KernelPrints,
                    ReadReturns, Echo, OthersKept, T
<1>. QED
  BY <1>2, <1>3, <1>4, <1>5 DEF Typing

LEMMA OwnTerminalEchoInv ==
    ASSUME EchoInv, ScreenInv', OthersKept,
           buf_offset' \in {0, FirstRow}, line'[T] \in Lines,
           line'[T] # <<>> /\ echo'[T] # "broken" =>
             InPlace(start_position'[T], line'[T], screen', buf_offset', echo'[T])
    PROVE  EchoInv'
<1>1. \A t \in Terminal : line'[t] \in Lines
  BY DEF EchoInv, EchoKept, OthersKept
<1>2. \A t \in Terminal \ {T} :
        line'[t] # <<>> /\ echo'[t] # "broken" =>
          echo'[t] = "left" /\ OneRow(start_position'[t], line'[t], vbuffer'[t])
  BY DEF EchoInv, EchoKept, OthersKept
<1>3. T' = T
  BY DEF OthersKept
<1>4. EchoKept'
  BY <1>1, <1>2, <1>3 DEF EchoKept, InPlace, OneRow, TwoRows, Shows, Row, Position, get_cur_position
<1>. QED
  BY <1>4 DEF EchoInv

LEMMA PrintsOneRow ==
    ASSUME NEW s \in Screens, NEW begin \in Beginnings, NEW text \in Seq(Characters),
           \A k \in 1 .. Len(text) : text[k] # "\n",
           begin.y \in Rows, begin.x + Len(text) < NUM_COLS
    PROVE  LET r == print_line_buffer(s, begin, text, 0)
           IN  /\ r \in Screens /\ OneRow(begin, text, r.cells)
               /\ r.x = begin.x + Len(text) /\ r.y = begin.y
<1>. DEFINE r == print_line_buffer(s, begin, text, 0)
            i == NUM_COLS * begin.y + begin.x
<1>1. Len(text) \in Nat /\ 0 \in 0 .. Len(text) /\ Len(text) - 0 = Len(text)
  <2>1. Len(text) \in Nat
    BY LenProperties
  <2>. QED
    BY <2>1
<1>2. Row(begin) = begin.y
  BY Sizes DEF Row, Rows
<1>3. /\ r \in Screens
      /\ r.x = begin.x + (Len(text) - 0) /\ r.y = begin.y
      /\ \A k \in 0 + 1 .. Len(text) :
           i + (k - 0) - 1 \in Cells /\ r.cells[i + (k - 0) - 1] = text[k]
  <2>1. begin.x + (Len(text) - 0) < NUM_COLS
    BY <1>1
  <2>. DEFINE j == NUM_COLS * Row(begin) + begin.x
  <2>2. /\ r \in Screens
        /\ r.x = begin.x + (Len(text) - 0) /\ r.y = Row(begin)
        /\ \A k \in 0 + 1 .. Len(text) :
             j + (k - 0) - 1 \in Cells /\ r.cells[j + (k - 0) - 1] = text[k]
    BY <1>1, <2>1, PrintsInRow
  <2>. HIDE DEF r
  <2>. QED
    BY <1>2, <2>2
<1>. HIDE DEF r, i
<1>4. ASSUME NEW k \in 1 .. Len(text)
      PROVE  i + k - 1 \in Cells /\ r.cells[i + k - 1] = text[k]
  <2>1. k \in 0 + 1 .. Len(text) /\ k - 0 = k
    BY <1>1
  <2>. QED
    BY <1>3, <2>1
<1>. QED
  BY <1>1, <1>3, <1>4 DEF OneRow, Shows, r, i

LEMMA FirstRowHasRoom ==
    /\ FirstRow \in Nat /\ FirstRow > 0 /\ OFFSET_X \in Nat
    /\ OFFSET_X + FirstRow = NUM_COLS /\ NUM_COLS \in Nat /\ NUM_ROWS \in Nat
    /\ NUM_ROWS > 1 /\ NUM_ROWS < BYTE /\ BYTE = 256
<1>1. OFFSET_X < NUM_COLS /\ FirstRow = NUM_COLS - OFFSET_X
  BY ScreenAssumption DEF FirstRow
<1>2. NUM_ROWS \in 2 .. BYTE - 1 /\ BYTE = 256
  BY ScreenAssumption DEF BYTE
<1>. QED
  BY <1>1, <1>2, Sizes

LEMMA EmptyLine == <<>> \in Lines
BY FirstRowHasRoom DEF Lines

LEMMA InitEchoInv == Init => EchoInv
<1>. SUFFICES ASSUME Init PROVE EchoInv
  OBVIOUS
<1>1. \A t \in Terminal : line[t] = <<>> /\ <<>> \in Lines
  BY EmptyLine DEF Init
<1>2. buf_offset = 0 /\ T \in Terminal
  BY ScreenAssumption DEF Init, T
<1>3. EchoKept
  BY <1>1, <1>2 DEF EchoKept
<1>. QED
  BY <1>3, InitScreenInv DEF EchoInv

(* The next letter of a line.                                              *)
LEMMA TypeLetterEchoInv ==
    ASSUME EchoInv, TypeLetter
    PROVE  EchoInv'
<1>. DEFINE len   == Len(line[T])
            size  == len + 1
            text  == Append(line[T], Letters[size])
            start == start_position[T]
            begin == Began(start_position, line)[T]
            shown == print_line_buffer(screen, begin, text, buf_offset)
            below == Position(0, (begin.y + 1) % BYTE)
            wraps == Here.x + 1 = NUM_COLS
            right == Position(Here.x + 1, Here.y)
            kind  == EchoAfterLetter(begin, size, wraps)
<1>1. /\ ScreenTypes /\ T \in Terminal /\ screen \in Screens
      /\ start_position \in [Terminal -> Beginnings] /\ start \in Beginnings
      /\ line \in [Terminal -> Seq(Characters)]
      /\ line[T] \in Seq(ToSet(Letters)) /\ line[T] \in Seq(Characters)
      /\ echo = [t \in Terminal |-> echo[t]]
  BY LenProperties DEF EchoInv, EchoKept, Lines, ScreenInv, ScreenTypes, T
<1>2. len \in Nat /\ size \in Nat /\ size = len + 1
  BY <1>1, LenProperties
<1>3. begin \in Beginnings /\ (line[T] = <<>> => begin = Here)
  BY <1>1, BeganBegins
<1>4. /\ text \in Lines /\ Len(text) = size
      /\ \A k \in 1 .. len : text[k] = line[T][k]
  <2>1. size <= LINE_BUFFER - 2
    BY <1>2, Sizes DEF TypeLetter, LineFull
  <2>2. Len(Letters) \in Nat /\ Len(Letters) >= LINE_BUFFER - 2
    BY Sizes, ScreenAssumption, LenProperties
  <2>3. size \in 1 .. Len(Letters)
    BY <1>2, <2>1, <2>2, Sizes
  <2>4. Letters[size] \in ToSet(Letters)
    BY <2>3, Sizes, ElementsOf
  <2>5. size < FirstRow + NUM_COLS
    <3>1. LINE_BUFFER - 2 < 2 * NUM_COLS - OFFSET_X
      BY ScreenAssumption
    <3>. QED
      BY <1>2, <2>1, <3>1, FirstRowHasRoom, Sizes
  <2>6. /\ text \in Seq(ToSet(Letters)) /\ Len(text) = size
        /\ \A k \in 1 .. len : text[k] = line[T][k]
    BY <1>1, <2>4, AppendProperties
  <2>. HIDE DEF text, size
  <2>. QED
    BY <2>5, <2>6 DEF Lines
<1>5. line[T] # <<>> => begin = start
  BY DEF Began
<1>6. line[T] # <<>> <=> size > 1
  BY <1>1, <1>2, EmptySeq, LenProperties
<1>7. Len(text) = size
  BY <1>4
<1>. HIDE DEF text, begin, start, len, size
<1>8. /\ text \in Seq(Characters) /\ \A k \in 1 .. Len(text) : text[k] # "\n"
  BY <1>4, LineCharacters
<1>. HIDE DEF below, shown, wraps, kind, right
<1>9. /\ line'[T] = text /\ echo'[T] = kind
      /\ \/ /\ wraps
            /\ start_position'[T] = below
            /\ screen' = At(shown, below)
            /\ buf_offset' = FirstRow
         \/ /\ ~wraps
            /\ start_position'[T] = begin
            /\ screen' = At(shown, right)
            /\ buf_offset' = buf_offset
  BY <1>1 DEF TypeLetter, Echo, text, begin, below, shown, wraps, kind, len,
                    size, right
<1>10. Here.x \in Columns /\ Here.y \in Rows /\ Here.x \in Nat /\ Here.y \in Nat
      /\ Here.x < NUM_COLS /\ Here.y < NUM_ROWS /\ Here \in Beginnings /\ PlaceOf(Here) = Here
  <2>1. Here.x = screen.x /\ Here.y = screen.y
    BY DEF Here, get_cur_position, Position
  <2>2. screen.x \in Columns /\ screen.y \in Rows
    BY <1>1 DEF Screens
  <2>3. Here \in Beginnings /\ PlaceOf(Here) = Here
    BY <1>1, HereBegins
  <2>. QED
    BY <2>1, <2>2, <2>3, Sizes DEF Columns, Rows
<1>11. ASSUME ~wraps
      PROVE  right \in Beginnings /\ PlaceOf(right) = right
  <2>1. Here.x + 1 \in Columns /\ right.x = Here.x + 1 /\ right.y = Here.y
    BY <1>10, <1>11, Sizes DEF Columns, right, Position, wraps
  <2>2. ~(right.y >= NUM_ROWS)
    BY <1>10, <2>1, Sizes
  <2>. QED
    BY <1>10, <2>1, <2>2 DEF right, Position, PlaceOf, Row, Beginnings
<1>12. ASSUME kind # "broken", begin.y \in Rows, begin.x + size < NUM_COLS, ~wraps,
              buf_offset = 0, kind \in {"calm", "left"},
              kind = "calm" => Here = Position(begin.x + len, begin.y)
       PROVE  InPlace(begin, text, screen', buf_offset', kind)
  <2>1. shown \in Screens /\ OneRow(begin, text, shown.cells)
    BY <1>1, <1>3, <1>4, <1>8, <1>12, PrintsOneRow DEF shown
  <2>2. screen'.cells = shown.cells /\ get_cur_position(screen') = right
    BY <1>9, <1>11, <1>12, <2>1, AtOnScreen
  <2>3. ASSUME kind = "calm" PROVE right = Position(begin.x + Len(text), begin.y)
    <3>1. Here.x = begin.x + len /\ Here.y = begin.y /\ begin.x \in Int
      BY <1>3, <1>10, <1>12, <2>3 DEF Position, Beginnings, Columns
    <3>2. Here.x + 1 = begin.x + Len(text)
      BY <1>2, <1>7, <3>1
    <3>. QED
      BY <3>1, <3>2 DEF right
  <2>. QED
    BY <1>9, <1>12, <2>1, <2>2, <2>3 DEF InPlace
<1>13. ASSUME size = 1, kind # "broken"
       PROVE  InPlace(begin, text, screen', buf_offset', kind) /\ ~wraps
  <2>1. line[T] = <<>> /\ begin = Here /\ len = 0
    BY <1>3, <1>6, <1>13, <1>2
  <2>2. kind = "calm" /\ buf_offset = 0 /\ ~wraps
    BY <1>13 DEF kind, EchoAfterLetter
  <2>3. begin.x + size < NUM_COLS
    BY <1>10, <1>13, <2>1, <2>2, Sizes DEF wraps
  <2>4. Here = Position(begin.x + len, begin.y)
    BY <1>10, <2>1 DEF Here, get_cur_position, Position
  <2>. QED
    BY <1>10, <1>12, <2>1, <2>2, <2>3, <2>4
<1>14. ASSUME size > 1, kind # "broken"
       PROVE  begin = start /\ InPlace(begin, line[T], screen, buf_offset, echo[T])
  <2>1. line[T] # <<>> /\ begin = start
    BY <1>5, <1>6, <1>14
  <2>2. echo[T] # "broken"
    BY <1>1, <1>14 DEF kind, EchoAfterLetter
  <2>. QED
    BY <2>1, <2>2 DEF EchoInv, EchoKept, start
<1>15. ASSUME size > 1, ~wraps, kind # "broken", buf_offset = 0
       PROVE  InPlace(begin, text, screen', buf_offset', kind)
  <2>1. kind = echo[T] /\ ~(kind = "left" /\ begin.x + size >= NUM_COLS)
    BY <1>1, <1>15 DEF kind, EchoAfterLetter
  <2>2. /\ kind \in {"calm", "left"} /\ OneRow(begin, line[T], screen.cells)
        /\ kind = "calm" => Here = Position(begin.x + len, begin.y)
    BY <1>14, <1>15, <2>1, FirstRowHasRoom DEF InPlace, Here, len
  <2>3. begin.y \in Rows /\ begin.x \in Nat /\ begin.x + len < NUM_COLS
    BY <1>3, <2>2, Sizes DEF OneRow, len, Beginnings, Columns
  <2>4. begin.x + size < NUM_COLS
    <3>1. CASE kind = "calm"
      <4>1. Here.x = begin.x + len
        BY <2>2, <3>1 DEF Position
      <4>2. Here.x + 1 = begin.x + size
        BY <1>2, <2>3, <4>1
      <4>. QED
        BY <1>15, <1>2, <2>3, <4>2, FirstRowHasRoom DEF wraps
    <3>2. CASE kind = "left"
      BY <1>2, <2>1, <2>3, <3>2, FirstRowHasRoom
    <3>. QED
      BY <2>2, <3>1, <3>2
  <2>. QED
    BY <1>12, <1>15, <2>2, <2>3, <2>4
<1>16. ASSUME size > 1, ~wraps, kind # "broken", buf_offset # 0
       PROVE  InPlace(begin, text, screen', buf_offset', kind)
  <2>. DEFINE i == NUM_COLS * Row(begin)
              j == NUM_COLS * (Row(begin) - 1) + OFFSET_X
  <2>1. kind = echo[T]
    BY <1>1, <1>16 DEF kind, EchoAfterLetter
  <2>2. /\ buf_offset = FirstRow /\ kind = "calm" /\ TwoRows(begin, line[T], screen.cells)
        /\ Here = Position(len - FirstRow, Row(begin))
    BY <1>14, <1>16, <2>1 DEF InPlace, Here, len
  <2>3. /\ begin.x = 0 /\ begin.y \in 1 .. NUM_ROWS /\ len \in FirstRow .. FirstRow + NUM_COLS - 1
        /\ \A k \in 1 .. len : j + k - 1 \in Cells /\ screen.cells[j + k - 1] = line[T][k]
    BY <2>2 DEF TwoRows, Shows, len
  <2>4. Here.x = len - FirstRow /\ Here.y = Row(begin)
    BY <2>2 DEF Position
  <2>5. Here.x + 1 = size - FirstRow /\ size - FirstRow < NUM_COLS /\ FirstRow \in 0 .. Len(text)
    BY <1>10, <1>16, <1>2, <1>7, <2>3, <2>4, FirstRowHasRoom DEF wraps
  <2>6. /\ shown \in Screens
        /\ \A k \in FirstRow + 1 .. Len(text) :
             /\ i + 0 + (k - FirstRow) - 1 \in Cells
             /\ shown.cells[i + 0 + (k - FirstRow) - 1] = text[k]
        /\ \A c \in Cells : c < i + 0 => shown.cells[c] = screen.cells[c]
    <3>1. begin.x + (Len(text) - FirstRow) < NUM_COLS
      BY <1>4, <2>3, <2>5, FirstRowHasRoom
    <3>2. shown = print_line_buffer(screen, begin, text, FirstRow)
      BY <2>2 DEF shown
    <3>. QED
      BY <1>1, <1>3, <1>8, <2>3, <2>5, <3>1, <3>2, PrintsInRow
  <2>7. Row(begin) \in Nat /\ Row(begin) >= 1
    BY <2>3, FirstRowHasRoom DEF Row
  <2>8. NUM_COLS * (Row(begin) - 1) = i - NUM_COLS /\ i \in Int /\ i - NUM_COLS \in Nat
    <3>1. i \in Int
      BY <2>7, FirstRowHasRoom, SMT
    <3>. QED
      BY <2>7, <3>1, RowAbove
  <2>. HIDE DEF i
  <2>9. ASSUME NEW k \in 1 .. Len(text)
        PROVE  j + k - 1 \in Cells /\ shown.cells[j + k - 1] = text[k]
    <3>1. j + k - 1 = i + 0 + (k - FirstRow) - 1
      BY <1>2, <1>7, <2>8, FirstRowHasRoom
    <3>2. CASE k <= FirstRow
      <4>1. k \in 1 .. len
        BY <1>2, <2>3, <3>2, FirstRowHasRoom
      <4>2. i + 0 + (k - FirstRow) - 1 < i + 0
        BY <2>8, <3>2, FirstRowHasRoom
      <4>. QED
        BY <1>4, <2>3, <2>6, <3>1, <4>1, <4>2
    <3>3. CASE k > FirstRow
      <4>1. k \in FirstRow + 1 .. Len(text)
        BY <1>2, <1>7, <3>3, FirstRowHasRoom
      <4>. QED
        BY <2>6, <3>1, <4>1
    <3>. QED
      BY <1>2, <1>7, <3>2, <3>3, FirstRowHasRoom
  <2>10. screen'.cells = shown.cells /\ get_cur_position(screen') = right
    BY <1>9, <1>11, <1>16, <2>6, AtOnScreen
  <2>11. right = Position(Len(text) - FirstRow, Row(begin))
    BY <1>4, <2>4, <2>5 DEF right
  <2>12. Len(text) \in FirstRow .. FirstRow + NUM_COLS - 1
    BY <1>2, <1>7, <2>3, <2>5, FirstRowHasRoom
  <2>. QED
    BY <1>9, <1>16, <2>2, <2>3, <2>9, <2>10, <2>11, <2>12 DEF InPlace, TwoRows, Shows
<1>17. ASSUME size > 1, wraps, kind # "broken"
       PROVE  InPlace(below, text, screen', buf_offset', kind)
  <2>1. kind = "calm" /\ echo[T] = "calm" /\ WrapsInPlace(begin, size)
    BY <1>1, <1>17 DEF kind, EchoAfterLetter
  <2>2. begin.x = OFFSET_X /\ size = FirstRow /\ buf_offset = 0
    BY <2>1 DEF WrapsInPlace, FirstRow
  <2>3. begin.y \in Rows
    BY <1>14, <1>17, <2>2, FirstRowHasRoom DEF InPlace, OneRow
  <2>4. Row(begin) = begin.y /\ begin.y \in Nat /\ begin.y + 1 <= NUM_ROWS
    BY <2>3, FirstRowHasRoom DEF Row, Rows
  <2>5. below = Position(0, begin.y + 1)
    <3>1. begin.y + 1 \in 0 .. BYTE - 1
      BY <2>4, FirstRowHasRoom
    <3>2. (begin.y + 1) % BYTE = begin.y + 1
      BY <3>1, FirstRowHasRoom, Remainders
    <3>. QED
      BY <3>2 DEF below
  <2>6. below \in Beginnings /\ below.x = 0 /\ below.y = begin.y + 1
    BY <2>4, <2>5, Sizes DEF Position
  <2>7. /\ shown \in Screens
        /\ shown.y = IF begin.y + 1 = NUM_ROWS THEN begin.y ELSE begin.y + 1
        /\ Shows(shown.cells, NUM_COLS * (shown.y - 1) + OFFSET_X, text)
    <3>1. begin.x + Len(text) = NUM_COLS
      BY <1>4, <2>2, FirstRowHasRoom
    <3>2. shown = print_line_buffer(screen, begin, text, 0)
      BY <2>2 DEF shown
    <3>3. /\ shown \in Screens
          /\ shown.y = IF Row(begin) + 1 = NUM_ROWS THEN Row(begin) ELSE Row(begin) + 1
          /\ Shows(shown.cells, NUM_COLS * (shown.y - 1) + begin.x, text)
      BY <1>1, <1>3, <1>8, <3>1, <3>2, PrintsToTheEnd
    <3>. QED
      BY <2>2, <2>4, <3>3
  <2>8. Row(below) = shown.y
    BY <2>4, <2>6, <2>7, FirstRowHasRoom DEF Row
  <2>9. screen'.cells = shown.cells /\ get_cur_position(screen') = PlaceOf(below)
    BY <1>9, <1>17, <2>6, <2>7, AtOnScreen
  <2>10. PlaceOf(below) = Position(Len(text) - FirstRow, Row(below))
    BY <1>4, <2>2, <2>6, FirstRowHasRoom DEF PlaceOf
  <2>11. Len(text) \in FirstRow .. FirstRow + NUM_COLS - 1 /\ below.y \in 1 .. NUM_ROWS
    BY <1>4, <2>2, <2>4, <2>6, FirstRowHasRoom
  <2>12. TwoRows(below, text, screen'.cells)
    BY <2>6, <2>7, <2>8, <2>9, <2>11 DEF TwoRows
  <2>. QED
    BY <1>9, <1>17, <2>1, <2>9, <2>10, <2>12 DEF InPlace
<1>18. buf_offset' \in {0, FirstRow}
  BY <1>9 DEF EchoInv, EchoKept
<1>19. ScreenInv' /\ OthersKept
  BY OthersAreKept, NextScreenInv DEF EchoInv, Next, Typing
<1>20. ASSUME kind # "broken"
       PROVE  InPlace(start_position'[T], text, screen', buf_offset', kind)
  <2>1. size = 1 \/ size > 1
    BY <1>2
  <2>2. CASE wraps
    BY <1>9, <1>13, <1>17, <1>20, <2>1, <2>2
  <2>3. CASE ~wraps
    BY <1>9, <1>13, <1>15, <1>16, <1>20, <2>1, <2>3
  <2>. QED
    BY <2>2, <2>3
<1>. QED
  BY <1>4, <1>9, <1>18, <1>19, <1>20, OwnTerminalEchoInv

(* A letter less: what is erased lies behind the rest, in the same row.    *)
LEMMA EraseEchoInv ==
    ASSUME EchoInv, Backspace, line[T] # <<>>
    PROVE  EchoInv'
<1>. DEFINE len   == Len(line[T])
            text  == Front(line[T])
            start == start_position[T]
            back  == len - 1 = NUM_COLS - 1
            above == [start EXCEPT !.y = (@ - 1) % BYTE]
            begin == IF back THEN above ELSE start
            from  == IF back THEN Position(NUM_COLS - 1, (Here.y - 1) % BYTE) ELSE Here
            offset == IF back THEN 0 ELSE buf_offset
            starts == [start_position EXCEPT ![T] = begin]
            printed == print_line_buffer(screen, begin, text, offset)
            shown == putc(printed, " ")
<1>1. /\ T \in Terminal /\ screen \in Screens
      /\ start_position \in [Terminal -> Beginnings] /\ start \in Beginnings
      /\ line \in [Terminal -> Seq(Characters)]
      /\ line[T] \in Lines /\ line[T] \in Seq(ToSet(Letters)) /\ line[T] \in Seq(Characters)
      /\ echo = [t \in Terminal |-> echo[t]]
  BY DEF EchoInv, EchoKept, Lines, ScreenInv, ScreenTypes, T
<1>2. len \in Nat /\ len >= 1
  BY <1>1, EmptySeq, LenProperties
<1>3. Len(text) = len - 1
  BY <1>1, <1>2, FrontOf
<1>4. text \in Lines
  <2>1. text \in Seq(ToSet(Letters))
    BY <1>1, <1>2, FrontOf
  <2>2. len < FirstRow + NUM_COLS
    BY <1>1 DEF Lines
  <2>. HIDE DEF text, len
  <2>. QED
    BY <1>2, <1>3, <2>1, <2>2, FirstRowHasRoom DEF Lines
<1>5. /\ line'[T] = text /\ buf_offset' = offset
      /\ screen' = set_new_position(shown, from.x - 1, from.y)
      /\ start_position' = Began(starts, line')
      /\ text # <<>> => echo'[T] = IF buf_offset # 0 THEN "broken" ELSE echo[T]
  BY <1>1 DEF Backspace, Erase, Echo, len, text, start, back, above, begin, from, offset,
              starts, printed, shown
<1>6. start_position'[T] = begin \/ text = <<>>
  BY <1>1, <1>5 DEF Began
<1>7. offset \in {0, FirstRow}
  BY DEF EchoInv, EchoKept
<1>8. ScreenInv' /\ OthersKept
  BY OthersAreKept, NextScreenInv DEF EchoInv, Next, Typing
<1>. HIDE DEF text, starts, printed, shown, len, start, above
<1>9. ASSUME text # <<>>, echo'[T] # "broken"
      PROVE  InPlace(start_position'[T], text, screen', buf_offset', echo'[T])
  <2>. DEFINE i == NUM_COLS * start.y + start.x
  <2>1. buf_offset = 0 /\ echo'[T] = echo[T] /\ echo[T] # "broken"
    BY <1>5, <1>9
  <2>2. /\ echo[T] \in {"calm", "left"} /\ OneRow(start, line[T], screen.cells)
        /\ echo[T] = "calm" => Here = Position(start.x + len, start.y)
    BY <2>1, FirstRowHasRoom DEF EchoInv, EchoKept, InPlace, Here, len, start
  <2>3. start.y \in Rows /\ start.x + len < NUM_COLS
    BY <2>2 DEF OneRow, len
  <2>4. start.x \in Nat /\ start.y \in Nat /\ NUM_COLS \in Nat
    BY <1>1, <2>3, Sizes DEF Beginnings, Columns, Rows
  <2>5. ~back
    BY <1>2, <2>3, <2>4
  <2>6. begin = start /\ from = Here /\ offset = 0
    BY <2>1, <2>5
  <2>7. start.x + Len(text) < NUM_COLS /\ start.x + Len(text) + 1 # NUM_COLS
    BY <1>2, <1>3, <2>3, <2>4
  <2>8. /\ printed \in Screens /\ OneRow(start, text, printed.cells)
        /\ printed.x = start.x + Len(text) /\ printed.y = start.y
    <3>1. text \in Seq(Characters) /\ \A k \in 1 .. Len(text) : text[k] # "\n"
      BY <1>4, LineCharacters
    <3>2. printed = print_line_buffer(screen, start, text, 0)
      BY <2>6 DEF printed
    <3>. QED
      BY <1>1, <2>3, <2>7, <3>1, <3>2, PrintsOneRow
  <2>9. /\ shown \in Screens
        /\ shown.cells = [printed.cells EXCEPT ![NUM_COLS * printed.y + printed.x] = " "]
    <3>1. " " \in Characters /\ " " # "\n"
      BY DEF Characters
    <3>2. printed \in Screens /\ printed.x + 1 # NUM_COLS
      BY <2>7, <2>8
    <3>3. shown = [cells |-> [printed.cells EXCEPT ![NUM_COLS * printed.y + printed.x] = " "],
                   x |-> printed.x + 1, y |-> printed.y]
      BY <3>1, <3>2, putcInRow DEF shown
    <3>4. shown \in Screens
      BY <3>1, <3>2, putcOnScreen DEF shown
    <3>. QED
      BY <3>3, <3>4
  <2>10. NUM_COLS * printed.y + printed.x = i + Len(text) /\ i \in Nat /\ Len(text) \in Nat
    <3>1. NUM_COLS * start.y \in Nat
      BY <2>4, SMT
    <3>2. Len(text) \in Nat
      BY <1>2, <1>3
    <3>. QED
      BY <2>4, <2>8, <3>1, <3>2
  <2>. HIDE DEF i
  <2>11. ASSUME NEW k \in 1 .. Len(text)
         PROVE  i + k - 1 \in Cells /\ shown.cells[i + k - 1] = text[k]
    <3>1. i + k - 1 \in Cells /\ printed.cells[i + k - 1] = text[k]
      BY <2>8 DEF OneRow, Shows, i
    <3>2. i + k - 1 # i + Len(text)
      BY <2>10
    <3>3. printed.cells \in [Cells -> Characters]
      BY <2>8 DEF Screens
    <3>. QED
      BY <2>9, <2>10, <3>1, <3>2, <3>3
  <2>12. Here.x \in Int /\ Here.y \in Int
    BY <1>1, Sizes DEF Here, get_cur_position, Position, Screens, Columns, Rows
  <2>13. screen'.cells = shown.cells
    <3>1. Here.x - 1 \in Int
      BY <2>12
    <3>2. screen' = set_new_position(shown, Here.x - 1, Here.y)
      BY <1>5, <2>6
    <3>. HIDE DEF begin, from, offset
    <3>. QED
      BY <2>9, <2>12, <3>1, <3>2, NewPositionOnScreen
  <2>14. ASSUME echo[T] = "calm"
         PROVE  get_cur_position(screen') = Position(start.x + Len(text), start.y)
    <3>. DEFINE place == Position(start.x + Len(text), start.y)
    <3>1. Here.x - 1 = start.x + Len(text) /\ Here.y = start.y
      <4>1. Here.x = start.x + len /\ Here.y = start.y
        BY <2>2, <2>14 DEF Position
      <4>. QED
        BY <1>2, <1>3, <2>4, <4>1
    <3>2. place \in Beginnings /\ PlaceOf(place) = place
      <4>1. start.x + Len(text) \in Columns
        BY <2>4, <2>7, <2>10 DEF Columns
      <4>2. ~(start.y >= NUM_ROWS)
        BY <2>3, <2>4, Sizes DEF Rows
      <4>. QED
        BY <2>4, <4>1, <4>2 DEF Position, Beginnings, PlaceOf, Row
    <3>3. screen' = At(shown, place)
      BY <1>5, <2>6, <3>1 DEF At, Position
    <3>. QED
      BY <2>9, <3>2, <3>3, AtOnScreen
  <2>15. OneRow(start, text, screen'.cells)
    BY <2>3, <2>7, <2>11, <2>13 DEF OneRow, Shows, i
  <2>. QED
    BY <1>5, <1>6, <1>9, <2>1, <2>2, <2>6, <2>14, <2>15 DEF InPlace
<1>. QED
  BY <1>4, <1>5, <1>7, <1>8, <1>9, OwnTerminalEchoInv

(* The keys that leave the line as it is, or end it.                       *)
LEMMA OtherKeysEchoInv ==
    ASSUME EchoInv,
           \/ Backspace /\ line[T] = <<>>
           \/ Enter \/ OtherKey \/ AltPress \/ AltRelease
    PROVE  EchoInv'
<1>1. /\ T \in Terminal /\ line[T] \in Lines /\ buf_offset \in {0, FirstRow}
      /\ line \in [Terminal -> Seq(Characters)]
      /\ start_position \in [Terminal -> Beginnings]
      /\ echo = [t \in Terminal |-> echo[t]]
  BY DEF EchoInv, EchoKept, ScreenInv, ScreenTypes, T
<1>2. ScreenInv' /\ OthersKept
  BY OthersAreKept, NextScreenInv DEF EchoInv, Next, Typing, Alternating
<1>3. CASE Enter
  <2>1. line'[T] = <<>> /\ buf_offset' = 0 /\ <<>> \in Lines
    BY <1>1, <1>3, EmptyLine DEF Enter
  <2>. QED
    BY <1>2, <2>1, OwnTerminalEchoInv
<1>4. CASE \/ Backspace /\ line[T] = <<>>
           \/ OtherKey \/ AltPress \/ AltRelease
  <2>1. UNCHANGED <<screen, line, buf_offset>>
    BY <1>4 DEF Backspace, OtherKey, AltPress, AltRelease
  <2>2. line[T] # <<>> => start_position'[T] = start_position[T] /\ echo'[T] = echo[T]
    BY <1>1, <1>4, <2>1 DEF OtherKey, AltPress, AltRelease, EchoAfterKey, Echo, Began
  <2>3. line'[T] # <<>> /\ echo'[T] # "broken" =>
          InPlace(start_position'[T], line'[T], screen', buf_offset', echo'[T])
    BY <2>1, <2>2 DEF EchoInv, EchoKept
  <2>4. line'[T] \in Lines /\ buf_offset' \in {0, FirstRow}
    BY <1>1, <2>1
  <2>. QED
    BY <1>2, <2>3, <2>4, OwnTerminalEchoInv
<1>. QED
  BY <1>3, <1>4

(* Ctrl and L put the line behind a prompt in the first row: its echo is   *)
(* whole again if the offset is that of its length.                        *)
LEMMA ClearScreenEchoInv ==
    ASSUME EchoInv, ClearScreen
    PROVE  EchoInv'
<1>. DEFINE text  == line[T]
            empty == [screen EXCEPT !.cells = Blank, !.x = 0, !.y = 0]
            clear == puts(empty, Prompt)
            begin == IF buf_offset = 0 THEN Position(OFFSET_X, 0) ELSE Position(0, 1)
<1>1. /\ T \in Terminal /\ screen \in Screens /\ text \in Lines
      /\ buf_offset \in {0, FirstRow}
      /\ start_position \in [Terminal -> Beginnings]
      /\ echo = [t \in Terminal |-> echo[t]]
  BY DEF EchoInv, EchoKept, ScreenInv, ScreenTypes, T
<1>2. clear \in Screens
  <2>1. 0 \in Columns /\ 0 \in Rows /\ Blank \in [Cells -> Characters]
    BY Sizes DEF Columns, Rows
  <2>2. empty \in Screens
    BY <1>1, <2>1 DEF Screens
  <2>. QED
    BY <2>2, Sizes, putsOnScreen
<1>3. /\ line'[T] = text /\ buf_offset' = buf_offset
      /\ screen' = print_line_buffer(clear, Position(OFFSET_X, 0), text, 0)
      /\ start_position'[T] = begin
      /\ echo'[T] = IF Len(text) < FirstRow <=> buf_offset = 0 THEN "calm" ELSE "broken"
  BY <1>1 DEF ClearScreen, Echo, FirstRow
<1>4. ScreenInv' /\ OthersKept
  BY OthersAreKept, NextScreenInv DEF EchoInv, Next, Typing
<1>5. /\ text \in Seq(Characters) /\ Len(text) \in Nat /\ Len(text) < FirstRow + NUM_COLS
      /\ \A k \in 1 .. Len(text) : text[k] # "\n"
  BY <1>1, LineCharacters DEF Lines
<1>. HIDE DEF text, clear
<1>6. CASE Len(text) < FirstRow /\ buf_offset = 0
  <2>1. /\ begin \in Beginnings /\ begin.x = OFFSET_X /\ begin.y = 0 /\ begin.y \in Rows
        /\ begin = Position(OFFSET_X, 0)
    BY <1>6, Sizes DEF Position, Rows
  <2>2. begin.x + Len(text) < NUM_COLS
    BY <1>5, <1>6, <2>1, FirstRowHasRoom
  <2>. HIDE DEF begin
  <2>3. /\ OneRow(begin, text, screen'.cells)
        /\ screen'.x = begin.x + Len(text) /\ screen'.y = begin.y
    BY <1>2, <1>3, <1>5, <2>1, <2>2, PrintsOneRow
  <2>4. get_cur_position(screen') = Position(begin.x + Len(text), begin.y)
    BY <2>3 DEF get_cur_position
  <2>5. InPlace(begin, text, screen', buf_offset', "calm")
    BY <1>3, <1>6, <2>3, <2>4 DEF InPlace
  <2>6. echo'[T] = "calm"
    BY <1>3, <1>6
  <2>. QED
    BY <1>1, <1>3, <1>4, <2>5, <2>6, OwnTerminalEchoInv
<1>7. CASE ~(Len(text) < FirstRow) /\ buf_offset # 0
  <2>1. /\ begin.x = 0 /\ begin.y = 1 /\ begin.y \in 1 .. NUM_ROWS /\ Row(begin) = 1
    BY <1>7, FirstRowHasRoom DEF Position, Row
  <2>2. Len(text) \in FirstRow .. FirstRow + NUM_COLS - 1
    BY <1>5, <1>7, FirstRowHasRoom
  <2>. HIDE DEF begin
  <2>3. /\ screen'.x = Len(text) - FirstRow /\ screen'.y = 1
        /\ Shows(screen'.cells, OFFSET_X, text)
    BY <1>2, <1>3, <1>5, <2>2, PrintsTwoRows
  <2>4. NUM_COLS * (Row(begin) - 1) + OFFSET_X = OFFSET_X
    BY <2>1, FirstRowHasRoom
  <2>5. get_cur_position(screen') = Position(Len(text) - FirstRow, Row(begin))
    BY <2>1, <2>3 DEF get_cur_position
  <2>6. TwoRows(begin, text, screen'.cells)
    BY <2>1, <2>2, <2>3, <2>4 DEF TwoRows
  <2>7. InPlace(begin, text, screen', buf_offset', "calm")
    BY <1>1, <1>3, <1>7, <2>5, <2>6 DEF InPlace
  <2>8. echo'[T] = "calm"
    BY <1>3, <1>7
  <2>. QED
    BY <1>1, <1>3, <1>4, <2>7, <2>8, OwnTerminalEchoInv
<1>8. CASE ~(Len(text) < FirstRow <=> buf_offset = 0)
  <2>1. echo'[T] = "broken"
    BY <1>3, <1>8
  <2>. QED
    BY <1>1, <1>3, <1>4, <2>1, OwnTerminalEchoInv
<1>. QED
  BY <1>6, <1>7, <1>8

(* A terminal that is left takes its line with it, and the one that comes  *)
(* back brings its own, unless the offset is not that of one row.          *)
LEMMA SwitchEchoInv ==
    ASSUME EchoInv, NEW t \in Terminal, Switch(t)
    PROVE  EchoInv'
<1>1. /\ EchoKept /\ T \in Terminal /\ screen \in Screens
      /\ start_position[t] \in Beginnings /\ vbuffer[t] \in [Cells -> Characters]
      /\ vbuffer \in [Terminal -> [Cells -> Characters]]
  BY DEF EchoInv, ScreenInv, ScreenTypes, T
<1>2. /\ t # T /\ T' = t
      /\ vbuffer' = [vbuffer EXCEPT ![T] = screen.cells]
      /\ screen' = [At(screen, start_position[t]) EXCEPT !.cells = vbuffer[t]]
      /\ echo' = EchoAfterSwitch
      /\ UNCHANGED <<start_position, line, buf_offset>>
  BY DEF Switch, Kept, T
<1>3. ScreenInv'
  BY NextScreenInv DEF EchoInv, Next, Alternating
<1>4. ASSUME NEW u \in Terminal, line[u] # <<>>, echo'[u] # "broken"
      PROVE  /\ buf_offset = 0 /\ echo[u] # "broken"
             /\ echo'[u] = IF u = T /\ echo[u] = "calm" THEN "left" ELSE echo[u]
  BY <1>2, <1>4 DEF EchoAfterSwitch
<1>5. ASSUME NEW u \in Terminal, line[u] # <<>>, echo'[u] # "broken"
      PROVE  /\ echo'[u] = "left" /\ buf_offset = 0
             /\ OneRow(start_position[u], line[u], IF u = T THEN screen.cells ELSE vbuffer[u])
  <2>1. CASE u = T
    BY <1>1, <1>4, <1>5, <2>1, FirstRowHasRoom DEF EchoKept, InPlace
  <2>2. CASE u # T
    BY <1>1, <1>4, <1>5, <2>2 DEF EchoKept
  <2>. QED
    BY <2>1, <2>2
<1>6. screen'.cells = vbuffer[t]
  <2>1. At(screen, start_position[t]) \in Screens
    BY <1>1, AtOnScreen
  <2>. QED
    BY <1>2, <2>1 DEF Screens
<1>7. ASSUME NEW u \in Terminal \ {t}, line[u] # <<>>, echo'[u] # "broken"
      PROVE  echo'[u] = "left" /\ OneRow(start_position[u], line[u], vbuffer'[u])
  BY <1>1, <1>2, <1>5, <1>7
<1>8. ASSUME line[t] # <<>>, echo'[t] # "broken"
      PROVE  InPlace(start_position[t], line[t], screen', buf_offset, echo'[t])
  BY <1>2, <1>5, <1>6, <1>8 DEF InPlace
<1>9. EchoKept'
  BY <1>1, <1>2, <1>7, <1>8
  DEF EchoKept, InPlace, OneRow, TwoRows, Shows, Row, Position, get_cur_position
<1>. QED
  BY <1>3, <1>9 DEF EchoInv

LEMMA SwitchToSameEchoInv ==
    ASSUME EchoInv, SwitchToSame
    PROVE  EchoInv'
<1>1. /\ EchoKept /\ T \in Terminal /\ screen \in Screens
      /\ start_position[T] \in Beginnings
      /\ start_position \in [Terminal -> Beginnings]
      /\ echo = [t \in Terminal |-> echo[t]]
  BY DEF EchoInv, ScreenInv, ScreenTypes, T
<1>2. /\ screen' = At(screen, start_position[T])
      /\ line[T] # <<>> => start_position'[T] = start_position[T]
      /\ echo'[T] = IF line[T] # <<>> /\ buf_offset # 0 THEN "broken"
                    ELSE IF echo[T] = "calm" THEN "left" ELSE echo[T]
      /\ UNCHANGED <<line, buf_offset>>
  BY <1>1 DEF SwitchToSame, Echo, Began
<1>3. ScreenInv' /\ OthersKept
  BY OthersAreKept, NextScreenInv DEF EchoInv, Next, Alternating
<1>4. screen'.cells = screen.cells
  BY <1>1, <1>2, AtOnScreen
<1>5. ASSUME line[T] # <<>>, echo'[T] # "broken"
      PROVE  InPlace(start_position'[T], line[T], screen', buf_offset, echo'[T])
  <2>1. buf_offset = 0 /\ echo[T] # "broken"
    BY <1>2, <1>5
  <2>2. echo[T] \in {"calm", "left"} /\ OneRow(start_position[T], line[T], screen.cells)
    BY <1>1, <1>5, <2>1, FirstRowHasRoom DEF EchoKept, InPlace
  <2>3. echo'[T] = "left"
    BY <1>2, <2>1, <2>2
  <2>. QED
    BY <1>2, <1>4, <1>5, <2>1, <2>2, <2>3 DEF InPlace
<1>. QED
  BY <1>1, <1>2, <1>3, <1>5, OwnTerminalEchoInv DEF EchoKept

(* Output in the middle of a line breaks its echo.                         *)
LEMMA WritingEchoInv ==
    ASSUME EchoInv, Writing
    PROVE  EchoInv'
<1>1. /\ T \in Terminal /\ line[T] \in Lines /\ buf_offset \in {0, FirstRow}
      /\ line \in [Terminal -> Seq(Characters)]
      /\ echo = [t \in Terminal |-> echo[t]]
  BY DEF EchoInv, EchoKept, ScreenInv, ScreenTypes, T
<1>2. /\ buf_offset' = buf_offset
      /\ line'[T] = line[T] \/ line'[T] = <<>>
      /\ line[T] # <<>> => echo'[T] = "broken"
  BY <1>1 DEF Writing, WritePrompt, WriteOutput, terminal_write, KernelPrints, ReadReturns, Echo
<1>3. ScreenInv' /\ OthersKept
  BY OthersAreKept, NextScreenInv DEF EchoInv, Next
<1>4. line'[T] \in Lines
  BY <1>1, <1>2, EmptyLine
<1>5. ~(line'[T] # <<>> /\ echo'[T] # "broken")
  BY <1>2
<1>. QED
  BY <1>1, <1>2, <1>3, <1>4, <1>5, OwnTerminalEchoInv

LEMMA NextEchoInv == EchoInv /\ [Next]_screenVars => EchoInv'
<1>. SUFFICES ASSUME EchoInv, [Next]_screenVars PROVE EchoInv'
  OBVIOUS
<1>1. CASE Typing
  BY <1>1, TypeLetterEchoInv, EraseEchoInv, OtherKeysEchoInv, ClearScreenEchoInv DEF Typing
<1>2. CASE Alternating
  BY <1>2, OtherKeysEchoInv, SwitchToSameEchoInv, SwitchEchoInv DEF Alternating
<1>3. CASE Writing
  BY <1>3, WritingEchoInv
<1>4. CASE UNCHANGED screenVars
  <2>1. UNCHANGED <<screen, start_position, line, buf_offset, curr_terminal, vbuffer, echo>>
    BY <1>4 DEF screenVars
  <2>2. EchoKept'
    BY <2>1 DEF EchoInv, EchoKept, InPlace, OneRow, TwoRows, Shows, T, Row, Position,
                get_cur_position
  <2>. QED
    BY <1>4, <2>2, NextScreenInv DEF EchoInv
<1>. QED
  BY <1>1, <1>2, <1>3, <1>4 DEF Next

LEMMA EchoInvariance == Spec => []EchoInv
BY InitEchoInv, NextEchoInv, PTL DEF Spec

-----------------------------------------------------------------------------
(* The position is on the screen, however the row a line begins in has     *)
(* been counted below zero or past the last and whatever has wrapped or    *)
(* scrolled: no character is written outside the video memory.             *)
THEOREM PositionsAreOnScreen == Spec => []PositionOnScreen
<1>1. ScreenInv => PositionOnScreen
  BY DEF ScreenInv, ScreenTypes, Screens, Columns, Rows, PositionOnScreen
<1>. QED
  BY <1>1, ScreenInvariance, PTL

(* Alt+Fn brings a terminal back with the cells it was left with, and with *)
(* the position if its line is empty and began where the screen was,       *)
(* whatever has been typed on and written to the other terminals since.    *)
THEOREM ScreensComeBack == Spec => TerminalsKeepTheirScreens
<1>. DEFINE A == curr_terminal' # curr_terminal =>
         /\ screen'.cells = left[curr_terminal'].cells
         /\ line[curr_terminal'] = <<>> /\ echo[curr_terminal'] \in {"calm", "left"} =>
              get_cur_position(screen') = get_cur_position(left[curr_terminal'])
<1>1. ScreenInv /\ [Next]_screenVars => [A]_screenVars
  <2>. SUFFICES ASSUME ScreenInv, Next, curr_terminal' # curr_terminal PROVE A
    OBVIOUS
  <2>1. PICK t \in Terminal : Switch(t)
    BY DEF Next, Typing, TypeLetter, Backspace, Enter, OtherKey, ClearScreen, Alternating,
           AltPress, AltRelease, SwitchToSame, Writing, WritePrompt, WriteOutput,
           terminal_write, KernelPrints, ReadReturns
  <2>2. /\ screen \in Screens /\ start_position[t] \in Beginnings
        /\ vbuffer[t] = left[t].cells
        /\ line[t] = <<>> /\ echo[t] \in {"calm", "left"} =>
             get_cur_position(left[t]) = PlaceOf(start_position[t])
    BY <2>1 DEF ScreenInv, ScreenTypes, ScreensKept, Switch
  <2>3. /\ At(screen, start_position[t]) \in Screens
        /\ get_cur_position(At(screen, start_position[t])) = PlaceOf(start_position[t])
    BY <2>2, AtOnScreen
  <2>4. /\ curr_terminal' = t
        /\ screen' = [At(screen, start_position[t]) EXCEPT !.cells = vbuffer[t]]
    BY <2>1 DEF Switch
  <2>5. /\ screen'.cells = vbuffer[t]
        /\ get_cur_position(screen') = PlaceOf(start_position[t])
    BY <2>3, <2>4 DEF Screens, get_cur_position
  <2>. QED
    BY <2>2, <2>4, <2>5
<1>. QED
  BY <1>1, ScreenInvariance, PTL DEF Spec, TerminalsKeepTheirScreens

(* What is typed stands on the screen from where the line began, in one    *)
(* row or two, scrolled or not, also after other terminals have been on    *)
(* the screen; unless something the echo does not follow has happened.     *)
THEOREM LinesAreEchoed == Spec => []EchoShowsTheLine
<1>1. EchoInv => EchoShowsTheLine
  <2>. SUFFICES ASSUME EchoInv, line[T] # <<>>, echo[T] # "broken" PROVE ShownFrom(Beginning)
    BY DEF EchoShowsTheLine
  <2>. DEFINE begin == start_position[T]
  <2>1. InPlace(begin, line[T], screen, buf_offset, echo[T])
    BY DEF EchoInv, EchoKept
  <2>2. DOMAIN line[T] = 1 .. Len(line[T])
    BY LenProperties DEF EchoInv, ScreenInv, ScreenTypes, T
  <2>3. CASE buf_offset = 0
    <3>1. OneRow(begin, line[T], screen.cells)
      BY <2>1, <2>3, FirstRowHasRoom DEF InPlace
    <3>2. Row(begin) = begin.y
      BY <3>1, FirstRowHasRoom DEF OneRow, Row, Rows
    <3>. QED
      BY <2>2, <2>3, <3>1, <3>2 DEF OneRow, Shows, ShownFrom, Beginning
  <2>4. CASE buf_offset # 0
    <3>1. TwoRows(begin, line[T], screen.cells)
      BY <2>1, <2>4 DEF InPlace
    <3>. QED
      BY <2>2, <2>4, <3>1 DEF TwoRows, Shows, ShownFrom, Beginning
  <2>. QED
    BY <2>3, <2>4
<1>. QED
  BY <1>1, EchoInvariance, PTL

(* The next character of a calm line goes behind its last, in the second   *)
(* row as in the first.                                                    *)
THEOREM LettersFollow == Spec => []NextLetterFollows
<1>1. EchoInv => NextLetterFollows
  <2>. SUFFICES ASSUME EchoInv, line[T] # <<>>, echo[T] = "calm"
                PROVE  NUM_COLS * screen.y + screen.x = Beginning + Len(line[T])
    BY DEF NextLetterFollows
  <2>. DEFINE begin == start_position[T]
              len   == Len(line[T])
  <2>1. InPlace(begin, line[T], screen, buf_offset, "calm")
    BY DEF EchoInv, EchoKept
  <2>2. len \in Nat /\ begin.x \in Nat /\ begin.y \in Nat
    <3>1. line[T] \in Seq(Characters) /\ begin \in Beginnings
      BY DEF EchoInv, ScreenInv, ScreenTypes, T
    <3>2. len \in Nat
      BY <3>1, LenProperties
    <3>. HIDE DEF begin
    <3>. QED
      BY <3>1, <3>2, FirstRowHasRoom DEF Beginnings, Columns
  <2>. HIDE DEF begin, len
  <2>3. CASE buf_offset = 0
    <3>1. /\ screen.x = begin.x + len /\ screen.y = begin.y /\ begin.y \in Rows
      BY <2>1, <2>3, FirstRowHasRoom DEF InPlace, OneRow, get_cur_position, Position, len
    <3>2. Row(begin) = begin.y /\ NUM_COLS * begin.y \in Nat
      <4>1. begin.y < NUM_ROWS
        BY <2>2, <3>1, FirstRowHasRoom DEF Rows
      <4>2. NUM_COLS * begin.y \in Nat
        BY <2>2, FirstRowHasRoom, SMT
      <4>. QED
        BY <2>2, <4>1, <4>2, FirstRowHasRoom DEF Row
    <3>3. Beginning = NUM_COLS * begin.y + begin.x
      BY <2>3, <3>2 DEF Beginning, begin
    <3>. QED
      BY <2>2, <3>1, <3>2, <3>3 DEF len
  <2>4. CASE buf_offset # 0
    <3>1. /\ screen.x = len - FirstRow /\ screen.y = Row(begin) /\ begin.y \in 1 .. NUM_ROWS
      BY <2>1, <2>4 DEF InPlace, TwoRows, get_cur_position, Position, len
    <3>2. Row(begin) \in Nat /\ Row(begin) >= 1
      BY <3>1, FirstRowHasRoom DEF Row
    <3>3. /\ NUM_COLS * (Row(begin) - 1) = NUM_COLS * Row(begin) - NUM_COLS
          /\ NUM_COLS * Row(begin) \in Nat
      <4>1. NUM_COLS * Row(begin) \in Nat
        BY <3>2, FirstRowHasRoom, SMT
      <4>. QED
        BY <3>2, <4>1, RowAbove
    <3>4. Beginning = NUM_COLS * Row(begin) - NUM_COLS + OFFSET_X
      BY <2>4, <3>3 DEF Beginning, begin
    <3>. QED
      BY <2>2, <3>1, <3>3, <3>4, FirstRowHasRoom DEF len
  <2>. QED
    BY <2>3, <2>4
<1>. QED
  BY <1>1, EchoInvariance, PTL
=============================================================================
