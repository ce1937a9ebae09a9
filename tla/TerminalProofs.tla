--------------------------- MODULE TerminalProofs ---------------------------
(***************************************************************************)
(* The line discipline, for every number of terminals, every size of a     *)
(* line and every alphabet: the buffers are sound and reads give their     *)
(* lines under an unhurried user, who types and switches while a read      *)
(* copies, and implement LineDiscipline under a patient one.               *)
(***************************************************************************)
EXTENDS MCTerminal, DataLemmas

(* The first n characters of a row, as a sequence.                         *)
Copied(row, n) == [k \in 1 .. n |-> row[k - 1]]

(* The parts of LineFits, LineWellFormed, ReadBufferHoldsALine and         *)
(* TerminalsDoNotMix that are about one terminal.                          *)
LineOK(t) ==
    /\ cur_buffer_size[t] <= LINE_BUFFER - 2
    /\ pc[t] # "size" => cur_buffer_position[t] = cur_buffer_size[t]
    /\ \A k \in Cells :
         /\ k >= cur_buffer_size[t] => key_line_buffer[t][k] = NUL
         /\ k < cur_buffer_size[t] /\ pc[t] \notin {"clear", "size"} =>
              key_line_buffer[t][k] \in Letters[t]

ALine(row, t) ==
    \E n \in 0 .. LINE_BUFFER - 2 :
      \A k \in Cells : /\ k < n => row[k] \in Letters[t]
                       /\ k = n => row[k] = NewLine
                       /\ k > n => row[k] = NUL

ReadBufferOK(t) ==
    \/ ~unread[t] /\ key_read_buffer[t] = [k \in Cells |-> NUL]
    \/ ALine(key_read_buffer[t], t)

OwnText(s, t) == \A k \in 1 .. Len(s) : s[k] \in Letters[t] \cup {NewLine, NUL}

(* The lines a read of t has found in its buffer.                          *)
SeenOK(t) ==
    \A row \in seen[t] : \A k \in Cells : row[k] \in Letters[t] \cup {NewLine, NUL}

(* While a read copies, its bytes are of lines it has found, and of one    *)
(* line if it has found one.  Between the test of a byte and its copy the  *)
(* byte is before the end of that line, and not in the last cell.          *)
CopyOK(t) ==
    /\ i[t] <= nbytes[t] /\ i[t] < LINE_BUFFER /\ Len(buf[t]) = i[t]
    /\ key_read_buffer[t] \in seen[t]
    /\ \A k \in 1 .. i[t] : \E row \in seen[t] : buf[t][k] = row[k - 1]
    /\ \A row \in seen[t] : seen[t] = {row} =>
         i[t] <= StringLength(row) /\ buf[t] = Copied(row, i[t])
    /\ pc[t] = "store" =>
         /\ i[t] < nbytes[t] /\ i[t] + 1 < LINE_BUFFER
         /\ \A row \in seen[t] : seen[t] = {row} => row[i[t]] # NUL

(* What ReadGivesTheLine says of the text a read gives.                    *)
GivesTheLine(t, text) ==
    LET n == Len(text) IN
    /\ \A k \in 1 .. n : \E row \in seen[t] : text[k] = row[k - 1]
    /\ n = nbytes[t] \/ (n \in Cells /\ \E row \in seen[t] : row[n] = NUL)
    /\ \A row \in seen[t] : seen[t] = {row} => text = Prefix(row, nbytes[t])

(* How far a read is: what it has copied, and what it has cleared.         *)
PhaseOK(t) ==
    /\ pc[t] \in {"user", "spin", "size", "return"} => i[t] = 0
    /\ pc[t] \in {"user", "spin"} => buf[t] = <<>>
    /\ pc[t] \in {"copy", "store"} => CopyOK(t)
    /\ pc[t] \in {"clear", "size", "return"} =>
         GivesTheLine(t, buf[t]) /\ Len(buf[t]) < LINE_BUFFER
    /\ pc[t] = "clear" => \A k \in Cells : k < i[t] => key_line_buffer[t][k] = NUL
    /\ pc[t] = "size" => /\ \A k \in Cells : key_line_buffer[t][k] = NUL
                         /\ cur_buffer_position[t] = 0

TerminalOK(t) ==
    LineOK(t) /\ ReadBufferOK(t) /\ OwnText(received[t], t) /\ SeenOK(t) /\ PhaseOK(t)

TerminalInv == TypeOK /\ \A t \in Terminals : TerminalOK(t)
-----------------------------------------------------------------------------
LEMMA Places ==
    /\ LINE_BUFFER \in Nat /\ LINE_BUFFER > 2
    /\ WORD \in Nat /\ WORD > LINE_BUFFER
    /\ \A k : k \in Cells <=> k \in Nat /\ k < LINE_BUFFER
    /\ \A t \in Terminals : \A c \in Letters[t] : c \in Nat /\ c \in Chars /\ c # NUL /\ c # NewLine
    /\ NUL \in Chars /\ NewLine \in Chars /\ NUL # NewLine
    /\ 0 \in Terminals
BY SizesAssumption, LettersAssumption DEF Cells, Chars, Terminals, NUL, NewLine

(* The length of a string is the place of the first NUL.                   *)
LEMMA StringLengthIs ==
    ASSUME NEW row
    PROVE  /\ StringLength(row) \in 0 .. LINE_BUFFER
           /\ \A k \in Cells : k < StringLength(row) => row[k] # NUL
           /\ StringLength(row) \in Cells => row[StringLength(row)] = NUL
<1>. DEFINE S == {k \in Cells : row[k] = NUL} \cup {LINE_BUFFER}
<1>1. S \in SUBSET Nat /\ S # {} /\ S \subseteq 0 .. LINE_BUFFER
  BY Places
<1>2. \E x \in S : \A y \in S : x <= y
  <2>. HIDE DEF S
  <2>. QED
    BY <1>1, LeastNumber
<1>3. Min(S) \in S /\ \A y \in S : Min(S) <= y
  <2>. HIDE DEF S
  <2>. QED
    BY <1>2 DEF Min
<1>. DEFINE m == Min(S)
<1>4. StringLength(row) = m
  BY DEF StringLength
<1>. HIDE DEF m
<1>5. m \in S /\ m \in 0 .. LINE_BUFFER /\ \A y \in S : m <= y
  <2>. HIDE DEF S
  <2>. QED
    BY <1>1, <1>3 DEF m
<1>6. \A k \in Cells : k < m => row[k] # NUL
  BY <1>5, Places
<1>7. m \in Cells => row[m] = NUL
  BY <1>5, Places
<1>. QED
  BY <1>4, <1>5, <1>6, <1>7

LEMMA LineLength ==
    ASSUME NEW row, NEW n \in 0 .. LINE_BUFFER,
           \A k \in Cells : (k < n => row[k] # NUL) /\ (k = n => row[k] = NUL)
    PROVE  StringLength(row) = n
<1>. DEFINE m == StringLength(row)
<1>1. /\ m \in 0 .. LINE_BUFFER
      /\ \A k \in Cells : k < m => row[k] # NUL
      /\ m \in Cells => row[m] = NUL
  BY StringLengthIs
<1>. HIDE DEF m
<1>2. ~ (m < n) /\ ~ (n < m)
  BY <1>1, Places
<1>3. m = n
  BY <1>1, <1>2, Places
<1>. QED
  BY <1>3 DEF m

(* What a read takes: the string, cut at the number of bytes.              *)
LEMMA PrefixIs ==
    ASSUME NEW row \in [Cells -> Chars], NEW n \in Nat,
           NEW m, m = IF n <= StringLength(row) THEN n ELSE StringLength(row)
    PROVE  /\ Prefix(row, n) = Copied(row, m)
           /\ m \in 0 .. StringLength(row)
<1>. DEFINE L == StringLength(row)
<1>1. L \in 0 .. LINE_BUFFER
  BY StringLengthIs
<1>2. Min({n, L}) = m /\ m \in 0 .. L
  <2>. HIDE DEF L
  <2>1. m \in {n, L} /\ \A y \in {n, L} : m <= y
    BY <1>1, Places DEF L
  <2>2. \A x \in {n, L} : (\A y \in {n, L} : x <= y) => x = m
    BY <1>1, <2>1
  <2>3. Min({n, L}) \in {n, L} /\ \A y \in {n, L} : Min({n, L}) <= y
    BY <2>1 DEF Min
  <2>. QED
    BY <1>1, <2>1, <2>2, <2>3, Places DEF L
<1>3. Contents(row) = Copied(row, L)
  BY DEF Contents, Copied
<1>. HIDE DEF L
<1>4. SubSeq(Copied(row, L), 1, m) = Copied(row, m)
  <2>1. \A k \in 1 .. L : row[k - 1] \in Chars
    BY <1>1, Places
  <2>2. Copied(row, L) \in Seq(Chars) /\ Len(Copied(row, L)) = L
    BY <1>1, <2>1 DEF Copied
  <2>3. SubSeq(Copied(row, L), 1, m) = [k \in 1 .. m |-> Copied(row, L)[k]]
    BY <1>1, <1>2, <2>2
  <2>4. \A k \in 1 .. m : Copied(row, L)[k] = row[k - 1]
    BY <1>1, <1>2 DEF Copied
  <2>. QED
    BY <2>3, <2>4 DEF Copied
<1>. QED
  BY <1>2, <1>3, <1>4 DEF Prefix, L

LEMMA CopiedIs ==
    ASSUME NEW row \in [Cells -> Chars], NEW n \in 0 .. LINE_BUFFER
    PROVE  /\ Copied(row, n) \in Seq(Chars) /\ Len(Copied(row, n)) = n
           /\ \A k \in 1 .. n : Copied(row, n)[k] = row[k - 1]
           /\ n = 0 => Copied(row, n) = <<>>
           /\ n \in Cells => Append(Copied(row, n), row[n]) = Copied(row, n + 1)
<1>1. \A k \in 1 .. n : row[k - 1] \in Chars
  BY Places
<1>2. Copied(row, n) \in Seq(Chars) /\ Len(Copied(row, n)) = n
  BY <1>1 DEF Copied
<1>3. \A k \in 1 .. n : Copied(row, n)[k] = row[k - 1]
  BY DEF Copied
<1>4. n = 0 => Copied(row, n) = <<>>
  BY <1>2
<1>5. ASSUME n \in Cells PROVE Append(Copied(row, n), row[n]) = Copied(row, n + 1)
  <2>1. \A k \in 1 .. n + 1 : row[k - 1] \in Chars
    BY <1>5, Places
  <2>2. Copied(row, n + 1) \in Seq(Chars) /\ Len(Copied(row, n + 1)) = n + 1
    BY <2>1 DEF Copied
  <2>3. \A k \in 1 .. n + 1 : Copied(row, n + 1)[k] = row[k - 1]
    BY DEF Copied
  <2>4. row[n] \in Chars
    BY <1>5
  <2>. DEFINE a == Append(Copied(row, n), row[n])
              b == Copied(row, n + 1)
  <2>5. a \in Seq(Chars) /\ Len(a) = n + 1
    BY <1>2, <2>4
  <2>6. \A k \in 1 .. n + 1 : a[k] = b[k]
    BY <1>2, <1>3, <2>3, <2>4
  <2>. HIDE DEF a, b
  <2>7. a = b
    BY <2>2, <2>5, <2>6, SeqEqual DEF b
  <2>. QED
    BY <2>7 DEF a, b
<1>. QED
  BY <1>2, <1>3, <1>4, <1>5

(* A line of a terminal, or an empty buffer, read from the start.          *)
LEMMA PrefixIsOwnText ==
    ASSUME TypeOK, NEW t \in Terminals, ReadBufferOK(t), NEW n \in Nat
    PROVE  Prefix(key_read_buffer[t], n) \in Seq(Chars) /\ OwnText(Prefix(key_read_buffer[t], n), t)
<1>. DEFINE row == key_read_buffer[t]
            L == StringLength(row)
            m == IF n <= L THEN n ELSE L
<1>1. row \in [Cells -> Chars]
  BY DEF TypeOK
<1>2. L \in 0 .. LINE_BUFFER /\ \A k \in Cells : k < L => row[k] # NUL
  BY StringLengthIs
<1>. HIDE DEF row, L
<1>3. m \in 0 .. L /\ Prefix(row, n) = Copied(row, m)
  BY <1>1, PrefixIs DEF L
<1>. HIDE DEF m
<1>4. \A k \in Cells : row[k] \in Letters[t] \cup {NewLine} \/ row[k] = NUL
  BY Places DEF ReadBufferOK, ALine, row
<1>5. m \in 0 .. LINE_BUFFER /\ \A k \in 1 .. m : k - 1 \in Cells /\ k - 1 < L
  BY <1>2, <1>3, Places
<1>6. Copied(row, m) \in Seq(Chars) /\ Len(Copied(row, m)) = m
      /\ \A k \in 1 .. m : Copied(row, m)[k] = row[k - 1]
  BY <1>1, <1>5, CopiedIs
<1>7. OwnText(Copied(row, m), t)
  BY <1>2, <1>4, <1>5, <1>6 DEF OwnText
<1>. QED
  BY <1>3, <1>6, <1>7 DEF row
-----------------------------------------------------------------------------
(* What a step does to the terminals it is not about.                      *)
LEMMA Untouched ==
    ASSUME NEW u \in Terminals, TerminalOK(u),
           key_line_buffer'[u] = key_line_buffer[u], key_read_buffer'[u] = key_read_buffer[u],
           cur_buffer_position'[u] = cur_buffer_position[u],
           cur_buffer_size'[u] = cur_buffer_size[u],
           pc'[u] = pc[u], i'[u] = i[u], nbytes'[u] = nbytes[u], buf'[u] = buf[u],
           received'[u] = received[u], unread'[u] = unread[u], seen'[u] = seen[u]
    PROVE  TerminalOK(u)'
<1>1. LineOK(u)'
  BY DEF TerminalOK, LineOK
<1>2. ReadBufferOK(u)' /\ OwnText(received[u], u)' /\ SeenOK(u)'
  BY DEF TerminalOK, ReadBufferOK, ALine, OwnText, SeenOK
<1>3. PhaseOK(u)'
  BY DEF TerminalOK, PhaseOK, CopyOK, GivesTheLine
<1>. QED
  BY <1>1, <1>2, <1>3 DEF TerminalOK

(* Keys.  The line typed on is not the one a read is clearing.             *)
LEMMA Quiet ==
    ASSUME TerminalInv, ~ClearsItsLine, NEW t, t = curr_terminal
    PROVE  /\ t \in Terminals /\ pc[t] \notin {"clear", "size"} /\ TerminalOK(t)
           /\ cur_buffer_position[t] = cur_buffer_size[t]
           /\ cur_buffer_size[t] \in 0 .. LINE_BUFFER - 2
           /\ key_line_buffer[t] \in [Cells -> Chars]
           /\ \A k \in Cells : /\ k >= cur_buffer_size[t] => key_line_buffer[t][k] = NUL
                               /\ k < cur_buffer_size[t] =>
                                    key_line_buffer[t][k] \in Letters[t]
<1>1. t \in Terminals /\ pc[t] \notin {"clear", "size"}
  BY DEF TerminalInv, TypeOK, ClearsItsLine
<1>2. TerminalOK(t)
  BY <1>1 DEF TerminalInv
<1>3. cur_buffer_size[t] \in Nat /\ key_line_buffer[t] \in [Cells -> Chars]
  BY <1>1, Places DEF TerminalInv, TypeOK
<1>4. /\ cur_buffer_position[t] = cur_buffer_size[t]
      /\ cur_buffer_size[t] \in 0 .. LINE_BUFFER - 2
  BY <1>1, <1>2, <1>3, Places DEF TerminalOK, LineOK
<1>5. \A k \in Cells : /\ k >= cur_buffer_size[t] => key_line_buffer[t][k] = NUL
                       /\ k < cur_buffer_size[t] => key_line_buffer[t][k] \in Letters[t]
  BY <1>1, <1>2 DEF TerminalOK, LineOK
<1>. QED
  BY <1>1, <1>2, <1>3, <1>4, <1>5

(* A step which gives terminal t a sound line, of a sound size, and        *)
(* nothing else: the row, the position and the size are changed together.  *)
LEMMA LineChanged ==
    ASSUME TerminalInv, ~ClearsItsLine, NEW t, t = curr_terminal,
           NEW row \in [Cells -> Chars], NEW size \in 0 .. LINE_BUFFER - 2,
           \A k \in Cells : /\ k >= size => row[k] = NUL
                            /\ k < size => row[k] \in Letters[t],
           key_line_buffer' = [key_line_buffer EXCEPT ![t] = row],
           cur_buffer_position' = [cur_buffer_position EXCEPT ![t] = size],
           cur_buffer_size' = [cur_buffer_size EXCEPT ![t] = size],
           UNCHANGED <<curr_terminal, alt_pressed, key_read_buffer, keyboard_read,
                       readVars, history>>
    PROVE  TerminalInv'
<1>1. t \in Terminals /\ pc[t] \notin {"clear", "size"}
  BY Quiet
<1>. USE DEF readVars, history
<1>2. TypeOK'
  <2>1. size \in 0 .. WORD - 1
    BY Places
  <2>2. key_line_buffer' \in [Terminals -> [Cells -> Chars]]
    BY <1>1 DEF TerminalInv, TypeOK
  <2>3. cur_buffer_position' \in [Terminals -> 0 .. WORD - 1]
    BY <1>1, <2>1 DEF TerminalInv, TypeOK
  <2>4. cur_buffer_size' \in [Terminals -> 0 .. WORD - 1]
    BY <1>1, <2>1 DEF TerminalInv, TypeOK
  <2>. QED
    BY <2>2, <2>3, <2>4 DEF TerminalInv, TypeOK
<1>3. ASSUME NEW u \in Terminals PROVE TerminalOK(u)'
  <2>1. TerminalOK(u)
    BY DEF TerminalInv
  <2>2. CASE u # t
    BY <2>1, <2>2, Untouched DEF TerminalInv, TypeOK
  <2>3. CASE u = t
    <3>1. key_line_buffer'[u] = row /\ cur_buffer_position'[u] = size /\ cur_buffer_size'[u] = size
      BY <2>3 DEF TerminalInv, TypeOK
    <3>2. LineOK(u)'
      BY <2>3, <3>1, Places DEF LineOK
    <3>3. ReadBufferOK(u)' /\ OwnText(received[u], u)' /\ SeenOK(u)'
      BY <2>1 DEF TerminalOK, ReadBufferOK, ALine, OwnText, SeenOK
    <3>4. PhaseOK(u)'
      BY <1>1, <2>1, <2>3 DEF TerminalOK, PhaseOK, CopyOK, GivesTheLine
    <3>. QED
      BY <3>2, <3>3, <3>4 DEF TerminalOK
  <2>. QED
    BY <2>2, <2>3
<1>. QED
  BY <1>2, <1>3 DEF TerminalInv

(* Typed letters go to the end of the line, where the position is.         *)
LEMMA TypedLetter ==
    ASSUME TerminalInv, ~ClearsItsLine, NEW t, t = curr_terminal,
           NEW c \in Letters[t], TypeLetter(t, c)
    PROVE  /\ TerminalInv'
           /\ Contents(key_line_buffer[t])' = Append(Contents(key_line_buffer[t]), c)
           /\ StringLength(key_line_buffer[t]) < LINE_BUFFER - 2
<1>. DEFINE old == key_line_buffer[t]
            size == cur_buffer_size[t]
            row == [old EXCEPT ![size] = c]
<1>1. /\ t \in Terminals /\ size \in 0 .. LINE_BUFFER - 2 /\ cur_buffer_position[t] = size
      /\ old \in [Cells -> Chars]
      /\ \A k \in Cells : /\ k >= size => old[k] = NUL
                          /\ k < size => old[k] \in Letters[t]
  BY Quiet
<1>2. size < LINE_BUFFER - 2 /\ size \in Cells
  BY <1>1, Places DEF TypeLetter, HasRoom
<1>3. Insert(old, size, size, c) = row
  <2>1. \A k \in Cells : ~ (size < k /\ k <= size)
    BY <1>1, Places
  <2>2. [k \in Cells |-> IF size < k /\ k <= size THEN old[k - 1] ELSE old[k]] = old
    BY <1>1, <2>1
  <2>. QED
    BY <1>2, <2>2 DEF Insert, Store
<1>. HIDE DEF old, size
<1>4. row \in [Cells -> Chars]
  <2>1. c \in Chars
    BY <1>1, Places
  <2>. QED
    BY <1>1, <2>1
<1>5. \A k \in Cells : /\ k >= size + 1 => row[k] = NUL
                       /\ k < size + 1 => row[k] \in Letters[t]
  BY <1>1, <1>2, Places
<1>6. /\ key_line_buffer' = [key_line_buffer EXCEPT ![t] = row]
      /\ cur_buffer_position' = [cur_buffer_position EXCEPT ![t] = size + 1]
      /\ cur_buffer_size' = [cur_buffer_size EXCEPT ![t] = size + 1]
      /\ UNCHANGED <<curr_terminal, alt_pressed, key_read_buffer, keyboard_read,
                     readVars, history>>
  BY <1>1, <1>3 DEF TypeLetter, old, size
<1>7. TerminalInv'
  <2>1. size + 1 \in 0 .. LINE_BUFFER - 2
    BY <1>1, <1>2, Places
  <2>. HIDE DEF row
  <2>. QED
    BY <1>4, <1>5, <1>6, <2>1, LineChanged
<1>8. StringLength(old) = size
  BY <1>1, Places, LineLength
<1>9. StringLength(row) = size + 1
  <2>. HIDE DEF row
  <2>. QED
    BY <1>1, <1>2, <1>5, Places, LineLength
<1>10. Contents(row) = Append(Contents(old), c)
  <2>1. Contents(row) = Copied(row, size + 1) /\ Contents(old) = Copied(old, size)
    BY <1>8, <1>9 DEF Contents, Copied
  <2>2. Append(Copied(row, size), row[size]) = Copied(row, size + 1)
    <3>. HIDE DEF row
    <3>1. size \in 0 .. LINE_BUFFER
      BY <1>1, Places
    <3>. QED
      BY <1>2, <1>4, <3>1, CopiedIs
  <2>3. row[size] = c
    BY <1>1, <1>2
  <2>4. Copied(row, size) = Copied(old, size)
    <3>1. \A k \in 1 .. size : row[k - 1] = old[k - 1]
      BY <1>1, <1>2, Places
    <3>. HIDE DEF row
    <3>. QED
      BY <3>1 DEF Copied
  <2>. QED
    BY <2>1, <2>2, <2>3, <2>4
<1>11. key_line_buffer'[t] = row
  BY <1>1, <1>6 DEF TerminalInv, TypeOK
<1>. HIDE DEF row
<1>12. Contents(key_line_buffer[t])' = Contents(row)
  BY <1>11 DEF Contents, StringLength
<1>. QED
  BY <1>2, <1>7, <1>8, <1>10, <1>12 DEF old, size

(* Backspace takes the last character off the line.                        *)
LEMMA Erased ==
    ASSUME TerminalInv, ~ClearsItsLine, NEW t, t = curr_terminal, Backspace(t)
    PROVE  /\ TerminalInv'
           /\ Contents(key_line_buffer[t]) # <<>>
           /\ Contents(key_line_buffer[t])' =
                SubSeq(Contents(key_line_buffer[t]), 1, Len(Contents(key_line_buffer[t])) - 1)
<1>. DEFINE old == key_line_buffer[t]
            size == cur_buffer_size[t]
            less == size - 1
            row == Shifted(old, less, less)
<1>1. /\ t \in Terminals /\ size \in 0 .. LINE_BUFFER - 2 /\ cur_buffer_position[t] = size
      /\ old \in [Cells -> Chars]
      /\ \A k \in Cells : /\ k >= size => old[k] = NUL
                          /\ k < size => old[k] \in Letters[t]
  BY Quiet
<1>2. size > 0
  BY <1>1 DEF Backspace, CanErase
<1>3. Decrement(size) = less
  BY <1>1, <1>2, Places DEF Decrement
<1>4. /\ key_line_buffer' = [key_line_buffer EXCEPT ![t] = row]
      /\ cur_buffer_position' = [cur_buffer_position EXCEPT ![t] = less]
      /\ cur_buffer_size' = [cur_buffer_size EXCEPT ![t] = less]
      /\ UNCHANGED <<curr_terminal, alt_pressed, key_read_buffer, keyboard_read,
                     readVars, history>>
  BY <1>1, <1>3, Zenon DEF Backspace
<1>. HIDE DEF old, size
<1>5. row \in [Cells -> Chars]
  BY <1>1, Places DEF Shifted
<1>6. \A k \in Cells : /\ k >= less => row[k] = NUL
                       /\ k < less => row[k] = old[k] /\ row[k] \in Letters[t]
  BY <1>1, <1>2, Places DEF Shifted
<1>. HIDE DEF row
<1>7. less \in 0 .. LINE_BUFFER - 2 /\ less < LINE_BUFFER
  BY <1>1, <1>2, Places
<1>8. TerminalInv'
  BY <1>4, <1>5, <1>6, <1>7, LineChanged
<1>9. StringLength(old) = size /\ StringLength(row) = less
  <2>1. size \in 0 .. LINE_BUFFER /\ less \in 0 .. LINE_BUFFER
    BY <1>1, <1>2, Places
  <2>2. \A k \in Cells : (k < size => old[k] # NUL) /\ (k = size => old[k] = NUL)
    BY <1>1, Places
  <2>3. \A k \in Cells : (k < less => row[k] # NUL) /\ (k = less => row[k] = NUL)
    BY <1>1, <1>6, <1>7, Places
  <2>. HIDE DEF less
  <2>. QED
    BY <2>1, <2>2, <2>3, LineLength
<1>10. Contents(old) = Copied(old, size) /\ Contents(row) = Copied(row, less)
  BY <1>9 DEF Contents, Copied
<1>11. Copied(old, size) \in Seq(Chars) /\ Len(Copied(old, size)) = size
       /\ \A k \in 1 .. size : Copied(old, size)[k] = old[k - 1]
  BY <1>1, Places, CopiedIs
<1>12. SubSeq(Copied(old, size), 1, less) = Copied(row, less)
  <2>1. SubSeq(Copied(old, size), 1, less) = [k \in 1 .. less |-> Copied(old, size)[k]]
    BY <1>1, <1>2, <1>11
  <2>2. \A k \in 1 .. less : Copied(old, size)[k] = row[k - 1]
    <3>1. \A k \in 1 .. less : k \in 1 .. size /\ k - 1 \in Cells /\ k - 1 < less
      BY <1>1, <1>2, Places
    <3>. HIDE DEF less
    <3>. QED
      BY <1>6, <1>11, <3>1
  <2>. QED
    BY <2>1, <2>2 DEF Copied
<1>13. key_line_buffer'[t] = row
  BY <1>1, <1>4 DEF TerminalInv, TypeOK
<1>14. Contents(key_line_buffer[t])' = Contents(row)
  BY <1>13 DEF Contents, StringLength
<1>15. Copied(old, size) # <<>>
  BY <1>1, <1>2, <1>11
<1>. QED
  BY <1>8, <1>10, <1>11, <1>12, <1>14, <1>15 DEF old
(* Enter: the line with its newline becomes the read buffer.               *)
LEMMA Entered ==
    ASSUME TerminalInv, ~ClearsItsLine, NEW t, t = curr_terminal, Enter(t)
    PROVE  /\ TerminalInv'
           /\ Contents(key_line_buffer[t])' = <<>>
           /\ Contents(key_read_buffer[t])' = Append(Contents(key_line_buffer[t]), NewLine)
<1>. DEFINE old == key_line_buffer[t]
            size == cur_buffer_size[t]
            stored == [old EXCEPT ![size] = NewLine]
            row == Strncpy(stored)
            empty == [k \in Cells |-> NUL]
<1>1. /\ t \in Terminals /\ size \in 0 .. LINE_BUFFER - 2
      /\ old \in [Cells -> Chars]
      /\ pc[t] \notin {"clear", "size"} /\ TerminalOK(t)
      /\ \A k \in Cells : /\ k >= size => old[k] = NUL
                          /\ k < size => old[k] \in Letters[t]
  BY Quiet
<1>2. size \in Cells
  BY <1>1, Places
<1>3. /\ key_read_buffer' = [key_read_buffer EXCEPT ![t] = row]
      /\ key_line_buffer' = [key_line_buffer EXCEPT ![t] = empty]
      /\ cur_buffer_position' = [cur_buffer_position EXCEPT ![t] = 0]
      /\ cur_buffer_size' = [cur_buffer_size EXCEPT ![t] = 0]
      /\ keyboard_read' = TRUE
      /\ unread' = [unread EXCEPT ![t] = TRUE]
      /\ seen' = [seen EXCEPT ![t] = IF pc[t] \in {"copy", "store"}
                                       THEN @ \cup {key_read_buffer'[t]} ELSE @]
      /\ UNCHANGED <<curr_terminal, alt_pressed, readVars>>
  BY <1>2 DEF Enter, ClearBuffer, LineOf, Store, FlagRaised
<1>. HIDE DEF old, size
<1>4. stored \in [Cells -> Chars]
  BY <1>1, Places
<1>5. \A k \in Cells : /\ k < size => stored[k] = old[k] /\ stored[k] \in Letters[t]
                       /\ k = size => stored[k] = NewLine
                       /\ k > size => stored[k] = NUL
  BY <1>1, <1>2, Places
<1>. HIDE DEF stored
<1>6. StringLength(stored) = size + 1
  <2>1. size + 1 \in 0 .. LINE_BUFFER
    BY <1>1, Places
  <2>2. \A k \in Cells : /\ k < size + 1 => stored[k] # NUL
                         /\ k = size + 1 => stored[k] = NUL
    BY <1>1, <1>5, Places
  <2>. QED
    BY <2>1, <2>2, LineLength
<1>7. row = stored
  <2>1. \A k \in Cells : (IF k < size + 1 THEN stored[k] ELSE NUL) = stored[k]
    BY <1>1, <1>5, Places
  <2>. QED
    BY <1>4, <1>6, <2>1 DEF Strncpy
<1>. HIDE DEF row, empty
<1>8. /\ empty \in [Cells -> Chars] /\ \A k \in Cells : empty[k] = NUL
      /\ 0 \in 0 .. WORD - 1
  BY Places DEF empty
<1>. USE DEF readVars
<1>9. /\ key_line_buffer'[t] = empty /\ key_read_buffer'[t] = stored
      /\ cur_buffer_position'[t] = 0 /\ cur_buffer_size'[t] = 0 /\ unread'[t] = TRUE
      /\ seen'[t] = IF pc[t] \in {"copy", "store"} THEN seen[t] \cup {stored} ELSE seen[t]
  BY <1>1, <1>3, <1>7 DEF TerminalInv, TypeOK
<1>10. TypeOK'
  <2>1. key_line_buffer' \in [Terminals -> [Cells -> Chars]]
    BY <1>1, <1>3, <1>8 DEF TerminalInv, TypeOK
  <2>2. key_read_buffer' \in [Terminals -> [Cells -> Chars]]
    BY <1>1, <1>3, <1>4, <1>7 DEF TerminalInv, TypeOK
  <2>3. cur_buffer_position' \in [Terminals -> 0 .. WORD - 1]
    BY <1>1, <1>3, <1>8 DEF TerminalInv, TypeOK
  <2>4. cur_buffer_size' \in [Terminals -> 0 .. WORD - 1]
    BY <1>1, <1>3, <1>8 DEF TerminalInv, TypeOK
  <2>5. unread' \in [Terminals -> BOOLEAN] /\ keyboard_read' \in BOOLEAN
    BY <1>1, <1>3 DEF TerminalInv, TypeOK
  <2>6. seen' \in [Terminals -> SUBSET [Cells -> Chars]]
    <3>1. seen \in [Terminals -> SUBSET [Cells -> Chars]] /\ key_read_buffer'[t] \in [Cells -> Chars]
      BY <1>4, <1>9 DEF TerminalInv, TypeOK
    <3>. QED
      BY <1>1, <1>3, <3>1
  <2>. QED
    BY <1>3, <2>1, <2>2, <2>3, <2>4, <2>5, <2>6 DEF TerminalInv, TypeOK
<1>11. ALine(stored, t)
  BY <1>1, <1>5 DEF ALine
<1>12. ASSUME NEW u \in Terminals PROVE TerminalOK(u)'
  <2>1. TerminalOK(u)
    BY DEF TerminalInv
  <2>2. CASE u # t
    BY <1>3, <2>1, <2>2, Untouched DEF TerminalInv, TypeOK
  <2>3. CASE u = t
    <3>1. LineOK(u)'
      BY <1>8, <1>9, <2>3, Places DEF LineOK
    <3>2. SeenOK(u)'
      <4>1. \A k \in Cells : stored[k] \in Letters[t] \cup {NewLine, NUL}
        BY <1>1, <1>5, Places
      <4>. QED
        BY <1>9, <2>1, <2>3, <4>1 DEF TerminalOK, SeenOK
    <3>3. ReadBufferOK(u)'
      BY <1>9, <1>11, <2>3 DEF ReadBufferOK, ALine
    <3>4. OwnText(received[u], u)'
      BY <1>3, <2>1 DEF TerminalOK, OwnText
    <3>5. ASSUME pc[t] \in {"copy", "store"} PROVE PhaseOK(u)'
      <4>1. CopyOK(t) /\ seen'[t] = seen[t] \cup {stored}
        BY <1>9, <2>1, <2>3, <3>5 DEF TerminalOK, PhaseOK
      <4>2. \A r : seen'[t] = {r} => seen[t] = {r} /\ r \in seen[t]
        BY <4>1 DEF CopyOK
      <4>3. /\ pc' = pc /\ i' = i /\ nbytes' = nbytes /\ buf' = buf
            /\ key_read_buffer'[t] = stored
        BY <1>3, <1>9
      <4>. HIDE <1>3, <1>9
      <4>4. CopyOK(u)'
        BY <2>3, <4>1, <4>2, <4>3 DEF CopyOK
      <4>5. pc'[u] \in {"copy", "store"}
        BY <2>3, <3>5, <4>3
      <4>. QED
        BY <4>4, <4>5 DEF PhaseOK
    <3>6. ASSUME pc[t] \notin {"copy", "store"} PROVE PhaseOK(u)'
      <4>1. /\ seen'[u] = seen[u] /\ pc' = pc /\ i' = i /\ nbytes' = nbytes /\ buf' = buf
            /\ pc[u] \notin {"copy", "store", "clear", "size"} /\ PhaseOK(u)
        BY <1>1, <1>3, <1>9, <2>3, <3>6 DEF TerminalOK
      <4>2. GivesTheLine(u, buf[u]) => GivesTheLine(u, buf[u])'
        BY <4>1 DEF GivesTheLine
      <4>. HIDE <1>3, <1>9
      <4>. QED
        BY <4>1, <4>2 DEF PhaseOK
    <3>. QED
      BY <3>1, <3>2, <3>3, <3>4, <3>5, <3>6 DEF TerminalOK
  <2>. QED
    BY <2>2, <2>3
<1>13. Contents(empty) = <<>>
  <2>1. StringLength(empty) = 0
    BY <1>8, Places, LineLength
  <2>2. Contents(empty) = Copied(empty, 0)
    BY <2>1 DEF Contents, Copied
  <2>. QED
    BY <1>8, <2>2, Places, CopiedIs
<1>14. Contents(stored) = Append(Contents(old), NewLine)
  <2>1. StringLength(old) = size
    BY <1>1, Places, LineLength
  <2>2. Contents(stored) = Copied(stored, size + 1) /\ Contents(old) = Copied(old, size)
    BY <1>6, <2>1 DEF Contents, Copied
  <2>3. size \in 0 .. LINE_BUFFER
    BY <1>1, Places
  <2>4. Append(Copied(stored, size), stored[size]) = Copied(stored, size + 1)
    BY <1>2, <1>4, <2>3, CopiedIs
  <2>5. Copied(stored, size) = Copied(old, size)
    <3>1. \A k \in 1 .. size : stored[k - 1] = old[k - 1]
      BY <1>1, <1>5, Places
    <3>. QED
      BY <3>1 DEF Copied
  <2>6. stored[size] = NewLine
    BY <1>2, <1>5
  <2>. QED
    BY <2>2, <2>4, <2>5, <2>6
<1>15. /\ Contents(key_line_buffer[t])' = Contents(empty)
       /\ Contents(key_read_buffer[t])' = Contents(stored)
  BY <1>9 DEF Contents, StringLength
<1>. QED
  BY <1>10, <1>12, <1>13, <1>14, <1>15 DEF TerminalInv, old

(* Alt, and Alt+Fn, at any moment.                                         *)
LEMMA Switched ==
    ASSUME TerminalInv, SwitchKey PROVE TerminalInv'
<1>1. /\ curr_terminal' \in Terminals /\ alt_pressed' \in BOOLEAN
      /\ UNCHANGED <<key_line_buffer, cur_buffer_position, cur_buffer_size,
                     key_read_buffer, keyboard_read, readVars, history>>
  BY DEF SwitchKey, AltKey, Switch, keyVars, TerminalInv, TypeOK
<1>2. TypeOK'
  BY <1>1 DEF TerminalInv, TypeOK, readVars, history
<1>3. ASSUME NEW u \in Terminals PROVE TerminalOK(u)'
  BY <1>1, Untouched DEF TerminalInv, readVars, history
<1>. QED
  BY <1>2, <1>3 DEF TerminalInv

LEMMA LineKeyStep ==
    ASSUME TerminalInv, ~ClearsItsLine, EditKey \/ Enter(curr_terminal) PROVE TerminalInv'
BY TypedLetter, Erased, Entered DEF EditKey
-----------------------------------------------------------------------------
(* The steps of terminal_read, which are of the terminal on the screen.    *)
LEMMA ReaderStep ==
    ASSUME TerminalInv, NEW t, t = curr_terminal, UNCHANGED curr_terminal,
           TypeOK', TerminalOK(t)',
           \A u \in Terminals : u # t =>
             /\ key_line_buffer'[u] = key_line_buffer[u]
             /\ key_read_buffer'[u] = key_read_buffer[u]
             /\ cur_buffer_position'[u] = cur_buffer_position[u]
             /\ cur_buffer_size'[u] = cur_buffer_size[u]
             /\ pc'[u] = pc[u] /\ i'[u] = i[u] /\ nbytes'[u] = nbytes[u] /\ buf'[u] = buf[u]
             /\ received'[u] = received[u] /\ unread'[u] = unread[u]
             /\ seen'[u] = seen[u]
    PROVE  TerminalInv'
<1>1. \A u \in Terminals : TerminalOK(u)'
  <2>. TAKE u \in Terminals
  <2>1. CASE u = t
    BY <2>1
  <2>2. CASE u # t
    BY <2>2, Untouched DEF TerminalInv
  <2>. QED
    BY <2>1, <2>2
<1>. QED
  BY <1>1 DEF TerminalInv

(* What holds of the terminal on the screen.                               *)
LEMMA Reader ==
    ASSUME TerminalInv, NEW t, t = curr_terminal
    PROVE  /\ t \in Terminals /\ TypeOK
           /\ LineOK(t) /\ ReadBufferOK(t) /\ OwnText(received[t], t) /\ SeenOK(t) /\ PhaseOK(t)
           /\ key_line_buffer[t] \in [Cells -> Chars] /\ key_read_buffer[t] \in [Cells -> Chars]
           /\ cur_buffer_position[t] \in Nat /\ cur_buffer_size[t] \in Nat
           /\ i[t] \in 0 .. LINE_BUFFER /\ nbytes[t] \in Nat
<1>1. t \in Terminals /\ TypeOK
  BY DEF TerminalInv, TypeOK
<1>2. LineOK(t) /\ ReadBufferOK(t) /\ OwnText(received[t], t) /\ SeenOK(t) /\ PhaseOK(t)
  BY <1>1 DEF TerminalInv, TerminalOK
<1>3. key_line_buffer[t] \in [Cells -> Chars] /\ key_read_buffer[t] \in [Cells -> Chars]
  BY <1>1 DEF TypeOK
<1>4. cur_buffer_position[t] \in Nat /\ cur_buffer_size[t] \in Nat
  BY <1>1, Places DEF TypeOK
<1>5. i[t] \in 0 .. LINE_BUFFER /\ nbytes[t] \in Nat
  <2>1. nbytes[t] \in {0} \cup ReadSizes /\ i[t] \in 0 .. LINE_BUFFER
    BY <1>1 DEF TypeOK
  <2>2. {0} \cup ReadSizes \subseteq Nat
    BY SizesAssumption
  <2>3. nbytes[t] \in Nat
    BY <2>1, <2>2
  <2>. QED
    BY <2>1, <2>3
<1>. QED
  BY <1>1, <1>2, <1>3, <1>4, <1>5

LEMMA CallStep ==
    ASSUME TerminalInv, NEW t, t = curr_terminal, NEW n \in ReadSizes, CallRead(t, n)
    PROVE  TerminalInv'
<1>. USE DEF keyVars, history
<1>1. /\ pc[t] = "user" /\ pc' = [pc EXCEPT ![t] = "spin"]
      /\ nbytes' = [nbytes EXCEPT ![t] = n]
      /\ UNCHANGED <<curr_terminal, keyVars, keyboard_read, i, buf, received, history>>
  BY DEF CallRead, Goto
<1>2. TypeOK'
  <2>1. pc' \in [Terminals -> ReadPlaces] /\ nbytes' \in [Terminals -> {0} \cup ReadSizes]
    BY <1>1, Reader DEF TypeOK, ReadPlaces
  <2>. QED
    BY <1>1, <2>1, Reader DEF TypeOK
<1>3. pc'[t] = "spin"
  BY <1>1, Reader DEF TypeOK
<1>4. TerminalOK(t)'
  <2>1. LineOK(t)'
    BY <1>1, <1>3, Reader DEF LineOK
  <2>2. ReadBufferOK(t)' /\ OwnText(received[t], t)' /\ SeenOK(t)'
    BY <1>1, Reader DEF ReadBufferOK, ALine, OwnText, SeenOK, history
  <2>3. PhaseOK(t)'
    BY <1>1, <1>3, Reader DEF PhaseOK
  <2>. QED
    BY <2>1, <2>2, <2>3 DEF TerminalOK
<1>. QED
  BY <1>1, <1>2, <1>4, ReaderStep, Reader DEF TypeOK

LEMMA AtOnceStep ==
    ASSUME TerminalInv, NEW t, t = curr_terminal, NEW n \in ReadSizes, ReadAtOnce(t, n)
    PROVE  TerminalInv'
<1>. DEFINE text == Prefix(key_read_buffer[t], n)
            empty == [k \in Cells |-> NUL]
<1>1. /\ pc[t] = "user"
      /\ received' = [received EXCEPT ![t] = text]
      /\ key_line_buffer' = [key_line_buffer EXCEPT ![t] = empty]
      /\ cur_buffer_position' = [cur_buffer_position EXCEPT ![t] = 0]
      /\ cur_buffer_size' = [cur_buffer_size EXCEPT ![t] = 0]
      /\ keyboard_read' = FALSE
      /\ unread' = [unread EXCEPT ![t] = FALSE]
      /\ UNCHANGED <<curr_terminal, alt_pressed, key_read_buffer, pc, i, nbytes, buf, seen>>
  BY DEF ReadAtOnce, ClearBuffer, FlagTaken
<1>2. text \in Seq(Chars) /\ OwnText(text, t) /\ n \in Nat
  BY Reader, PrefixIsOwnText, SizesAssumption
<1>3. empty \in [Cells -> Chars] /\ (\A k \in Cells : empty[k] = NUL) /\ 0 \in 0 .. WORD - 1
  BY Places
<1>. HIDE DEF text, empty
<1>4. TypeOK'
  <2>1. key_line_buffer' \in [Terminals -> [Cells -> Chars]]
    BY <1>1, <1>3, Reader DEF TypeOK
  <2>2. /\ cur_buffer_position' \in [Terminals -> 0 .. WORD - 1]
        /\ cur_buffer_size' \in [Terminals -> 0 .. WORD - 1]
    BY <1>1, <1>3, Reader DEF TypeOK
  <2>3. received' \in [Terminals -> Seq(Chars)]
    BY <1>1, <1>2, Reader DEF TypeOK
  <2>4. unread' \in [Terminals -> BOOLEAN] /\ keyboard_read' \in BOOLEAN
    BY <1>1, Reader DEF TypeOK
  <2>. QED
    BY <1>1, <2>1, <2>2, <2>3, <2>4, Reader DEF TypeOK
<1>5. /\ received'[t] = text /\ key_line_buffer'[t] = empty
      /\ cur_buffer_position'[t] = 0 /\ cur_buffer_size'[t] = 0 /\ unread'[t] = FALSE
  BY <1>1, Reader DEF TypeOK
<1>6. TerminalOK(t)'
  <2>1. LineOK(t)'
    BY <1>3, <1>5, Places DEF LineOK
  <2>2. ReadBufferOK(t)'
    BY <1>1, <1>5, Reader DEF ReadBufferOK, ALine
  <2>3. OwnText(received[t], t)' /\ SeenOK(t)'
    BY <1>1, <1>2, <1>5, Reader DEF OwnText, SeenOK
  <2>4. PhaseOK(t)'
    BY <1>1, Reader DEF PhaseOK
  <2>. QED
    BY <2>1, <2>2, <2>3, <2>4 DEF TerminalOK
<1>. QED
  BY <1>1, <1>4, <1>6, ReaderStep, Reader DEF TypeOK

LEMMA LeaveStep ==
    ASSUME TerminalInv, NEW t, t = curr_terminal, LeaveSpin(t) PROVE TerminalInv'
<1>. USE DEF keyVars
<1>. DEFINE row == key_read_buffer[t]
<1>1. /\ pc[t] = "spin" /\ pc' = [pc EXCEPT ![t] = "copy"]
      /\ seen' = [seen EXCEPT ![t] = {row}]
      /\ UNCHANGED <<curr_terminal, keyVars, keyboard_read, i, nbytes, buf, received, unread>>
  BY DEF LeaveSpin, Goto
<1>2. TypeOK'
  <2>1. pc' \in [Terminals -> ReadPlaces] /\ seen' \in [Terminals -> SUBSET [Cells -> Chars]]
    BY <1>1, Reader DEF TypeOK, ReadPlaces
  <2>. QED
    BY <1>1, <2>1, Reader DEF TypeOK
<1>3. pc'[t] = "copy" /\ seen'[t] = {row}
  BY <1>1, Reader DEF TypeOK
<1>4. TerminalOK(t)'
  <2>1. LineOK(t)'
    BY <1>1, <1>3, Reader DEF LineOK
  <2>2. ReadBufferOK(t)' /\ OwnText(received[t], t)'
    BY <1>1, Reader DEF ReadBufferOK, ALine, OwnText
  <2>3. SeenOK(t)'
    <3>1. \A k \in Cells : row[k] \in Letters[t] \cup {NewLine, NUL}
      BY Reader, Places DEF ReadBufferOK, ALine
    <3>. QED
      BY <1>3, <3>1 DEF SeenOK
  <2>4. CopyOK(t)'
    <3>1. i[t] = 0 /\ buf[t] = <<>> /\ Len(buf[t]) = 0 /\ nbytes[t] \in Nat
      BY <1>1, Reader DEF PhaseOK
    <3>2. StringLength(row) \in Nat
      BY StringLengthIs, Places
    <3>3. Copied(row, 0) = <<>>
      <4>1. row \in [Cells -> Chars] /\ 0 \in 0 .. LINE_BUFFER
        BY Reader, Places
      <4>. QED
        BY <4>1, CopiedIs
    <3>. QED
      BY <1>1, <1>3, <3>1, <3>2, <3>3, Places DEF CopyOK
  <2>5. PhaseOK(t)'
    BY <1>3, <2>4 DEF PhaseOK
  <2>. QED
    BY <2>1, <2>2, <2>3, <2>5 DEF TerminalOK
<1>. QED
  BY <1>1, <1>2, <1>4, ReaderStep, Reader DEF TypeOK

(* The test of a byte: a NUL is in the last cell of every read buffer.     *)
LEMMA FindStep ==
    ASSUME TerminalInv, NEW t, t = curr_terminal, FindByte(t) PROVE TerminalInv'
<1>. USE DEF keyVars, history
<1>. DEFINE row == key_read_buffer[t]
            n == i[t]
<1>1. /\ pc[t] = "copy" /\ pc' = [pc EXCEPT ![t] = "store"]
      /\ n < nbytes[t] /\ n \in Cells /\ row[n] # NUL
      /\ UNCHANGED <<curr_terminal, keyVars, keyboard_read, i, nbytes, buf, received, history>>
  BY DEF FindByte, MoreToCopy, Goto
<1>2. pc'[t] = "store" /\ CopyOK(t)
  BY <1>1, Reader DEF TypeOK, PhaseOK
<1>3. n + 1 < LINE_BUFFER
  <2>1. LINE_BUFFER - 1 \in Cells /\ row[LINE_BUFFER - 1] = NUL
    BY Reader, Places DEF ReadBufferOK, ALine
  <2>2. n # LINE_BUFFER - 1
    BY <1>1, <2>1
  <2>. HIDE DEF n
  <2>. QED
    BY <1>1, <2>2, Places
<1>4. \A r \in seen[t] : seen[t] = {r} => r[n] # NUL
  BY <1>1, <1>2 DEF CopyOK
<1>5. TypeOK'
  <2>1. pc' \in [Terminals -> ReadPlaces]
    BY <1>1, Reader DEF TypeOK, ReadPlaces
  <2>. QED
    BY <1>1, <2>1, Reader DEF TypeOK
<1>6. TerminalOK(t)'
  <2>1. LineOK(t)'
    BY <1>1, <1>2, Reader DEF LineOK
  <2>2. ReadBufferOK(t)' /\ OwnText(received[t], t)' /\ SeenOK(t)'
    BY <1>1, Reader DEF ReadBufferOK, ALine, OwnText, SeenOK
  <2>3. CopyOK(t)'
    BY <1>1, <1>2, <1>3, <1>4 DEF CopyOK
  <2>4. PhaseOK(t)'
    BY <1>2, <2>3 DEF PhaseOK
  <2>. QED
    BY <2>1, <2>2, <2>4 DEF TerminalOK
<1>. QED
  BY <1>1, <1>5, <1>6, ReaderStep, Reader DEF TypeOK

(* The copy of the byte, of the line that is in the buffer now.            *)
LEMMA CopyStep ==
    ASSUME TerminalInv, NEW t, t = curr_terminal, CopyByte(t) PROVE TerminalInv'
<1>. USE DEF keyVars, history
<1>. DEFINE row == key_read_buffer[t]
            n == i[t]
            text == Append(buf[t], row[n])
<1>1. /\ pc[t] = "store" /\ pc' = [pc EXCEPT ![t] = "copy"]
      /\ buf' = [buf EXCEPT ![t] = text]
      /\ i' = [i EXCEPT ![t] = n + 1]
      /\ UNCHANGED <<curr_terminal, keyVars, keyboard_read, nbytes, received, history>>
  BY DEF CopyByte, Goto
<1>2. /\ row \in [Cells -> Chars] /\ n \in 0 .. LINE_BUFFER /\ nbytes[t] \in Nat
      /\ CopyOK(t) /\ buf[t] \in Seq(Chars) /\ seen[t] \in SUBSET [Cells -> Chars]
  BY <1>1, Reader DEF PhaseOK, TypeOK
<1>3. /\ n \in Cells /\ n + 1 \in 0 .. LINE_BUFFER /\ n + 1 <= nbytes[t] /\ n + 1 < LINE_BUFFER
      /\ Len(buf[t]) = n /\ row \in seen[t]
  BY <1>1, <1>2, Places DEF CopyOK
<1>4. /\ text \in Seq(Chars) /\ Len(text) = n + 1
      /\ \A k \in 1 .. n : text[k] = buf[t][k]
      /\ text[n + 1] = row[n]
  BY <1>2, <1>3
<1>5. \A k \in 1 .. n + 1 : \E r \in seen[t] : text[k] = r[k - 1]
  <2>. TAKE k \in 1 .. n + 1
  <2>1. CASE k = n + 1
    <3>1. text[k] = row[k - 1]
      BY <1>3, <1>4, <2>1
    <3>. QED
      BY <1>3, <3>1
  <2>2. CASE k # n + 1
    <3>1. k \in 1 .. n /\ text[k] = buf[t][k]
      BY <1>2, <1>4, <2>2
    <3>2. \A x \in 1 .. n : \E r \in seen[t] : buf[t][x] = r[x - 1]
      BY <1>2 DEF CopyOK
    <3>. QED
      BY <3>1, <3>2
  <2>. QED
    BY <2>1, <2>2
<1>6. ASSUME NEW r \in seen[t], seen[t] = {r}
      PROVE  n + 1 <= StringLength(r) /\ text = Copied(r, n + 1)
  <2>1. r = row /\ row[n] # NUL /\ n <= StringLength(row) /\ buf[t] = Copied(row, n)
    BY <1>1, <1>2, <1>3, <1>6 DEF CopyOK
  <2>2. n + 1 <= StringLength(row)
    <3>1. StringLength(row) \in 0 .. LINE_BUFFER
          /\ (StringLength(row) \in Cells => row[StringLength(row)] = NUL)
      BY StringLengthIs
    <3>2. StringLength(row) # n
      BY <1>3, <2>1, <3>1
    <3>. HIDE DEF n, row
    <3>. QED
      BY <1>2, <1>3, <2>1, <3>1, <3>2, Places
  <2>3. text = Copied(row, n + 1)
    BY <1>2, <1>3, <2>1, CopiedIs
  <2>. QED
    BY <2>1, <2>2, <2>3
<1>. HIDE DEF text
<1>7. buf'[t] = text /\ i'[t] = n + 1 /\ pc'[t] = "copy"
  BY <1>1, Reader DEF TypeOK
<1>8. TypeOK'
  <2>1. /\ buf' \in [Terminals -> Seq(Chars)] /\ i' \in [Terminals -> 0 .. LINE_BUFFER]
        /\ pc' \in [Terminals -> ReadPlaces]
    BY <1>1, <1>3, <1>4, Reader DEF TypeOK, ReadPlaces
  <2>. QED
    BY <1>1, <2>1, Reader DEF TypeOK
<1>9. TerminalOK(t)'
  <2>1. LineOK(t)'
    BY <1>1, <1>7, Reader DEF LineOK
  <2>2. ReadBufferOK(t)' /\ OwnText(received[t], t)' /\ SeenOK(t)'
    BY <1>1, Reader DEF ReadBufferOK, ALine, OwnText, SeenOK
  <2>3. CopyOK(t)'
    BY <1>1, <1>3, <1>4, <1>5, <1>6, <1>7 DEF CopyOK
  <2>4. PhaseOK(t)'
    BY <1>7, <2>3 DEF PhaseOK
  <2>. QED
    BY <2>1, <2>2, <2>4 DEF TerminalOK
<1>. QED
  BY <1>1, <1>8, <1>9, ReaderStep, Reader DEF TypeOK

(* The loop ends at a NUL or the number of bytes asked for: what it has    *)
(* copied is the prefix, if it has found one line.                         *)
LEMMA CopiedStep ==
    ASSUME TerminalInv, NEW t, t = curr_terminal, CopyDone(t) PROVE TerminalInv'
<1>. USE DEF keyVars, history
<1>. DEFINE row == key_read_buffer[t]
            n == i[t]
            L == StringLength(row)
<1>1. /\ pc[t] = "copy" /\ pc' = [pc EXCEPT ![t] = "clear"]
      /\ ~ (n < nbytes[t] /\ n \in Cells /\ row[n] # NUL)
      /\ i' = [i EXCEPT ![t] = 0]
      /\ UNCHANGED <<curr_terminal, keyVars, keyboard_read, nbytes, buf, received, history>>
  BY DEF CopyDone, MoreToCopy, Goto
<1>2. /\ row \in [Cells -> Chars] /\ n \in 0 .. LINE_BUFFER /\ nbytes[t] \in Nat
      /\ CopyOK(t)
  BY <1>1, Reader DEF PhaseOK
<1>3. n <= nbytes[t] /\ n \in Cells /\ Len(buf[t]) = n /\ row \in seen[t]
  BY <1>2, Places DEF CopyOK
<1>4. n = nbytes[t] \/ row[n] = NUL
  BY <1>1, <1>2, <1>3
<1>5. ASSUME NEW r \in seen[t], seen[t] = {r} PROVE buf[t] = Prefix(r, nbytes[t])
  <2>1. r = row /\ n <= L /\ buf[t] = Copied(row, n)
    BY <1>2, <1>3, <1>5 DEF CopyOK
  <2>2. L \in 0 .. LINE_BUFFER /\ \A k \in Cells : k < L => row[k] # NUL
    BY StringLengthIs
  <2>3. n = IF nbytes[t] <= L THEN nbytes[t] ELSE L
    <3>. HIDE DEF n, row, L
    <3>. QED
      BY <1>2, <1>3, <1>4, <2>1, <2>2, Places
  <2>. QED
    BY <1>2, <2>1, <2>3, PrefixIs
<1>6. GivesTheLine(t, buf[t])
  <2>1. \A k \in 1 .. n : \E r \in seen[t] : buf[t][k] = r[k - 1]
    BY <1>2 DEF CopyOK
  <2>. QED
    BY <1>3, <1>4, <1>5, <2>1 DEF GivesTheLine
<1>7. pc'[t] = "clear" /\ i'[t] = 0
  BY <1>1, Reader DEF TypeOK
<1>8. TypeOK'
  <2>1. pc' \in [Terminals -> ReadPlaces] /\ i' \in [Terminals -> 0 .. LINE_BUFFER]
    BY <1>1, Reader, Places DEF TypeOK, ReadPlaces
  <2>. QED
    BY <1>1, <2>1, Reader DEF TypeOK
<1>9. TerminalOK(t)'
  <2>1. LineOK(t)'
    BY <1>1, <1>7, Reader DEF LineOK
  <2>2. ReadBufferOK(t)' /\ OwnText(received[t], t)' /\ SeenOK(t)'
    BY <1>1, Reader DEF ReadBufferOK, ALine, OwnText, SeenOK
  <2>3. GivesTheLine(t, buf[t])' /\ (Len(buf[t]) < LINE_BUFFER)'
    BY <1>1, <1>3, <1>6, Places DEF GivesTheLine
  <2>4. PhaseOK(t)'
    BY <1>1, <1>7, <2>3, Places DEF PhaseOK
  <2>. QED
    BY <2>1, <2>2, <2>4 DEF TerminalOK
<1>. QED
  BY <1>1, <1>8, <1>9, ReaderStep, Reader DEF TypeOK
(* clear_buffer: the cells before the index are NUL.                       *)
LEMMA ClearStep ==
    ASSUME TerminalInv, NEW t, t = curr_terminal, ClearCell(t)
    PROVE  TerminalInv' /\ \A k \in Cells : \/ key_line_buffer'[t][k] = key_line_buffer[t][k]
                                            \/ key_line_buffer'[t][k] = NUL
<1>. DEFINE n == i[t]
            row == [key_line_buffer[t] EXCEPT ![n] = NUL]
<1>. USE DEF history
<1>1. /\ pc[t] = "clear" /\ n \in Cells
      /\ key_line_buffer' = [key_line_buffer EXCEPT ![t] = row]
      /\ i' = [i EXCEPT ![t] = n + 1]
      /\ UNCHANGED <<curr_terminal, alt_pressed, cur_buffer_position, cur_buffer_size,
                     key_read_buffer, keyboard_read, pc, nbytes, buf, received, history>>
  BY DEF ClearCell
<1>2. /\ row \in [Cells -> Chars]
      /\ \A k \in Cells : row[k] = IF k = n THEN NUL ELSE key_line_buffer[t][k]
  BY <1>1, Reader, Places
<1>. HIDE DEF row
<1>3. key_line_buffer'[t] = row /\ i'[t] = n + 1
  BY <1>1, Reader DEF TypeOK
<1>4. n \in Nat /\ n + 1 \in 0 .. LINE_BUFFER
  BY <1>1, Places
<1>5. TypeOK'
  <2>1. key_line_buffer' \in [Terminals -> [Cells -> Chars]]
    BY <1>1, <1>2, Reader DEF TypeOK
  <2>2. i' \in [Terminals -> 0 .. LINE_BUFFER]
    BY <1>1, <1>4, Reader DEF TypeOK
  <2>. QED
    BY <1>1, <2>1, <2>2, Reader DEF TypeOK
<1>6. TerminalOK(t)'
  <2>1. LineOK(t)'
    BY <1>1, <1>2, <1>3, Reader DEF LineOK
  <2>2. ReadBufferOK(t)' /\ OwnText(received[t], t)' /\ SeenOK(t)'
    BY <1>1, Reader DEF ReadBufferOK, ALine, OwnText, SeenOK, history
  <2>3. PhaseOK(t)'
    <3>1. \A k \in Cells : k < n => key_line_buffer[t][k] = NUL
      BY <1>1, Reader DEF PhaseOK
    <3>2. \A k \in Cells : k < n + 1 => row[k] = NUL
      BY <1>2, <1>4, <3>1, Places
    <3>3. GivesTheLine(t, buf[t])' /\ (Len(buf[t]) < LINE_BUFFER)'
      BY <1>1, Reader DEF PhaseOK, GivesTheLine, history
    <3>. QED
      BY <1>1, <1>3, <3>2, <3>3 DEF PhaseOK
  <2>. QED
    BY <2>1, <2>2, <2>3 DEF TerminalOK
<1>7. TerminalInv'
  BY <1>1, <1>5, <1>6, ReaderStep, Reader DEF TypeOK
<1>. QED
  BY <1>2, <1>3, <1>7

LEMMA PositionStep ==
    ASSUME TerminalInv, NEW t, t = curr_terminal, ClearPosition(t) PROVE TerminalInv'
<1>. USE DEF history
<1>1. /\ pc[t] = "clear" /\ pc' = [pc EXCEPT ![t] = "size"] /\ i[t] \notin Cells
      /\ cur_buffer_position' = [cur_buffer_position EXCEPT ![t] = 0]
      /\ i' = [i EXCEPT ![t] = 0]
      /\ UNCHANGED <<curr_terminal, alt_pressed, key_line_buffer, cur_buffer_size,
                     key_read_buffer, keyboard_read, nbytes, buf, received, history>>
  BY DEF ClearPosition, Goto
<1>2. pc'[t] = "size" /\ i'[t] = 0 /\ cur_buffer_position'[t] = 0
  BY <1>1, Reader DEF TypeOK
<1>3. \A k \in Cells : key_line_buffer[t][k] = NUL
  <2>1. i[t] = LINE_BUFFER
    BY <1>1, Reader, Places
  <2>. QED
    BY <1>1, <2>1, Reader, Places DEF PhaseOK
<1>4. TypeOK'
  <2>1. 0 \in 0 .. WORD - 1 /\ 0 \in 0 .. LINE_BUFFER
    BY Places
  <2>2. /\ pc' \in [Terminals -> ReadPlaces] /\ i' \in [Terminals -> 0 .. LINE_BUFFER]
        /\ cur_buffer_position' \in [Terminals -> 0 .. WORD - 1]
    BY <1>1, <2>1, Reader DEF TypeOK, ReadPlaces
  <2>. QED
    BY <1>1, <2>2, Reader DEF TypeOK
<1>5. TerminalOK(t)'
  <2>1. LineOK(t)'
    BY <1>1, <1>2, <1>3, Reader DEF LineOK
  <2>2. ReadBufferOK(t)' /\ OwnText(received[t], t)' /\ SeenOK(t)'
    BY <1>1, Reader DEF ReadBufferOK, ALine, OwnText, SeenOK, history
  <2>3. PhaseOK(t)'
    <3>1. GivesTheLine(t, buf[t])' /\ (Len(buf[t]) < LINE_BUFFER)'
      BY <1>1, Reader DEF PhaseOK, GivesTheLine, history
    <3>. QED
      BY <1>1, <1>2, <1>3, <3>1, Reader DEF PhaseOK
  <2>. QED
    BY <2>1, <2>2, <2>3 DEF TerminalOK
<1>. QED
  BY <1>1, <1>4, <1>5, ReaderStep, Reader DEF TypeOK

LEMMA SizeStep ==
    ASSUME TerminalInv, NEW t, t = curr_terminal, ClearSize(t) PROVE TerminalInv'
<1>. USE DEF history
<1>1. /\ pc[t] = "size" /\ pc' = [pc EXCEPT ![t] = "return"]
      /\ cur_buffer_size' = [cur_buffer_size EXCEPT ![t] = 0]
      /\ UNCHANGED <<curr_terminal, alt_pressed, key_line_buffer, cur_buffer_position,
                     key_read_buffer, keyboard_read, i, nbytes, buf, received, history>>
  BY DEF ClearSize, Goto
<1>2. pc'[t] = "return" /\ cur_buffer_size'[t] = 0
  BY <1>1, Reader DEF TypeOK
<1>3. (\A k \in Cells : key_line_buffer[t][k] = NUL) /\ cur_buffer_position[t] = 0
  BY <1>1, Reader DEF PhaseOK
<1>4. TypeOK'
  <2>1. /\ pc' \in [Terminals -> ReadPlaces]
        /\ cur_buffer_size' \in [Terminals -> 0 .. WORD - 1]
    BY <1>1, Reader, Places DEF TypeOK, ReadPlaces
  <2>. QED
    BY <1>1, <2>1, Reader DEF TypeOK
<1>5. TerminalOK(t)'
  <2>1. LineOK(t)'
    BY <1>1, <1>2, <1>3, Places DEF LineOK
  <2>2. ReadBufferOK(t)' /\ OwnText(received[t], t)' /\ SeenOK(t)'
    BY <1>1, Reader DEF ReadBufferOK, ALine, OwnText, SeenOK, history
  <2>3. PhaseOK(t)'
    <3>1. GivesTheLine(t, buf[t])' /\ (Len(buf[t]) < LINE_BUFFER)'
      BY <1>1, Reader DEF PhaseOK, GivesTheLine, history
    <3>. QED
      BY <1>1, <1>2, <1>3, <3>1, Reader DEF PhaseOK
  <2>. QED
    BY <2>1, <2>2, <2>3 DEF TerminalOK
<1>. QED
  BY <1>1, <1>4, <1>5, ReaderStep, Reader DEF TypeOK

LEMMA ReturnStep ==
    ASSUME TerminalInv, NEW t, t = curr_terminal, ReadReturn(t) PROVE TerminalInv'
<1>. USE DEF keyVars
<1>1. /\ pc[t] = "return" /\ pc' = [pc EXCEPT ![t] = "user"]
      /\ keyboard_read' = FALSE
      /\ received' = [received EXCEPT ![t] = buf[t]]
      /\ buf' = [buf EXCEPT ![t] = <<>>]
      /\ nbytes' = [nbytes EXCEPT ![t] = 0]
      /\ unread' = [unread EXCEPT ![t] = FALSE]
      /\ seen' = [seen EXCEPT ![t] = {}]
      /\ UNCHANGED <<curr_terminal, keyVars, i>>
  BY DEF ReadReturn, Goto, FlagTaken
<1>2. /\ pc'[t] = "user" /\ received'[t] = buf[t] /\ buf'[t] = <<>> /\ unread'[t] = FALSE
      /\ seen'[t] = {}
  BY <1>1, Reader DEF TypeOK
<1>3. i[t] = 0 /\ buf[t] \in Seq(Chars)
  BY <1>1, Reader DEF PhaseOK, TypeOK
<1>4. OwnText(buf[t], t)
  <2>1. /\ Len(buf[t]) \in Nat /\ Len(buf[t]) < LINE_BUFFER
        /\ \A k \in 1 .. Len(buf[t]) : \E row \in seen[t] : buf[t][k] = row[k - 1]
    BY <1>1, <1>3, Reader, Places DEF PhaseOK, GivesTheLine
  <2>2. ASSUME NEW k \in 1 .. Len(buf[t]) PROVE buf[t][k] \in Letters[t] \cup {NewLine, NUL}
    <3>1. PICK row \in seen[t] : buf[t][k] = row[k - 1]
      BY <2>1
    <3>2. k - 1 \in Cells
      BY <2>1, Places
    <3>. QED
      BY <3>1, <3>2, Reader DEF SeenOK
  <2>. QED
    BY <2>2 DEF OwnText
<1>5. TypeOK'
  <2>1. pc' \in [Terminals -> ReadPlaces] /\ nbytes' \in [Terminals -> {0} \cup ReadSizes]
    BY <1>1, Reader DEF TypeOK, ReadPlaces
  <2>2. received' \in [Terminals -> Seq(Chars)] /\ buf' \in [Terminals -> Seq(Chars)]
    BY <1>1, <1>3, Reader DEF TypeOK
  <2>3. /\ unread' \in [Terminals -> BOOLEAN] /\ keyboard_read' \in BOOLEAN
        /\ seen' \in [Terminals -> SUBSET [Cells -> Chars]]
    BY <1>1, Reader DEF TypeOK
  <2>. QED
    BY <1>1, <2>1, <2>2, <2>3, Reader DEF TypeOK
<1>6. TerminalOK(t)'
  <2>1. LineOK(t)'
    BY <1>1, <1>2, Reader DEF LineOK
  <2>2. ReadBufferOK(t)'
    BY <1>1, <1>2, Reader DEF ReadBufferOK, ALine
  <2>3. OwnText(received[t], t)' /\ SeenOK(t)'
    BY <1>2, <1>4 DEF OwnText, SeenOK
  <2>4. PhaseOK(t)'
    BY <1>1, <1>2, <1>3 DEF PhaseOK
  <2>. QED
    BY <2>1, <2>2, <2>3, <2>4 DEF TerminalOK
<1>. QED
  BY <1>1, <1>5, <1>6, ReaderStep, Reader DEF TypeOK

LEMMA ProgramStep == ASSUME TerminalInv, Program PROVE TerminalInv'
BY CallStep, AtOnceStep, LeaveStep, FindStep, CopyStep, CopiedStep, ClearStep, PositionStep, SizeStep,
   ReturnStep DEF Program, ReadStep

-----------------------------------------------------------------------------
LEMMA InitTerminalInv == Init => TerminalInv
<1>. SUFFICES ASSUME Init PROVE TerminalInv
  OBVIOUS
<1>1. \A t \in Terminals :
        /\ pc[t] = "user" /\ i[t] = 0 /\ buf[t] = <<>> /\ received[t] = <<>>
        /\ cur_buffer_position[t] = 0 /\ cur_buffer_size[t] = 0
        /\ unread[t] = FALSE /\ seen[t] = {}
        /\ key_line_buffer[t] = [k \in Cells |-> NUL]
        /\ key_read_buffer[t] = [k \in Cells |-> NUL]
  BY DEF Init
<1>2. TypeOK
  <2>1. /\ curr_terminal \in Terminals /\ alt_pressed \in BOOLEAN /\ keyboard_read \in BOOLEAN
        /\ unread \in [Terminals -> BOOLEAN]
        /\ seen \in [Terminals -> SUBSET [Cells -> Chars]]
    BY Places DEF Init
  <2>2. /\ key_line_buffer \in [Terminals -> [Cells -> Chars]]
        /\ key_read_buffer \in [Terminals -> [Cells -> Chars]]
    BY Places DEF Init
  <2>3. 0 \in 0 .. WORD - 1 /\ 0 \in 0 .. LINE_BUFFER
    BY Places
  <2>4. /\ cur_buffer_position \in [Terminals -> 0 .. WORD - 1]
        /\ cur_buffer_size \in [Terminals -> 0 .. WORD - 1]
        /\ i \in [Terminals -> 0 .. LINE_BUFFER]
    BY <2>3 DEF Init
  <2>5. pc \in [Terminals -> ReadPlaces] /\ nbytes \in [Terminals -> {0} \cup ReadSizes]
    BY DEF Init, ReadPlaces
  <2>6. buf \in [Terminals -> Seq(Chars)] /\ received \in [Terminals -> Seq(Chars)]
    BY DEF Init
  <2>. QED
    BY <2>1, <2>2, <2>4, <2>5, <2>6 DEF TypeOK
<1>3. ASSUME NEW t \in Terminals PROVE TerminalOK(t)
  BY <1>1, Places DEF TerminalOK, LineOK, ReadBufferOK, OwnText, SeenOK, PhaseOK
<1>. QED
  BY <1>2, <1>3 DEF TerminalInv

LEMMA NextTerminalInv == TerminalInv /\ [UnhurriedNext]_vars => TerminalInv'
<1>. SUFFICES ASSUME TerminalInv, [UnhurriedNext]_vars PROVE TerminalInv'
  OBVIOUS
<1>1. CASE Program
  BY <1>1, ProgramStep
<1>2. CASE SwitchKey
  BY <1>2, Switched
<1>3. CASE ~ClearsItsLine /\ (EditKey \/ Enter(curr_terminal))
  BY <1>3, LineKeyStep
<1>4. CASE UNCHANGED vars
  <2>1. TypeOK'
    BY <1>4 DEF TerminalInv, TypeOK, vars, keyVars, readVars, history
  <2>2. ASSUME NEW u \in Terminals PROVE TerminalOK(u)'
    BY <1>4, Untouched DEF TerminalInv, vars, keyVars, readVars, history
  <2>. QED
    BY <2>1, <2>2 DEF TerminalInv
<1>. QED
  BY <1>1, <1>2, <1>3, <1>4 DEF UnhurriedNext

LEMMA TerminalInvHolds == UnhurriedSpec => []TerminalInv
<1>1. Init => TerminalInv
  BY InitTerminalInv
<1>2. TerminalInv /\ [UnhurriedNext]_vars => TerminalInv'
  BY NextTerminalInv
<1>. QED
  BY <1>1, <1>2, PTL DEF UnhurriedSpec

(* Whatever is typed, erased, entered and read, in any order, on any       *)
(* number of terminals: no line outgrows its buffer, its two counters      *)
(* agree, a read buffer ends in the newline and NUL its loop looks for,    *)
(* and no program is given what was typed on another's terminal.           *)
THEOREM BuffersStaySound == UnhurriedSpec => []BuffersAreSound
<1>1. ASSUME TerminalInv PROVE BuffersAreSound
  <2>1. TypeOK
    BY <1>1 DEF TerminalInv
  <2>2. LineFits
    BY <1>1 DEF TerminalInv, TerminalOK, LineOK, LineFits
  <2>3. LineWellFormed
    BY <1>1 DEF TerminalInv, TerminalOK, LineOK, LineWellFormed
  <2>4. ReadBufferHoldsALine
    BY <1>1 DEF TerminalInv, TerminalOK, ReadBufferOK, ALine, ReadBufferHoldsALine
  <2>5. TerminalsDoNotMix
    BY <1>1 DEF TerminalInv, TerminalOK, OwnText, TerminalsDoNotMix
  <2>. QED
    BY <2>1, <2>2, <2>3, <2>4, <2>5 DEF BuffersAreSound
<1>. QED
  BY <1>1, TerminalInvHolds, PTL

(* Every byte a read gives was at its place in a line that was in the      *)
(* buffer during the copy, whatever is entered and switched meanwhile; the *)
(* text ends at the number of bytes asked for or where such a line ends;   *)
(* and it is the line, cut at that number, if there was only one.          *)
THEOREM ReadsGiveTheLine == UnhurriedSpec => ReadGivesTheLine
<1>1. ASSUME TerminalInv, NEW t \in Terminals, ReadReturn(t)
      PROVE  GivesTheLine(t, received'[t])
  <2>1. received'[t] = buf[t] /\ pc[t] = "return"
    BY <1>1 DEF TerminalInv, TypeOK, ReadReturn, Goto
  <2>2. GivesTheLine(t, buf[t])
    BY <1>1, <2>1 DEF TerminalInv, TerminalOK, PhaseOK
  <2>. QED
    BY <2>1, <2>2
<1>2. TerminalInv /\ [UnhurriedNext]_vars =>
        [\A t \in Terminals : ReadReturn(t) =>
           LET n == Len(received'[t]) IN
           /\ \A k \in 1 .. n : \E row \in seen[t] : received'[t][k] = row[k - 1]
           /\ n = nbytes[t] \/ (n \in Cells /\ \E row \in seen[t] : row[n] = NUL)
           /\ \A row \in seen[t] :
                seen[t] = {row} => received'[t] = Prefix(row, nbytes[t])]_vars
  BY <1>1 DEF GivesTheLine
<1>. QED
  BY <1>2, TerminalInvHolds, PTL DEF UnhurriedSpec, ReadGivesTheLine
-----------------------------------------------------------------------------
(* The patient user.  A line is entered only while its terminal waits for  *)
(* it, so at most one is unread, and the flag says whether there is one.   *)
(* Terminals are left only between reads, and a read finds one line.       *)
PatientOK ==
    /\ \A t \in Terminals : unread[t] = TRUE <=> t = curr_terminal /\ keyboard_read = TRUE
    /\ keyboard_read = TRUE =>
         /\ pc[curr_terminal] # "user"
         /\ cur_buffer_size[curr_terminal] = 0
         /\ \A k \in Cells : key_line_buffer[curr_terminal][k] = NUL
    /\ pc[curr_terminal] \notin {"user", "spin"} =>
         keyboard_read = TRUE /\ seen[curr_terminal] = {key_read_buffer[curr_terminal]}
    /\ \A t \in Terminals : t # curr_terminal => pc[t] \in {"user", "spin"}

PatientInv == TerminalInv /\ PatientOK

(* The values LineDiscipline's variables stand for.                        *)
EditedLines  == [t \in Terminals |-> Contents(key_line_buffer[t])]
EnteredLines == [t \in Terminals |->
                   IF unread[t] THEN Contents(key_read_buffer[t]) ELSE <<>>]

LineVars == <<EditedLines, EnteredLines, received>>

LEMMA PatientIsUnhurried == PatientNext => UnhurriedNext
BY DEF PatientNext, PatientKeyboard, BetweenReads, ClearsItsLine, UnhurriedNext

LEMMA BetweenIsQuiet == BetweenReads => ~ClearsItsLine
BY DEF BetweenReads, ClearsItsLine

(* A step that only edits the line of the terminal on the screen.          *)
LEMMA EditKeepsPatience ==
    ASSUME PatientInv, keyboard_read = FALSE, BetweenReads,
           UNCHANGED <<curr_terminal, keyboard_read, readVars, history>>
    PROVE  PatientOK'
BY DEF PatientInv, PatientOK, BetweenReads, readVars, history

LEMMA TypeRefines ==
    ASSUME PatientInv, keyboard_read = FALSE, BetweenReads, NEW t, t = curr_terminal,
           NEW c \in Letters[t], TypeLetter(t, c)
    PROVE  PatientOK' /\ Lines!Next
<1>1. /\ key_line_buffer' = [key_line_buffer EXCEPT ![t] = key_line_buffer'[t]]
      /\ UNCHANGED <<curr_terminal, key_read_buffer, keyboard_read, readVars, history>>
  <2>1. key_line_buffer \in [Terminals -> [Cells -> Chars]]
    BY DEF PatientInv, TerminalInv, TypeOK
  <2>. QED
    BY <2>1 DEF TypeLetter
<1>2. PatientOK'
  BY <1>1, EditKeepsPatience
<1>3. /\ t \in Terminals
      /\ Contents(key_line_buffer[t])' = Append(Contents(key_line_buffer[t]), c)
      /\ StringLength(key_line_buffer[t]) < LINE_BUFFER - 2
  BY TypedLetter, BetweenIsQuiet, Reader DEF PatientInv
<1>4. EditedLines' = [EditedLines EXCEPT ![t] = Append(EditedLines[t], c)]
  <2>1. \A u \in Terminals : u # t => key_line_buffer'[u] = key_line_buffer[u]
    BY <1>1 DEF PatientInv, TerminalInv, TypeOK
  <2>2. \A u \in Terminals : u # t => Contents(key_line_buffer[u])' = Contents(key_line_buffer[u])
    BY <2>1 DEF Contents, StringLength
  <2>. QED
    BY <1>3, <2>2 DEF EditedLines
<1>5. EnteredLines' = EnteredLines /\ received' = received
  BY <1>1 DEF EnteredLines, readVars, history
<1>6. Len(EditedLines[t]) < LINE_BUFFER - 2
  <2>1. StringLength(key_line_buffer[t]) \in Nat
    BY StringLengthIs, Places
  <2>2. Len(Contents(key_line_buffer[t])) = StringLength(key_line_buffer[t])
    BY <2>1 DEF Contents
  <2>. QED
    BY <1>3, <2>2 DEF EditedLines
<1>7. Lines!Type(t, c)
  BY <1>4, <1>5, <1>6 DEF Lines!Type, EditedLines, EnteredLines
<1>. QED
  BY <1>2, <1>3, <1>7 DEF Lines!Next

LEMMA EraseRefines ==
    ASSUME PatientInv, keyboard_read = FALSE, BetweenReads, NEW t, t = curr_terminal,
           Backspace(t)
    PROVE  PatientOK' /\ Lines!Next
<1>1. /\ key_line_buffer' = [key_line_buffer EXCEPT ![t] = key_line_buffer'[t]]
      /\ UNCHANGED <<curr_terminal, key_read_buffer, keyboard_read, readVars, history>>
  <2>1. key_line_buffer \in [Terminals -> [Cells -> Chars]]
    BY DEF PatientInv, TerminalInv, TypeOK
  <2>. QED
    BY <2>1 DEF Backspace
<1>2. PatientOK'
  BY <1>1, EditKeepsPatience
<1>3. /\ t \in Terminals
      /\ Contents(key_line_buffer[t]) # <<>>
      /\ Contents(key_line_buffer[t])' =
           SubSeq(Contents(key_line_buffer[t]), 1, Len(Contents(key_line_buffer[t])) - 1)
  BY Erased, BetweenIsQuiet, Reader DEF PatientInv
<1>4. EditedLines' = [EditedLines EXCEPT ![t] = SubSeq(@, 1, Len(@) - 1)]
  <2>1. \A u \in Terminals : u # t => key_line_buffer'[u] = key_line_buffer[u]
    BY <1>1 DEF PatientInv, TerminalInv, TypeOK
  <2>2. \A u \in Terminals : u # t => Contents(key_line_buffer[u])' = Contents(key_line_buffer[u])
    BY <2>1 DEF Contents, StringLength
  <2>. QED
    BY <1>3, <2>2 DEF EditedLines
<1>5. EnteredLines' = EnteredLines /\ received' = received
  BY <1>1 DEF EnteredLines, readVars, history
<1>6. EditedLines[t] # <<>>
  BY <1>3 DEF EditedLines
<1>7. Lines!Erase(t)
  BY <1>4, <1>5, <1>6 DEF Lines!Erase, EditedLines, EnteredLines
<1>. QED
  BY <1>2, <1>3, <1>7 DEF Lines!Next

LEMMA EnterRefines ==
    ASSUME PatientInv, keyboard_read = FALSE, NEW t, t = curr_terminal, pc[t] = "spin", Enter(t)
    PROVE  PatientOK' /\ Lines!Next
<1>1. ~ClearsItsLine
  BY DEF ClearsItsLine
<1>2. /\ t \in Terminals
      /\ Contents(key_line_buffer[t])' = <<>>
      /\ Contents(key_read_buffer[t])' = Append(Contents(key_line_buffer[t]), NewLine)
  BY <1>1, Entered, Reader DEF PatientInv
<1>3. \A u \in Terminals : unread[u] = FALSE
  BY DEF PatientInv, PatientOK, TerminalInv, TypeOK
<1>4. /\ key_line_buffer' = [key_line_buffer EXCEPT ![t] = [k \in Cells |-> NUL]]
      /\ cur_buffer_size' = [cur_buffer_size EXCEPT ![t] = 0]
      /\ keyboard_read' = TRUE
      /\ unread' = [unread EXCEPT ![t] = TRUE]
      /\ \A u \in Terminals : u # t => key_read_buffer'[u] = key_read_buffer[u]
      /\ UNCHANGED <<curr_terminal, readVars>>
  BY DEF Enter, ClearBuffer, FlagRaised, PatientInv, TerminalInv, TypeOK
<1>5. unread'[t] = TRUE /\ \A u \in Terminals : u # t => unread'[u] = FALSE
  BY <1>2, <1>3, <1>4 DEF PatientInv, TerminalInv, TypeOK
<1>6. key_line_buffer'[t] = [k \in Cells |-> NUL] /\ cur_buffer_size'[t] = 0
  BY <1>2, <1>4 DEF PatientInv, TerminalInv, TypeOK
<1>7. PatientOK'
  BY <1>4, <1>5, <1>6 DEF PatientInv, PatientOK, readVars
<1>8. EditedLines' = [EditedLines EXCEPT ![t] = <<>>]
  <2>1. \A u \in Terminals : u # t => Contents(key_line_buffer[u])' = Contents(key_line_buffer[u])
    BY <1>2, <1>4 DEF Contents, StringLength, PatientInv, TerminalInv, TypeOK
  <2>. QED
    BY <1>2, <2>1 DEF EditedLines
<1>9. EnteredLines' = [EnteredLines EXCEPT ![t] = Append(EditedLines[t], NewLine)]
  BY <1>2, <1>3, <1>5 DEF EnteredLines, EditedLines
<1>10. EnteredLines[t] = <<>> /\ received' = received
  BY <1>2, <1>3, <1>4 DEF EnteredLines, readVars
<1>11. Lines!Enter(t)
  BY <1>8, <1>9, <1>10 DEF Lines!Enter, Lines!NoLine, EditedLines, EnteredLines
<1>. QED
  BY <1>2, <1>7, <1>11 DEF Lines!Next

(* A step of a read that the promise does not see.                         *)
LEMMA HiddenStep ==
    ASSUME PatientInv, UNCHANGED <<curr_terminal, keyboard_read, key_read_buffer, unread, received>>,
           \A t \in Terminals : \A k \in Cells :
              key_line_buffer'[t][k] = key_line_buffer[t][k],
           TypeOK',
           keyboard_read = TRUE => /\ pc'[curr_terminal] # "user"
                                   /\ cur_buffer_size'[curr_terminal] = 0,
           pc'[curr_terminal] \notin {"user", "spin"} =>
             keyboard_read = TRUE /\ seen'[curr_terminal] = {key_read_buffer[curr_terminal]},
           \A t \in Terminals : t # curr_terminal => pc'[t] = pc[t]
    PROVE  PatientOK' /\ UNCHANGED LineVars
<1>1. key_line_buffer' = key_line_buffer
  <2>1. /\ key_line_buffer \in [Terminals -> [Cells -> Chars]]
        /\ key_line_buffer' \in [Terminals -> [Cells -> Chars]]
    BY DEF PatientInv, TerminalInv, TypeOK
  <2>2. ASSUME NEW t \in Terminals PROVE key_line_buffer'[t] = key_line_buffer[t]
    <3>1. /\ key_line_buffer[t] \in [Cells -> Chars]
          /\ key_line_buffer'[t] \in [Cells -> Chars]
      BY <2>1
    <3>. QED
      BY <3>1
  <2>. QED
    BY <2>1, <2>2
<1>2. PatientOK'
  BY <1>1 DEF PatientInv, PatientOK
<1>3. UNCHANGED LineVars
  BY <1>1 DEF LineVars, EditedLines, EnteredLines
<1>. QED
  BY <1>2, <1>3

LEMMA ReturnRefines ==
    ASSUME PatientInv, NEW t, t = curr_terminal, ReadReturn(t)
    PROVE  PatientOK' /\ Lines!Next
<1>1. /\ t \in Terminals /\ pc[t] = "return" /\ pc' = [pc EXCEPT ![t] = "user"]
      /\ keyboard_read' = FALSE
      /\ received' = [received EXCEPT ![t] = buf[t]]
      /\ unread' = [unread EXCEPT ![t] = FALSE]
      /\ UNCHANGED <<curr_terminal, key_line_buffer, key_read_buffer, cur_buffer_size>>
  BY Reader DEF ReadReturn, Goto, FlagTaken, keyVars, PatientInv
<1>2. /\ unread[t] = TRUE /\ \A u \in Terminals : u # t => unread[u] = FALSE
  BY <1>1 DEF PatientInv, PatientOK, TerminalInv, TypeOK
<1>3. \A u \in Terminals : unread'[u] = FALSE
  BY <1>1, <1>2 DEF PatientInv, TerminalInv, TypeOK
<1>4. pc'[t] = "user" /\ \A u \in Terminals : u # t => pc'[u] = pc[u]
  BY <1>1 DEF PatientInv, TerminalInv, TypeOK
<1>5. PatientOK'
  BY <1>1, <1>3, <1>4 DEF PatientInv, PatientOK
<1>. DEFINE row == key_read_buffer[t]
            L == StringLength(row)
            m == IF nbytes[t] <= L THEN nbytes[t] ELSE L
<1>6. buf[t] = SubSeq(Contents(row), 1, m) /\ m \in 0 .. L
  <2>1. row \in [Cells -> Chars] /\ nbytes[t] \in Nat /\ L \in Nat
    BY Reader, StringLengthIs, Places DEF PatientInv
  <2>2. Min({nbytes[t], L}) = m
    <3>. HIDE DEF L
    <3>1. m \in {nbytes[t], L} /\ \A y \in {nbytes[t], L} : m <= y
      BY <2>1
    <3>2. \A x \in {nbytes[t], L} : (\A y \in {nbytes[t], L} : x <= y) => x = m
      BY <2>1, <3>1
    <3>3. /\ Min({nbytes[t], L}) \in {nbytes[t], L}
          /\ \A y \in {nbytes[t], L} : Min({nbytes[t], L}) <= y
      BY <3>1 DEF Min
    <3>. QED
      BY <3>2, <3>3
  <2>3. buf[t] = Prefix(row, nbytes[t])
    <3>1. seen[t] = {row}
      BY <1>1 DEF PatientInv, PatientOK
    <3>2. GivesTheLine(t, buf[t])
      BY <1>1, Reader DEF PhaseOK, PatientInv
    <3>. QED
      BY <3>1, <3>2 DEF GivesTheLine
  <2>4. Prefix(row, nbytes[t]) = SubSeq(Contents(row), 1, Min({nbytes[t], L}))
    BY DEF Prefix
  <2>. HIDE DEF row, L
  <2>5. m \in 0 .. L
    BY <2>1
  <2>. HIDE DEF m
  <2>. QED
    BY <2>2, <2>3, <2>4, <2>5
<1>7. /\ Len(Contents(row)) = L /\ L \in Nat
  <2>1. L \in Nat
    BY StringLengthIs, Places
  <2>. QED
    BY <2>1 DEF Contents
<1>8. Contents(row) # <<>>
  <2>1. ALine(row, t)
    BY <1>2, Reader DEF ReadBufferOK, PatientInv
  <2>2. row[0] # NUL
    BY <1>1, <2>1, Places DEF ALine
  <2>3. L # 0
    BY <2>2, StringLengthIs, Places
  <2>. QED
    BY <1>7, <2>3
<1>. HIDE DEF m, L, row
<1>9. EnteredLines[t] = Contents(row)
  BY <1>1, <1>2 DEF EnteredLines, row
<1>10. received' = [received EXCEPT ![t] = SubSeq(EnteredLines[t], 1, m)]
       /\ m \in 0 .. Len(EnteredLines[t])
  BY <1>1, <1>6, <1>7, <1>9
<1>11. EnteredLines' = [EnteredLines EXCEPT ![t] = <<>>]
  BY <1>1, <1>2, <1>3 DEF EnteredLines
<1>12. EditedLines' = EditedLines
  BY <1>1 DEF EditedLines
<1>13. Lines!Take(t)
  BY <1>8, <1>9, <1>10, <1>11, <1>12 DEF Lines!Take, Lines!NoLine, EnteredLines, EditedLines
<1>. QED
  BY <1>1, <1>5, <1>13 DEF Lines!Next
LEMMA PatientStep ==
    ASSUME PatientInv, [PatientNext]_vars
    PROVE  PatientOK' /\ (Lines!Next \/ UNCHANGED LineVars)
<1>. DEFINE t == curr_terminal
<1>0. TerminalInv' /\ TypeOK'
  <2>1. TerminalInv'
    BY PatientIsUnhurried, NextTerminalInv DEF PatientInv
  <2>. QED
    BY <2>1 DEF TerminalInv
<1>1. CASE PatientKeyboard
  <2>1. BetweenReads /\ keyboard_read = FALSE
    BY <1>1 DEF PatientKeyboard, PatientInv, TerminalInv, TypeOK
  <2>2. CASE EditKey
    BY <2>1, <2>2, TypeRefines, EraseRefines DEF EditKey
  <2>3. CASE SwitchKey
    <3>1. UNCHANGED <<key_line_buffer, key_read_buffer, keyboard_read, readVars, history>>
      BY <2>3 DEF SwitchKey, AltKey, Switch, keyVars
    <3>2. \A u \in Terminals : pc[u] \in {"user", "spin"} /\ unread[u] = FALSE
      BY <2>1 DEF BetweenReads, PatientInv, PatientOK, TerminalInv, TypeOK
    <3>3. PatientOK'
      BY <1>0, <2>1, <3>1, <3>2 DEF PatientOK, readVars, history, TypeOK
    <3>. QED
      BY <3>1, <3>3 DEF LineVars, EditedLines, EnteredLines, readVars, history
  <2>4. CASE pc[t] = "spin" /\ Enter(t)
    BY <2>1, <2>4, EnterRefines
  <2>. QED
    BY <1>1, <2>2, <2>3, <2>4 DEF PatientKeyboard
<1>. USE DEF keyVars, history
<1>2. ASSUME NEW n \in ReadSizes, CallRead(t, n) PROVE PatientOK' /\ UNCHANGED LineVars
  <2>1. /\ pc'[t] = "spin" /\ keyboard_read = FALSE
        /\ \A u \in Terminals : u # t => pc'[u] = pc[u]
    BY <1>2, Reader DEF CallRead, Goto, PatientInv, TypeOK
  <2>. QED
    BY <1>0, <1>2, <2>1, HiddenStep DEF CallRead
<1>3. ASSUME NEW n \in ReadSizes, ReadAtOnce(t, n) PROVE FALSE
  BY <1>3 DEF ReadAtOnce, PatientInv, PatientOK, TerminalInv, TypeOK
<1>4. ASSUME LeaveSpin(t) PROVE PatientOK' /\ UNCHANGED LineVars
  <2>1. /\ pc'[t] = "copy" /\ keyboard_read = TRUE /\ seen'[t] = {key_read_buffer[t]}
        /\ \A u \in Terminals : u # t => pc'[u] = pc[u]
    BY <1>4, Reader DEF LeaveSpin, Goto, PatientInv, TypeOK
  <2>2. cur_buffer_size[t] = 0
    BY <2>1 DEF PatientInv, PatientOK
  <2>. QED
    BY <1>0, <1>4, <2>1, <2>2, HiddenStep DEF LeaveSpin
<1>5. ASSUME \/ FindByte(t) \/ CopyByte(t) \/ CopyDone(t) \/ ClearCell(t) \/ ClearPosition(t) \/ ClearSize(t)
      PROVE  PatientOK' /\ UNCHANGED LineVars
  <2>1. pc[t] \in {"copy", "store", "clear", "size"}
    BY <1>5 DEF FindByte, CopyByte, CopyDone, ClearCell, ClearPosition, ClearSize, Goto
  <2>2. /\ keyboard_read = TRUE /\ cur_buffer_size[t] = 0
        /\ \A k \in Cells : key_line_buffer[t][k] = NUL
        /\ seen[t] = {key_read_buffer[t]}
    BY <2>1 DEF PatientInv, PatientOK
  <2>3. /\ pc'[t] \in {"copy", "store", "clear", "size", "return"} /\ seen' = seen
        /\ \A u \in Terminals : u # t => pc'[u] = pc[u]
    BY <1>5, <2>1, Reader DEF FindByte, CopyByte, CopyDone, ClearCell, ClearPosition, ClearSize, Goto,
       PatientInv, TypeOK
  <2>4. UNCHANGED <<curr_terminal, keyboard_read, key_read_buffer, unread, received>>
    BY <1>5 DEF FindByte, CopyByte, CopyDone, ClearCell, ClearPosition, ClearSize
  <2>5. cur_buffer_size'[t] = 0
    BY <1>5, <2>2, Reader DEF FindByte, CopyByte, CopyDone, ClearCell, ClearPosition, ClearSize,
       PatientInv, TypeOK
  <2>6. \A u \in Terminals : \A k \in Cells : key_line_buffer'[u][k] = key_line_buffer[u][k]
    <3>1. CASE ClearCell(t)
      <4>1. \A u \in Terminals : u # t => key_line_buffer'[u] = key_line_buffer[u]
        BY <3>1 DEF ClearCell, PatientInv, TerminalInv, TypeOK
      <4>2. \A k \in Cells : key_line_buffer'[t][k] = NUL
        BY <2>2, <3>1, ClearStep DEF PatientInv
      <4>. QED
        BY <2>2, <4>1, <4>2
    <3>2. CASE FindByte(t) \/ CopyByte(t) \/ CopyDone(t) \/ ClearPosition(t) \/ ClearSize(t)
      BY <3>2 DEF FindByte, CopyByte, CopyDone, ClearPosition, ClearSize
    <3>. QED
      BY <1>5, <3>1, <3>2
  <2>. QED
    BY <1>0, <2>2, <2>3, <2>4, <2>5, <2>6, HiddenStep
<1>6. CASE Program
  <2>1. ASSUME ReadReturn(t) PROVE PatientOK' /\ Lines!Next
    BY <2>1, ReturnRefines
  <2>. QED
    BY <1>2, <1>3, <1>4, <1>5, <1>6, <2>1 DEF Program, ReadStep
<1>7. CASE UNCHANGED vars
  BY <1>7 DEF vars, readVars, history, PatientInv, PatientOK, LineVars, EditedLines, EnteredLines
<1>. QED
  BY <1>1, <1>6, <1>7 DEF PatientNext

(* With a patient user the line buffers, the shared flag and the loops of  *)
(* terminal_read implement one line per terminal: every line entered is    *)
(* taken by a read of its own terminal, whole or cut at the size asked     *)
(* for, and no read takes a line twice.                                    *)
THEOREM TerminalImplementsLines == PatientSpec => RefinesLineDiscipline
<1>1. Init => PatientInv /\ Lines!Init
  <2>. SUFFICES ASSUME Init PROVE PatientInv /\ Lines!Init
    OBVIOUS
  <2>. DEFINE empty == [k \in Cells |-> NUL]
  <2>1. Contents(empty) = <<>>
    <3>1. StringLength(empty) = 0
      BY Places, LineLength
    <3>2. Contents(empty) = Copied(empty, 0)
      BY <3>1 DEF Contents, Copied
    <3>. QED
      BY <3>2, Places, CopiedIs
  <2>2. \A t \in Terminals : /\ key_line_buffer[t] = empty /\ unread[t] = FALSE
                             /\ pc[t] = "user"
    BY DEF Init
  <2>3. PatientInv
    BY <2>2, InitTerminalInv, Places DEF Init, PatientInv, PatientOK
  <2>. HIDE DEF empty
  <2>4. Lines!Init
    BY <2>1, <2>2 DEF Init, Lines!Init, Lines!NoLine
  <2>. QED
    BY <2>3, <2>4
<1>2. PatientInv /\ [PatientNext]_vars => PatientInv' /\ [Lines!Next]_LineVars
  BY PatientStep, PatientIsUnhurried, NextTerminalInv DEF PatientInv
<1>3. [Lines!Next]_LineVars => [Lines!Next]_(Lines!vars)
  BY DEF LineVars, EditedLines, EnteredLines, Lines!vars
<1>. QED
  BY <1>1, <1>2, <1>3, PTL DEF PatientSpec, RefinesLineDiscipline, Lines!Spec
=============================================================================
