------------------------------- MODULE Search -------------------------------
(***************************************************************************)
(* How grep finds lines: do_one_file of ece391grep.c, as a function from   *)
(* the file to the lines it prints.  It reads the file a buffer at a time, *)
(* searches the complete lines in it and moves what is left of the last    *)
(* one to the front.                                                       *)
(***************************************************************************)
EXTENDS Library

CONSTANTS BUFSIZE,    \* 1024 in the code
          Garbage     \* what the buffer on the stack holds before main runs

NL == 10

(* The place of the end of the line that begins at start.                  *)
LineEnd(data, last, start) ==
    CHOOSE k \in start .. last :
        /\ k = last \/ data[k] = NL
        /\ \A j \in start .. k - 1 : data[j] # NL

Matches(data, start, end, s) ==
    \E check \in start .. end - 1 :
        /\ data[check] = s[1]
        /\ \A k \in 1 .. Len(s) : check + k - 1 < end /\ data[check + k - 1] = s[k]

(* Mutant: what is left of a line stays where it is.                       *)
KeepInPlace(data, start, last) == [data |-> data, last |-> last - start]

(* The remainder of a line is moved to the front of the buffer.            *)
KeepRest(data, start, last) ==
    [data |-> Strcpy([data EXCEPT ![last] = NUL], 0, start), last |-> last - start]

(* The lines of one buffer, of which the last read brought cnt bytes.      *)
Scan(data0, last, cnt, s) ==
    LET scan[data \in [0 .. BUFSIZE -> Nat], start \in Nat, found \in Seq(Seq(Nat))] ==
          LET end      == LineEnd(data, last, start)
              searched == [data EXCEPT ![end] = NUL]
              lines    == IF Matches(data, start, end, s)
                            THEN Append(found, StringAt(searched, start)) ELSE found
          IN  IF data[end] # NL /\ cnt # 0 /\ start # 0
                THEN KeepRest(data, start, last) @@ [found |-> found]
              ELSE IF end + 1 >= last
                THEN [data |-> searched, last |-> 0, found |-> lines]
              ELSE scan[searched, end + 1, lines]
    IN  scan[data0, 0, <<>>]

(* The lines of the file that grep prints for s.                           *)
DoOneFile(file, s) ==
    LET search[data \in [0 .. BUFSIZE -> Nat], last \in Nat, pos \in Nat] ==
          LET cnt  == IF BUFSIZE - last < Len(file) - pos
                        THEN BUFSIZE - last ELSE Len(file) - pos
              read == [k \in 0 .. BUFSIZE |->
                         IF k \in last .. last + cnt - 1
                           THEN file[pos + 1 + k - last] ELSE data[k]]
              done == Scan(read, last + cnt, cnt, s)
          IN  IF cnt = 0 THEN done.found
              ELSE done.found \o search[done.data, done.last, pos + cnt]
    IN  search[[k \in 0 .. BUFSIZE |-> Garbage], 0, 0]

-----------------------------------------------------------------------------
(* What it is for.                                                         *)

(* The lines of a text, the last of them perhaps without its end.          *)
Lines(text) ==
    LET ends == {0} \cup {k \in DOMAIN text : text[k] = NL} \cup {Len(text) + 1}
        Next(k) == CHOOSE e \in ends : e > k /\ \A d \in ends : d > k => e <= d
    IN  [k \in 1 .. Cardinality(ends) - 1 |->
           LET from == CHOOSE e \in ends : Cardinality({d \in ends : d < e}) = k - 1
           IN  SubSeq(text, from + 1, Next(from) - 1)]

HasIn(line, s) == \E k \in 0 .. Len(line) - Len(s) : SubSeq(line, k + 1, k + Len(s)) = s

LinesWith(text, s) == SelectSeq(Lines(text), LAMBDA line : HasIn(line, s))

LongestLine(text) ==
    LET sizes == {Len(Lines(text)[k]) : k \in DOMAIN Lines(text)}
    IN  CHOOSE n \in sizes : \A m \in sizes : m <= n
=============================================================================
