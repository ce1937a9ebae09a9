------------------------------ MODULE Library ------------------------------
(***************************************************************************)
(* The string, memory and number routines of lib.c, and their copies for   *)
(* user programs in ece391support.c, as functions from the memory before   *)
(* the call to the memory after it, or to their value.                     *)
(*                                                                         *)
(* A memory is a function from addresses to bytes.  Loops are recursive    *)
(* functions over what the loop changes; a string instruction with a rep   *)
(* prefix is a fold over its steps, so that an overlap of source and       *)
(* destination has the effect it has in the machine.                       *)
(***************************************************************************)
EXTENDS Integers, Sequences, SequencesExt, Folds, Functions

CONSTANTS
    WORD,        \* 2^32 in the code: the range of an unsigned integer
    HEX_DIGITS   \* 8 in the code: the hexadecimal digits of WORD - 1

ASSUME LibraryAssumption ==
    /\ WORD \in Nat /\ WORD % 2 = 0
    /\ HEX_DIGITS \in Nat \ {0}
    /\ WORD = 16 ^ HEX_DIGITS

NUL == 0

Steps(n) == [k \in 1 .. n |-> k - 1]

-----------------------------------------------------------------------------
(* Strings.                                                                *)

Strlen(mem, s) ==
    LET len[n \in Nat] == IF mem[s + n] = NUL THEN n ELSE len[n + 1]
    IN  len[0]

StringAt(mem, s) == [k \in 1 .. Strlen(mem, s) |-> mem[s + k - 1]]

(* strcpy and ece391_strcpy.                                               *)
Strcpy(mem, dest, src) ==
    LET copy[m \in [DOMAIN mem -> Int], i \in Nat] ==
            IF m[src + i] = NUL THEN [m EXCEPT ![dest + i] = NUL]
            ELSE copy[[m EXCEPT ![dest + i] = m[src + i]], i + 1]
    IN  copy[mem, 0]

(* strncpy pads with NUL, and leaves no NUL when the source is too long.   *)
Strncpy(mem, dest, src, n) ==
    LET pad[m \in [DOMAIN mem -> Int], i \in Nat] ==
            IF i < n THEN pad[[m EXCEPT ![dest + i] = NUL], i + 1] ELSE m
        copy[m \in [DOMAIN mem -> Int], i \in Nat] ==
            IF m[src + i] # NUL /\ i < n
              THEN copy[[m EXCEPT ![dest + i] = m[src + i]], i + 1]
              ELSE pad[m, i]
    IN  copy[mem, 0]

(* strncmp: the difference where the strings part.                         *)
Strncmp(mem, s1, s2, n) ==
    LET cmp[i \in Nat] ==
            IF i = n THEN 0
            ELSE IF mem[s1 + i] # mem[s2 + i] \/ mem[s1 + i] = NUL
              THEN mem[s1 + i] - mem[s2 + i]
              ELSE cmp[i + 1]
    IN  cmp[0]

(* ece391_strcmp and ece391_strncmp count the equal characters, the latter *)
(* down from n.                                                            *)
ece391_strcmp(mem, s1, s2) ==
    LET cmp[i \in Nat] ==
            IF mem[s1 + i] # mem[s2 + i] THEN mem[s1 + i] - mem[s2 + i]
            ELSE IF mem[s1 + i] = NUL THEN 0 ELSE cmp[i + 1]
    IN  cmp[0]

ece391_strncmp(mem, s1, s2, n) ==
    LET cmp[i \in Nat, left \in Int] ==
            IF mem[s1 + i] # mem[s2 + i] THEN mem[s1 + i] - mem[s2 + i]
            ELSE IF mem[s1 + i] = NUL \/ left = 1 THEN 0 ELSE cmp[i + 1, left - 1]
    IN  IF n = 0 THEN 0 ELSE cmp[0, n]

(* ece391_strrev swaps the ends of a string in memory until they meet.     *)
ece391_strrev(mem, s) ==
    LET rev[m \in [DOMAIN mem -> Int], beg \in Nat, end \in Int] ==
            IF beg < end
              THEN rev[[m EXCEPT ![beg] = m[end], ![end] = m[beg]], beg + 1, end - 1]
              ELSE m
    IN  rev[mem, s, s + Strlen(mem, s) - 1]

(* strrev does the same; here it is applied to a text.                     *)
Strrev(s) ==
    LET rev[r \in Seq(STRING), beg \in Nat, end \in Int] ==
            IF beg < end
              THEN rev[[r EXCEPT ![beg + 1] = r[end + 1], ![end + 1] = r[beg + 1]],
                       beg + 1, end - 1]
              ELSE r
    IN  rev[s, 0, Len(s) - 1]

-----------------------------------------------------------------------------
(* Memory.                                                                 *)

(* One step of movsb (size 1) or movsl (size 4), and of stosb to stosl:    *)
(* the whole unit is loaded before it is stored.                           *)
MoveUnit(mem, dest, src, size) ==
    [a \in DOMAIN mem |->
        IF a \in dest .. dest + size - 1 THEN mem[src + a - dest] ELSE mem[a]]

FillUnit(mem, dest, unit) ==
    [a \in DOMAIN mem |->
        IF a \in dest .. dest + Len(unit) - 1 THEN unit[a - dest + 1] ELSE mem[a]]

MoveUnits(mem, dest, src, size, n) ==
    FoldLeft(LAMBDA m, k : MoveUnit(m, dest + k * size, src + k * size, size),
             mem, Steps(n))

FillUnits(mem, dest, unit, n) ==
    FoldLeft(LAMBDA m, k : FillUnit(m, dest + k * Len(unit), unit), mem, Steps(n))

(* The bytes before the first multiple of 4, at most n of them.            *)
Unaligned(dest, n) == LET off == (4 - (dest % 4)) % 4 IN IF n < off THEN n ELSE off

(* memcpy: single bytes until the destination is aligned, double words,    *)
(* and the bytes left over.                                                *)
Memcpy(mem, dest, src, n) ==
    LET head   == Unaligned(dest, n)
        words  == (n - head) \div 4
        copied == head + 4 * words
        aligned == MoveUnits(mem, dest, src, 1, head)
        bulk    == MoveUnits(aligned, dest + head, src + head, 4, words)
    IN  MoveUnits(bulk, dest + copied, src + copied, 1, n - copied)

(* memset, in the same three parts.                                        *)
Memset(mem, s, c, n) ==
    LET head   == Unaligned(s, n)
        words  == (n - head) \div 4
        filled == head + 4 * words
        aligned == FillUnits(mem, s, <<c>>, head)
        bulk    == FillUnits(aligned, s + head, <<c, c, c, c>>, words)
    IN  FillUnits(bulk, s + filled, <<c>>, n - filled)

(* memset_word and memset_dword store n units of the bytes of c.           *)
MemsetUnits(mem, s, unit, n) == FillUnits(mem, s, unit, n)

(* The copies in fish.c go up a byte at a time.                            *)
ece391_memcpy(mem, dest, src, n) == MoveUnits(mem, dest, src, 1, n)
ece391_memset(mem, s, c, n) == FillUnits(mem, s, <<c>>, n)

(* Mutant: the direction does not depend on the addresses.                 *)
MemmoveForward(mem, dest, src, n) == MoveUnits(mem, dest, src, 1, n)

(* memmove: bytes upwards when the source is not below the destination,    *)
(* downwards otherwise.                                                    *)
Memmove(mem, dest, src, n) ==
    IF src >= dest
      THEN MoveUnits(mem, dest, src, 1, n)
      ELSE FoldLeft(LAMBDA m, k : MoveUnit(m, dest + n - 1 - k, src + n - 1 - k, 1),
                    mem, Steps(n))

-----------------------------------------------------------------------------
(* Numbers as text, a sequence of characters.                              *)

lookup == <<"0", "1", "2", "3", "4", "5", "6", "7", "8", "9", "A", "B",
            "C", "D", "E", "F", "G", "H", "I", "J", "K", "L", "M", "N",
            "O", "P", "Q", "R", "S", "T", "U", "V", "W", "X", "Y", "Z">>

(* itoa: the digits from the lowest place, then reversed.                  *)
Itoa(value, radix) ==
    LET digits[newval \in Nat] ==
            IF newval = 0 THEN <<>>
            ELSE <<lookup[(newval % radix) + 1]>> \o digits[newval \div radix]
    IN  IF value = 0 THEN <<"0">> ELSE Strrev(digits[value])

(* ece391_itoa does it in memory; the byte of a digit is its place in      *)
(* lookup.                                                                 *)
ece391_itoa(mem, value, buf, radix) ==
    LET put[m \in [DOMAIN mem -> Int], newbuf \in Nat, newval \in Nat] ==
            IF newval = 0 THEN [m EXCEPT ![newbuf] = NUL]
            ELSE put[[m EXCEPT ![newbuf] = (newval % radix) + 1],
                     newbuf + 1, newval \div radix]
    IN  IF value = 0 THEN [mem EXCEPT ![buf] = 1, ![buf + 1] = NUL]
        ELSE ece391_strrev(put[mem, buf, value], buf)

(* %#x: the digits are written behind HEX_DIGITS places, as many of which  *)
(* as the number has digits stay unused and the others are filled with 0.  *)
AlternateHex(value) ==
    LET digits == Itoa(value, 16)
    IN  [k \in 1 .. HEX_DIGITS - Len(digits) |-> "0"] \o digits

(* %d of a WORD: negative from the middle of the range on.                 *)
Signed(value) ==
    IF value >= WORD \div 2
      THEN <<"-">> \o Itoa(WORD - value, 10)
      ELSE Itoa(value, 10)

(* What one conversion prints of the argument it takes.                    *)
Converted(conversion, alternate, value) ==
    CASE conversion = "x" /\ alternate -> AlternateHex(value)
      [] conversion = "x" /\ ~alternate -> Itoa(value, 16)
      [] conversion = "u" -> Itoa(value, 10)
      [] conversion = "d" -> Signed(value)
      [] conversion \in {"c", "s"} -> <<value>>

TakesArgument(c) == c \in {"x", "u", "d", "c", "s"}

(* printf: the walk over the format, a sequence of characters in which a   *)
(* "%" begins a conversion; what is no conversion prints nothing.          *)
Printf(format, args) ==
    LET walk[i \in Nat, arg \in Nat, state \in {"text", "percent", "alternate"}] ==
            IF i > Len(format) THEN <<>>
            ELSE LET c == format[i] IN
              IF state = "text" THEN
                IF c = "%" THEN walk[i + 1, arg, "percent"]
                           ELSE <<c>> \o walk[i + 1, arg, "text"]
              ELSE IF c = "%" THEN <<"%">> \o walk[i + 1, arg, "text"]
              ELSE IF c = "#" THEN walk[i + 1, arg, "alternate"]
              ELSE IF TakesArgument(c)
                THEN Converted(c, state = "alternate", args[arg])
                       \o walk[i + 1, arg + 1, "text"]
              ELSE walk[i + 1, arg, "text"]
    IN  walk[1, 1, "text"]
=============================================================================
