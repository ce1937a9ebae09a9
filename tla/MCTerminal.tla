----------------------------- MODULE MCTerminal -----------------------------
(***************************************************************************)
(* Terminal for TLC, and its refinement of LineDiscipline.                 *)
(***************************************************************************)
EXTENDS Terminal

(* The letter 'a' on the first terminal, whose text must not show up on    *)
(* the second, which enters empty lines; and one letter a terminal, with a *)
(* second one, 'd', on the first to tell the order of the letters.         *)
FirstTypes == [t \in Terminals |-> IF t = 0 THEN {97} ELSE {}]
TwoLetters == [t \in Terminals |-> IF t = 0 THEN {97, 100} ELSE {97 + t}]

Lines == INSTANCE LineDiscipline
    WITH Terminal <- Terminals,
         Letter <- Letters,
         Newline <- NewLine,
         MaxLine <- LINE_BUFFER - 2,
         line <- [t \in Terminals |-> Contents(key_line_buffer[t])],
         entered <- [t \in Terminals |->
                       IF unread[t] THEN Contents(key_read_buffer[t]) ELSE <<>>],
         taken <- received

(* With a patient user the line buffers, the flag and the copy loop work   *)
(* as the terminals of LineDiscipline: every line entered is given to the  *)
(* read of its own terminal, complete and once.                            *)
RefinesLineDiscipline == Lines!Spec
=============================================================================
