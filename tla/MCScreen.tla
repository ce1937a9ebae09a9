------------------------------ MODULE MCScreen ------------------------------
(***************************************************************************)
(* Screen for TLC: rows of four columns, of which the prompt takes two.    *)
(***************************************************************************)
EXTENDS Screen

CONSTANT MaxKeys    \* bound: the keys that are pressed

VARIABLE keys

vars == <<screenVars, keys>>

SmallPrompt  == <<">", ":">>
SmallLetters == <<"a", "b", "c", "d">>
SmallOutputs == {<<"o">>, <<"o", "\n">>}
SmallMessages == {<<"o", "\n">>}

MCInit == Init /\ keys = 0

MCNext ==
    \/ keys < MaxKeys /\ (Typing \/ Alternating) /\ keys' = keys + 1
    \/ Writing /\ UNCHANGED keys

MCSpec == MCInit /\ [][MCNext]_vars
=============================================================================
