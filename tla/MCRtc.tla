------------------------------- MODULE MCRtc -------------------------------
(***************************************************************************)
(* Rtc for TLC: the numbers written are all powers of two that fit in 16   *)
(* bits and their neighbours, where the loop of rtc_write turns.           *)
(***************************************************************************)
EXTENDS Rtc

AroundPowers ==
    {f \in UNION {{2^k - 1, 2^k, 2^k + 1} : k \in 0 .. 16} : f <= 65535}
=============================================================================
