------------------------------- MODULE MCBoot -------------------------------
(***************************************************************************)
(* Boot for TLC, with the kernel's terminals and programs, and exceptions  *)
(* with a handler (0, 13 and 14) and without a present gate (11).          *)
(***************************************************************************)
EXTENDS Boot
=============================================================================
