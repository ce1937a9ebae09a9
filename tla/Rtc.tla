-------------------------------- MODULE Rtc --------------------------------
(***************************************************************************)
(* The real-time clock driver of rtc.c: rtc_init, rtc_handler, rtc_read    *)
(* and rtc_write, with the programs of the terminals that call them and    *)
(* the 8259 that delivers the ticks.                                       *)
(*                                                                         *)
(* rtc_read turns the interrupts on and waits for the flag which the       *)
(* handler raises.  Its loop is the only kernel code of this module that   *)
(* can be interrupted, by the clock or by Alt+Fn; one flag and one rate    *)
(* serve all terminals.  A round of the loop that finds the flag down      *)
(* changes nothing.                                                        *)
(***************************************************************************)
EXTENDS Integers

CONSTANTS
    MAX_TERMINALS,   \* number of terminals (terminal.h:13)
    Frequencies      \* bound: the 16-bit numbers that programs write

Words == 0 .. 65535

ASSUME SizesAssumption ==
    /\ MAX_TERMINALS \in Nat \ {0}
    /\ Frequencies \subseteq Words

RATE_MAX  == 15
BASE_RATE == 15

Terminals == 0 .. MAX_TERMINALS - 1

VARIABLES
    curr_terminal,   \* the terminal on the screen
    rtc_flag,        \* raised by the handler, lowered by a read
    rate,            \* the rate in the clock's register A
    clock_armed,     \* register C was read: the clock may tick again
    irq8,            \* line 8: masked, in service at the slave, at the master
    pc,              \* where the program in front of each terminal is
    unused           \* history: no read has been ended by the last tick yet

irqVars == <<clock_armed, irq8>>
vars    == <<curr_terminal, rtc_flag, rate, irqVars, pc, unused>>

Init ==
    /\ curr_terminal = 0
    /\ rtc_flag = FALSE
    /\ rate = BASE_RATE
    /\ clock_armed = TRUE
    /\ irq8 = [masked |-> FALSE, slave |-> FALSE, master |-> FALSE]
    /\ pc = [t \in Terminals |-> "user"]
    /\ unused = FALSE

-----------------------------------------------------------------------------
(* The 8259 takes a tick when the line is unmasked and nothing is in       *)
(* service at its priority; send_eoi(8) acknowledges both chips.           *)
Accept(q)     == [q EXCEPT !.slave = TRUE, !.master = TRUE]
DisableIrq(q) == [q EXCEPT !.masked = TRUE]
EnableIrq(q)  == [q EXCEPT !.masked = FALSE]

(* Mutant: only the slave is acknowledged.                                 *)
SlaveEoi(q) == [q EXCEPT !.slave = FALSE]

SendEoi(q) == [q EXCEPT !.slave = FALSE, !.master = FALSE]

Deliverable == ~irq8.masked /\ ~irq8.slave /\ ~irq8.master

(* Mutant: the handler does not read register C.                           *)
CNotRead == FALSE

CRead == TRUE

(* A tick, and the whole of rtc_handler.                                   *)
Tick ==
    /\ clock_armed
    /\ Deliverable
    /\ rtc_flag' = TRUE
    /\ clock_armed' = CRead
    /\ irq8' = EnableIrq(SendEoi(DisableIrq(Accept(irq8))))
    /\ unused' = TRUE
    /\ UNCHANGED <<curr_terminal, rate, pc>>

-----------------------------------------------------------------------------
(* Mutant: the count of halvings starts at one.                            *)
RateOneLess(freq) ==
    LET n == CHOOSE k \in 1 .. RATE_MAX :
               /\ freq \div 2^k \in {0, 1}
               /\ \A j \in 1 .. k - 1 : freq \div 2^j \notin {0, 1}
    IN  RATE_MAX - n

(* rtc_write halves the frequency until it is 1 or 0; the first halving    *)
(* counts as none.                                                         *)
RateOf(freq) ==
    LET n == CHOOSE k \in 1 .. RATE_MAX :
               /\ freq \div 2^k \in {0, 1}
               /\ \A j \in 1 .. k - 1 : freq \div 2^j \notin {0, 1}
    IN  RATE_MAX - (n - 1)

(* rtc_write: the clock's line is masked around the access to register A.  *)
Write(t, freq) ==
    /\ pc[t] = "user"
    /\ rate' = RateOf(freq)
    /\ irq8' = EnableIrq(DisableIrq(irq8))
    /\ UNCHANGED <<curr_terminal, rtc_flag, clock_armed, pc, unused>>

(* rtc_read turns the interrupts on and enters its loop.                   *)
CallRead(t) ==
    /\ pc[t] = "user"
    /\ pc' = [pc EXCEPT ![t] = "spin"]
    /\ UNCHANGED <<curr_terminal, rtc_flag, rate, irqVars, unused>>

(* temp_flag = rtc_flag, when the flag is up: the loop ends.               *)
LoadFlag(t) ==
    /\ pc[t] = "spin"
    /\ rtc_flag
    /\ pc' = [pc EXCEPT ![t] = "clear"]
    /\ unused' = FALSE
    /\ UNCHANGED <<curr_terminal, rtc_flag, rate, irqVars>>

(* Mutant: the flag is left up.                                            *)
FlagLeftUp == rtc_flag

Lowered == FALSE

(* rtc_flag = CLEAR, and the read returns.                                 *)
ClearFlag(t) ==
    /\ pc[t] = "clear"
    /\ rtc_flag' = Lowered
    /\ pc' = [pc EXCEPT ![t] = "user"]
    /\ UNCHANGED <<curr_terminal, rate, irqVars, unused>>

ReadStep(t) == LoadFlag(t) \/ ClearFlag(t)

Program ==
    \/ \E freq \in Frequencies : Write(curr_terminal, freq)
    \/ CallRead(curr_terminal)
    \/ ReadStep(curr_terminal)

(* Alt+Fn.                                                                 *)
Switch(t) ==
    /\ t # curr_terminal
    /\ curr_terminal' = t
    /\ UNCHANGED <<rtc_flag, rate, irqVars, pc, unused>>

-----------------------------------------------------------------------------
Next == Tick \/ Program \/ \E t \in Terminals : Switch(t)

Spec == Init /\ [][Next]_vars

(* The clock's periodic interrupt is enabled for good by rtc_init, and     *)
(* nothing but the program that reads runs on the terminal on the screen.  *)
FairSpec == Spec /\ WF_vars(Tick) /\ WF_vars(ReadStep(curr_terminal))

-----------------------------------------------------------------------------
(* Properties.                                                             *)

TypeOK ==
    /\ curr_terminal \in Terminals
    /\ rtc_flag \in BOOLEAN
    /\ rate \in 1 .. RATE_MAX
    /\ clock_armed \in BOOLEAN
    /\ irq8 \in [masked : BOOLEAN, slave : BOOLEAN, master : BOOLEAN]
    /\ pc \in [Terminals -> {"user", "spin", "clear"}]
    /\ unused \in BOOLEAN

(* The interrupts a second at a rate, of a clock of 32768 Hz.              *)
CLOCK    == 32768
Hertz(r) == CLOCK \div 2^(r - 1)

Valid(freq) == \E k \in 1 .. 10 : freq = 2^k

(* rtc.c:75: rtc_write sets "a given frequency (power of 2 between 2 and   *)
(* 1024 in hz)".                                                           *)
ValidFrequenciesAreSet ==
    [][\A t \in Terminals, freq \in Frequencies :
         Write(t, freq) /\ Valid(freq) => Hertz(rate') = freq]_vars

(* No tick ends two reads, on one terminal or on two: a program that       *)
(* counts its reads never counts more than the ticks there were.  Only a   *)
(* read which Alt+Fn has left between seeing the flag and lowering it can  *)
(* share its tick with another.                                            *)
TicksAreNotShared ==
    [][\A t \in Terminals :
         LoadFlag(t) => unused \/ \E u \in Terminals : pc[u] = "clear"]_vars

(* No path through the handler or rtc_write leaves the clock waiting for   *)
(* register C, its line masked or unacknowledged at either 8259, or a rate *)
(* its register has no room for.                                           *)
ClockIsSound == TypeOK /\ clock_armed /\ Deliverable

(* A program that reads the clock gets on, unless the user leaves its      *)
(* terminal: no lost tick, and no tick taken by another terminal, holds it *)
(* for good.                                                               *)
BlockedReadReturns ==
    \A t \in Terminals :
        (pc[t] # "user" /\ curr_terminal = t) ~> (pc[t] = "user" \/ curr_terminal # t)
=============================================================================
