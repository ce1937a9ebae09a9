--------------------------- MODULE ProcessesProofs ---------------------------
(***************************************************************************)
(* The invariants of Processes, for every number of terminals and slots,   *)
(* and the process table as a whole: the parent pointers make a stack of   *)
(* programs for every terminal, the stacks share out the slots that are    *)
(* taken, and the system calls and Alt+Fn push, pop and show them.         *)
(***************************************************************************)
EXTENDS MCProcesses, DataLemmas

Ownership ==
    \E owner \in [Slots -> Terminals], depth \in [Slots -> Nat \ {0}] :
        ProgramsAreOwned(owner, depth)

(* start_shell loads the shell whatever the pcb says, so the pcb of a first *)
(* shell that has not run must say that, or nothing.                       *)
UnvisitedHoldShells ==
    \A t \in Terminals : num_progs[t] = 0 => name[t] \in {Shell, Unset}

(* The inductive invariant.  None of the invariants is inductive alone: a  *)
(* halt keeps the processor in one program only if the saved frame is the  *)
(* parent's, a switch only if the saved context is the front program's,    *)
(* start_shell only if num_progs is zero on unvisited terminals alone,     *)
(* which takes the depths, and the depths take the disjoint chains.        *)
IndInv ==
    /\ TypeOK
    /\ HaltReturnsToParent
    /\ PagesHoldTheirPrograms
    /\ UnvisitedHoldShells
    /\ ~Booted => Init
    /\ Booted => /\ RunsFrontProgram
                 /\ SavedContextIsOfFrontProgram
                 /\ ChainsAreDisjoint
                 /\ Ownership

-----------------------------------------------------------------------------
(* Every terminal number is a slot number, and a least free slot exists.   *)
LEMMA TerminalsAreSlots == Terminals \subseteq Slots /\ 0 \in Terminals
BY SizesAssumption DEF Terminals, Slots

(* The search of system_execute finds a free slot, and the first one.      *)
LEMMA FirstFreeIsFree ==
    ASSUME NEW track, FreeSlots(track) # {}
    PROVE  /\ FirstFree(track) \in FreeSlots(track)
           /\ \A r \in FreeSlots(track) : FirstFree(track) <= r
<1>1. FreeSlots(track) \subseteq Nat
  BY SizesAssumption DEF FreeSlots, Slots
<1>2. PICK x \in FreeSlots(track) :
        \A y \in FreeSlots(track) : ~ (<<y, x>> \in OpToRel(<, Nat))
  BY <1>1, NatLessThanWellFounded, WFMin
<1>3. OpToRel(<, Nat) = {ss \in Nat \X Nat : ss[1] < ss[2]}
  BY DEF OpToRel
<1>4. \A y \in FreeSlots(track) : x <= y
  <2>. TAKE y \in FreeSlots(track)
  <2>1. x \in Nat /\ y \in Nat /\ <<y, x>> \in Nat \X Nat
    BY <1>1
  <2>2. ~ (<<y, x>>[1] < <<y, x>>[2])
    BY <1>2, <1>3, <2>1
  <2>. QED
    BY <2>1, <2>2
<1>5. \E s \in FreeSlots(track) : \A r \in FreeSlots(track) : s <= r
  BY <1>4
<1>. QED
  BY <1>5 DEF FirstFree

-----------------------------------------------------------------------------
LEMMA InitIndInv == Init => IndInv
<1>. SUFFICES ASSUME Init PROVE IndInv
  OBVIOUS
<1>1. TypeOK
  BY SizesAssumption, NamesAssumption
  DEF Init, TypeOK, Terminals, Slots, Reserved, Images, Fresh, Empty,
      Regs, ZeroRegs, Modes, Results, None
<1>2. PagesHoldTheirPrograms
  BY TerminalsAreSlots DEF Init, PagesHoldTheirPrograms, Fresh, Reserved
<1>3. HaltReturnsToParent
  BY DEF Init, HaltReturnsToParent
<1>5. ~Booted
  BY DEF Init, Booted
<1>6. UnvisitedHoldShells
  BY TerminalsAreSlots DEF Init, UnvisitedHoldShells
<1>. QED
  BY <1>1, <1>2, <1>3, <1>5, <1>6 DEF IndInv

-----------------------------------------------------------------------------
(* A program executed from the front program of a terminal.                *)
LEMMA ExecuteIndInv ==
    ASSUME IndInv, NEW file \in Executables, Execute(file)
    PROVE  IndInv'
<1>. DEFINE s == FirstFree(pcb_track)
            c == curr_terminal
            p == curr_pcb[c]
<1>1. /\ TypeOK /\ HaltReturnsToParent /\ PagesHoldTheirPrograms
      /\ UnvisitedHoldShells
      /\ cpu.mode = "user" /\ Booted
      /\ RunsFrontProgram /\ SavedContextIsOfFrontProgram
      /\ ChainsAreDisjoint /\ Ownership
  BY DEF IndInv, Execute, Booted
<1>2. s \in Slots /\ ~pcb_track[s] /\ s \notin Taken
  BY FirstFreeIsFree DEF Execute, FreeSlots, Taken
<1>3. /\ c \in Terminals /\ p \in Slots /\ p \in Taken /\ p # s /\ p # NULL
      /\ s # NULL /\ s \notin Terminals
  BY <1>1, <1>2, SizesAssumption, NamesAssumption DEF TypeOK, ChainsAreDisjoint, Taken, Slots
<1>4. /\ cpu.proc = p /\ cr3 = p /\ esp0 = p
  BY <1>1 DEF RunsFrontProgram, FrontPcb
<1>5. /\ pcb_track' = [pcb_track EXCEPT ![s] = TRUE]
      /\ parent_ptr' = [parent_ptr EXCEPT ![s] = p]
      /\ name' = [name EXCEPT ![s] = file]
      /\ curr_pcb' = [curr_pcb EXCEPT ![c] = s]
      /\ save_frame' = [save_frame EXCEPT ![s] = p]
      /\ num_progs' = [num_progs EXCEPT ![c] = @ + 1]
      /\ cr3' = s
      /\ user_page' = [user_page EXCEPT ![s] = s]
      /\ esp0' = s
      /\ image' = [image EXCEPT ![s] = Fresh(file)]
      /\ cpu' = [proc |-> s, mode |-> "user"]
      /\ user_if' = [user_if EXCEPT ![s] = TRUE]
      /\ result' = None
      /\ UNCHANGED <<curr_terminal, save_prog_regs>>
  BY <1>4 DEF Execute, Load, FrameIndex
<1>6. Taken' = Taken \cup {s}
  BY <1>1, <1>2, <1>5 DEF Taken, TypeOK
<1>7. TypeOK'
  BY <1>1, <1>2, <1>3, <1>5 DEF TypeOK, Images, Fresh, Modes, Results
<1>9. HaltReturnsToParent'
  BY <1>1, <1>2, <1>5 DEF HaltReturnsToParent, TypeOK
<1>10. PagesHoldTheirPrograms'
  BY <1>1, <1>2, <1>5 DEF PagesHoldTheirPrograms, TypeOK, Fresh
<1>11. Booted'
  BY <1>5 DEF Booted
<1>12. RunsFrontProgram'
  BY <1>1, <1>3, <1>5 DEF RunsFrontProgram, FrontPcb, TypeOK
<1>13. SavedContextIsOfFrontProgram'
  BY <1>1, <1>3, <1>5 DEF SavedContextIsOfFrontProgram, TypeOK
<1>14. ChainsAreDisjoint'
  <2>1. /\ Terminals \subseteq Taken'
        /\ \A t \in Terminals : curr_pcb'[t] \in Taken'
    BY <1>1, <1>3, <1>5, <1>6 DEF ChainsAreDisjoint, TypeOK
  <2>2. \A r \in Taken : r # s /\ parent_ptr'[r] = parent_ptr[r] /\ r \in Slots
    BY <1>1, <1>2, <1>5 DEF Taken, TypeOK
  <2>3. parent_ptr'[s] = p
    BY <1>1, <1>2, <1>5 DEF TypeOK
  <2>4. \A r \in Taken : parent_ptr[r] # s /\ parent_ptr[r] # p
    BY <1>1, <1>2, <1>3 DEF ChainsAreDisjoint
  <2>5. \A t \in Terminals : curr_pcb'[t] = IF t = c THEN s ELSE curr_pcb[t]
    BY <1>1, <1>5 DEF TypeOK
  <2>6. \A t \in Terminals : t # c => curr_pcb[t] # p
    BY <1>1, <1>3 DEF Ownership, ProgramsAreOwned
  <2>7. \A r \in Taken' :
         /\ parent_ptr'[r] \in Taken' \cup {NULL}
         /\ parent_ptr'[r] = NULL <=> r \in Terminals
    BY <1>1, <1>3, <1>6, <2>2, <2>3 DEF ChainsAreDisjoint
  <2>8. \A r \in Taken' : \A t \in Terminals : parent_ptr'[r] # curr_pcb'[t]
    BY <1>1, <1>3, <1>6, <2>2, <2>3, <2>4, <2>5, <2>6 DEF ChainsAreDisjoint
  <2>9. \A r, q \in Taken' :
          parent_ptr'[q] = parent_ptr'[r] => q = r \/ r \in Terminals
    BY <1>1, <1>3, <1>6, <2>2, <2>3, <2>4 DEF ChainsAreDisjoint
  <2>. QED
    BY <2>1, <2>7, <2>8, <2>9 DEF ChainsAreDisjoint
<1>15. Ownership'
  <2>1. PICK owner \in [Slots -> Terminals], depth \in [Slots -> Nat \ {0}] :
          ProgramsAreOwned(owner, depth)
    BY <1>1 DEF Ownership
  <2>0. PICK own, dep : /\ own = [owner EXCEPT ![s] = owner[p]]
                       /\ dep = [depth EXCEPT ![s] = depth[p] + 1]
    OBVIOUS
  <2>2. own \in [Slots -> Terminals] /\ dep \in [Slots -> Nat \ {0}]
    BY <1>2, <1>3, <2>0
  <2>3. \A r \in Taken : /\ own[r] = owner[r] /\ dep[r] = depth[r]
                         /\ parent_ptr'[r] = parent_ptr[r]
                         /\ r \notin Terminals => parent_ptr[r] \in Taken
    BY <1>1, <1>2, <1>5, <2>0 DEF Taken, TypeOK, ChainsAreDisjoint
  <2>4. own[s] = owner[p] /\ dep[s] = depth[p] + 1 /\ parent_ptr'[s] = p
    BY <1>1, <1>2, <1>5, <2>0 DEF TypeOK
  <2>5. \A r \in Taken' :
         IF r \in Terminals
           THEN own[r] = r /\ dep[r] = 1
           ELSE /\ own[r] = own[parent_ptr'[r]]
                /\ dep[r] = dep[parent_ptr'[r]] + 1
    BY <1>3, <1>6, <2>1, <2>3, <2>4 DEF ProgramsAreOwned
  <2>6. ASSUME NEW t \in Terminals
        PROVE  /\ own[curr_pcb'[t]] = t
               /\ \/ num_progs'[t] = dep[curr_pcb'[t]] + (IF t = 0 THEN 1 ELSE 0)
                  \/ num_progs'[t] = 0 /\ curr_pcb'[t] = t /\ t \notin {0, curr_terminal'}
    <3>1. CASE t = c
      <4>1. curr_pcb'[t] = s /\ num_progs'[t] = num_progs[c] + 1
        BY <1>1, <1>5, <3>1 DEF TypeOK
      <4>2. owner[p] = c /\ num_progs[c] = depth[p] + (IF c = 0 THEN 1 ELSE 0)
        BY <1>3, <2>1 DEF ProgramsAreOwned
      <4>. QED
        BY <1>2, <1>3, <2>4, <3>1, <4>1, <4>2
    <3>2. CASE t # c
      <4>1. curr_pcb'[t] = curr_pcb[t] /\ num_progs'[t] = num_progs[t]
        BY <1>1, <1>5, <3>2 DEF TypeOK
      <4>2. curr_pcb[t] \in Taken
        BY <1>1 DEF ChainsAreDisjoint
      <4>. QED
        BY <1>5, <2>1, <2>3, <4>1, <4>2 DEF ProgramsAreOwned
    <3>. QED
      BY <3>1, <3>2
  <2>7. ProgramsAreOwned(own, dep)'
    BY <2>5, <2>6 DEF ProgramsAreOwned
  <2>. QED
    BY <2>2, <2>7 DEF Ownership
<1>16. UnvisitedHoldShells'
  BY <1>1, <1>3, <1>2, <1>5, TerminalsAreSlots DEF UnvisitedHoldShells, TypeOK
<1>. QED
  BY <1>16, <1>7, <1>9, <1>10, <1>11, <1>12, <1>13, <1>14, <1>15 DEF IndInv

-----------------------------------------------------------------------------
(* The first shell, executed by the boot code: slot 0 is the first free.   *)
LEMMA BootIndInv ==
    ASSUME IndInv, Boot
    PROVE  IndInv'
<1>1. Init /\ TypeOK /\ HaltReturnsToParent /\ PagesHoldTheirPrograms
      /\ UnvisitedHoldShells
  BY DEF IndInv, Boot, Booted
<1>2. 0 \in Slots /\ 0 \in Terminals /\ Terminals \subseteq Slots /\ Slots \subseteq Nat
      /\ NULL \notin Slots /\ Terminals \subseteq Nat
  BY SizesAssumption, NamesAssumption DEF Terminals, Slots
<1>3. FirstFree(pcb_track) = 0
  <2>1. 0 \in FreeSlots(pcb_track)
    BY <1>1, <1>2 DEF Init, FreeSlots, Reserved
  <2>2. FirstFree(pcb_track) \in Nat /\ FirstFree(pcb_track) <= 0
    BY <1>2, <2>1, FirstFreeIsFree DEF FreeSlots
  <2>. QED
    BY <2>2
<1>4. /\ pcb_track' = [pcb_track EXCEPT ![0] = TRUE]
      /\ parent_ptr' = [parent_ptr EXCEPT ![0] = NULL]
      /\ name' = [name EXCEPT ![0] = Shell]
      /\ curr_pcb' = [curr_pcb EXCEPT ![0] = 0]
      /\ save_frame' = [save_frame EXCEPT ![0] = NULL]
      /\ num_progs' = [num_progs EXCEPT ![0] = @ + 1]
      /\ cr3' = 0
      /\ user_page' = [user_page EXCEPT ![0] = 0]
      /\ esp0' = 0
      /\ image' = [image EXCEPT ![0] = Fresh(Shell)]
      /\ cpu' = [proc |-> 0, mode |-> "user"]
      /\ user_if' = [user_if EXCEPT ![0] = TRUE]
      /\ result' = None
      /\ UNCHANGED <<curr_terminal, save_prog_regs>>
  BY <1>1, <1>2, <1>3 DEF Boot, Load, FrameIndex, Init
<1>5. Taken' = Terminals
  BY <1>1, <1>2, <1>4 DEF Taken, Init, Reserved
<1>6. TypeOK'
  BY <1>1, <1>2, <1>4, NamesAssumption DEF TypeOK, Images, Fresh, Modes, Results
<1>7. Booted'
  BY <1>1, <1>4 DEF Booted, Init
<1>8. HaltReturnsToParent'
  BY <1>1, <1>2, <1>4 DEF HaltReturnsToParent, Init
<1>9. PagesHoldTheirPrograms'
  BY <1>1, <1>2, <1>4 DEF PagesHoldTheirPrograms, TypeOK, Fresh
<1>10. RunsFrontProgram'
  BY <1>1, <1>2, <1>4 DEF RunsFrontProgram, FrontPcb, Init
<1>11. SavedContextIsOfFrontProgram'
  BY <1>1, <1>2, <1>4 DEF SavedContextIsOfFrontProgram, Init
<1>12. \A t \in Terminals :
         curr_pcb'[t] = t /\ parent_ptr'[t] = NULL /\ t # NULL
         /\ num_progs'[t] = IF t = 0 THEN 2 ELSE 0
  BY <1>1, <1>2, <1>4 DEF Init
<1>13. ChainsAreDisjoint'
  BY <1>2, <1>5, <1>12 DEF ChainsAreDisjoint
<1>14. Ownership'
  <2>1. PICK owner, depth :
          /\ owner = [r \in Slots |-> IF r \in Terminals THEN r ELSE 0]
          /\ depth = [r \in Slots |-> 1]
    OBVIOUS
  <2>2. owner \in [Slots -> Terminals] /\ depth \in [Slots -> Nat \ {0}]
    BY <1>2, <2>1
  <2>3. \A t \in Terminals : owner[t] = t /\ depth[t] = 1
    BY <1>2, <2>1
  <2>4. curr_terminal' = 0
    BY <1>1, <1>4 DEF Init
  <2>5. ProgramsAreOwned(owner, depth)'
    BY <1>2, <1>5, <1>12, <2>3, <2>4 DEF ProgramsAreOwned
  <2>. QED
    BY <2>2, <2>5 DEF Ownership
<1>15. UnvisitedHoldShells'
  BY <1>1, <1>2, <1>4, <1>12 DEF UnvisitedHoldShells, TypeOK, Init
<1>. QED
  BY <1>15, <1>6, <1>7, <1>8, <1>9, <1>10, <1>11, <1>13, <1>14 DEF IndInv

-----------------------------------------------------------------------------
(* A halt that gives way to the parent.                                    *)
LEMMA HaltToParentIndInv ==
    ASSUME IndInv, NEW status, HaltToParent(status)
    PROVE  IndInv'
<1>. DEFINE c == curr_terminal
            s == curr_pcb[c]
            p == parent_ptr[s]
<1>1. /\ TypeOK /\ HaltReturnsToParent /\ PagesHoldTheirPrograms
      /\ UnvisitedHoldShells
      /\ cpu.mode = "user" /\ Booted /\ p # NULL
      /\ RunsFrontProgram /\ SavedContextIsOfFrontProgram
      /\ ChainsAreDisjoint /\ Ownership
  BY DEF IndInv, HaltToParent, HasParent, Booted
<1>2. /\ c \in Terminals /\ s \in Slots /\ s \in Taken /\ s \notin Terminals
      /\ p \in Slots /\ p \in Taken /\ p # s
  BY <1>1 DEF TypeOK, ChainsAreDisjoint, Taken
<1>3. save_frame[s] = p
  BY <1>1, <1>2 DEF HaltReturnsToParent, Taken
<1>4. /\ pcb_track' = [pcb_track EXCEPT ![s] = FALSE]
      /\ curr_pcb' = [curr_pcb EXCEPT ![c] = p]
      /\ num_progs' = [num_progs EXCEPT ![c] = @ - 1]
      /\ cr3' = p
      /\ esp0' = p
      /\ cpu' = [proc |-> p, mode |-> "user"]
      /\ result' = 0
      /\ UNCHANGED <<curr_terminal, parent_ptr, name, save_frame, user_page,
                     image, save_prog_regs, user_if>>
  BY <1>3 DEF HaltToParent, FreeSlot, CountDown
<1>5. Taken' = Taken \ {s}
  BY <1>1, <1>2, <1>4 DEF Taken, TypeOK
<1>6. num_progs[c] - 1 \in Nat \ {0}
  <2>1. PICK owner \in [Slots -> Terminals], depth \in [Slots -> Nat \ {0}] :
          ProgramsAreOwned(owner, depth)
    BY <1>1 DEF Ownership
  <2>2. depth[s] = depth[p] + 1 /\ depth[p] \in Nat \ {0}
    BY <1>2, <2>1 DEF ProgramsAreOwned
  <2>3. num_progs[c] = depth[s] + (IF c = 0 THEN 1 ELSE 0)
    BY <1>2, <2>1 DEF ProgramsAreOwned
  <2>. QED
    BY <2>2, <2>3
<1>7. TypeOK'
  BY <1>1, <1>2, <1>4, <1>6 DEF TypeOK, Modes, Results
<1>8. Booted'
  BY <1>1, <1>4 DEF Booted
<1>9. HaltReturnsToParent' /\ PagesHoldTheirPrograms'
  BY <1>1, <1>2, <1>4 DEF HaltReturnsToParent, PagesHoldTheirPrograms, TypeOK
<1>10. RunsFrontProgram'
  BY <1>1, <1>2, <1>4 DEF RunsFrontProgram, FrontPcb, TypeOK
<1>11. SavedContextIsOfFrontProgram'
  BY <1>1, <1>2, <1>4 DEF SavedContextIsOfFrontProgram, TypeOK
<1>12. \A t \in Terminals :
         /\ curr_pcb'[t] = IF t = c THEN p ELSE curr_pcb[t]
         /\ num_progs'[t] = IF t = c THEN num_progs[c] - 1 ELSE num_progs[t]
  BY <1>1, <1>4 DEF TypeOK
<1>13. ChainsAreDisjoint'
  <2>1. \A r \in Taken : parent_ptr[r] # s
    BY <1>1, <1>2 DEF ChainsAreDisjoint
  <2>2. \A r \in Taken : r # s => parent_ptr[r] # p
    BY <1>1, <1>2 DEF ChainsAreDisjoint
  <2>3. Terminals \subseteq Taken' /\ \A t \in Terminals : curr_pcb'[t] \in Taken'
    <3>1. \A t \in Terminals : t # c => curr_pcb[t] # s
      BY <1>1, <1>2 DEF Ownership, ProgramsAreOwned
    <3>. QED
      BY <1>1, <1>2, <1>5, <1>12, <3>1 DEF ChainsAreDisjoint
  <2>4. \A r \in Taken' :
         /\ parent_ptr'[r] \in Taken' \cup {NULL}
         /\ parent_ptr'[r] = NULL <=> r \in Terminals
         /\ \A q \in Taken' : parent_ptr'[q] = parent_ptr'[r] => q = r \/ r \in Terminals
    BY <1>1, <1>4, <1>5, <2>1 DEF ChainsAreDisjoint
  <2>5. \A r \in Taken' : \A t \in Terminals : parent_ptr'[r] # curr_pcb'[t]
    BY <1>1, <1>4, <1>5, <1>12, <2>2 DEF ChainsAreDisjoint
  <2>. QED
    BY <2>3, <2>4, <2>5 DEF ChainsAreDisjoint
<1>14. Ownership'
  <2>1. PICK owner \in [Slots -> Terminals], depth \in [Slots -> Nat \ {0}] :
          ProgramsAreOwned(owner, depth)
    BY <1>1 DEF Ownership
  <2>2. owner[p] = c /\ depth[s] = depth[p] + 1
    BY <1>2, <2>1 DEF ProgramsAreOwned
  <2>3. num_progs[c] - 1 = depth[p] + (IF c = 0 THEN 1 ELSE 0)
    <3>1. num_progs[c] = depth[s] + (IF c = 0 THEN 1 ELSE 0)
      BY <1>2, <2>1 DEF ProgramsAreOwned
    <3>. QED
      BY <1>2, <2>2, <3>1
  <2>4. ProgramsAreOwned(owner, depth)'
    BY <1>2, <1>4, <1>5, <1>12, <2>1, <2>2, <2>3 DEF ProgramsAreOwned
  <2>. QED
    BY <2>4 DEF Ownership
<1>15. UnvisitedHoldShells'
  BY <1>1, <1>4, <1>12, <1>6 DEF UnvisitedHoldShells
<1>. QED
  BY <1>15, <1>7, <1>8, <1>9, <1>10, <1>11, <1>13, <1>14 DEF IndInv

-----------------------------------------------------------------------------
(* The relaunch of a first shell: all first shells but the one that halted *)
(* have their slots, so the first free slot is its own.                    *)
LEMMA RelaunchTakesItsSlot ==
    ASSUME TypeOK, ChainsAreDisjoint, parent_ptr[FrontPcb] = NULL
    PROVE  /\ FrontPcb \in Slots /\ FrontPcb \in Terminals /\ pcb_track[FrontPcb]
           /\ FirstFree([pcb_track EXCEPT ![FrontPcb] = FALSE]) = FrontPcb
<1>. DEFINE s == FrontPcb
            track == [pcb_track EXCEPT ![s] = FALSE]
<1>1. s \in Slots /\ s \in Taken /\ s \in Terminals /\ pcb_track[s]
  BY DEF TypeOK, ChainsAreDisjoint, Taken, FrontPcb
<1>2. s \in FreeSlots(track)
  BY <1>1 DEF FreeSlots, TypeOK
<1>3. \A r \in FreeSlots(track) : r = s \/ (r \in Slots /\ r \notin Terminals)
  BY <1>1 DEF FreeSlots, TypeOK, ChainsAreDisjoint, Taken
<1>4. \A r \in Slots : r \notin Terminals => s < r
  BY <1>1, SizesAssumption DEF Slots, Terminals
<1>5. FirstFree(track) \in FreeSlots(track) /\ FirstFree(track) <= s
  BY <1>2, FirstFreeIsFree
<1>6. FirstFree(track) = s \/ s < FirstFree(track)
  BY <1>3, <1>4, <1>5
<1>7. s \in Int /\ FirstFree(track) \in Int
  BY <1>1, <1>5, SizesAssumption DEF Slots, FreeSlots
<1>. QED
  BY <1>1, <1>5, <1>6, <1>7

(* What follows from it: the process table is as before.                   *)
LEMMA HaltBaseShellIndInv ==
    ASSUME IndInv, NEW status, HaltBaseShell(status)
    PROVE  IndInv'
<1>. DEFINE c == curr_terminal
            s == curr_pcb[c]
            track == [pcb_track EXCEPT ![s] = FALSE]
<1>1. /\ TypeOK /\ HaltReturnsToParent /\ PagesHoldTheirPrograms
      /\ UnvisitedHoldShells
      /\ cpu.mode = "user" /\ Booted /\ parent_ptr[s] = NULL
      /\ RunsFrontProgram /\ SavedContextIsOfFrontProgram
      /\ ChainsAreDisjoint /\ Ownership
  BY DEF IndInv, HaltBaseShell, HasParent, Booted
<1>2. c \in Terminals /\ s \in Slots /\ s \in Taken /\ s \in Terminals /\ pcb_track[s]
  BY <1>1 DEF TypeOK, ChainsAreDisjoint, Taken
<1>3. FirstFree(track) = s
  BY <1>1, RelaunchTakesItsSlot DEF FrontPcb
<1>4. /\ pcb_track' = [track EXCEPT ![s] = TRUE]
      /\ parent_ptr' = [parent_ptr EXCEPT ![s] = NULL]
      /\ name' = [name EXCEPT ![s] = Shell]
      /\ curr_pcb' = [curr_pcb EXCEPT ![c] = s]
      /\ save_frame' = [save_frame EXCEPT ![s] = save_frame[s]]
      /\ num_progs' = [[num_progs EXCEPT ![c] = @ - 1] EXCEPT ![c] = @ + 1]
      /\ cr3' = s
      /\ user_page' = [user_page EXCEPT ![s] = s]
      /\ esp0' = s
      /\ image' = [image EXCEPT ![s] = Fresh(Shell)]
      /\ cpu' = [proc |-> s, mode |-> "user"]
      /\ user_if' = [user_if EXCEPT ![s] = TRUE]
      /\ result' = None
      /\ UNCHANGED <<curr_terminal, save_prog_regs>>
  BY <1>3 DEF HaltBaseShell, Load, FrameIndex, FreeSlot, CountDown
<1>5. /\ pcb_track' = pcb_track /\ parent_ptr' = parent_ptr /\ curr_pcb' = curr_pcb
      /\ save_frame' = save_frame /\ user_page' = user_page /\ num_progs' = num_progs
      /\ Taken' = Taken
  <2>1. user_page[s] = s /\ parent_ptr[s] = NULL /\ pcb_track[s] = TRUE
    BY <1>1, <1>2 DEF PagesHoldTheirPrograms, TypeOK
  <2>2. num_progs[c] \in Int
    BY <1>1, <1>2 DEF TypeOK
  <2>3. num_progs' = num_progs
    BY <1>1, <1>2, <1>4, <2>2 DEF TypeOK
  <2>. QED
    BY <1>1, <1>2, <1>4, <2>1, <2>3 DEF TypeOK, Taken
<1>6. TypeOK'
  BY <1>1, <1>2, <1>4, <1>5, NamesAssumption DEF TypeOK, Images, Fresh, Modes, Results
<1>7. Booted'
  BY <1>1, <1>4 DEF Booted
<1>8. HaltReturnsToParent'
  BY <1>1, <1>5 DEF HaltReturnsToParent
<1>9. PagesHoldTheirPrograms'
  BY <1>1, <1>2, <1>4, <1>5 DEF PagesHoldTheirPrograms, TypeOK, Fresh
<1>10. RunsFrontProgram'
  BY <1>1, <1>4, <1>5 DEF RunsFrontProgram, FrontPcb
<1>11. SavedContextIsOfFrontProgram'
  BY <1>1, <1>4, <1>5 DEF SavedContextIsOfFrontProgram
<1>12. ChainsAreDisjoint'
  BY <1>1, <1>5 DEF ChainsAreDisjoint
<1>13. Ownership'
  BY <1>1, <1>4, <1>5 DEF Ownership, ProgramsAreOwned
<1>14. UnvisitedHoldShells'
  BY <1>1, <1>2, <1>4, <1>5, TerminalsAreSlots DEF UnvisitedHoldShells, TypeOK
<1>. QED
  BY <1>14, <1>6, <1>7, <1>8, <1>9, <1>10, <1>11, <1>12, <1>13 DEF IndInv

-----------------------------------------------------------------------------
(* The steps that leave the process table as it is.                        *)
LEMMA InPlaceIndInv ==
    ASSUME IndInv,
           ExecuteNotProgram \/ ExecuteTableFull \/ ReadBlock \/ ReadReturn \/ Store
    PROVE  IndInv'
<1>1. /\ TypeOK /\ HaltReturnsToParent /\ PagesHoldTheirPrograms
      /\ UnvisitedHoldShells
      /\ Booted /\ RunsFrontProgram /\ SavedContextIsOfFrontProgram
      /\ ChainsAreDisjoint /\ Ownership
  BY DEF IndInv, Booted, ExecuteNotProgram, ExecuteTableFull, ReadBlock, ReadReturn, Store
<1>2. /\ UNCHANGED <<curr_terminal, procVars, user_page, cr3, esp0, save_prog_regs,
                     user_if>>
      /\ cpu'.proc = cpu.proc /\ cpu'.mode \in {"user", "read"}
      /\ cpu' \in [proc : Slots \cup {NULL}, mode : Modes]
      /\ result' \in Results
  BY <1>1 DEF ExecuteNotProgram, ExecuteTableFull, ReadBlock, ReadReturn, Store,
              procVars, pageVars, Results, TypeOK, Modes
<1>3. image' \in [Slots -> Images] /\ \A s \in Slots : image'[s].file = image[s].file
  <2>1. CASE image' = image
    BY <1>1, <2>1 DEF TypeOK
  <2>2. CASE Store
    <3>1. user_page[cr3] \in Slots
      BY <1>1 DEF RunsFrontProgram, FrontPcb, ChainsAreDisjoint, Taken,
                  PagesHoldTheirPrograms, TypeOK
    <3>2. \A f \in Images : /\ [f EXCEPT !.stored = TRUE] \in Images
                            /\ [f EXCEPT !.stored = TRUE].file = f.file
      BY DEF Images
    <3>3. image' = [image EXCEPT ![user_page[cr3]] =
                      [image[user_page[cr3]] EXCEPT !.stored = TRUE]]
      BY <2>2 DEF Store
    <3>. QED
      BY <1>1, <3>1, <3>2, <3>3 DEF TypeOK
  <2>. QED
    BY <2>1, <2>2 DEF ExecuteNotProgram, ExecuteTableFull, ReadBlock, ReadReturn, pageVars
<1>4. TypeOK'
  BY <1>1, <1>2, <1>3 DEF TypeOK, procVars
<1>5. Booted' /\ Taken' = Taken
  BY <1>1, <1>2 DEF Booted, procVars, Taken
<1>6. HaltReturnsToParent' /\ PagesHoldTheirPrograms'
  BY <1>1, <1>2, <1>3 DEF HaltReturnsToParent, PagesHoldTheirPrograms, procVars
<1>7. RunsFrontProgram' /\ SavedContextIsOfFrontProgram'
  BY <1>1, <1>2 DEF RunsFrontProgram, FrontPcb, Booted, SavedContextIsOfFrontProgram, procVars
<1>8. ChainsAreDisjoint' /\ Ownership'
  BY <1>1, <1>2, <1>5 DEF ChainsAreDisjoint, Ownership, ProgramsAreOwned, procVars
<1>9. UnvisitedHoldShells'
  BY <1>1, <1>2 DEF UnvisitedHoldShells, procVars
<1>. QED
  BY <1>9, <1>4, <1>5, <1>6, <1>7, <1>8 DEF IndInv

-----------------------------------------------------------------------------
(* The first visit of a terminal: its first shell has the slot numbered    *)
(* like the terminal.                                                      *)
LEMMA StartShellIndInv ==
    ASSUME IndInv, NEW t \in Terminals, StartShell(t)
    PROVE  IndInv'
<1>. DEFINE c == curr_terminal
<1>1. /\ TypeOK /\ HaltReturnsToParent /\ PagesHoldTheirPrograms
      /\ UnvisitedHoldShells
      /\ cpu.mode \in {"user", "read"} /\ Booted
      /\ RunsFrontProgram /\ SavedContextIsOfFrontProgram
      /\ ChainsAreDisjoint /\ Ownership
  BY DEF IndInv, StartShell, SwitchTerminal, InterruptsOn, Booted
<1>2. PICK owner \in [Slots -> Terminals], depth \in [Slots -> Nat \ {0}] :
        ProgramsAreOwned(owner, depth)
  BY <1>1 DEF Ownership
<1>3. /\ num_progs[t] = 0 /\ t # c /\ t \in Slots /\ t \in Taken /\ pcb_track[t]
      /\ c \in Terminals
  BY <1>1, TerminalsAreSlots DEF StartShell, SwitchTerminal, ChainsAreDisjoint, Taken, TypeOK
<1>4. curr_pcb[t] = t /\ t # 0 /\ depth[t] = 1
  BY <1>1, <1>2, <1>3 DEF ProgramsAreOwned, ChainsAreDisjoint, Taken
<1>5. /\ esp0' = t
      /\ cr3' = t
      /\ image' = [image EXCEPT ![t] = Fresh(Shell)]
      /\ num_progs' = [num_progs EXCEPT ![t] = 1]
      /\ cpu' = [proc |-> t, mode |-> "user"]
      /\ user_if' = [user_if EXCEPT ![t] = FALSE]
      /\ save_prog_regs' = [save_prog_regs EXCEPT ![c] =
                              [proc |-> curr_pcb[c], mode |-> cpu.mode, stack |-> curr_pcb[c]]]
      /\ curr_terminal' = t /\ result' = None
      /\ UNCHANGED <<curr_pcb, pcb_track, parent_ptr, name, save_frame, user_page>>
  <2>1. user_page[t] = t
    BY <1>1, <1>3 DEF PagesHoldTheirPrograms
  <2>2. cpu.proc = curr_pcb[c] /\ esp0 = curr_pcb[c]
    BY <1>1 DEF RunsFrontProgram, FrontPcb
  <2>3. num_progs' = [num_progs EXCEPT ![t] = 1]
    BY <1>1, <1>3 DEF StartShell, TypeOK
  <2>. QED
    BY <1>4, <2>1, <2>2, <2>3 DEF StartShell, SwitchTerminal, SaveIndex, PageOf
<1>6. Taken' = Taken /\ Booted'
  BY <1>1, <1>5 DEF Taken, Booted
<1>7. TypeOK'
  <2>1. curr_pcb[c] \in Slots
    BY <1>1, <1>3 DEF ChainsAreDisjoint, Taken
  <2>. QED
    BY <1>1, <1>3, <1>5, <2>1, NamesAssumption
    DEF TypeOK, Images, Fresh, Modes, Results, Regs
<1>8. name[t] # Unset => name[t] = Shell
  BY <1>1, <1>3 DEF UnvisitedHoldShells
<1>9. HaltReturnsToParent' /\ PagesHoldTheirPrograms'
  BY <1>1, <1>3, <1>5, <1>8 DEF HaltReturnsToParent, PagesHoldTheirPrograms, TypeOK, Fresh
<1>10. RunsFrontProgram'
  BY <1>4, <1>5 DEF RunsFrontProgram, FrontPcb
<1>11. SavedContextIsOfFrontProgram'
  <2>1. ASSUME NEW u \in Terminals, u # t, num_progs'[u] # 0
        PROVE  /\ save_prog_regs'[u].proc = curr_pcb[u]
               /\ save_prog_regs'[u].stack = curr_pcb[u]
               /\ save_prog_regs'[u].mode # "boot"
    <3>1. CASE u = c
      BY <1>1, <1>3, <1>5, <3>1 DEF TypeOK
    <3>2. CASE u # c
      BY <1>1, <1>3, <1>5, <2>1, <3>2 DEF TypeOK, SavedContextIsOfFrontProgram
    <3>. QED
      BY <3>1, <3>2
  <2>. QED
    BY <1>5, <2>1 DEF SavedContextIsOfFrontProgram
<1>12. ChainsAreDisjoint'
  BY <1>1, <1>5, <1>6 DEF ChainsAreDisjoint
<1>13. Ownership'
  <2>1. num_progs[c] # 0
    <3>1. curr_pcb[c] \in Slots
      BY <1>1, <1>3 DEF ChainsAreDisjoint, Taken
    <3>2. num_progs[c] = depth[curr_pcb[c]] + (IF c = 0 THEN 1 ELSE 0)
      BY <1>2, <1>3 DEF ProgramsAreOwned
    <3>. QED
      BY <3>1, <3>2
  <2>2. \A u \in Terminals :
          \/ num_progs'[u] = depth[curr_pcb[u]] + (IF u = 0 THEN 1 ELSE 0)
          \/ num_progs'[u] = 0 /\ curr_pcb[u] = u /\ u \notin {0, t}
    <3>. TAKE u \in Terminals
    <3>1. CASE u = t
      BY <1>1, <1>4, <1>5, <3>1 DEF TypeOK
    <3>2. CASE u # t
      BY <1>1, <1>2, <1>5, <3>2 DEF TypeOK, ProgramsAreOwned
    <3>. QED
      BY <3>1, <3>2
  <2>3. ProgramsAreOwned(owner, depth)'
    BY <1>2, <1>5, <1>6, <2>2 DEF ProgramsAreOwned
  <2>. QED
    BY <2>3 DEF Ownership
<1>14. UnvisitedHoldShells'
  BY <1>1, <1>5 DEF UnvisitedHoldShells, TypeOK
<1>. QED
  BY <1>6, <1>7, <1>9, <1>10, <1>11, <1>12, <1>13, <1>14 DEF IndInv

-----------------------------------------------------------------------------
(* A later visit: the saved context is that of the front program.          *)
LEMMA ReloadProgramIndInv ==
    ASSUME IndInv, NEW t \in Terminals, ReloadProgram(t)
    PROVE  IndInv'
<1>. DEFINE c == curr_terminal
            s == curr_pcb[t]
<1>1. /\ TypeOK /\ HaltReturnsToParent /\ PagesHoldTheirPrograms
      /\ UnvisitedHoldShells
      /\ cpu.mode \in {"user", "read"} /\ Booted
      /\ RunsFrontProgram /\ SavedContextIsOfFrontProgram
      /\ ChainsAreDisjoint /\ Ownership
  BY DEF IndInv, ReloadProgram, SwitchTerminal, InterruptsOn, Booted
<1>2. /\ num_progs[t] # 0 /\ t # c /\ c \in Terminals
      /\ s \in Slots /\ s \in Taken /\ pcb_track[s] /\ user_page[s] = s
      /\ curr_pcb[c] \in Slots
  BY <1>1 DEF ReloadProgram, SwitchTerminal, ChainsAreDisjoint, Taken, TypeOK,
              PagesHoldTheirPrograms
<1>3. /\ save_prog_regs[t].proc = s /\ save_prog_regs[t].stack = s
      /\ save_prog_regs[t].mode \in {"user", "read"}
  BY <1>1, <1>2 DEF SavedContextIsOfFrontProgram, TypeOK, Regs, Modes
<1>4. PICK page \in Reloads(s) : image' = [image EXCEPT ![s] = page]
  BY <1>2 DEF ReloadProgram, PageOf, TablesOf
<1>5. page \in Images /\ (name[s] # Unset => page.file = name[s])
  <2>1. CASE name[s] # Unset
    <3>1. page = Fresh(name[s]) /\ name[s] \in Executables
      BY <1>1, <1>2, <1>4, <2>1 DEF Reloads, TypeOK
    <3>. QED
      BY <3>1 DEF Fresh, Images
  <2>2. CASE name[s] = Unset
    <3>1. page = image[s] \/ page = [file |-> Scrambled, stored |-> FALSE]
      BY <1>2, <1>4, <2>2 DEF Reloads
    <3>2. image[s] \in Images
      BY <1>1, <1>2 DEF TypeOK
    <3>3. [file |-> Scrambled, stored |-> FALSE] \in Images
      BY DEF Images
    <3>. QED
      BY <2>2, <3>1, <3>2, <3>3
  <2>. QED
    BY <2>1, <2>2
<1>6. /\ esp0' = s
      /\ cr3' = s
      /\ cpu' = [proc |-> s, mode |-> save_prog_regs[t].mode]
      /\ save_prog_regs' = [save_prog_regs EXCEPT ![c] =
                              [proc |-> curr_pcb[c], mode |-> cpu.mode, stack |-> curr_pcb[c]]]
      /\ curr_terminal' = t /\ result' = None
      /\ UNCHANGED <<curr_pcb, pcb_track, parent_ptr, name, save_frame, user_page,
                     num_progs, user_if>>
  <2>1. cpu.proc = curr_pcb[c] /\ esp0 = curr_pcb[c]
    BY <1>1 DEF RunsFrontProgram, FrontPcb
  <2>. QED
    BY <1>3, <2>1 DEF ReloadProgram, SwitchTerminal, SaveIndex, TablesOf
<1>7. Taken' = Taken /\ Booted'
  BY <1>1, <1>3, <1>6 DEF Taken, Booted
<1>8. TypeOK'
  BY <1>1, <1>2, <1>3, <1>4, <1>5, <1>6 DEF TypeOK, Modes, Results, Regs
<1>9. HaltReturnsToParent' /\ PagesHoldTheirPrograms'
  BY <1>1, <1>2, <1>4, <1>5, <1>6 DEF HaltReturnsToParent, PagesHoldTheirPrograms, TypeOK
<1>10. RunsFrontProgram'
  BY <1>6 DEF RunsFrontProgram, FrontPcb
<1>11. SavedContextIsOfFrontProgram'
  <2>1. ASSUME NEW u \in Terminals, u # t, num_progs[u] # 0
        PROVE  /\ save_prog_regs'[u].proc = curr_pcb[u]
               /\ save_prog_regs'[u].stack = curr_pcb[u]
               /\ save_prog_regs'[u].mode # "boot"
    <3>1. CASE u = c
      BY <1>1, <1>2, <1>6, <3>1 DEF TypeOK
    <3>2. CASE u # c
      BY <1>1, <1>2, <1>6, <2>1, <3>2 DEF TypeOK, SavedContextIsOfFrontProgram
    <3>. QED
      BY <3>1, <3>2
  <2>. QED
    BY <1>6, <2>1 DEF SavedContextIsOfFrontProgram
<1>12. ChainsAreDisjoint'
  BY <1>1, <1>6, <1>7 DEF ChainsAreDisjoint
<1>13. Ownership'
  BY <1>1, <1>2, <1>6, <1>7 DEF Ownership, ProgramsAreOwned
<1>14. UnvisitedHoldShells'
  BY <1>1, <1>6 DEF UnvisitedHoldShells
<1>. QED
  BY <1>7, <1>8, <1>9, <1>10, <1>11, <1>12, <1>13, <1>14 DEF IndInv

-----------------------------------------------------------------------------
LEMMA NextIndInv == IndInv /\ [Next]_vars => IndInv'
<1>. SUFFICES ASSUME IndInv, [Next]_vars PROVE IndInv'
  OBVIOUS
<1>1. CASE Boot
  BY <1>1, BootIndInv
<1>2. ASSUME NEW file \in Executables, Execute(file) PROVE IndInv'
  BY <1>2, ExecuteIndInv
<1>3. CASE ExecuteNotProgram \/ ExecuteTableFull \/ ReadBlock \/ ReadReturn \/ Store
  BY <1>3, InPlaceIndInv
<1>4. ASSUME NEW status \in Statuses, Halt(status) PROVE IndInv'
  BY <1>4, HaltToParentIndInv, HaltBaseShellIndInv DEF Halt
<1>5. ASSUME NEW t \in Terminals, StartShell(t) \/ ReloadProgram(t) PROVE IndInv'
  BY <1>5, StartShellIndInv, ReloadProgramIndInv
<1>6. CASE UNCHANGED vars
  <2>1. /\ curr_terminal' = curr_terminal /\ num_progs' = num_progs /\ curr_pcb' = curr_pcb
        /\ pcb_track' = pcb_track /\ parent_ptr' = parent_ptr /\ name' = name
        /\ save_frame' = save_frame /\ user_page' = user_page /\ cr3' = cr3 /\ esp0' = esp0
        /\ image' = image /\ save_prog_regs' = save_prog_regs /\ cpu' = cpu
        /\ user_if' = user_if /\ result' = result
    BY <1>6 DEF vars, procVars, pageVars, cpuVars
  <2>2. TypeOK' = TypeOK /\ Booted' = Booted
    BY <2>1 DEF TypeOK, Booted
  <2>3. HaltReturnsToParent' = HaltReturnsToParent
    BY <2>1 DEF HaltReturnsToParent
  <2>4. PagesHoldTheirPrograms' = PagesHoldTheirPrograms
    BY <2>1 DEF PagesHoldTheirPrograms
  <2>5. UnvisitedHoldShells' = UnvisitedHoldShells
    BY <2>1 DEF UnvisitedHoldShells
  <2>6. Init' = Init
    BY <2>1 DEF Init
  <2>7. RunsFrontProgram' = RunsFrontProgram
    BY <2>1 DEF RunsFrontProgram, Booted, FrontPcb
  <2>8. SavedContextIsOfFrontProgram' = SavedContextIsOfFrontProgram
    BY <2>1 DEF SavedContextIsOfFrontProgram
  <2>9. ChainsAreDisjoint' = ChainsAreDisjoint
    BY <2>1 DEF ChainsAreDisjoint, Taken
  <2>10. Ownership' = Ownership
    BY <2>1 DEF Ownership, ProgramsAreOwned, Taken
  <2>. QED
    BY <2>2, <2>3, <2>4, <2>5, <2>6, <2>7, <2>8, <2>9, <2>10 DEF IndInv
<1>. QED
  BY <1>1, <1>2, <1>3, <1>4, <1>5, <1>6 DEF Next

(* The invariant holds in every state the kernel reaches.                  *)
THEOREM Invariance == Spec => []IndInv
<1>1. Init => IndInv
  BY InitIndInv
<1>2. IndInv /\ [Next]_vars => IndInv'
  BY NextIndInv
<1>. QED
  BY <1>1, <1>2, PTL DEF Spec

-----------------------------------------------------------------------------
(* Every variable keeps its type.                                          *)
THEOREM TypeCorrect == Spec => []TypeOK
<1>1. IndInv => TypeOK
  BY DEF IndInv
<1>. QED
  BY <1>1, Invariance, PTL

(* The processor always has the registers, the pages and the kernel stack  *)
(* of the program in front of the terminal on the screen.                  *)
THEOREM OneProgramRuns == Spec => []RunsFrontProgram
<1>1. IndInv => RunsFrontProgram
  BY DEF IndInv, RunsFrontProgram
<1>. QED
  BY <1>1, Invariance, PTL

(* A visited terminal can always be reloaded with its front program.       *)
THEOREM SavedContexts == Spec => []SavedContextIsOfFrontProgram
<1>1. IndInv => SavedContextIsOfFrontProgram
  <2>. SUFFICES ASSUME IndInv PROVE SavedContextIsOfFrontProgram
    OBVIOUS
  <2>1. CASE Booted
    BY <2>1 DEF IndInv
  <2>2. CASE ~Booted
    BY <2>2 DEF IndInv, Init, SavedContextIsOfFrontProgram
  <2>. QED
    BY <2>1, <2>2
<1>. QED
  BY <1>1, Invariance, PTL

(* A halt always returns into the execute call of the parent.              *)
THEOREM HaltsReturn == Spec => []HaltReturnsToParent
<1>1. IndInv => HaltReturnsToParent
  BY DEF IndInv
<1>. QED
  BY <1>1, Invariance, PTL

(* Programs have pages of their own, holding the files they were loaded    *)
(* from.                                                                   *)
THEOREM PagesAreTheirOwn == Spec => []PagesHoldTheirPrograms
<1>1. IndInv => PagesHoldTheirPrograms
  BY DEF IndInv
<1>. QED
  BY <1>1, Invariance, PTL

(* Once booted, no slot is shared between terminals and num_progs is the   *)
(* number of programs of each terminal that has been visited.              *)
THEOREM ChainsAndCounts == Spec => [](Booted => ChainsAreDisjoint /\ Ownership)
<1>1. IndInv => (Booted => ChainsAreDisjoint /\ Ownership)
  BY DEF IndInv
<1>. QED
  BY <1>1, Invariance, PTL

(* A step touches the memory and the pcb of no program it does not run.    *)
THEOREM NothingElseChanges == Spec => OthersUntouched
<1>. DEFINE A ==
       /\ \A s \in Slots : image'[s] # image[s] => s \in {FrontPcb, FrontPcb'}
       /\ \A s \in Slots :
            \/ <<pcb_track'[s], parent_ptr'[s], name'[s], save_frame'[s]>> =
               <<pcb_track[s], parent_ptr[s], name[s], save_frame[s]>>
            \/ s = FrontPcb
            \/ s = FrontPcb' /\ ~pcb_track[s]
       /\ \A t \in Terminals \ {curr_terminal, curr_terminal'} :
            /\ curr_pcb'[t] = curr_pcb[t]
            /\ num_progs'[t] = num_progs[t]
            /\ save_prog_regs'[t] = save_prog_regs[t]
<1>1. IndInv /\ [Next]_vars => [A]_vars
  <2>. SUFFICES ASSUME IndInv, Next PROVE A
    BY DEF vars
  <2>1. TypeOK /\ (Booted => FrontPcb \in Slots /\ cr3 = FrontPcb)
    BY DEF IndInv, ChainsAreDisjoint, Taken, FrontPcb, TypeOK, RunsFrontProgram
  <2>2. \A s \in Slots : pcb_track[s] => user_page[s] = s
    BY DEF IndInv, PagesHoldTheirPrograms
  <2>3. ASSUME NEW file \in Executables, NEW track \in [Slots -> BOOLEAN], NEW front,
               NEW counts, NEW frame,
               Load(file, track, front, counts, frame),
               FreeSlots(track) # {},
               counts \in [Terminals -> Int],
               \A t \in Terminals : t # curr_terminal => counts[t] = num_progs[t],
               \A s \in Slots : track[s] = pcb_track[s] \/ s = FrontPcb,
               UNCHANGED <<curr_terminal, save_prog_regs>>
        PROVE  A
    <3>. DEFINE n == FirstFree(track)
    <3>1. n \in Slots /\ ~track[n]
      BY <2>3, FirstFreeIsFree DEF FreeSlots
    <3>2. FrontPcb' = n
      BY <2>1, <2>3 DEF Load, FrontPcb, TypeOK
    <3>3. \A s \in Slots : image'[s] # image[s] => s \in {FrontPcb, FrontPcb'}
      BY <2>1, <2>3, <3>1, <3>2 DEF Load, FrameIndex, TypeOK
    <3>4. \A s \in Slots :
            \/ <<pcb_track'[s], parent_ptr'[s], name'[s], save_frame'[s]>> =
               <<pcb_track[s], parent_ptr[s], name[s], save_frame[s]>>
            \/ s = FrontPcb
            \/ s = FrontPcb' /\ ~pcb_track[s]
      <4>. TAKE s \in Slots
      <4>1. CASE s = n
        BY <2>3, <3>1, <3>2, <4>1
      <4>2. CASE s # n
        <5>1. /\ pcb_track'[s] = track[s] /\ parent_ptr'[s] = parent_ptr[s]
              /\ name'[s] = name[s] /\ save_frame'[s] = save_frame[s]
          BY <2>1, <2>3, <4>2 DEF Load, FrameIndex, TypeOK
        <5>. QED
          BY <2>3, <5>1
      <4>. QED
        BY <4>1, <4>2
    <3>5. \A t \in Terminals \ {curr_terminal, curr_terminal'} :
            /\ curr_pcb'[t] = curr_pcb[t]
            /\ num_progs'[t] = num_progs[t]
            /\ save_prog_regs'[t] = save_prog_regs[t]
      BY <2>1, <2>3 DEF Load, FrameIndex, TypeOK
    <3>. QED
      BY <3>3, <3>4, <3>5
  <2>4. CASE Boot
    <3>1. FreeSlots(pcb_track) # {}
      BY <2>4, TerminalsAreSlots DEF IndInv, Boot, Booted, Init, FreeSlots, Reserved
    <3>. QED
      BY <2>1, <2>3, <2>4, <3>1, NamesAssumption DEF Boot, TypeOK
  <2>5. ASSUME NEW file \in Executables, Execute(file) PROVE A
    BY <2>1, <2>3, <2>5 DEF Execute, TypeOK
  <2>6. ASSUME NEW status, HaltBaseShell(status) PROVE A
    <3>. DEFINE track == [pcb_track EXCEPT ![FrontPcb] = FALSE]
                counts == [num_progs EXCEPT ![curr_terminal] = @ - 1]
    <3>1. FrontPcb \in Slots
      BY <2>1, <2>6 DEF HaltBaseShell, Booted
    <3>2. track \in [Slots -> BOOLEAN] /\ FreeSlots(track) # {}
      BY <2>1, <3>1 DEF TypeOK, FreeSlots
    <3>3. /\ counts \in [Terminals -> Int]
          /\ \A t \in Terminals : t # curr_terminal => counts[t] = num_progs[t]
          /\ \A s \in Slots : track[s] = pcb_track[s] \/ s = FrontPcb
      <4>1. num_progs \in [Terminals -> Int] /\ num_progs[curr_terminal] - 1 \in Int
        BY <2>1 DEF TypeOK
      <4>2. counts \in [Terminals -> Int]
        BY <4>1
      <4>3. \A t \in Terminals : t # curr_terminal => counts[t] = num_progs[t]
        BY <4>1
      <4>4. \A s \in Slots : track[s] = pcb_track[s] \/ s = FrontPcb
        BY <2>1 DEF TypeOK
      <4>. QED
        BY <4>2, <4>3, <4>4
    <3>4. Load(Shell, track, NULL, counts, save_frame[FrontPcb])
      BY <2>6 DEF HaltBaseShell, FrontPcb, FreeSlot, CountDown
    <3>5. UNCHANGED <<curr_terminal, save_prog_regs>>
      BY <2>6 DEF HaltBaseShell
    <3>. HIDE DEF track, counts
    <3>. QED
      BY <2>3, <3>2, <3>3, <3>4, <3>5, NamesAssumption
  <2>7. ASSUME NEW status, HaltToParent(status) PROVE A
    BY <2>1, <2>7 DEF HaltToParent, FreeSlot, CountDown, TypeOK, FrontPcb
  <2>8. CASE ExecuteNotProgram \/ ExecuteTableFull \/ ReadBlock \/ ReadReturn
    BY <2>8 DEF ExecuteNotProgram, ExecuteTableFull, ReadBlock, ReadReturn, procVars, pageVars
  <2>9. CASE Store
    <3>1. user_page[cr3] = FrontPcb
      BY <2>1, <2>2, <2>9 DEF Store, Booted, IndInv, ChainsAreDisjoint, Taken, FrontPcb, TypeOK
    <3>. QED
      BY <2>1, <2>9, <3>1 DEF Store, procVars, TypeOK
  <2>10. ASSUME NEW t \in Terminals, StartShell(t) PROVE A
    <3>1. user_page[t] = t /\ curr_pcb[t] = t
      BY <2>2, <2>10, TerminalsAreSlots
      DEF StartShell, SwitchTerminal, InterruptsOn, IndInv, Booted, ChainsAreDisjoint, Taken,
          Ownership, ProgramsAreOwned
    <3>2. FrontPcb' = t
      BY <2>10, <3>1 DEF StartShell, SwitchTerminal, FrontPcb
    <3>3. /\ image' = [image EXCEPT ![t] = Fresh(Shell)]
          /\ curr_terminal' = t
          /\ num_progs' = [num_progs EXCEPT ![t] = @ + 1]
          /\ \E r : save_prog_regs' = [save_prog_regs EXCEPT ![curr_terminal] = r]
          /\ UNCHANGED <<curr_pcb, pcb_track, parent_ptr, name, save_frame>>
      BY <2>10, <3>1 DEF StartShell, SwitchTerminal, SaveIndex, PageOf
    <3>. QED
      BY <2>1, <3>2, <3>3 DEF TypeOK
  <2>11. ASSUME NEW t \in Terminals, ReloadProgram(t) PROVE A
    <3>1. user_page[curr_pcb[t]] = curr_pcb[t]
      BY <2>2, <2>11
      DEF ReloadProgram, SwitchTerminal, InterruptsOn, IndInv, Booted, ChainsAreDisjoint, Taken
    <3>2. FrontPcb' = curr_pcb[t]
      BY <2>11 DEF ReloadProgram, SwitchTerminal, FrontPcb
    <3>3. /\ \E page : image' = [image EXCEPT ![curr_pcb[t]] = page]
          /\ curr_terminal' = t
          /\ \E r : save_prog_regs' = [save_prog_regs EXCEPT ![curr_terminal] = r]
          /\ UNCHANGED <<curr_pcb, num_progs, pcb_track, parent_ptr, name, save_frame>>
      BY <2>11, <3>1 DEF ReloadProgram, SwitchTerminal, SaveIndex, PageOf, TablesOf
    <3>. QED
      BY <2>1, <3>2, <3>3 DEF TypeOK
  <2>. QED
    BY <2>4, <2>5, <2>6, <2>7, <2>8, <2>9, <2>10, <2>11 DEF Next, Halt
<1>. QED
  BY <1>1, Invariance, PTL DEF Spec, OthersUntouched

-----------------------------------------------------------------------------
(* The chain of parents that a pcb begins.                                 *)

Pcbs == Slots \cup {NULL}

(* Chain unfolds as it is written: there is such a function.               *)
LEMMA ChainUnfolds ==
    ASSUME parent_ptr \in [Slots -> Pcbs]
    PROVE  /\ \A p \in Pcbs : Chain[0][p] = <<>>
           /\ \A n \in 1 .. MAX_PROGS : \A p \in Pcbs :
                Chain[n][p] = IF p = NULL THEN <<>>
                                          ELSE Append(Chain[n - 1][parent_ptr[p]], p)
<1>. DEFINE T    == [Pcbs -> Seq(Slots)]
            zero == [p \in Pcbs |-> <<>>]
            step == [n \in 1 .. MAX_PROGS |-> [g \in T |->
                        [p \in Pcbs |-> IF p = NULL THEN <<>>
                                        ELSE Append(g[parent_ptr[p]], p)]]]
            IsChain(f) == f = [n \in 0 .. MAX_PROGS |->
                                 IF n = 0 THEN zero
                                 ELSE [p \in Pcbs |-> IF p = NULL THEN <<>>
                                         ELSE Append(f[n - 1][parent_ptr[p]], p)]]
<1>1. MAX_PROGS \in Nat
  BY SizesAssumption
<1>2. zero \in T
  OBVIOUS
<1>3. step \in [1 .. MAX_PROGS -> [T -> T]]
  <2>. SUFFICES ASSUME NEW g \in T
                PROVE  [p \in Pcbs |-> IF p = NULL THEN <<>>
                                       ELSE Append(g[parent_ptr[p]], p)] \in T
    OBVIOUS
  <2>1. ASSUME NEW p \in Pcbs, p # NULL PROVE Append(g[parent_ptr[p]], p) \in Seq(Slots)
    <3>1. p \in Slots /\ g[parent_ptr[p]] \in Seq(Slots)
      BY <2>1 DEF Pcbs
    <3>. QED
      BY <3>1, AppendProperties
  <2>. QED
    BY <2>1
<1>. HIDE DEF zero, T
<1>4. PICK f \in [0 .. MAX_PROGS -> T] :
        /\ f[0] = zero
        /\ \A n \in 1 .. MAX_PROGS : f[n] = step[n][f[n - 1]]
  <2>. HIDE DEF step
  <2>1. Recursion(MAX_PROGS, T, zero, step)
    BY <1>1, <1>2, <1>3, RecursionOn
  <2>. QED
    BY <2>1 DEF Recursion
<1>5. \A n \in 1 .. MAX_PROGS :
        step[n][f[n - 1]] = [p \in Pcbs |-> IF p = NULL THEN <<>>
                                         ELSE Append(f[n - 1][parent_ptr[p]], p)]
  <2>. TAKE n \in 1 .. MAX_PROGS
  <2>1. f[n - 1] \in T
    BY <1>1
  <2>. QED
    BY <2>1
<1>6. IsChain(f)
  <2>. HIDE DEF step
  <2>1. ASSUME NEW n \in 0 .. MAX_PROGS
        PROVE  f[n] = IF n = 0 THEN zero
                      ELSE [p \in Pcbs |-> IF p = NULL THEN <<>>
                              ELSE Append(f[n - 1][parent_ptr[p]], p)]
    <3>1. CASE n = 0
      BY <1>4, <3>1
    <3>2. CASE n # 0
      <4>1. n \in 1 .. MAX_PROGS
        BY <3>2
      <4>. QED
        BY <1>4, <1>5, <3>2, <4>1
    <3>. QED
      BY <3>1, <3>2
  <2>. QED
    BY <2>1
<1>7. IsChain(Chain)
  <2>. HIDE DEF IsChain
  <2>1. \E g : IsChain(g)
    BY <1>6
  <2>2. Chain = CHOOSE g : IsChain(g)
    BY DEF Chain, IsChain, zero, Pcbs
  <2>. QED
    BY <2>1, <2>2
<1>8. Chain[0] = zero
  BY <1>1, <1>7, 0 \in 0 .. MAX_PROGS
<1>9. \A n \in 1 .. MAX_PROGS :
        Chain[n] = [p \in Pcbs |-> IF p = NULL THEN <<>>
                                   ELSE Append(Chain[n - 1][parent_ptr[p]], p)]
  <2>. TAKE n \in 1 .. MAX_PROGS
  <2>1. n \in 0 .. MAX_PROGS /\ n # 0
    BY <1>1
  <2>. QED
    BY <1>7, <2>1
<1>10. \A p \in Pcbs : Chain[0][p] = <<>>
  BY <1>8 DEF zero
<1>11. ASSUME NEW n \in 1 .. MAX_PROGS, NEW p \in Pcbs
       PROVE  Chain[n][p] = IF p = NULL THEN <<>>
                                        ELSE Append(Chain[n - 1][parent_ptr[p]], p)
  BY <1>9
<1>. QED
  BY <1>10, <1>11

(* The programs of stk are pcbs that wait for one another, the first of    *)
(* each terminal in its own slot and the last in front of it; no slot is   *)
(* in two places, and the slots in stk are those that are taken.           *)
StacksHold(stk) ==
    /\ stk \in [Terminals -> Seq(Slots)]
    /\ \A t \in Terminals :
         /\ Len(stk[t]) >= 1
         /\ stk[t][1] = t /\ parent_ptr[t] = NULL
         /\ stk[t][Len(stk[t])] = curr_pcb[t]
         /\ \A k \in 2 .. Len(stk[t]) : parent_ptr[stk[t][k]] = stk[t][k - 1]
    /\ \A t, u \in Terminals :
         \A k \in 1 .. Len(stk[t]), l \in 1 .. Len(stk[u]) :
            stk[t][k] = stk[u][l] => t = u /\ k = l
    /\ \A s \in Slots :
         pcb_track[s] <=> \E t \in Terminals : \E k \in 1 .. Len(stk[t]) : stk[t][k] = s

(* num_progs counts the programs of stk, but is 0 where nothing has run.   *)
StacksCounted(stk) ==
    \A t \in Terminals :
        \/ num_progs[t] = Len(stk[t]) + (IF t = 0 THEN 1 ELSE 0)
        \/ /\ num_progs[t] = 0 /\ Len(stk[t]) = 1
           /\ t \notin {0, curr_terminal}
           /\ save_prog_regs[t] = ZeroRegs

(* Followed upwards, each program of stk leads through all that lie below  *)
(* it, so the chains that the properties speak of are these stacks.        *)
LEMMA ChainsAreStacks ==
    ASSUME TypeOK, NEW stk, StacksHold(stk), NEW t \in Terminals
    PROVE  /\ Cardinality(ToSet(stk[t])) = Len(stk[t])
           /\ ChainOf(t) = stk[t]
<1>. DEFINE q == stk[t]
            n == Len(q)
<1>1. /\ q \in Seq(Slots) /\ n \in Nat /\ n >= 1
      /\ \A k \in 1 .. n : q[k] \in Slots
      /\ q[1] = t /\ parent_ptr[t] = NULL /\ q[n] = curr_pcb[t]
      /\ \A k \in 2 .. n : parent_ptr[q[k]] = q[k - 1]
      /\ \A k, l \in 1 .. n : q[k] = q[l] => k = l
  <2>1. q \in Seq(Slots)
    BY DEF StacksHold
  <2>2. n \in Nat /\ \A k \in 1 .. n : q[k] \in Slots
    BY <2>1, LenProperties, ElementOfSeq
  <2>. QED
    BY <2>1, <2>2 DEF StacksHold
<1>. HIDE DEF q
<1>2. MAX_PROGS \in Nat /\ IsFiniteSet(Slots) /\ Cardinality(Slots) = MAX_PROGS
  <2>1. MAX_PROGS \in Nat
    BY SizesAssumption
  <2>2. 0 \in Int /\ MAX_PROGS - 1 \in Int
    BY <2>1
  <2>3. IsFiniteSet(Slots) /\ Cardinality(Slots) = IF 0 > MAX_PROGS - 1 THEN 0 ELSE MAX_PROGS - 1 - 0 + 1
    BY <2>2, FS_Interval DEF Slots
  <2>. QED
    BY <2>1, <2>3
<1>3. Cardinality(ToSet(q)) = n /\ n <= MAX_PROGS
  BY <1>1, <1>2, DistinctElements
<1>4. /\ \A p \in Pcbs : Chain[0][p] = <<>>
      /\ \A m \in 1 .. MAX_PROGS : \A p \in Pcbs :
           Chain[m][p] = IF p = NULL THEN <<>> ELSE Append(Chain[m - 1][parent_ptr[p]], p)
  BY ChainUnfolds DEF TypeOK, Pcbs
<1>5. \A m \in 0 .. MAX_PROGS : Chain[m][NULL] = <<>>
  BY <1>2, <1>4 DEF Pcbs
<1>6. \A k \in 1 .. n : q[k] \in Pcbs /\ q[k] # NULL
  BY <1>1, <1>2, NamesAssumption DEF Pcbs, Slots
<1>7. ASSUME NEW k \in 1 .. n
      PROVE  Append(SubSeq(q, 1, k - 1), q[k]) = SubSeq(q, 1, k)
  <2>1. q \in Seq(Slots)
    BY <1>1
  <2>. QED
    BY <2>1, PrefixGrows
<1>. DEFINE Follows(k) == \A m \in k .. MAX_PROGS : Chain[m][q[k]] = SubSeq(q, 1, k)
<1>8. Follows(1)
  <2>1. 1 \in 1 .. n /\ SubSeq(q, 1, 0) = <<>>
    BY <1>1, SubSeqEmpty
  <2>2. Append(<<>>, q[1]) = SubSeq(q, 1, 1)
    <3>1. Append(SubSeq(q, 1, 1 - 1), q[1]) = SubSeq(q, 1, 1)
      BY <1>7, <2>1
    <3>. QED
      BY <2>1, <3>1
  <2>3. ASSUME NEW m \in 1 .. MAX_PROGS PROVE Chain[m][q[1]] = Append(<<>>, q[1])
    <3>1. Chain[m][q[1]] = Append(Chain[m - 1][parent_ptr[q[1]]], q[1])
      BY <1>4, <1>6, <2>1
    <3>2. Chain[m - 1][parent_ptr[q[1]]] = <<>>
      BY <1>1, <1>2, <1>5
    <3>. QED
      BY <3>1, <3>2
  <2>. QED
    BY <2>2, <2>3
<1>9. ASSUME NEW k \in 2 .. n, Follows(k - 1) PROVE Follows(k)
  <2>1. k \in 1 .. n /\ k - 1 \in 1 .. n
    BY <1>1
  <2>. SUFFICES ASSUME NEW m \in k .. MAX_PROGS PROVE Chain[m][q[k]] = SubSeq(q, 1, k)
    OBVIOUS
  <2>2. m \in 1 .. MAX_PROGS /\ m - 1 \in k - 1 .. MAX_PROGS
    BY <1>1, <1>2
  <2>3. Chain[m][q[k]] = Append(Chain[m - 1][parent_ptr[q[k]]], q[k])
    BY <1>4, <1>6, <2>1, <2>2
  <2>4. Chain[m - 1][parent_ptr[q[k]]] = SubSeq(q, 1, k - 1)
    BY <1>1, <1>9, <2>2
  <2>5. Append(SubSeq(q, 1, k - 1), q[k]) = SubSeq(q, 1, k)
    BY <1>7, <2>1
  <2>. QED
    BY <2>3, <2>4, <2>5
<1>10. \A k \in 1 .. n : Follows(k)
  <2>. DEFINE B == {k \in Nat : k \in 1 .. n /\ ~ Follows(k)}
  <2>. SUFFICES ASSUME B # {} PROVE FALSE
    BY <1>1
  <2>1. PICK k \in B : \A j \in B : k <= j
    BY LeastNumber
  <2>. HIDE DEF Follows
  <2>2. k \in 1 .. n /\ ~ Follows(k) /\ k # 1
    BY <1>8, <2>1
  <2>3. k \in 2 .. n /\ k - 1 \in 1 .. n /\ k - 1 \notin B
    BY <1>1, <2>1, <2>2
  <2>4. Follows(k - 1)
    BY <1>1, <2>3
  <2>. QED
    BY <1>9, <2>2, <2>3, <2>4
<1>11. Chain[MAX_PROGS][q[n]] = SubSeq(q, 1, n)
  <2>1. n \in 1 .. n /\ MAX_PROGS \in n .. MAX_PROGS
    BY <1>1, <1>2, <1>3
  <2>. QED
    BY <1>10, <2>1
<1>12. SubSeq(q, 1, n) = q
  BY <1>1, SubSeqFull
<1>. QED
  BY <1>1, <1>3, <1>11, <1>12 DEF ChainOf, q

(* The same with the types that follow.                                    *)
LEMMA StackFacts ==
    ASSUME NEW stk, StacksHold(stk)
    PROVE  /\ stk \in [Terminals -> Seq(Slots)]
           /\ \A t \in Terminals :
                /\ stk[t] \in Seq(Slots) /\ Len(stk[t]) \in Nat /\ Len(stk[t]) >= 1
                /\ stk[t][1] = t /\ parent_ptr[t] = NULL
                /\ \A k \in 1 .. Len(stk[t]) : stk[t][k] \in Slots
                /\ \A k \in 2 .. Len(stk[t]) : parent_ptr[stk[t][k]] = stk[t][k - 1]
           /\ \A t, u \in Terminals :
                \A k \in 1 .. Len(stk[t]), l \in 1 .. Len(stk[u]) :
                   stk[t][k] = stk[u][l] => t = u /\ k = l
           /\ \A s \in Slots :
                pcb_track[s] <=> \E t \in Terminals : \E k \in 1 .. Len(stk[t]) : stk[t][k] = s
<1>1. \A t \in Terminals : stk[t] \in Seq(Slots)
  BY DEF StacksHold
<1>2. \A t \in Terminals :
        Len(stk[t]) \in Nat /\ \A k \in 1 .. Len(stk[t]) : stk[t][k] \in Slots
  BY <1>1, LenProperties, ElementOfSeq
<1>. QED
  BY <1>1, <1>2 DEF StacksHold

(* What the properties say of the chains holds of stacks.                  *)
LEMMA StacksAddUp ==
    ASSUME TypeOK, NEW stk, StacksHold(stk), StacksCounted(stk)
    PROVE  ProcessTableAddsUp
<1>1. /\ stk \in [Terminals -> Seq(Slots)]
      /\ \A t \in Terminals :
           /\ stk[t] \in Seq(Slots) /\ Len(stk[t]) \in Nat /\ Len(stk[t]) >= 1
           /\ stk[t][1] = t /\ parent_ptr[t] = NULL
           /\ \A k \in 1 .. Len(stk[t]) : stk[t][k] \in Slots
           /\ \A k \in 2 .. Len(stk[t]) : parent_ptr[stk[t][k]] = stk[t][k - 1]
      /\ \A t, u \in Terminals :
           \A k \in 1 .. Len(stk[t]), l \in 1 .. Len(stk[u]) :
              stk[t][k] = stk[u][l] => t = u /\ k = l
      /\ \A s \in Slots :
           pcb_track[s] <=> \E t \in Terminals : \E k \in 1 .. Len(stk[t]) : stk[t][k] = s
  BY StackFacts
<1>2. \A t \in Terminals : \A x :
        x \in ProgramsOf(t) <=> \E k \in 1 .. Len(stk[t]) : stk[t][k] = x
  <2>. TAKE t \in Terminals
  <2>1. ProgramsOf(t) = ToSet(stk[t]) /\ stk[t] \in Seq(Slots)
    BY <1>1, ChainsAreStacks DEF ProgramsOf
  <2>. QED
    BY <2>1, ElementsOf
<1>3. \A t \in Terminals : 1 \in 1 .. Len(stk[t]) /\ t \in ProgramsOf(t)
  BY <1>1, <1>2
<1>4. TerminalsPartitionSlots
  <2>1. \A x : x \in Taken <=> \E t \in Terminals : x \in ProgramsOf(t)
    BY <1>1, <1>2 DEF Taken
  <2>2. \A t, u \in Terminals : t # u => ProgramsOf(t) \cap ProgramsOf(u) = {}
    BY <1>1, <1>2
  <2>. QED
    BY <2>1, <2>2 DEF TerminalsPartitionSlots
<1>5. NumProgsCountsPrograms
  <2>1. ASSUME NEW t \in Terminals
        PROVE  IF num_progs[t] = 0
                 THEN /\ ProgramsOf(t) = {t}
                      /\ save_prog_regs[t] = ZeroRegs
                      /\ t # curr_terminal
                 ELSE num_progs[t] = Cardinality(ProgramsOf(t)) + (IF t = 0 THEN 1 ELSE 0)
    <3>1. /\ Len(stk[t]) \in Nat /\ Len(stk[t]) >= 1
          /\ Cardinality(ProgramsOf(t)) = Len(stk[t])
      BY <1>1, ChainsAreStacks DEF ProgramsOf
    <3>2. CASE num_progs[t] = Len(stk[t]) + (IF t = 0 THEN 1 ELSE 0)
      <4>1. num_progs[t] # 0
        <5>. DEFINE n == Len(stk[t])
        <5>1. n \in Nat /\ n >= 1 /\ num_progs[t] = n + (IF t = 0 THEN 1 ELSE 0)
          BY <3>1, <3>2
        <5>. HIDE DEF n
        <5>. QED
          BY <5>1
      <4>. QED
        BY <3>1, <3>2, <4>1
    <3>3. CASE /\ num_progs[t] = 0 /\ Len(stk[t]) = 1
               /\ t \notin {0, curr_terminal}
               /\ save_prog_regs[t] = ZeroRegs
      <4>1. \A x : x \in ProgramsOf(t) <=> x = t
        BY <1>1, <1>2, <3>3
      <4>. QED
        BY <3>3, <4>1
    <3>. QED
      BY <3>2, <3>3 DEF StacksCounted
  <2>. QED
    BY <2>1 DEF NumProgsCountsPrograms
<1>6. FirstShellsKeepTheirSlots
  <2>1. ASSUME NEW s \in Taken PROVE parent_ptr[s] = NULL <=> s \in Terminals
    <3>1. PICK t, k : t \in Terminals /\ k \in 1 .. Len(stk[t]) /\ stk[t][k] = s
      <4>1. s \in Slots /\ pcb_track[s]
        BY <2>1 DEF Taken
      <4>2. \A r \in Slots :
              pcb_track[r] <=> \E t \in Terminals : \E k \in 1 .. Len(stk[t]) : stk[t][k] = r
        BY <1>1
      <4>. QED
        BY <4>1, <4>2
    <3>2. CASE k = 1
      BY <1>1, <3>1, <3>2
    <3>3. CASE k # 1
      <4>1. k \in 2 .. Len(stk[t]) /\ k - 1 \in 1 .. Len(stk[t])
        BY <1>1, <3>1, <3>3
      <4>2. parent_ptr[s] \in Slots
        BY <1>1, <3>1, <4>1
      <4>3. s \notin Terminals
        <5>. SUFFICES ASSUME s \in Terminals PROVE FALSE
          OBVIOUS
        <5>1. stk[s][1] = stk[t][k] /\ 1 \in 1 .. Len(stk[s])
          BY <1>1, <1>3, <3>1
        <5>. QED
          BY <1>1, <3>1, <3>3, <5>1
      <4>4. NULL \notin Slots
        BY SizesAssumption, NamesAssumption DEF Slots
      <4>. QED
        BY <4>2, <4>3, <4>4
    <3>. QED
      BY <3>2, <3>3
  <2>. QED
    BY <1>3, <2>1 DEF FirstShellsKeepTheirSlots
<1>. QED
  BY <1>4, <1>5, <1>6 DEF ProcessTableAddsUp

-----------------------------------------------------------------------------
(* What the steps do to the process table, once there are programs.        *)

Pushed(s) ==
    /\ s \in Slots /\ ~pcb_track[s]
    /\ pcb_track' = [pcb_track EXCEPT ![s] = TRUE]
    /\ parent_ptr' = [parent_ptr EXCEPT ![s] = FrontPcb]
    /\ curr_pcb' = [curr_pcb EXCEPT ![curr_terminal] = s]
    /\ num_progs' = [num_progs EXCEPT ![curr_terminal] = @ + 1]
    /\ UNCHANGED <<curr_terminal, save_prog_regs>>

Popped ==
    /\ parent_ptr[FrontPcb] # NULL
    /\ pcb_track' = [pcb_track EXCEPT ![FrontPcb] = FALSE]
    /\ curr_pcb' = [curr_pcb EXCEPT ![curr_terminal] = parent_ptr[FrontPcb]]
    /\ num_progs' = [num_progs EXCEPT ![curr_terminal] = @ - 1]
    /\ UNCHANGED <<curr_terminal, parent_ptr, save_prog_regs>>

Shown(t) ==
    /\ t \in Terminals /\ t # curr_terminal /\ curr_terminal' = t
    /\ num_progs' = IF num_progs[t] = 0 THEN [num_progs EXCEPT ![t] = 1] ELSE num_progs
    /\ \E regs : save_prog_regs' = [save_prog_regs EXCEPT ![curr_terminal] = regs]
    /\ UNCHANGED <<curr_pcb, pcb_track, parent_ptr>>

Kept ==
    UNCHANGED <<curr_terminal, num_progs, curr_pcb, pcb_track, parent_ptr, save_prog_regs>>

(* Every step is one of these.                                             *)
LEMMA StepsOfTheTable ==
    ASSUME IndInv, Booted, Next
    PROVE  /\ Booted'
           /\ (\E s : Pushed(s)) \/ Popped \/ (\E t : Shown(t)) \/ Kept
<1>1. /\ TypeOK /\ ChainsAreDisjoint /\ FrontPcb \in Slots /\ curr_terminal \in Terminals
      /\ SavedContextIsOfFrontProgram
  BY DEF IndInv, ChainsAreDisjoint, Taken, FrontPcb, TypeOK
<1>2. ASSUME NEW file \in Executables, Execute(file)
      PROVE  Booted' /\ Pushed(FirstFree(pcb_track))
  <2>1. FirstFree(pcb_track) \in FreeSlots(pcb_track)
    BY <1>2, FirstFreeIsFree DEF Execute
  <2>2. Booted'
    BY <1>2 DEF Execute, Load, Booted
  <2>. QED
    BY <1>2, <2>1, <2>2 DEF Execute, Load, Pushed, FreeSlots, FrontPcb
<1>3. ASSUME NEW status, HaltToParent(status)
      PROVE  Booted' /\ Popped
  BY <1>3 DEF HaltToParent, HasParent, FreeSlot, CountDown, Booted, Popped, FrontPcb
<1>4. ASSUME NEW status, HaltBaseShell(status)
      PROVE  Booted' /\ Kept
  <2>. DEFINE s == FrontPcb
  <2>1. parent_ptr[s] = NULL
    BY <1>4 DEF HaltBaseShell, HasParent, FrontPcb
  <2>2. /\ s \in Terminals /\ pcb_track[s]
        /\ FirstFree([pcb_track EXCEPT ![s] = FALSE]) = s
    BY <1>1, <2>1, RelaunchTakesItsSlot
  <2>3. /\ pcb_track' = [[pcb_track EXCEPT ![s] = FALSE] EXCEPT ![s] = TRUE]
        /\ parent_ptr' = [parent_ptr EXCEPT ![s] = NULL]
        /\ curr_pcb' = [curr_pcb EXCEPT ![curr_terminal] = s]
        /\ num_progs' = [[num_progs EXCEPT ![curr_terminal] = @ - 1]
                           EXCEPT ![curr_terminal] = @ + 1]
        /\ Booted'
        /\ UNCHANGED <<curr_terminal, save_prog_regs>>
    BY <1>4, <2>2 DEF HaltBaseShell, Load, FreeSlot, CountDown, FrontPcb, Booted
  <2>4. pcb_track' = pcb_track /\ parent_ptr' = parent_ptr /\ curr_pcb' = curr_pcb
    BY <1>1, <2>1, <2>2, <2>3 DEF TypeOK, FrontPcb
  <2>5. num_progs' = num_progs
    <3>1. num_progs[curr_terminal] \in Int
      BY <1>1 DEF TypeOK
    <3>. QED
      BY <1>1, <2>3, <3>1 DEF TypeOK
  <2>. QED
    BY <2>3, <2>4, <2>5 DEF Kept
<1>5. CASE ExecuteNotProgram \/ ExecuteTableFull \/ ReadBlock \/ ReadReturn \/ Store
  <2>1. Kept
    BY <1>5 DEF ExecuteNotProgram, ExecuteTableFull, ReadBlock, ReadReturn, Store,
                procVars, Kept
  <2>2. Booted'
    BY <1>1, <1>5 DEF ExecuteNotProgram, ExecuteTableFull, ReadBlock, ReadReturn, Store,
                Booted, TypeOK
  <2>. QED
    BY <2>1, <2>2
<1>6. ASSUME NEW t \in Terminals, StartShell(t)
      PROVE  Booted' /\ Shown(t)
  <2>1. num_progs[t] = 0 /\ num_progs' = [num_progs EXCEPT ![t] = 1]
    BY <1>1, <1>6 DEF StartShell, TypeOK
  <2>2. Booted'
    BY <1>6 DEF StartShell, Booted
  <2>3. /\ t # curr_terminal /\ curr_terminal' = t
        /\ \E regs : save_prog_regs' = [save_prog_regs EXCEPT ![curr_terminal] = regs]
        /\ UNCHANGED <<curr_pcb, pcb_track, parent_ptr>>
    BY <1>6 DEF StartShell, SwitchTerminal, SaveIndex
  <2>. QED
    BY <2>1, <2>2, <2>3 DEF Shown
<1>7. ASSUME NEW t \in Terminals, ReloadProgram(t)
      PROVE  Booted' /\ Shown(t)
  <2>1. /\ num_progs[t] # 0 /\ num_progs' = num_progs
        /\ t # curr_terminal /\ curr_terminal' = t
        /\ \E regs : save_prog_regs' = [save_prog_regs EXCEPT ![curr_terminal] = regs]
        /\ UNCHANGED <<curr_pcb, pcb_track, parent_ptr>>
    BY <1>7 DEF ReloadProgram, SwitchTerminal, SaveIndex
  <2>2. Booted'
    BY <1>1, <1>7, <2>1 DEF ReloadProgram, Booted, SavedContextIsOfFrontProgram
  <2>. QED
    BY <2>1, <2>2 DEF Shown
<1>8. ~ Boot
  BY DEF Boot, Booted
<1>. QED
  BY <1>2, <1>3, <1>4, <1>5, <1>6, <1>7, <1>8 DEF Next, Halt
-----------------------------------------------------------------------------
(* The stacks after each of these.                                         *)

LEMMA PushedStacks ==
    ASSUME IndInv, Booted, NEW stk, StacksHold(stk), StacksCounted(stk),
           NEW s, Pushed(s),
           NEW new, new = [stk EXCEPT ![curr_terminal] = Append(stk[curr_terminal], s)]
    PROVE  StacksHold(new)' /\ StacksCounted(new)'
<1>. DEFINE c == curr_terminal
            q == stk[c]
            n == Len(q)
<1>1. TypeOK /\ c \in Terminals /\ c' = c /\ s \in Slots /\ ~pcb_track[s]
  BY DEF IndInv, TypeOK, Pushed
<1>2. /\ stk \in [Terminals -> Seq(Slots)]
      /\ \A t \in Terminals :
           /\ stk[t] \in Seq(Slots) /\ Len(stk[t]) \in Nat /\ Len(stk[t]) >= 1
           /\ stk[t][1] = t /\ parent_ptr[t] = NULL
           /\ stk[t][Len(stk[t])] = curr_pcb[t]
           /\ \A k \in 1 .. Len(stk[t]) : stk[t][k] \in Slots
           /\ \A k \in 2 .. Len(stk[t]) : parent_ptr[stk[t][k]] = stk[t][k - 1]
      /\ \A t, u \in Terminals :
           \A k \in 1 .. Len(stk[t]), l \in 1 .. Len(stk[u]) :
              stk[t][k] = stk[u][l] => t = u /\ k = l
      /\ \A r \in Slots :
           pcb_track[r] <=> \E t \in Terminals : \E k \in 1 .. Len(stk[t]) : stk[t][k] = r
  BY StackFacts DEF StacksHold
<1>3. /\ Append(q, s) \in Seq(Slots) /\ n \in Nat /\ n >= 1
      /\ Len(Append(q, s)) = n + 1
      /\ \A k \in 1 .. n : Append(q, s)[k] = q[k]
      /\ Append(q, s)[n + 1] = s
  BY <1>1, <1>2, AppendProperties
<1>4. /\ new \in [Terminals -> Seq(Slots)] /\ new[c] = Append(q, s)
      /\ \A t \in Terminals \ {c} : new[t] = stk[t]
  BY <1>1, <1>2, <1>3
<1>5. \A t \in Terminals : Len(new[t]) = IF t = c THEN Len(stk[t]) + 1 ELSE Len(stk[t])
  BY <1>3, <1>4
<1>6. \A t \in Terminals : \A k \in 1 .. Len(stk[t]) : new[t][k] = stk[t][k]
  BY <1>3, <1>4
<1>7. new[c][n + 1] = s /\ Len(new[c]) = n + 1
  BY <1>3, <1>4
<1>8. \A t \in Terminals : \A k :
        k \in 1 .. Len(new[t]) <=>
            \/ k \in 1 .. Len(stk[t])
            \/ t = c /\ k = n + 1
  BY <1>2, <1>5
<1>9. \A t \in Terminals : \A k \in 1 .. Len(stk[t]) : stk[t][k] # s /\ stk[t][k] \in Slots
  BY <1>1, <1>2
<1>10. /\ \A r \in Slots : pcb_track'[r] <=> pcb_track[r] \/ r = s
       /\ \A r \in Slots : parent_ptr'[r] = IF r = s THEN curr_pcb[c] ELSE parent_ptr[r]
       /\ \A t \in Terminals : curr_pcb'[t] = IF t = c THEN s ELSE curr_pcb[t]
       /\ \A t \in Terminals : num_progs'[t] = IF t = c THEN num_progs[t] + 1 ELSE num_progs[t]
       /\ save_prog_regs' = save_prog_regs
  BY <1>1 DEF Pushed, TypeOK, FrontPcb
<1>11. \A t \in Terminals : t \in Slots /\ t # s /\ 1 \in 1 .. Len(stk[t])
  <2>. TAKE t \in Terminals
  <2>1. 1 \in 1 .. Len(stk[t]) /\ stk[t][1] = t
    BY <1>2
  <2>. QED
    BY <1>9, <2>1
<1>12. ASSUME NEW t \in Terminals
       PROVE  /\ Len(new[t]) >= 1
              /\ new[t][1] = t /\ parent_ptr'[t] = NULL
              /\ new[t][Len(new[t])] = curr_pcb'[t]
              /\ \A k \in 2 .. Len(new[t]) : parent_ptr'[new[t][k]] = new[t][k - 1]
  <2>1. Len(new[t]) >= 1 /\ new[t][1] = t
    BY <1>2, <1>5, <1>6, <1>11
  <2>2. parent_ptr'[t] = NULL
    BY <1>2, <1>10, <1>11
  <2>3. new[t][Len(new[t])] = curr_pcb'[t]
    <3>1. CASE t = c
      BY <1>7, <1>10, <3>1
    <3>2. CASE t # c
      BY <1>2, <1>4, <1>10, <3>2
    <3>. QED
      BY <3>1, <3>2
  <2>4. ASSUME NEW k \in 2 .. Len(new[t]) PROVE parent_ptr'[new[t][k]] = new[t][k - 1]
    <3>1. CASE k \in 1 .. Len(stk[t])
      <4>1. k \in 2 .. Len(stk[t]) /\ k - 1 \in 1 .. Len(stk[t])
        BY <1>2, <2>4, <3>1
      <4>2. new[t][k] = stk[t][k] /\ new[t][k - 1] = stk[t][k - 1]
        BY <1>6, <3>1, <4>1
      <4>3. stk[t][k] # s /\ stk[t][k] \in Slots
        BY <1>9, <3>1
      <4>4. parent_ptr'[stk[t][k]] = parent_ptr[stk[t][k]]
        BY <1>10, <4>3
      <4>5. parent_ptr[stk[t][k]] = stk[t][k - 1]
        BY <1>2, <4>1
      <4>. QED
        BY <4>2, <4>4, <4>5
    <3>2. CASE t = c /\ k = n + 1
      <4>1. new[t][k] = s /\ new[t][k - 1] = q[n]
        <5>1. n \in 1 .. Len(stk[c]) /\ k - 1 = n
          BY <1>3, <3>2
        <5>. QED
          BY <1>1, <1>6, <1>7, <3>2, <5>1
      <4>2. q[n] = curr_pcb[c]
        BY <1>1, <1>2
      <4>. QED
        BY <1>1, <1>10, <4>1, <4>2
    <3>3. k \in 1 .. Len(new[t])
      BY <1>2, <1>5
    <3>. QED
      BY <1>8, <3>1, <3>2, <3>3
  <2>. QED
    BY <2>1, <2>2, <2>3, <2>4
<1>13. \A t, u \in Terminals :
         \A k \in 1 .. Len(new[t]), l \in 1 .. Len(new[u]) :
            new[t][k] = new[u][l] => t = u /\ k = l
  <2>. TAKE t, u \in Terminals
  <2>. TAKE k \in 1 .. Len(new[t]), l \in 1 .. Len(new[u])
  <2>. HAVE new[t][k] = new[u][l]
  <2>1. CASE k \in 1 .. Len(stk[t]) /\ l \in 1 .. Len(stk[u])
    BY <1>2, <1>6, <2>1
  <2>2. CASE t = c /\ k = n + 1 /\ l \in 1 .. Len(stk[u])
    BY <1>6, <1>7, <1>9, <2>2
  <2>3. CASE u = c /\ l = n + 1 /\ k \in 1 .. Len(stk[t])
    BY <1>6, <1>7, <1>9, <2>3
  <2>4. CASE t = c /\ u = c /\ k = n + 1 /\ l = n + 1
    BY <2>4
  <2>. QED
    BY <1>8, <2>1, <2>2, <2>3, <2>4
<1>14. ASSUME NEW r \in Slots
       PROVE  pcb_track'[r] <=> \E t \in Terminals : \E k \in 1 .. Len(new[t]) : new[t][k] = r
  <2>1. ASSUME pcb_track'[r] PROVE \E t \in Terminals : \E k \in 1 .. Len(new[t]) : new[t][k] = r
    <3>1. CASE r = s
      <4>1. n + 1 \in 1 .. Len(new[c])
        BY <1>3, <1>7
      <4>. QED
        BY <1>1, <1>7, <3>1, <4>1
    <3>2. CASE pcb_track[r]
      <4>1. PICK t, k : t \in Terminals /\ k \in 1 .. Len(stk[t]) /\ stk[t][k] = r
        BY <1>2, <3>2
      <4>. QED
        BY <1>6, <1>8, <4>1
    <3>. QED
      BY <1>10, <2>1, <3>1, <3>2
  <2>2. ASSUME NEW t \in Terminals, NEW k \in 1 .. Len(new[t]), new[t][k] = r
        PROVE  pcb_track'[r]
    <3>1. CASE k \in 1 .. Len(stk[t])
      BY <1>2, <1>6, <1>10, <2>2, <3>1
    <3>2. CASE t = c /\ k = n + 1
      BY <1>7, <1>10, <2>2, <3>2
    <3>. QED
      BY <1>8, <3>1, <3>2
  <2>. QED
    BY <2>1, <2>2
<1>15. StacksHold(new)'
  BY <1>4, <1>12, <1>13, <1>14 DEF StacksHold
<1>16. StacksCounted(new)'
  <2>. SUFFICES ASSUME NEW t \in Terminals
                PROVE  \/ num_progs'[t] = Len(new[t]) + (IF t = 0 THEN 1 ELSE 0)
                       \/ /\ num_progs'[t] = 0 /\ Len(new[t]) = 1
                          /\ t \notin {0, c'}
                          /\ save_prog_regs'[t] = ZeroRegs
    BY DEF StacksCounted
  <2>1. CASE t = c
    <3>1. num_progs[t] = n + (IF t = 0 THEN 1 ELSE 0)
      BY <1>1, <2>1 DEF StacksCounted
    <3>2. num_progs'[t] = num_progs[t] + 1 /\ Len(new[t]) = n + 1
      BY <1>7, <1>10, <2>1
    <3>. HIDE DEF n
    <3>3. CASE t = 0
      BY <1>3, <3>1, <3>2, <3>3
    <3>4. CASE t # 0
      BY <1>3, <3>1, <3>2, <3>4
    <3>. QED
      BY <3>3, <3>4
  <2>2. CASE t # c
    BY <1>1, <1>4, <1>10, <2>2 DEF StacksCounted
  <2>. QED
    BY <2>1, <2>2
<1>. QED
  BY <1>15, <1>16
LEMMA PoppedStacks ==
    ASSUME IndInv, Booted, NEW stk, StacksHold(stk), StacksCounted(stk), Popped,
           NEW new, new = [stk EXCEPT ![curr_terminal] = Front(stk[curr_terminal])]
    PROVE  /\ StacksHold(new)' /\ StacksCounted(new)'
           /\ Len(stk[curr_terminal]) > 1
<1>. DEFINE c == curr_terminal
            q == stk[c]
            n == Len(q)
<1>1. TypeOK /\ c \in Terminals /\ c' = c /\ FrontPcb = curr_pcb[c]
  BY DEF IndInv, TypeOK, Popped, FrontPcb
<1>2. /\ stk \in [Terminals -> Seq(Slots)]
      /\ \A t \in Terminals :
           /\ stk[t] \in Seq(Slots) /\ Len(stk[t]) \in Nat /\ Len(stk[t]) >= 1
           /\ stk[t][1] = t /\ parent_ptr[t] = NULL
           /\ stk[t][Len(stk[t])] = curr_pcb[t]
           /\ \A k \in 1 .. Len(stk[t]) : stk[t][k] \in Slots
           /\ \A k \in 2 .. Len(stk[t]) : parent_ptr[stk[t][k]] = stk[t][k - 1]
      /\ \A t, u \in Terminals :
           \A k \in 1 .. Len(stk[t]), l \in 1 .. Len(stk[u]) :
              stk[t][k] = stk[u][l] => t = u /\ k = l
      /\ \A r \in Slots :
           pcb_track[r] <=> \E t \in Terminals : \E k \in 1 .. Len(stk[t]) : stk[t][k] = r
  BY StackFacts DEF StacksHold
<1>3. n \in Nat /\ n > 1 /\ q[n] = FrontPcb /\ q[n - 1] = parent_ptr[FrontPcb]
  <2>1. n \in Nat /\ n >= 1 /\ q[n] = FrontPcb
    BY <1>1, <1>2
  <2>2. n # 1
    BY <1>1, <1>2, <2>1 DEF Popped
  <2>3. n \in 2 .. n
    <3>. HIDE DEF n
    <3>. QED
      BY <2>1, <2>2
  <2>. QED
    BY <1>1, <1>2, <2>1, <2>3
<1>4. /\ Front(q) \in Seq(Slots) /\ Len(Front(q)) = n - 1
      /\ \A k \in 1 .. n - 1 : Front(q)[k] = q[k]
  BY <1>1, <1>2, FrontOf
<1>5. /\ new \in [Terminals -> Seq(Slots)] /\ new[c] = Front(q)
      /\ \A t \in Terminals \ {c} : new[t] = stk[t]
  BY <1>1, <1>2, <1>4
<1>6. \A t \in Terminals : Len(new[t]) = IF t = c THEN n - 1 ELSE Len(stk[t])
  BY <1>4, <1>5
<1>7. \A t \in Terminals : \A k :
        k \in 1 .. Len(stk[t]) <=> k \in 1 .. Len(new[t]) \/ (t = c /\ k = n)
  BY <1>2, <1>3, <1>6
<1>8. \A t \in Terminals : \A k \in 1 .. Len(new[t]) :
        new[t][k] = stk[t][k] /\ k \in 1 .. Len(stk[t]) /\ ~ (t = c /\ k = n)
  <2>. TAKE t \in Terminals
  <2>. TAKE k \in 1 .. Len(new[t])
  <2>1. CASE t = c
    <3>1. k \in 1 .. n - 1
      BY <1>6, <2>1
    <3>2. Front(q)[k] = q[k]
      BY <1>4, <3>1
    <3>3. k \in 1 .. n /\ k # n
      BY <1>3, <3>1
    <3>. QED
      BY <1>5, <2>1, <3>2, <3>3
  <2>2. CASE t # c
    BY <1>5, <2>2
  <2>. QED
    BY <2>1, <2>2
<1>9. /\ \A r \in Slots : pcb_track'[r] <=> pcb_track[r] /\ r # FrontPcb
      /\ parent_ptr' = parent_ptr
      /\ \A t \in Terminals : curr_pcb'[t] = IF t = c THEN q[n - 1] ELSE curr_pcb[t]
      /\ \A t \in Terminals : num_progs'[t] = IF t = c THEN num_progs[t] - 1 ELSE num_progs[t]
      /\ save_prog_regs' = save_prog_regs
  BY <1>1, <1>3 DEF Popped, TypeOK
<1>10. ASSUME NEW t \in Terminals
       PROVE  /\ Len(new[t]) >= 1
              /\ new[t][1] = t /\ parent_ptr'[t] = NULL
              /\ new[t][Len(new[t])] = curr_pcb'[t]
              /\ \A k \in 2 .. Len(new[t]) : parent_ptr'[new[t][k]] = new[t][k - 1]
  <2>1. Len(new[t]) \in Nat /\ Len(new[t]) >= 1
    BY <1>2, <1>3, <1>6
  <2>2. new[t][1] = t /\ parent_ptr'[t] = NULL
    <3>1. 1 \in 1 .. Len(new[t])
      BY <2>1
    <3>. QED
      BY <1>2, <1>8, <1>9, <3>1
  <2>3. new[t][Len(new[t])] = curr_pcb'[t]
    <3>1. CASE t = c
      <4>1. Len(new[t]) = n - 1 /\ n - 1 \in 1 .. Len(new[t])
        BY <1>3, <1>6, <3>1
      <4>2. new[t][n - 1] = q[n - 1]
        BY <1>8, <3>1, <4>1
      <4>. QED
        BY <1>9, <3>1, <4>1, <4>2
    <3>2. CASE t # c
      BY <1>2, <1>5, <1>9, <3>2
    <3>. QED
      BY <3>1, <3>2
  <2>4. ASSUME NEW k \in 2 .. Len(new[t]) PROVE parent_ptr'[new[t][k]] = new[t][k - 1]
    <3>1. k \in 1 .. Len(new[t]) /\ k - 1 \in 1 .. Len(new[t])
      BY <2>1
    <3>2. k \in 2 .. Len(stk[t])
      BY <1>2, <1>8, <3>1
    <3>3. new[t][k] = stk[t][k] /\ new[t][k - 1] = stk[t][k - 1]
      BY <1>8, <3>1
    <3>. QED
      BY <1>2, <1>9, <3>2, <3>3
  <2>. QED
    BY <2>1, <2>2, <2>3, <2>4
<1>11. \A t, u \in Terminals :
         \A k \in 1 .. Len(new[t]), l \in 1 .. Len(new[u]) :
            new[t][k] = new[u][l] => t = u /\ k = l
  BY <1>2, <1>8
<1>12. ASSUME NEW r \in Slots
       PROVE  pcb_track'[r] <=> \E t \in Terminals : \E k \in 1 .. Len(new[t]) : new[t][k] = r
  <2>1. ASSUME pcb_track'[r] PROVE \E t \in Terminals : \E k \in 1 .. Len(new[t]) : new[t][k] = r
    <3>1. pcb_track[r] /\ r # FrontPcb
      BY <1>9, <2>1
    <3>2. PICK t, k : t \in Terminals /\ k \in 1 .. Len(stk[t]) /\ stk[t][k] = r
      <4>1. \A s \in Slots :
              pcb_track[s] <=> \E t \in Terminals : \E k \in 1 .. Len(stk[t]) : stk[t][k] = s
        BY <1>2
      <4>. QED
        BY <3>1, <4>1
    <3>3. ~ (t = c /\ k = n)
      BY <1>3, <3>1, <3>2
    <3>4. k \in 1 .. Len(new[t])
      BY <1>7, <3>2, <3>3
    <3>. QED
      BY <1>8, <3>2, <3>4
  <2>2. ASSUME NEW t \in Terminals, NEW k \in 1 .. Len(new[t]), new[t][k] = r
        PROVE  pcb_track'[r]
    <3>1. stk[t][k] = r /\ k \in 1 .. Len(stk[t]) /\ ~ (t = c /\ k = n)
      BY <1>8, <2>2
    <3>2. pcb_track[r]
      BY <1>2, <3>1
    <3>3. n \in 1 .. Len(stk[c])
      BY <1>3
    <3>4. r # FrontPcb
      BY <1>1, <1>2, <1>3, <3>1, <3>3
    <3>. QED
      BY <1>9, <3>2, <3>4
  <2>. QED
    BY <2>1, <2>2
<1>13. StacksHold(new)'
  BY <1>5, <1>10, <1>11, <1>12 DEF StacksHold
<1>14. StacksCounted(new)'
  <2>. SUFFICES ASSUME NEW t \in Terminals
                PROVE  \/ num_progs'[t] = Len(new[t]) + (IF t = 0 THEN 1 ELSE 0)
                       \/ /\ num_progs'[t] = 0 /\ Len(new[t]) = 1
                          /\ t \notin {0, c'}
                          /\ save_prog_regs'[t] = ZeroRegs
    BY DEF StacksCounted
  <2>1. CASE t = c
    <3>1. num_progs[t] = n + (IF t = 0 THEN 1 ELSE 0)
      BY <1>1, <2>1 DEF StacksCounted
    <3>2. num_progs'[t] = num_progs[t] - 1 /\ Len(new[t]) = n - 1
      BY <1>6, <1>9, <2>1
    <3>. HIDE DEF n
    <3>3. CASE t = 0
      BY <1>3, <3>1, <3>2, <3>3
    <3>4. CASE t # 0
      BY <1>3, <3>1, <3>2, <3>4
    <3>. QED
      BY <3>3, <3>4
  <2>2. CASE t # c
    BY <1>1, <1>5, <1>9, <2>2 DEF StacksCounted
  <2>. QED
    BY <2>1, <2>2
<1>. QED
  BY <1>3, <1>13, <1>14

LEMMA ShownStacks ==
    ASSUME IndInv, Booted, NEW stk, StacksHold(stk), StacksCounted(stk), NEW u, Shown(u)
    PROVE  StacksHold(stk)' /\ StacksCounted(stk)'
<1>. DEFINE c == curr_terminal
<1>1. TypeOK /\ c \in Terminals /\ u \in Terminals /\ u # c /\ c' = u
  BY DEF IndInv, TypeOK, Shown
<1>2. StacksHold(stk)'
  BY DEF StacksHold, Shown
<1>3. /\ \A t \in Terminals : Len(stk[t]) \in Nat
      /\ \A t \in Terminals : t # c => save_prog_regs'[t] = save_prog_regs[t]
      /\ \A t \in Terminals :
           num_progs'[t] = IF t = u /\ num_progs[t] = 0 THEN 1 ELSE num_progs[t]
  BY <1>1, StackFacts DEF Shown, TypeOK
<1>4. ASSUME NEW t \in Terminals
      PROVE  \/ num_progs'[t] = Len(stk[t]) + (IF t = 0 THEN 1 ELSE 0)
             \/ /\ num_progs'[t] = 0 /\ Len(stk[t]) = 1
                /\ t \notin {0, u}
                /\ save_prog_regs'[t] = ZeroRegs
  <2>1. CASE num_progs[t] = Len(stk[t]) + (IF t = 0 THEN 1 ELSE 0) /\ num_progs[t] # 0
    BY <1>3, <2>1
  <2>2. CASE /\ num_progs[t] = 0 /\ Len(stk[t]) = 1 /\ t \notin {0, c}
             /\ save_prog_regs[t] = ZeroRegs
    BY <1>3, <2>2
  <2>3. ASSUME num_progs[t] = Len(stk[t]) + (IF t = 0 THEN 1 ELSE 0) PROVE num_progs[t] # 0
    <3>. DEFINE n == Len(stk[t])
    <3>1. n \in Nat /\ n >= 1 /\ num_progs[t] = n + (IF t = 0 THEN 1 ELSE 0)
      BY <1>3, <2>3, StackFacts
    <3>. HIDE DEF n
    <3>. QED
      BY <3>1
  <2>. QED
    BY <2>1, <2>2, <2>3 DEF StacksCounted
<1>5. StacksCounted(stk)'
  BY <1>1, <1>4 DEF StacksCounted
<1>. QED
  BY <1>2, <1>5

LEMMA KeptStacks ==
    ASSUME NEW stk, StacksHold(stk), StacksCounted(stk), Kept
    PROVE  StacksHold(stk)' /\ StacksCounted(stk)'
BY DEF Kept, StacksHold, StacksCounted

(* The boot code executes the first shell beside those already placed.     *)
LEMMA BootStacks ==
    ASSUME IndInv, Boot, NEW stk, stk = [t \in Terminals |-> <<t>>]
    PROVE  StacksHold(stk)' /\ StacksCounted(stk)' /\ Booted' /\ curr_terminal' = curr_terminal
<1>1. Init /\ TypeOK
  BY DEF IndInv, Boot, Booted
<1>2. 0 \in Slots /\ 0 \in Terminals /\ Terminals \subseteq Slots /\ Slots \subseteq Nat
  BY SizesAssumption, NamesAssumption DEF Terminals, Slots
<1>3. FirstFree(pcb_track) = 0
  <2>1. 0 \in FreeSlots(pcb_track)
    BY <1>1, <1>2 DEF Init, FreeSlots, Reserved
  <2>2. FirstFree(pcb_track) \in Nat /\ FirstFree(pcb_track) <= 0
    BY <1>2, <2>1, FirstFreeIsFree DEF FreeSlots
  <2>. QED
    BY <2>2
<1>4. /\ pcb_track' = [pcb_track EXCEPT ![0] = TRUE]
      /\ parent_ptr' = [parent_ptr EXCEPT ![0] = NULL]
      /\ curr_pcb' = [curr_pcb EXCEPT ![0] = 0]
      /\ num_progs' = [num_progs EXCEPT ![0] = @ + 1]
      /\ Booted'
      /\ UNCHANGED <<curr_terminal, save_prog_regs>>
  BY <1>1, <1>2, <1>3 DEF Boot, Load, Init, Booted
<1>5. /\ curr_terminal' = 0
      /\ \A s \in Slots : pcb_track'[s] <=> s \in Terminals
      /\ \A s \in Slots : parent_ptr'[s] = NULL
      /\ \A t \in Terminals :
           /\ curr_pcb'[t] = t
           /\ num_progs'[t] = IF t = 0 THEN 2 ELSE 0
           /\ save_prog_regs'[t] = ZeroRegs
  <2>1. curr_terminal' = 0 /\ \A t \in Terminals : save_prog_regs'[t] = ZeroRegs
    BY <1>1, <1>4 DEF Init
  <2>2. \A s \in Slots : pcb_track'[s] <=> s \in Terminals
    BY <1>1, <1>2, <1>4 DEF Init, Reserved
  <2>3. \A s \in Slots : parent_ptr'[s] = NULL
    BY <1>1, <1>2, <1>4 DEF Init
  <2>4. \A t \in Terminals : curr_pcb'[t] = t
    BY <1>1, <1>2, <1>4 DEF Init
  <2>5. \A t \in Terminals : num_progs'[t] = IF t = 0 THEN 2 ELSE 0
    BY <1>1, <1>2, <1>4 DEF Init
  <2>. QED
    BY <2>1, <2>2, <2>3, <2>4, <2>5
<1>6. /\ stk \in [Terminals -> Seq(Slots)]
      /\ \A t \in Terminals : Len(stk[t]) = 1 /\ stk[t][1] = t
  BY <1>2
<1>7. StacksHold(stk)'
  <2>1. ASSUME NEW t \in Terminals
        PROVE  /\ Len(stk[t]) >= 1
               /\ stk[t][1] = t /\ parent_ptr'[t] = NULL
               /\ stk[t][Len(stk[t])] = curr_pcb'[t]
               /\ \A k \in 2 .. Len(stk[t]) : parent_ptr'[stk[t][k]] = stk[t][k - 1]
    BY <1>2, <1>5, <1>6
  <2>2. \A t, u \in Terminals : \A k \in 1 .. Len(stk[t]), l \in 1 .. Len(stk[u]) :
           stk[t][k] = stk[u][l] => t = u /\ k = l
    BY <1>6
  <2>3. ASSUME NEW s \in Slots
        PROVE  s \in Terminals <=>
                 \E t \in Terminals : \E k \in 1 .. Len(stk[t]) : stk[t][k] = s
    <3>1. \A t \in Terminals : 1 \in 1 .. Len(stk[t]) /\ 1 .. Len(stk[t]) = {1}
      BY <1>6
    <3>. QED
      BY <1>6, <3>1
  <2>. QED
    BY <1>5, <1>6, <2>1, <2>2, <2>3 DEF StacksHold
<1>8. StacksCounted(stk)'
  BY <1>5, <1>6 DEF StacksCounted
<1>. QED
  BY <1>4, <1>7, <1>8
-----------------------------------------------------------------------------
(* The inductive invariant: there are such stacks, once there are programs. *)
StackInv ==
    /\ IndInv
    /\ Booted => \E stk : StacksHold(stk) /\ StacksCounted(stk)

LEMMA StacksOfAllAre ==
    \A stk : TypeOK /\ StacksHold(stk) => StacksOfAll = stk
<1>. SUFFICES ASSUME TypeOK, NEW stk, StacksHold(stk) PROVE StacksOfAll = stk
  OBVIOUS
<1>1. stk \in [Terminals -> Seq(Slots)]
  BY DEF StacksHold
<1>2. ASSUME NEW t \in Terminals PROVE StackOf(t) = stk[t]
  <2>1. ChainOf(t) = stk[t]
    BY ChainsAreStacks
  <2>2. Len(stk[t]) \in 1 .. Len(stk[t]) /\ stk[t][Len(stk[t])] = curr_pcb[t]
    BY StackFacts DEF StacksHold
  <2>3. curr_pcb[t] \in Slots
    BY <2>2, StackFacts
  <2>4. curr_pcb[t] # NULL
    BY <2>3, SizesAssumption, NamesAssumption DEF Slots
  <2>. QED
    BY <2>1, <2>4 DEF StackOf
<1>. QED
  BY <1>1, <1>2 DEF StacksOfAll

(* Before the boot there is nothing but the places of the first programs.  *)
LEMMA InitialStacks ==
    ASSUME Init
    PROVE  /\ StacksOfAll = [t \in Terminals |-> <<t>>]
           /\ \A t \in Terminals : ProgramsOf(t) = IF t = 0 THEN {} ELSE {t}
<1>1. Terminals \subseteq Slots /\ NULL \notin Slots /\ MAX_PROGS \in Nat /\ MAX_PROGS >= 1
  BY SizesAssumption, NamesAssumption DEF Terminals, Slots
<1>2. /\ \A t \in Terminals : curr_pcb[t] = IF t = 0 THEN NULL ELSE t
      /\ parent_ptr = [s \in Slots |-> NULL]
  BY DEF Init
<1>3. /\ \A p \in Pcbs : Chain[0][p] = <<>>
      /\ \A n \in 1 .. MAX_PROGS : \A p \in Pcbs :
           Chain[n][p] = IF p = NULL THEN <<>> ELSE Append(Chain[n - 1][parent_ptr[p]], p)
  <2>1. parent_ptr \in [Slots -> Pcbs]
    BY <1>2 DEF Pcbs
  <2>. QED
    BY <2>1, ChainUnfolds
<1>4. \A n \in 0 .. MAX_PROGS : Chain[n][NULL] = <<>>
  BY <1>1, <1>3 DEF Pcbs
<1>5. MAX_PROGS \in 1 .. MAX_PROGS /\ MAX_PROGS - 1 \in 0 .. MAX_PROGS
  BY <1>1
<1>6. ASSUME NEW t \in Terminals PROVE ChainOf(t) = IF t = 0 THEN <<>> ELSE <<t>>
  <2>1. CASE t = 0
    BY <1>2, <1>4, <1>5, <2>1 DEF ChainOf
  <2>2. CASE t # 0
    <3>1. curr_pcb[t] = t /\ t \in Pcbs /\ t # NULL /\ parent_ptr[t] = NULL
      BY <1>1, <1>2, <2>2 DEF Pcbs
    <3>2. Chain[MAX_PROGS][t] = Append(Chain[MAX_PROGS - 1][parent_ptr[t]], t)
      BY <1>3, <1>5, <3>1
    <3>3. Chain[MAX_PROGS - 1][parent_ptr[t]] = <<>>
      BY <1>4, <1>5, <3>1
    <3>. QED
      BY <2>2, <3>1, <3>2, <3>3 DEF ChainOf
  <2>. QED
    BY <2>1, <2>2
<1>7. ASSUME NEW t \in Terminals PROVE StackOf(t) = <<t>>
  BY <1>1, <1>2, <1>6 DEF StackOf
<1>8. ASSUME NEW t \in Terminals PROVE ProgramsOf(t) = IF t = 0 THEN {} ELSE {t}
  BY <1>6 DEF ProgramsOf, ToSet
<1>. QED
  BY <1>7, <1>8 DEF StacksOfAll

(* A step keeps it, and is a step of TerminalStacks or leaves the stacks   *)
(* as they are.                                                            *)
LEMMA StepsAreStackSteps ==
    ASSUME StackInv, [Next]_vars
    PROVE  StackInv' /\ [Stacks!Next]_(Stacks!stackVars)
<1>1. IndInv /\ IndInv' /\ TypeOK /\ TypeOK'
  BY NextIndInv DEF StackInv, IndInv
<1>2. (\A stk : TypeOK /\ StacksHold(stk) => StacksOfAll = stk)'
  BY StacksOfAllAre, PTL
<1>3. Booted => RunningProgram = curr_pcb[curr_terminal]
  BY <1>1 DEF IndInv, RunsFrontProgram, FrontPcb, RunningProgram
<1>4. Booted' => RunningProgram' = curr_pcb'[curr_terminal']
  BY <1>1 DEF IndInv, RunsFrontProgram, FrontPcb, RunningProgram
<1>5. ASSUME NEW new, StacksHold(new)' PROVE StacksOfAll' = new
  BY <1>1, <1>2, <1>5
<1>6. CASE Booted /\ Next
  <2>1. PICK stk : StacksHold(stk) /\ StacksCounted(stk)
    BY <1>6 DEF StackInv
  <2>2. StacksOfAll = stk
    BY <1>1, <2>1, StacksOfAllAre
  <2>3. /\ Booted'
        /\ (\E s : Pushed(s)) \/ Popped \/ (\E t : Shown(t)) \/ Kept
    BY <1>1, <1>6, StepsOfTheTable
  <2>4. /\ curr_terminal \in Terminals /\ stk \in [Terminals -> Seq(Slots)]
        /\ \A t \in Terminals : Len(stk[t]) >= 1 /\ stk[t][Len(stk[t])] = curr_pcb[t]
    BY <1>1, <2>1 DEF TypeOK, StacksHold
  <2>5. ASSUME NEW s, Pushed(s)
        PROVE  StackInv' /\ Stacks!Next
    <3>1. PICK new : new = [stk EXCEPT ![curr_terminal] = Append(stk[curr_terminal], s)]
      OBVIOUS
    <3>2. StacksHold(new)' /\ StacksCounted(new)'
      BY <1>1, <1>6, <2>1, <2>5, <3>1, PushedStacks
    <3>3. StacksOfAll' = [StacksOfAll EXCEPT ![curr_terminal] = Append(@, s)]
      BY <1>5, <2>2, <3>1, <3>2
    <3>4. s \in Slots /\ RunningProgram' = s /\ curr_terminal' = curr_terminal
      BY <1>1, <1>4, <2>3, <2>4, <2>5 DEF Pushed, TypeOK
    <3>5. s \notin Stacks!Placed
      <4>1. ASSUME NEW t \in Terminals PROVE s \notin {stk[t][k] : k \in DOMAIN stk[t]}
        <5>1. DOMAIN stk[t] = 1 .. Len(stk[t])
          BY <2>4, LenProperties
        <5>2. \A k \in 1 .. Len(stk[t]) : pcb_track[stk[t][k]]
          BY <2>1, StackFacts
        <5>. QED
          BY <2>5, <5>1, <5>2 DEF Pushed
      <4>. QED
        BY <2>2, <4>1 DEF Stacks!Placed, Stacks!ToSet
    <3>6. Stacks!Push(s)
      BY <3>3, <3>4, <3>5 DEF Stacks!Push
    <3>. QED
      BY <1>1, <3>2, <3>4, <3>6 DEF StackInv, Stacks!Next
  <2>6. CASE Popped
    <3>1. PICK new : new = [stk EXCEPT ![curr_terminal] = Front(stk[curr_terminal])]
      OBVIOUS
    <3>2. /\ StacksHold(new)' /\ StacksCounted(new)'
          /\ Len(stk[curr_terminal]) > 1
      BY <1>1, <1>6, <2>1, <2>6, <3>1, PoppedStacks
    <3>3. StacksOfAll' = [StacksOfAll EXCEPT ![curr_terminal] = Front(@)]
      BY <1>5, <2>2, <3>1, <3>2
    <3>4. curr_terminal' = curr_terminal
      BY <2>6 DEF Popped
    <3>5. RunningProgram' = Last(Front(stk[curr_terminal]))
      <4>1. new[curr_terminal] = Front(stk[curr_terminal])
        BY <2>4, <3>1
      <4>2. curr_pcb'[curr_terminal] = new[curr_terminal][Len(new[curr_terminal])]
        BY <2>4, <3>2 DEF StacksHold
      <4>. QED
        BY <1>4, <2>3, <3>4, <4>1, <4>2 DEF Last
    <3>6. Stacks!Pop
      BY <2>2, <3>2, <3>3, <3>4, <3>5
      DEF Stacks!Pop, Stacks!Front, Stacks!Last, Front, Last
    <3>. QED
      BY <1>1, <3>2, <3>6 DEF StackInv, Stacks!Next
  <2>7. ASSUME NEW t, Shown(t)
        PROVE  StackInv' /\ Stacks!Next
    <3>1. StacksHold(stk)' /\ StacksCounted(stk)'
      BY <1>1, <1>6, <2>1, <2>7, ShownStacks
    <3>2. StacksOfAll' = StacksOfAll
      BY <1>5, <2>2, <3>1
    <3>3. RunningProgram' = stk[t][Len(stk[t])]
      BY <1>4, <2>3, <2>4, <2>7 DEF Shown
    <3>4. Stacks!Show(t)
      BY <2>2, <2>7, <3>2, <3>3 DEF Stacks!Show, Stacks!Last, Shown
    <3>. QED
      BY <1>1, <2>7, <3>1, <3>4 DEF StackInv, Stacks!Next, Shown
  <2>8. CASE Kept
    <3>1. StacksHold(stk)' /\ StacksCounted(stk)'
      BY <2>1, <2>8, KeptStacks
    <3>2. StacksOfAll' = StacksOfAll
      BY <1>5, <2>2, <3>1
    <3>3. RunningProgram' = RunningProgram /\ curr_terminal' = curr_terminal
      BY <1>3, <1>4, <1>6, <2>3, <2>8 DEF Kept
    <3>. QED
      BY <1>1, <3>1, <3>2, <3>3 DEF StackInv, Stacks!stackVars
  <2>. QED
    BY <2>3, <2>5, <2>6, <2>7, <2>8
<1>7. CASE ~Booted /\ Next
  <2>1. Init
    BY <1>1, <1>7 DEF IndInv
  <2>2. CASE Boot
    <3>1. PICK stk : stk = [t \in Terminals |-> <<t>>]
      OBVIOUS
    <3>2. /\ StacksHold(stk)' /\ StacksCounted(stk)'
          /\ Booted' /\ curr_terminal' = curr_terminal
      BY <1>1, <2>2, <3>1, BootStacks
    <3>3. StacksOfAll' = stk
      BY <1>5, <3>2
    <3>4. StacksOfAll = stk
      BY <2>1, <3>1, InitialStacks
    <3>5. RunningProgram = curr_terminal /\ curr_terminal = 0
      BY <1>7, <2>1 DEF RunningProgram, Init
    <3>6. RunningProgram' = 0
      <4>1. 0 \in Terminals
        BY TerminalsAreSlots
      <4>2. \A t \in Terminals : curr_pcb'[t] = t
        BY <3>1, <3>2 DEF StacksHold
      <4>. QED
        BY <1>4, <3>2, <3>5, <4>1, <4>2
    <3>. QED
      BY <1>1, <3>2, <3>3, <3>4, <3>5, <3>6 DEF StackInv, Stacks!stackVars
  <2>3. ~ (Next /\ ~Boot)
    BY <1>7 DEF Next, Execute, ExecuteNotProgram, ExecuteTableFull, Halt, HaltToParent,
       HaltBaseShell, ReadBlock, ReadReturn, Store, StartShell, ReloadProgram,
       SwitchTerminal, InterruptsOn, Booted
  <2>. QED
    BY <1>7, <2>2, <2>3
<1>8. CASE UNCHANGED vars
  <2>1. /\ UNCHANGED <<curr_terminal, num_progs, curr_pcb, pcb_track, parent_ptr,
                       save_prog_regs, cpu>>
    BY <1>8 DEF vars, procVars, pageVars, cpuVars
  <2>2. Booted' = Booted /\ RunningProgram' = RunningProgram
    BY <2>1 DEF Booted, RunningProgram
  <2>3. StacksOfAll' = StacksOfAll
    BY <2>1 DEF StacksOfAll, StackOf, ChainOf, Chain
  <2>4. \A stk : /\ StacksHold(stk)' = StacksHold(stk)
                 /\ StacksCounted(stk)' = StacksCounted(stk)
    BY <2>1 DEF StacksHold, StacksCounted
  <2>5. StackInv'
    BY <1>1, <2>2, <2>4 DEF StackInv
  <2>. QED
    BY <2>1, <2>2, <2>3, <2>5 DEF Stacks!stackVars
<1>. QED
  BY <1>6, <1>7, <1>8
-----------------------------------------------------------------------------
LEMMA StackInvariance == Spec => []StackInv
<1>1. Init => StackInv
  BY InitIndInv DEF StackInv, Init, Booted
<1>2. StackInv /\ [Next]_vars => StackInv'
  BY StepsAreStackSteps
<1>. QED
  BY <1>1, <1>2, PTL DEF Spec

(* The slots marked as taken are the programs of the terminals, no program *)
(* is on two terminals, and num_progs counts them, after any sequence of   *)
(* executes, halts, relaunches and changes of the terminal.                *)
THEOREM ProgramsShareTheTable == Spec => []ProcessTableAddsUp
<1>1. StackInv => ProcessTableAddsUp
  <2>. SUFFICES ASSUME StackInv PROVE ProcessTableAddsUp
    OBVIOUS
  <2>1. CASE Booted
    <3>1. PICK stk : StacksHold(stk) /\ StacksCounted(stk)
      BY <2>1 DEF StackInv
    <3>. QED
      BY <3>1, StacksAddUp DEF StackInv, IndInv
  <2>2. CASE ~Booted
    <3>1. Init
      BY <2>2 DEF StackInv, IndInv
    <3>2. \A t \in Terminals : ProgramsOf(t) = IF t = 0 THEN {} ELSE {t}
      BY <3>1, InitialStacks
    <3>3. \A s : s \in Taken <=> s \in Terminals /\ s # 0
      BY <3>1, TerminalsAreSlots DEF Init, Taken, Reserved
    <3>4. TerminalsPartitionSlots
      <4>1. \A s : s \in Taken <=> \E t \in Terminals : s \in ProgramsOf(t)
        BY <3>2, <3>3
      <4>2. \A t, u \in Terminals : t # u => ProgramsOf(t) \cap ProgramsOf(u) = {}
        BY <3>2
      <4>. QED
        BY <4>1, <4>2 DEF TerminalsPartitionSlots
    <3>. QED
      BY <2>2, <3>4
      DEF ProcessTableAddsUp, NumProgsCountsPrograms, FirstShellsKeepTheirSlots
  <2>. QED
    BY <2>1, <2>2
<1>. QED
  BY <1>1, StackInvariance, PTL

(* The process code implements a stack of programs for every terminal:     *)
(* execute pushes, halt pops and never empties a stack, a relaunch leaves  *)
(* it as it is, and Alt+Fn shows another one and runs its top.             *)
THEOREM ProcessesImplementStacks == Spec => RefinesTerminalStacks
<1>1. Init => Stacks!Init
  BY InitialStacks, TerminalsAreSlots DEF Init, Stacks!Init, RunningProgram, Booted
<1>2. StackInv /\ [Next]_vars => [Stacks!Next]_(Stacks!stackVars)
  BY StepsAreStackSteps
<1>. QED
  BY <1>1, <1>2, StackInvariance, PTL DEF Spec, RefinesTerminalStacks, Stacks!Spec
=============================================================================
