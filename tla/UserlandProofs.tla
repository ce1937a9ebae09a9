--------------------------- MODULE UserlandProofs ---------------------------
(***************************************************************************)
(* The descriptors of the programs, and the programs that use them, for    *)
(* every number of terminals, slots and descriptors and every directory:   *)
(* while programs take turns with their files, descriptors belong to       *)
(* programs there are, and they implement the handles of OpenFiles; the    *)
(* shipped programs take turns if they are typed on one terminal, and then *)
(* get from their files all they should.                                   *)
(***************************************************************************)
EXTENDS Userland, DataLemmas

-----------------------------------------------------------------------------
(* The stacks of programs.                                                 *)

(* No program is in two places, and the one on top of the stack of the     *)
(* terminal on the screen runs.                                            *)
StacksOK ==
    /\ shown \in Terminal
    /\ stack \in [Terminal -> Seq(Slot)]
    /\ \A t \in Terminal : Len(stack[t]) >= 1
    /\ \A t, u \in Terminal :
         \A k \in 1 .. Len(stack[t]), l \in 1 .. Len(stack[u]) :
            stack[t][k] = stack[u][l] => t = u /\ k = l
    /\ running = stack[shown][Len(stack[shown])]

LEMMA PlacedIs ==
    ASSUME NEW stk \in [Terminal -> Seq(Slot)]
    PROVE  \A p : p \in UNION {{stk[t][k] : k \in DOMAIN stk[t]} : t \in Terminal} <=>
                    \E t \in Terminal : \E k \in 1 .. Len(stk[t]) : stk[t][k] = p
<1>1. \A t \in Terminal : DOMAIN stk[t] = 1 .. Len(stk[t])
  BY LenProperties
<1>. QED
  BY <1>1

LEMMA RunningIsPlaced ==
    ASSUME StacksOK
    PROVE  running \in Slot /\ running \in Procs!Placed
<1>1. /\ shown \in Terminal /\ stack[shown] \in Seq(Slot)
      /\ Len(stack[shown]) \in 1 .. Len(stack[shown])
      /\ running = stack[shown][Len(stack[shown])]
  BY LenProperties DEF StacksOK
<1>2. running \in Slot
  BY <1>1, ElementOfSeq
<1>3. stack \in [Terminal -> Seq(Slot)]
  BY DEF StacksOK
<1>. QED
  BY <1>1, <1>2, <1>3, PlacedIs DEF Procs!Placed, Procs!ToSet

LEMMA InitStacks == Procs!Init => StacksOK
BY FirstAssumption DEF Procs!Init, StacksOK

(* A program is pushed onto the stack of the terminal on the screen.       *)
LEMMA PushStacks ==
    ASSUME StacksOK, NEW p \in Slot, Procs!Push(p)
    PROVE  StacksOK' /\ running' = p /\ Procs!Placed' = Procs!Placed \cup {p}
<1>. DEFINE s == stack[shown]
<1>1. /\ shown \in Terminal /\ shown' = shown
      /\ stack \in [Terminal -> Seq(Slot)] /\ s \in Seq(Slot)
      /\ running' = p /\ stack' = [stack EXCEPT ![shown] = Append(s, p)]
  BY DEF StacksOK, Procs!Push
<1>2. /\ Append(s, p) \in Seq(Slot) /\ Len(s) \in Nat
      /\ Len(Append(s, p)) = Len(s) + 1
      /\ \A k \in 1 .. Len(s) : Append(s, p)[k] = s[k]
      /\ Append(s, p)[Len(s) + 1] = p
  BY <1>1, AppendProperties, LenProperties
<1>3. /\ stack' \in [Terminal -> Seq(Slot)] /\ stack'[shown] = Append(s, p)
      /\ \A t \in Terminal \ {shown} : stack'[t] = stack[t]
  BY <1>1, <1>2
<1>4. \A t \in Terminal : Len(stack[t]) \in Nat /\ Len(stack[t]) >= 1
  BY LenProperties DEF StacksOK
<1>5. \A t \in Terminal : \A k \in 1 .. Len(stack[t]) : stack[t][k] # p
  BY <1>1, PlacedIs DEF Procs!Push, Procs!Placed, Procs!ToSet
<1>6. \A t \in Terminal : \A k :
        k \in 1 .. Len(stack'[t]) <=>
            \/ k \in 1 .. Len(stack[t])
            \/ t = shown /\ k = Len(stack[t]) + 1
  BY <1>2, <1>3, <1>4
<1>7. \A t \in Terminal : \A k \in 1 .. Len(stack[t]) : stack'[t][k] = stack[t][k]
  BY <1>2, <1>3
<1>8. stack'[shown][Len(s) + 1] = p /\ shown \in Terminal
  BY <1>1, <1>2, <1>3
<1>9. \A t, u \in Terminal :
         \A k \in 1 .. Len(stack[t]), l \in 1 .. Len(stack[u]) :
            stack[t][k] = stack[u][l] => t = u /\ k = l
  BY DEF StacksOK
<1>10. \A t, u \in Terminal :
         \A k \in 1 .. Len(stack'[t]), l \in 1 .. Len(stack'[u]) :
            stack'[t][k] = stack'[u][l] => t = u /\ k = l
  <2>. TAKE t, u \in Terminal
  <2>. TAKE k \in 1 .. Len(stack'[t]), l \in 1 .. Len(stack'[u])
  <2>. HAVE stack'[t][k] = stack'[u][l]
  <2>1. CASE k \in 1 .. Len(stack[t]) /\ l \in 1 .. Len(stack[u])
    BY <1>7, <1>9, <2>1
  <2>2. CASE t = shown /\ k = Len(stack[t]) + 1 /\ l \in 1 .. Len(stack[u])
    BY <1>5, <1>7, <1>8, <2>2
  <2>3. CASE u = shown /\ l = Len(stack[u]) + 1 /\ k \in 1 .. Len(stack[t])
    BY <1>5, <1>7, <1>8, <2>3
  <2>4. CASE t = shown /\ u = shown /\ k = Len(stack[t]) + 1 /\ l = Len(stack[u]) + 1
    BY <2>4
  <2>. QED
    BY <1>6, <2>1, <2>2, <2>3, <2>4
<1>11. StacksOK'
  BY <1>1, <1>2, <1>3, <1>4, <1>10 DEF StacksOK
<1>12. \A q : q \in Procs!Placed' <=> q \in Procs!Placed \cup {p}
  <2>1. \A q : q \in Procs!Placed' <=>
              \E t \in Terminal : \E k \in 1 .. Len(stack'[t]) : stack'[t][k] = q
    BY <1>3, PlacedIs DEF Procs!Placed, Procs!ToSet
  <2>2. \A q : q \in Procs!Placed <=>
              \E t \in Terminal : \E k \in 1 .. Len(stack[t]) : stack[t][k] = q
    BY <1>1, PlacedIs DEF Procs!Placed, Procs!ToSet
  <2>3. Len(s) + 1 \in 1 .. Len(stack'[shown])
    BY <1>1, <1>6
  <2>4. ASSUME NEW q \in Procs!Placed' PROVE q \in Procs!Placed \cup {p}
    <3>1. PICK t, k : t \in Terminal /\ k \in 1 .. Len(stack'[t]) /\ stack'[t][k] = q
      BY <2>1, <2>4
    <3>2. CASE k \in 1 .. Len(stack[t])
      BY <1>7, <2>2, <3>1, <3>2
    <3>3. CASE t = shown /\ k = Len(stack[t]) + 1
      BY <1>8, <3>1, <3>3
    <3>. QED
      BY <1>6, <3>1, <3>2, <3>3
  <2>5. ASSUME NEW q \in Procs!Placed PROVE q \in Procs!Placed'
    <3>1. PICK t, k : t \in Terminal /\ k \in 1 .. Len(stack[t]) /\ stack[t][k] = q
      BY <2>2, <2>5
    <3>2. k \in 1 .. Len(stack'[t]) /\ stack'[t][k] = q
      BY <1>6, <1>7, <3>1
    <3>. QED
      BY <2>1, <3>1, <3>2
  <2>6. p \in Procs!Placed'
    BY <1>8, <2>1, <2>3
  <2>. QED
    BY <2>4, <2>5, <2>6
<1>. QED
  BY <1>1, <1>11, <1>12

(* The program on top halts: the one below it goes on.                     *)
LEMMA PopStacks ==
    ASSUME StacksOK, Procs!Pop
    PROVE  StacksOK' /\ Procs!Placed' = Procs!Placed \ {running}
<1>. DEFINE s == stack[shown]
            n == Len(s)
<1>1. /\ shown \in Terminal /\ shown' = shown
      /\ stack \in [Terminal -> Seq(Slot)] /\ s \in Seq(Slot)
      /\ n \in Nat /\ n > 1
      /\ stack' = [stack EXCEPT ![shown] = Front(s)]
      /\ running' = Front(s)[Len(Front(s))] /\ running = s[n]
  BY LenProperties DEF StacksOK, Procs!Pop, Procs!Front, Procs!Last, Front
<1>2. /\ Front(s) \in Seq(Slot) /\ Len(Front(s)) = n - 1
      /\ \A k \in 1 .. n - 1 : Front(s)[k] = s[k]
  BY <1>1, FrontOf
<1>3. /\ stack' \in [Terminal -> Seq(Slot)] /\ stack'[shown] = Front(s)
      /\ \A t \in Terminal \ {shown} : stack'[t] = stack[t]
  BY <1>1, <1>2
<1>4. \A t \in Terminal : Len(stack[t]) \in Nat /\ Len(stack[t]) >= 1
  BY LenProperties DEF StacksOK
<1>5. \A t \in Terminal : \A k :
        k \in 1 .. Len(stack[t]) <=>
            \/ k \in 1 .. Len(stack'[t])
            \/ t = shown /\ k = n
  BY <1>1, <1>2, <1>3, <1>4
<1>6. \A t \in Terminal : \A k \in 1 .. Len(stack'[t]) :
        stack'[t][k] = stack[t][k] /\ (t = shown => k # n)
  BY <1>1, <1>2, <1>3, <1>4
<1>7. \A t, u \in Terminal :
         \A k \in 1 .. Len(stack[t]), l \in 1 .. Len(stack[u]) :
            stack[t][k] = stack[u][l] => t = u /\ k = l
  BY DEF StacksOK
<1>8. \A t, u \in Terminal :
         \A k \in 1 .. Len(stack'[t]), l \in 1 .. Len(stack'[u]) :
            stack'[t][k] = stack'[u][l] => t = u /\ k = l
  BY <1>5, <1>6, <1>7
<1>9. StacksOK'
  BY <1>1, <1>2, <1>3, <1>4, <1>8 DEF StacksOK
<1>10. \A q : q \in Procs!Placed' <=> q \in Procs!Placed \ {running}
  <2>1. \A q : q \in Procs!Placed' <=>
              \E t \in Terminal : \E k \in 1 .. Len(stack'[t]) : stack'[t][k] = q
    BY <1>3, PlacedIs DEF Procs!Placed, Procs!ToSet
  <2>2. \A q : q \in Procs!Placed <=>
              \E t \in Terminal : \E k \in 1 .. Len(stack[t]) : stack[t][k] = q
    BY <1>1, PlacedIs DEF Procs!Placed, Procs!ToSet
  <2>3. shown \in Terminal /\ n \in 1 .. Len(stack[shown]) /\ stack[shown][n] = running
    BY <1>1
  <2>4. ASSUME NEW q \in Procs!Placed' PROVE q \in Procs!Placed \ {running}
    <3>1. PICK t, k : t \in Terminal /\ k \in 1 .. Len(stack'[t]) /\ stack'[t][k] = q
      BY <2>1, <2>4
    <3>2. k \in 1 .. Len(stack[t]) /\ stack[t][k] = q /\ (t = shown => k # n)
      BY <1>5, <1>6, <3>1
    <3>3. q # running
      BY <1>7, <2>3, <3>1, <3>2
    <3>. QED
      BY <2>2, <3>1, <3>2, <3>3
  <2>5. ASSUME NEW q \in Procs!Placed, q # running PROVE q \in Procs!Placed'
    <3>1. PICK t, k : t \in Terminal /\ k \in 1 .. Len(stack[t]) /\ stack[t][k] = q
      BY <2>2, <2>5
    <3>2. ~ (t = shown /\ k = n)
      BY <2>3, <2>5, <3>1
    <3>3. k \in 1 .. Len(stack'[t]) /\ stack'[t][k] = q
      BY <1>5, <1>6, <3>1, <3>2
    <3>. QED
      BY <2>1, <3>1, <3>3
  <2>. QED
    BY <2>4, <2>5
<1>. QED
  BY <1>9, <1>10

LEMMA ShowStacks ==
    ASSUME StacksOK, NEW t \in Terminal, Procs!Show(t)
    PROVE  StacksOK' /\ Procs!Placed' = Procs!Placed
BY DEF StacksOK, Procs!Show, Procs!Last, Procs!Placed

-----------------------------------------------------------------------------
(* The tables of descriptors.                                              *)

TerminalDescriptor == Descriptor("terminal_fops", NULL, 1)
RtcDescriptor      == Descriptor("rtc_fops", NULL, 1)
FileDescriptors    == [fops_ptr : {"file_fops"}, inode_ptr : (Names \ {"."}) \cup {NULL},
                       file_position : Nat, flags : {1}]
Descriptors        == {TerminalDescriptor, RtcDescriptor, Cleared} \cup FileDescriptors

(* The first two descriptors are the terminal's and no other is: these two *)
(* are never closed, and a descriptor that is not open is clean.           *)
TableOK(table) ==
    /\ table \in [Fds -> Descriptors]
    /\ \A fd \in Fds : fd < FD_BEGIN <=> table[fd] = TerminalDescriptor

TablesOK == /\ file_array \in [Slot -> [Fds -> Descriptors]]
            /\ \A s \in Slot : TableOK(file_array[s])

(* The inductive invariant: that a halt leaves nothing behind needs the    *)
(* two terminal descriptors in place, and that fs_read looks in the right  *)
(* pcb needs the program that runs to be one of those placed.              *)
FilesInv == StacksOK /\ TablesOK /\ FilesHaveTheirProgram

LEMMA FdFacts ==
    /\ Fds \subseteq Nat /\ FD_BEGIN .. MAX_FD - 1 \subseteq Fds
    /\ \A fd \in Fds : fd \in FD_BEGIN .. MAX_FD - 1 <=> ~ (fd < FD_BEGIN)
BY FilesAssumption DEF Fds, FD_BEGIN

(* What tells the kinds of descriptors apart.                              *)
LEMMA DescriptorFacts ==
    /\ TerminalDescriptor.flags = 1 /\ TerminalDescriptor.fops_ptr = "terminal_fops"
    /\ RtcDescriptor.flags = 1 /\ RtcDescriptor.fops_ptr = "rtc_fops"
    /\ Cleared.flags = 0 /\ Cleared.file_position = 0
    /\ RtcDescriptor.file_position = 0
    /\ \A d \in FileDescriptors : /\ d.flags = 1 /\ d.fops_ptr = "file_fops"
                                  /\ d.file_position \in Nat
                                  /\ d.inode_ptr \in (Names \ {"."}) \cup {NULL}
BY DEF TerminalDescriptor, RtcDescriptor, FileDescriptors, Descriptor, Cleared

LEMMA DescriptorKinds ==
    ASSUME NEW d \in Descriptors
    PROVE  /\ d.flags = 0 => d = Cleared
           /\ d.fops_ptr = "file_fops" /\ d.flags # 0 => d \in FileDescriptors
BY DescriptorFacts DEF Descriptors

LEMMA NewTableOK ==
    /\ TableOK(NewTable)
    /\ \A fd \in Fds : NewTable[fd].flags = 0 \/ NewTable[fd].fops_ptr # "file_fops"
<1>1. NewTable \in [Fds -> Descriptors]
  BY DEF NewTable, Descriptors, TerminalDescriptor
<1>2. \A fd \in Fds : NewTable[fd] = IF fd < FD_BEGIN THEN TerminalDescriptor ELSE Cleared
  BY DEF NewTable, TerminalDescriptor
<1>. QED
  BY <1>1, <1>2, DescriptorFacts DEF TableOK

(* The loop of system_halt leaves the table of a new program.              *)
LEMMA ClosedIsNew ==
    ASSUME NEW table, TableOK(table)
    PROVE  ClosedTable(table) = NewTable
BY DEF ClosedTable, NewTable, TableOK, TerminalDescriptor

(* A table with a descriptor beyond the first two replaced.                *)
LEMMA ReplacedOK ==
    ASSUME NEW table, TableOK(table),
           NEW fd \in FD_BEGIN .. MAX_FD - 1,
           NEW d \in {RtcDescriptor, Cleared} \cup FileDescriptors
    PROVE  /\ TableOK([table EXCEPT ![fd] = d])
           /\ [table EXCEPT ![fd] = d][fd] = d
<1>1. fd \in Fds /\ ~ (fd < FD_BEGIN)
  BY FdFacts
<1>2. d \in Descriptors /\ d # TerminalDescriptor
  BY DescriptorFacts DEF Descriptors
<1>. QED
  BY <1>1, <1>2 DEF TableOK

-----------------------------------------------------------------------------
(* What the steps on descriptors do: each replaces one descriptor of the   *)
(* program that runs.                                                      *)

Replaces(fd, d) ==
    /\ fd \in FD_BEGIN .. MAX_FD - 1
    /\ d \in {RtcDescriptor, Cleared} \cup FileDescriptors
    /\ file_array' = [file_array EXCEPT ![running] = [@ EXCEPT ![fd] = d]]
    /\ UNCHANGED procVars

LEMMA EntryOf ==
    ASSUME NEW fname \in Names
    PROVE  /\ Entry(fname).name = fname
           /\ Entry(fname).length \in Nat /\ Entry(fname).type \in 0 .. 2
           /\ fname = "." => Entry(fname).type = 1
<1>. DEFINE I == {k \in 1 .. Len(directory) : directory[k].name = fname}
<1>1. DOMAIN directory = 1 .. Len(directory) /\ Len(directory) \in Nat
  BY DirectoryAssumption, LenProperties
<1>2. I \in SUBSET Nat /\ I # {}
  BY <1>1 DEF Names
<1>3. \E x \in I : \A y \in I : x <= y
  BY <1>2, LeastNumber
<1>4. Min(I) \in I
  BY <1>3 DEF Min
<1>5. Entry(fname) = directory[Min(I)]
  BY <1>2 DEF Entry, SelectInSeq
<1>6. Min(I) \in DOMAIN directory /\ directory[Min(I)].name = fname
  BY <1>1, <1>4
<1>7. directory[Min(I)] \in [name : STRING, type : 0 .. 2, length : Nat]
  BY <1>1, <1>6, DirectoryAssumption, ElementOfSeq
<1>. QED
  BY <1>5, <1>6, <1>7, DirectoryAssumption

(* The descriptor system_open finds is a clean one.                        *)
LEMMA OpenFinds ==
    ASSUME FilesInv, NEW fname \in Names, OpenReturns(fname) # -1
    PROVE  /\ OpenReturns(fname) \in FD_BEGIN .. MAX_FD - 1
           /\ file_array[running][OpenReturns(fname)] = Cleared
<1>. DEFINE fd == CHOOSE f \in FreeFds(running) : \A g \in FreeFds(running) : f <= g
<1>1. FreeFds(running) # {} /\ OpenReturns(fname) = fd
  BY DEF OpenReturns
<1>2. FreeFds(running) \in SUBSET Nat
  BY FdFacts DEF FreeFds
<1>3. fd \in FreeFds(running)
  BY <1>1, <1>2, LeastNumber
<1>4. fd \in FD_BEGIN .. MAX_FD - 1 /\ file_array[running][fd].flags = 0
  BY <1>3, FdFacts DEF FreeFds, Used
<1>5. running \in Slot /\ file_array[running][fd] \in Descriptors
  BY <1>4, RunningIsPlaced, FdFacts DEF FilesInv, TablesOK
<1>. QED
  BY <1>1, <1>4, <1>5, DescriptorKinds

LEMMA OpenRtcReplaces ==
    ASSUME FilesInv, NEW fname \in Names, OpenRtc(fname)
    PROVE  /\ file_array[running][OpenReturns(fname)] = Cleared
           /\ Replaces(OpenReturns(fname), RtcDescriptor)
           /\ UNCHANGED pcb
<1>. DEFINE fd == OpenReturns(fname)
<1>1. fd \in FD_BEGIN .. MAX_FD - 1 /\ file_array[running][fd] = Cleared
  BY OpenFinds DEF OpenRtc
<1>2. [fops_ptr |-> "rtc_fops", inode_ptr |-> NULL,
        file_position |-> Cleared.file_position, flags |-> 1] = RtcDescriptor
  BY DescriptorFacts DEF Descriptor, RtcDescriptor
<1>3. /\ running \in Slot /\ fd \in Fds
      /\ file_array \in [Slot -> [Fds -> Descriptors]]
  BY <1>1, RunningIsPlaced, FdFacts DEF FilesInv, TablesOK
<1>4. file_array' = [file_array EXCEPT ![running] = [@ EXCEPT ![fd] = RtcDescriptor]]
  BY <1>1, <1>2, <1>3 DEF OpenRtc
<1>. QED
  BY <1>1, <1>4 DEF OpenRtc, Replaces

(* The descriptor of a file just opened, and of the directory.             *)
OpenedFile(fname) ==
    Descriptor("file_fops", IF Entry(fname).type = 1 THEN NULL ELSE fname, 1)

LEMMA OpenFileReplaces ==
    ASSUME FilesInv, NEW fname \in Names, OpenFile(fname)
    PROVE  /\ file_array[running][OpenReturns(fname)] = Cleared
           /\ Replaces(OpenReturns(fname), OpenedFile(fname))
           /\ OpenedFile(fname) \in FileDescriptors
           /\ OpenedFile(fname).file_position = 0
           /\ pcb' = running
<1>. DEFINE fd == OpenReturns(fname)
<1>1. fd \in FD_BEGIN .. MAX_FD - 1 /\ file_array[running][fd] = Cleared
  BY OpenFinds DEF OpenFile
<1>2. fname = "." => Entry(fname).type = 1
  BY EntryOf
<1>3. OpenedFile(fname) \in FileDescriptors /\ OpenedFile(fname).file_position = 0
  BY <1>2 DEF OpenedFile, Descriptor, FileDescriptors
<1>4. file_array' = [file_array EXCEPT ![running][fd] = OpenedFile(fname)]
      /\ pcb' = running /\ UNCHANGED procVars
  BY DEF OpenFile, OpenedFile
<1>. QED
  BY <1>1, <1>3, <1>4 DEF Replaces

LEMMA CloseReplaces ==
    ASSUME FilesInv, NEW fd \in Fds, Close(fd)
    PROVE  Replaces(fd, Cleared) /\ UNCHANGED pcb
BY DEF Close, CloseReturns, CloseClears, Replaces

(* The position of an open file.                                           *)
MovedTo(d, p) == [d EXCEPT !.file_position = p]

(* fs_read finds the descriptor it was called through, and moves its       *)
(* position by at most what is left.                                       *)
LEMMA ReadReplaces ==
    ASSUME FilesInv, NEW fd \in Fds, NEW n \in Requests, ReadFile(fd, n)
    PROVE  /\ file_array[running][fd] \in FileDescriptors
           /\ \E p \in Nat :
                 LET d == file_array[running][fd]
                 IN  /\ Replaces(fd, MovedTo(d, p))
                     /\ MovedTo(d, p) \in FileDescriptors
                     /\ \/ p = d.file_position
                        \/ /\ SizeOf(HandleOf(d).file) \in Nat
                           /\ p \in d.file_position + 1 .. SizeOf(HandleOf(d).file)
           /\ pcb = running /\ UNCHANGED pcb
<1>. DEFINE d == file_array[running][fd]
            a == Advance(d, n)
<1>1. /\ running \in Slot /\ d \in Descriptors
      /\ file_array \in [Slot -> [Fds -> Descriptors]] /\ TableOK(file_array[running])
  BY RunningIsPlaced DEF FilesInv, TablesOK
<1>2. d.fops_ptr = "file_fops" /\ d.flags # 0
  BY DEF ReadFile, CanRead, Used
<1>3. d \in FileDescriptors
  BY <1>1, <1>2, DescriptorKinds
<1>4. fd \in FD_BEGIN .. MAX_FD - 1
  BY <1>1, <1>2, FdFacts, DescriptorFacts DEF TableOK
<1>5. pcb = running
  BY <1>1, <1>2 DEF FilesInv, FilesHaveTheirProgram, FilesOpen, Used
<1>6. d.file_position \in Nat /\ d.inode_ptr \in (Names \ {"."}) \cup {NULL}
  BY <1>3, DescriptorFacts
<1>7. n \in Nat /\ Len(directory) \in Nat
  BY FilesAssumption, DirectoryAssumption, LenProperties
<1>8. NULL \notin Names
  BY DirectoryAssumption
<1>9. a \in Nat /\ (a # 0 => d.file_position + a <= SizeOf(HandleOf(d).file)
                             /\ SizeOf(HandleOf(d).file) \in Nat)
  <2>1. CASE d.inode_ptr = NULL
    <3>1. SizeOf(HandleOf(d).file) = Len(directory)
      BY <1>2, <2>1 DEF HandleOf, SizeOf
    <3>. QED
      BY <1>6, <1>7, <2>1, <3>1 DEF Advance
  <2>2. CASE d.inode_ptr # NULL
    <3>1. d.inode_ptr \in Names /\ d.inode_ptr # "."
      BY <1>6, <2>2
    <3>2. Entry(d.inode_ptr).length \in Nat
      BY <3>1, EntryOf
    <3>3. SizeOf(HandleOf(d).file) = Entry(d.inode_ptr).length
      BY <1>2, <2>2, <3>1 DEF HandleOf, SizeOf
    <3>. QED
      BY <1>6, <1>7, <2>2, <3>2, <3>3 DEF Advance
  <2>. QED
    BY <2>1, <2>2
<1>. DEFINE p == d.file_position + a
<1>10. /\ p \in Nat
       /\ \/ p = d.file_position
          \/ /\ SizeOf(HandleOf(d).file) \in Nat
             /\ p \in d.file_position + 1 .. SizeOf(HandleOf(d).file)
  BY <1>6, <1>9
<1>11. MovedTo(d, p) \in FileDescriptors
  BY <1>3, <1>10 DEF MovedTo, FileDescriptors
<1>12. file_array' = [file_array EXCEPT ![running] = [@ EXCEPT ![fd] = MovedTo(d, p)]]
  BY <1>1, <1>5 DEF ReadFile, ReadPcb, MovedTo
<1>13. Replaces(fd, MovedTo(d, p))
  BY <1>4, <1>11, <1>12 DEF Replaces, ReadFile
<1>. HIDE DEF p, d
<1>. QED
  BY <1>3, <1>5, <1>10, <1>11, <1>13 DEF ReadFile, d

-----------------------------------------------------------------------------
(* The invariant.                                                          *)

LEMMA InitFilesInv == Init => FilesInv
<1>. SUFFICES ASSUME Init PROVE FilesInv
  OBVIOUS
<1>1. StacksOK
  BY InitStacks DEF Init
<1>2. \A s \in Slot : file_array[s] = NewTable
  BY DEF Init
<1>3. TablesOK
  BY <1>2, NewTableOK DEF Init, TablesOK, TableOK
<1>4. FilesHaveTheirProgram
  BY <1>2, NewTableOK DEF FilesHaveTheirProgram, FilesOpen, Used
<1>. QED
  BY <1>1, <1>3, <1>4 DEF FilesInv

(* A program comes or goes: a table is made new, of a program that has no  *)
(* place before or after, or of a first shell that stays.                  *)
LEMMA NewTableInv ==
    ASSUME FilesInv, StacksOK', NEW s \in Slot,
           file_array' = [file_array EXCEPT ![s] = NewTable], pcb' = pcb,
           \A r \in Slot \ {s} : r \notin Procs!Placed' => r \notin Procs!Placed
    PROVE  FilesInv'
<1>1. /\ file_array'[s] = NewTable
      /\ \A r \in Slot \ {s} : file_array'[r] = file_array[r]
      /\ file_array' \in [Slot -> [Fds -> Descriptors]]
  BY NewTableOK DEF FilesInv, TablesOK, TableOK
<1>2. TablesOK'
  BY <1>1, NewTableOK DEF FilesInv, TablesOK
<1>3. ASSUME NEW r \in Slot
      PROVE  /\ r \notin Procs!Placed' => file_array'[r] = NewTable
             /\ FilesOpen(r)' # {} => pcb' = r
  <2>1. CASE r = s
    BY <1>1, <2>1, NewTableOK DEF FilesOpen, Used
  <2>2. CASE r # s
    BY <1>1, <2>2 DEF FilesInv, FilesHaveTheirProgram, FilesOpen, Used
  <2>. QED
    BY <2>1, <2>2
<1>4. FilesHaveTheirProgram'
  BY <1>3 DEF FilesHaveTheirProgram
<1>. QED
  BY <1>2, <1>4 DEF FilesInv

(* A descriptor of the running program changes.  If it becomes that of a   *)
(* file, the pcb of fs.c is, or becomes, the running program's, and no     *)
(* other program has files open.                                           *)
LEMMA ReplaceInv ==
    ASSUME FilesInv, NEW fd, NEW d, Replaces(fd, d),
           pcb' = pcb \/ (pcb' = running /\ TakesTurns),
           d \in FileDescriptors => pcb' = running
    PROVE  FilesInv'
<1>1. running \in Slot /\ running \in Procs!Placed
  BY RunningIsPlaced DEF FilesInv
<1>2. /\ fd \in FD_BEGIN .. MAX_FD - 1 /\ fd \in Fds
      /\ d \in {RtcDescriptor, Cleared} \cup FileDescriptors
      /\ UNCHANGED procVars
      /\ file_array' = [file_array EXCEPT ![running] = [@ EXCEPT ![fd] = d]]
  BY FdFacts DEF Replaces
<1>3. StacksOK' /\ Procs!Placed' = Procs!Placed
  BY <1>2 DEF FilesInv, StacksOK, Procs!Placed, procVars
<1>4. /\ file_array'[running] = [file_array[running] EXCEPT ![fd] = d]
      /\ \A s \in Slot \ {running} : file_array'[s] = file_array[s]
  BY <1>1, <1>2 DEF FilesInv, TablesOK
<1>5. TableOK([file_array[running] EXCEPT ![fd] = d])
  BY <1>1, <1>2, ReplacedOK DEF FilesInv, TablesOK
<1>6. TablesOK'
  BY <1>1, <1>2, <1>4, <1>5 DEF FilesInv, TablesOK, TableOK
<1>7. ASSUME NEW s \in Slot, FilesOpen(s)' # {} PROVE pcb' = s
  <2>1. CASE s # running
    <3>1. FilesOpen(s) # {}
      BY <1>4, <1>7, <2>1 DEF FilesOpen, Used
    <3>2. pcb = s /\ ~TakesTurns
      BY <2>1, <3>1 DEF FilesInv, FilesHaveTheirProgram, TakesTurns
    <3>. QED
      BY <3>2
  <2>2. CASE s = running /\ d \in FileDescriptors
    BY <2>2
  <2>3. CASE s = running /\ d \notin FileDescriptors
    <3>1. d.flags = 0 \/ d.fops_ptr # "file_fops"
      BY <1>2, <2>3, DescriptorFacts
    <3>2. \A g \in Fds : file_array'[running][g] = IF g = fd THEN d ELSE file_array[running][g]
      BY <1>1, <1>2, <1>4 DEF FilesInv, TablesOK
    <3>3. FilesOpen(running) # {}
      BY <1>7, <2>3, <3>1, <3>2 DEF FilesOpen, Used
    <3>4. pcb = running
      BY <1>1, <3>3 DEF FilesInv, FilesHaveTheirProgram
    <3>. QED
      BY <2>3, <3>4
  <2>. QED
    BY <2>1, <2>2, <2>3
<1>8. FilesHaveTheirProgram'
  BY <1>1, <1>3, <1>4, <1>7 DEF FilesInv, FilesHaveTheirProgram
<1>. QED
  BY <1>3, <1>6, <1>8 DEF FilesInv

LEMMA NextFilesInv == FilesInv /\ [PoliteNext]_vars => FilesInv'
<1>. SUFFICES ASSUME FilesInv, [PoliteNext]_vars PROVE FilesInv'
  OBVIOUS
<1>1. running \in Slot /\ running \in Procs!Placed /\ StacksOK
  BY RunningIsPlaced DEF FilesInv
<1>2. CASE Execute
  <2>1. FreeSlot \in Slot /\ FreeSlot \notin Procs!Placed
    <3>1. Slot \ Procs!Placed \in SUBSET Nat /\ Slot \ Procs!Placed # {}
      BY <1>2, FilesAssumption DEF Execute
    <3>2. \E s \in Slot \ Procs!Placed : \A r \in Slot \ Procs!Placed : s <= r
      BY <3>1, LeastNumber, Zenon
    <3>. QED
      BY <3>2 DEF FreeSlot
  <2>2. StacksOK' /\ Procs!Placed' = Procs!Placed \cup {FreeSlot}
    BY <1>1, <1>2, <2>1, PushStacks DEF Execute
  <2>. QED
    BY <1>2, <2>1, <2>2, NewTableInv DEF Execute
<1>3. CASE Halt
  <2>1. StacksOK' /\ Procs!Placed' = Procs!Placed \ {running}
    BY <1>1, <1>3, PopStacks DEF Halt
  <2>2. ClosedTable(file_array[running]) = NewTable
    BY <1>1, ClosedIsNew DEF FilesInv, TablesOK
  <2>3. file_array' = [file_array EXCEPT ![running] = NewTable] /\ pcb' = pcb
    BY <1>3, <2>2 DEF Halt
  <2>. QED
    BY <1>1, <2>1, <2>3, NewTableInv
<1>4. CASE HaltFirstShell
  <2>1. StacksOK' /\ Procs!Placed' = Procs!Placed
    BY <1>1, <1>4 DEF HaltFirstShell, StacksOK, procVars, Procs!Placed
  <2>. QED
    BY <1>1, <1>4, <2>1, NewTableInv DEF HaltFirstShell
<1>5. ASSUME NEW t \in Terminal, Switch(t) PROVE FilesInv'
  <2>1. StacksOK' /\ Procs!Placed' = Procs!Placed
    BY <1>1, <1>5, ShowStacks DEF Switch
  <2>. QED
    BY <1>5, <2>1 DEF FilesInv, Switch, TablesOK, FilesHaveTheirProgram, FilesOpen, Used
<1>6. ASSUME NEW fname \in Names, OpenRtc(fname) PROVE FilesInv'
  <2>1. RtcDescriptor \notin FileDescriptors
    BY DescriptorFacts
  <2>. QED
    BY <1>6, <2>1, OpenRtcReplaces, ReplaceInv
<1>7. ASSUME NEW fname \in Names, TakesTurns, OpenFile(fname) PROVE FilesInv'
  BY <1>7, OpenFileReplaces, ReplaceInv
<1>8. ASSUME NEW fd \in Fds, Close(fd) PROVE FilesInv'
  <2>1. Cleared \notin FileDescriptors
    BY DescriptorFacts
  <2>. QED
    BY <1>8, <2>1, CloseReplaces, ReplaceInv
<1>9. ASSUME NEW fd \in Fds, NEW n \in Requests, ReadFile(fd, n) PROVE FilesInv'
  BY <1>9, ReadReplaces, ReplaceInv
<1>10. CASE UNCHANGED vars
  BY <1>10 DEF FilesInv, vars, StacksOK, TablesOK, FilesHaveTheirProgram, FilesOpen, Used,
     Procs!Placed
<1>. QED
  BY <1>2, <1>3, <1>4, <1>5, <1>6, <1>7, <1>8, <1>9, <1>10 DEF PoliteNext, ProcessStep

LEMMA AlwaysFilesInv == PoliteSpec => []FilesInv
BY InitFilesInv, NextFilesInv, PTL DEF PoliteSpec

(* No program leaves a descriptor behind for the next one of its slot, and *)
(* the pcb of fs.c stays that of the program which has files open, however *)
(* many others come, go and are switched between.                          *)
THEOREM FilesKeepTheirProgram == PoliteSpec => []FilesHaveTheirProgram
<1>1. FilesInv => FilesHaveTheirProgram
  BY DEF FilesInv
<1>. QED
  BY <1>1, AlwaysFilesInv, PTL

-----------------------------------------------------------------------------
(* The refinement of OpenFiles, step by step.                              *)

(* The handles of the programs.                                            *)
Opened == [s \in Slot |-> [fd \in FD_BEGIN .. MAX_FD - 1 |-> HandleOf(file_array[s][fd])]]

ClosedHandle == [file |-> NULL, position |-> 0]
NoHandle     == [fd \in FD_BEGIN .. MAX_FD - 1 |-> ClosedHandle]

LEMMA HandleFacts ==
    /\ HandleOf(Cleared) = ClosedHandle
    /\ HandleOf(RtcDescriptor) = [file |-> "rtc", position |-> 0]
    /\ \A d \in FileDescriptors :
         /\ HandleOf(d) = [file |-> IF d.inode_ptr = NULL THEN "." ELSE d.inode_ptr,
                           position |-> d.file_position]
         /\ \A p \in Nat : HandleOf(MovedTo(d, p)) = [file |-> HandleOf(d).file, position |-> p]
<1>1. HandleOf(Cleared) = ClosedHandle
  BY DescriptorFacts DEF HandleOf, ClosedHandle
<1>2. HandleOf(RtcDescriptor) = [file |-> "rtc", position |-> 0]
  BY DescriptorFacts DEF HandleOf
<1>3. ASSUME NEW d \in FileDescriptors
      PROVE  HandleOf(d) = [file |-> IF d.inode_ptr = NULL THEN "." ELSE d.inode_ptr,
                            position |-> d.file_position]
  BY <1>3, DescriptorFacts DEF HandleOf
<1>4. ASSUME NEW d \in FileDescriptors, NEW p \in Nat
      PROVE  HandleOf(MovedTo(d, p)) = [file |-> HandleOf(d).file, position |-> p]
  <2>1. /\ MovedTo(d, p) \in FileDescriptors /\ MovedTo(d, p).inode_ptr = d.inode_ptr
        /\ MovedTo(d, p).file_position = p
    BY <1>4 DEF MovedTo, FileDescriptors
  <2>. QED
    BY <1>3, <2>1
<1>. QED
  BY <1>1, <1>2, <1>3, <1>4

LEMMA NewHandles ==
    [fd \in FD_BEGIN .. MAX_FD - 1 |-> HandleOf(NewTable[fd])] = NoHandle
<1>1. \A fd \in FD_BEGIN .. MAX_FD - 1 : NewTable[fd] = Cleared
  BY FdFacts DEF NewTable
<1>. QED
  BY <1>1, HandleFacts DEF NoHandle

(* A table made new closes the handles of its program.                     *)
LEMMA RenewHandles ==
    ASSUME FilesInv, NEW s \in Slot, file_array' = [file_array EXCEPT ![s] = NewTable]
    PROVE  Opened' = [Opened EXCEPT ![s] = NoHandle]
<1>1. \A r \in Slot : file_array'[r] = IF r = s THEN NewTable ELSE file_array[r]
  BY DEF FilesInv, TablesOK
<1>. DEFINE H(table) == [fd \in FD_BEGIN .. MAX_FD - 1 |-> HandleOf(table[fd])]
<1>2. H(NewTable) = NoHandle
  BY NewHandles
<1>3. /\ Opened = [r \in Slot |-> H(file_array[r])]
      /\ Opened' = [r \in Slot |-> H(file_array'[r])]
  BY DEF Opened
<1>. HIDE DEF H
<1>. QED
  BY <1>1, <1>2, <1>3

LEMMA ReplaceHandles ==
    ASSUME FilesInv, NEW fd, NEW d, Replaces(fd, d)
    PROVE  /\ Opened' = [Opened EXCEPT ![running][fd] = HandleOf(d)]
           /\ Opened[running][fd] = HandleOf(file_array[running][fd])
           /\ running' = running
<1>1. running \in Slot
  BY RunningIsPlaced DEF FilesInv
<1>2. /\ fd \in FD_BEGIN .. MAX_FD - 1 /\ fd \in Fds
      /\ UNCHANGED procVars
      /\ file_array' = [file_array EXCEPT ![running] = [@ EXCEPT ![fd] = d]]
      /\ file_array \in [Slot -> [Fds -> Descriptors]]
  BY FdFacts DEF Replaces, FilesInv, TablesOK
<1>3. \A s \in Slot, f \in FD_BEGIN .. MAX_FD - 1 :
        file_array'[s][f] = IF s = running /\ f = fd THEN d ELSE file_array[s][f]
  BY <1>1, <1>2, FdFacts
<1>4. \A s \in Slot : Opened[s] = [f \in FD_BEGIN .. MAX_FD - 1 |-> HandleOf(file_array[s][f])]
  BY DEF Opened
<1>5. [Opened EXCEPT ![running][fd] = HandleOf(d)]
        = [s \in Slot |-> [f \in FD_BEGIN .. MAX_FD - 1 |->
             IF s = running /\ f = fd THEN HandleOf(d) ELSE HandleOf(file_array[s][f])]]
  BY <1>1, <1>2 DEF Opened
<1>6. Opened' = [s \in Slot |-> [f \in FD_BEGIN .. MAX_FD - 1 |->
             IF s = running /\ f = fd THEN HandleOf(d) ELSE HandleOf(file_array[s][f])]]
  BY <1>3 DEF Opened
<1>7. running' = running
  BY <1>2 DEF procVars
<1>8. Opened[running][fd] = HandleOf(file_array[running][fd])
  BY <1>1, <1>2, <1>4
<1>. QED
  BY <1>5, <1>6, <1>7, <1>8

(* Programs that come, go and are switched between.                        *)
LEMMA ProcessStepRefines ==
    ASSUME FilesInv, ProcessStep
    PROVE  Handles!Next
<1>1. running \in Slot /\ running \in Procs!Placed /\ StacksOK
  BY RunningIsPlaced DEF FilesInv
<1>2. CASE Execute
  <2>1. FreeSlot \in Slot /\ FreeSlot \notin Procs!Placed
    <3>1. Slot \ Procs!Placed \in SUBSET Nat /\ Slot \ Procs!Placed # {}
      BY <1>2, FilesAssumption DEF Execute
    <3>2. \E s \in Slot \ Procs!Placed : \A r \in Slot \ Procs!Placed : s <= r
      BY <3>1, LeastNumber, Zenon
    <3>. QED
      BY <3>2 DEF FreeSlot
  <2>2. running' = FreeSlot
    BY <1>2 DEF Execute, Procs!Push
  <2>3. Opened[FreeSlot] = NoHandle
    BY <2>1, NewHandles DEF Opened, FilesInv, FilesHaveTheirProgram
  <2>4. file_array' = file_array
    BY <1>2, <2>1 DEF Execute, FilesInv, FilesHaveTheirProgram, TablesOK
  <2>5. Opened' = Opened
    BY <2>4 DEF Opened
  <2>6. Handles!Start(FreeSlot)
    BY <2>2, <2>3, <2>5
    DEF Handles!Start, Opened, Handles!NoneOpen, Handles!Closed, NoHandle, ClosedHandle
  <2>. QED
    BY <2>1, <2>6 DEF Handles!Next
<1>3. CASE Halt
  <2>1. StacksOK'
    BY <1>1, <1>3, PopStacks DEF Halt
  <2>2. running' \in Slot
    BY <2>1, LenProperties, ElementOfSeq DEF StacksOK
  <2>3. ClosedTable(file_array[running]) = NewTable
    BY <1>1, ClosedIsNew DEF FilesInv, TablesOK
  <2>4. Opened' = [Opened EXCEPT ![running] = NoHandle]
    BY <1>1, <1>3, <2>3, RenewHandles DEF Halt
  <2>5. Handles!End(running')
    BY <2>4 DEF Handles!End, Opened, Handles!NoneOpen, Handles!Closed, NoHandle, ClosedHandle
  <2>. QED
    BY <2>2, <2>5 DEF Handles!Next
<1>4. CASE HaltFirstShell
  <2>1. Opened' = [Opened EXCEPT ![running] = NoHandle]
    BY <1>1, <1>4, RenewHandles DEF HaltFirstShell
  <2>2. running' = running
    BY <1>4 DEF HaltFirstShell, procVars
  <2>3. Handles!End(running)
    BY <2>1, <2>2
    DEF Handles!End, Opened, Handles!NoneOpen, Handles!Closed, NoHandle, ClosedHandle
  <2>. QED
    BY <1>1, <2>3 DEF Handles!Next
<1>5. ASSUME NEW t \in Terminal, Switch(t) PROVE Handles!Next
  <2>1. StacksOK'
    BY <1>1, <1>5, ShowStacks DEF Switch
  <2>2. running' \in Slot
    BY <2>1, LenProperties, ElementOfSeq DEF StacksOK
  <2>3. Opened' = Opened
    BY <1>5 DEF Switch, Opened
  <2>4. Handles!Resume(running')
    BY <2>3 DEF Handles!Resume, Opened
  <2>. QED
    BY <2>2, <2>4 DEF Handles!Next
<1>. QED
  BY <1>2, <1>3, <1>4, <1>5 DEF ProcessStep

LEMMA OpenRefines ==
    ASSUME FilesInv, NEW fname \in Names, OpenRtc(fname) \/ OpenFile(fname)
    PROVE  Handles!Next
<1>. DEFINE fd == OpenReturns(fname)
<1>1. ASSUME NEW d, NEW f \in Names \cup {"rtc", "."}, Replaces(fd, d),
             HandleOf(d) = [file |-> f, position |-> 0],
             file_array[running][fd] = Cleared
      PROVE  Handles!Next
  <2>1. /\ Opened' = [Opened EXCEPT ![running][fd] = [file |-> f, position |-> 0]]
        /\ Opened[running][fd] = ClosedHandle /\ running' = running
    BY <1>1, ReplaceHandles, HandleFacts
  <2>2. fd \in FD_BEGIN .. MAX_FD - 1
    BY <1>1 DEF Replaces
  <2>3. Handles!Open(fd, f)
    BY <2>1 DEF Handles!Open, Opened, Handles!Closed, ClosedHandle
  <2>. QED
    BY <1>1, <2>2, <2>3 DEF Handles!Next
<1>2. CASE OpenRtc(fname)
  BY <1>1, <1>2, OpenRtcReplaces, HandleFacts
<1>3. CASE OpenFile(fname)
  <2>1. OpenedFile(fname).inode_ptr \in Names \cup {NULL}
    BY <1>3 DEF OpenedFile, Descriptor
  <2>. QED
    BY <1>1, <1>3, <2>1, OpenFileReplaces, HandleFacts
<1>. QED
  BY <1>2, <1>3

LEMMA CloseRefines ==
    ASSUME FilesInv, NEW fd \in Fds, Close(fd)
    PROVE  Handles!Next
<1>1. Opened' = [Opened EXCEPT ![running][fd] = ClosedHandle] /\ running' = running
  BY CloseReplaces, ReplaceHandles, HandleFacts
<1>2. fd \in FD_BEGIN .. MAX_FD - 1
  BY CloseReplaces DEF Replaces
<1>3. Handles!Close(fd)
  BY <1>1 DEF Handles!Close, Opened, Handles!Closed, ClosedHandle
<1>. QED
  BY <1>2, <1>3 DEF Handles!Next

LEMMA ReadRefines ==
    ASSUME FilesInv, NEW fd \in Fds, NEW n \in Requests, ReadFile(fd, n)
    PROVE  Handles!Next \/ UNCHANGED <<running, Opened>>
<1>. DEFINE d == file_array[running][fd]
<1>1. PICK p \in Nat :
        /\ Replaces(fd, MovedTo(d, p))
        /\ \/ p = d.file_position
           \/ /\ SizeOf(HandleOf(d).file) \in Nat
              /\ p \in d.file_position + 1 .. SizeOf(HandleOf(d).file)
  BY ReadReplaces
<1>2. d \in FileDescriptors /\ fd \in FD_BEGIN .. MAX_FD - 1
  BY <1>1, ReadReplaces DEF Replaces
<1>3. /\ Opened' = [Opened EXCEPT ![running][fd] = [file |-> HandleOf(d).file, position |-> p]]
      /\ Opened[running][fd] = HandleOf(d) /\ running' = running
  BY <1>1, <1>2, ReplaceHandles, HandleFacts
<1>4. /\ HandleOf(d).file # NULL /\ HandleOf(d).position = d.file_position
      /\ HandleOf(d) = [file |-> HandleOf(d).file, position |-> d.file_position]
      /\ d.file_position \in Nat
  <2>1. d.file_position \in Nat /\ d.inode_ptr \in (Names \ {"."}) \cup {NULL}
    BY <1>2, DescriptorFacts
  <2>2. HandleOf(d) = [file |-> IF d.inode_ptr = NULL THEN "." ELSE d.inode_ptr,
                       position |-> d.file_position]
    BY <1>2, HandleFacts
  <2>3. NULL # "."
    BY DirectoryAssumption
  <2>. QED
    BY <2>1, <2>2, <2>3
<1>5. running \in Slot
  BY RunningIsPlaced DEF FilesInv
<1>. HIDE DEF d
<1>6. CASE p = d.file_position
  <2>1. Opened' = [Opened EXCEPT ![running][fd] = Opened[running][fd]]
    BY <1>3, <1>4, <1>6
  <2>2. /\ Opened = [s \in Slot |-> Opened[s]]
        /\ Opened[running] = [f \in FD_BEGIN .. MAX_FD - 1 |-> Opened[running][f]]
    BY <1>5 DEF Opened
  <2>3. [Opened[running] EXCEPT ![fd] = Opened[running][fd]] = Opened[running]
    BY <1>2, <2>2
  <2>4. [Opened EXCEPT ![running] = Opened[running]] = Opened
    BY <1>5, <2>2
  <2>5. Opened' = Opened
    BY <2>1, <2>3, <2>4
  <2>. QED
    BY <1>3, <2>5
<1>7. CASE /\ SizeOf(HandleOf(d).file) \in Nat
           /\ p \in d.file_position + 1 .. SizeOf(HandleOf(d).file)
  <2>1. d.file_position < SizeOf(HandleOf(d).file)
    BY <1>4, <1>7
  <2>2. Handles!Read(fd)
    BY <1>3, <1>4, <1>7, <2>1 DEF Handles!Read, Opened
  <2>. QED
    BY <1>2, <2>2 DEF Handles!Next
<1>. QED
  BY <1>1, <1>6, <1>7

(* While programs take turns with their files, the tables of descriptors,  *)
(* system_open, system_close, fs_read and the pcb of fs.c implement handles *)
(* that only their own program opens, closes and moves.                    *)
THEOREM FilesImplementHandles == PoliteSpec => RefinesOpenFiles
<1>1. Init => Handles!Init
  <2>. SUFFICES ASSUME Init PROVE Handles!Init
    OBVIOUS
  <2>1. running \in Slot
    BY InitFilesInv, RunningIsPlaced DEF FilesInv
  <2>2. file_array = [s \in Slot |-> NewTable]
    BY DEF Init
  <2>3. Opened = [s \in Slot |-> NoHandle]
    BY <2>2, NewHandles DEF Opened
  <2>. QED
    BY <2>1, <2>3
    DEF Handles!Init, Handles!NoneOpen, Handles!Closed, Opened, NoHandle, ClosedHandle
<1>2. FilesInv /\ [PoliteNext]_vars => Handles!Next \/ UNCHANGED <<running, Opened>>
  <2>. SUFFICES ASSUME FilesInv, [PoliteNext]_vars
                PROVE  Handles!Next \/ UNCHANGED <<running, Opened>>
    OBVIOUS
  <2>1. CASE UNCHANGED vars
    BY <2>1 DEF vars, Opened
  <2>. QED
    BY <2>1, ProcessStepRefines, OpenRefines, CloseRefines, ReadRefines DEF PoliteNext
<1>3. FilesInv /\ [PoliteNext]_vars => [Handles!Next]_(Handles!openVars)
  BY <1>2 DEF Handles!openVars, Opened
<1>. QED
  BY <1>1, <1>3, AlwaysFilesInv, PTL DEF PoliteSpec, RefinesOpenFiles, Handles!Spec
-----------------------------------------------------------------------------
(* The programs as users of the descriptors.                               *)

Variables == DOMAIN Shell

TasksOK == DOMAIN task = Slot /\ \A s \in Slot : DOMAIN task[s] = Variables

(* A program that waits for another is a shell, and a program that opens   *)
(* files is on a terminal where such a command is typed.                   *)
WhereProgramsAre ==
    \A t \in Terminal : \A k \in 1 .. Len(stack[t]) :
        /\ k < Len(stack[t]) => task[stack[t][k]].prog = "shell"
        /\ task[stack[t][k]].prog \in FilePrograms => UsesFiles(t)

OnlyTheyOpenFiles == \A s \in Slot : FilesOpen(s) # {} => task[s].prog \in FilePrograms

UsersInv == FilesInv /\ TasksOK /\ WhereProgramsAre /\ OnlyTheyOpenFiles

(* The system calls of a program.                                          *)
Calls ==
    \/ UNCHANGED vars
    \/ \E fname \in Names : \/ OpenRtc(fname)
                            \/ OpenFile(fname) /\ Me.prog \in FilePrograms
    \/ \E fd \in Fds : Close(fd) \/ \E n \in Requests : ReadFile(fd, n)

(* It stays the program it is.                                             *)
Keeps ==
    \E me : /\ task' = [task EXCEPT ![running] = me]
            /\ DOMAIN me = Variables /\ me.prog = Me.prog

LEMMA OpenCalls ==
    ASSUME NEW fname, OpenCall(fname), fname = "rtc" \/ Me.prog \in FilePrograms
    PROVE  Calls
<1>1. CASE OpenReturns(fname) = -1
  BY <1>1 DEF OpenCall, SameFiles, Calls
<1>2. CASE OpenReturns(fname) # -1
  <2>1. fname \in Names /\ (OpenFile(fname) \/ OpenRtc(fname))
    BY <1>2 DEF OpenCall, OpenReturns
  <2>2. fname = "rtc" => ~ OpenFile(fname)
    BY <2>1, ImageAssumption DEF OpenFile
  <2>. QED
    BY <2>1, <2>2 DEF Calls
<1>. QED
  BY <1>1, <1>2

LEMMA ReadCalls ==
    ASSUME NEW fd, NEW n \in Requests, ReadCall(fd, n)
    PROVE  Calls
<1>1. CanRead(fd) => fd \in Fds
  BY DEF CanRead, Used
<1>. QED
  BY <1>1 DEF ReadCall, SameFiles, Calls

LEMMA CloseCalls ==
    ASSUME NEW fd, CloseCall(fd)
    PROVE  Calls
<1>1. CloseReturns(fd) # -1 => fd \in Fds
  BY FdFacts DEF CloseReturns
<1>. QED
  BY <1>1 DEF CloseCall, SameFiles, Calls

LEMMA SameCalls == SameFiles => Calls
BY DEF SameFiles, Calls

(* The ways in which a step of a program leaves its variables.             *)
LEMMA GotoKeeps ==
    ASSUME TasksOK, running \in Slot
    PROVE  /\ DOMAIN Me = Variables
           /\ \A pc : Goto(pc) => Keeps
           /\ \A message, pc : Puts(message, pc) => Calls /\ Keeps
<1>1. DOMAIN Me = Variables
  BY DEF TasksOK, Me
<1>2. \A pc : DOMAIN [Me EXCEPT !.pc = pc] = Variables /\ [Me EXCEPT !.pc = pc].prog = Me.prog
  BY <1>1 DEF Variables, Shell, Started
<1>. QED
  BY <1>1, <1>2, SameCalls DEF Goto, Continue, Keeps, Puts

LEMMA ContinueKeeps ==
    ASSUME NEW me, Continue(me), DOMAIN me = Variables, me.prog = Me.prog
    PROVE  Keeps
BY DEF Continue, Keeps

LEMMA CatAndLsCall ==
    ASSUME TasksOK, running \in Slot, Cat \/ Ls
    PROVE  Calls /\ Keeps
<1>. DEFINE prog == Me.prog
<1>1. DOMAIN Me = Variables
  BY GotoKeeps
<1>2. ASSUME NEW p \in {"cat", "ls"}, NEW fname, OpenStep(p, "main", fname, "read")
      PROVE  Calls /\ Keeps
  <2>1. Me.prog \in FilePrograms /\ OpenCall(fname)
    BY <1>2 DEF OpenStep, At, FilePrograms
  <2>. DEFINE me == [Me EXCEPT !.pc = "read", !.fd = OpenReturns(fname)]
  <2>2. DOMAIN me = Variables /\ me.prog = Me.prog
    BY <1>1 DEF Variables, Shell, Started
  <2>3. Keeps
    BY <1>2, <2>2, ContinueKeeps DEF OpenStep
  <2>. QED
    BY <2>1, <2>3, OpenCalls
<1>3. ASSUME NEW p, NEW n \in Requests, ReadStep(p, n)
      PROVE  Calls /\ Keeps
  <2>. DEFINE me == [Me EXCEPT !.pc = NextAfterRead(Me.fd, n), !.got = Bytes(Me.fd, n)]
  <2>2. DOMAIN me = Variables /\ me.prog = Me.prog
    BY <1>1 DEF Variables, Shell, Started
  <2>1. Keeps
    BY <1>3, <2>2, ContinueKeeps DEF ReadStep
  <2>. QED
    BY <1>3, <2>1, ReadCalls DEF ReadStep
<1>4. ASSUME NEW p, WriteStep(p)
      PROVE  Calls /\ Keeps
  BY <1>4, GotoKeeps, SameCalls DEF WriteStep
<1>5. OpenFails("cat", "main", Me.arg) => Calls /\ Keeps
  BY GotoKeeps DEF OpenFails
<1>. QED
  BY <1>2, <1>3, <1>4, <1>5, UserlandAssumption DEF Cat, Ls

LEMMA GrepCalls ==
    ASSUME TasksOK, running \in Slot, Grep
    PROVE  Calls /\ Keeps
<1>1. DOMAIN Me = Variables
  BY GotoKeeps
<1>2. 32 \in Requests /\ CHUNK \in Requests
  BY UserlandAssumption
<1>3. CASE OpenStep("grep", "main", ".", "names")
  <2>1. Me.prog \in FilePrograms /\ OpenCall(".")
    BY <1>3 DEF OpenStep, At, FilePrograms
  <2>. DEFINE me == [Me EXCEPT !.pc = "names", !.fd = OpenReturns(".")]
  <2>3. DOMAIN me = Variables /\ me.prog = Me.prog
    BY <1>1 DEF Variables, Shell, Started
  <2>2. Keeps
    BY <1>3, <2>3, ContinueKeeps DEF OpenStep
  <2>. QED
    BY <2>1, <2>2, OpenCalls
<1>4. CASE At("grep", "names")
  <2>1. ReadCall(Me.fd, 32)
    BY <1>4 DEF Grep, OpenStep, At
  <2>. DEFINE me(pc) == [Me EXCEPT !.got = Bytes(Me.fd, 32), !.pc = pc]
  <2>3. \A pc : DOMAIN me(pc) = Variables /\ me(pc).prog = Me.prog
    BY <1>1 DEF Variables, Shell, Started
  <2>4. \E pc : Continue(me(pc))
    BY <1>4 DEF Grep, OpenStep, At
  <2>2. Keeps
    BY <2>3, <2>4, ContinueKeeps
  <2>. QED
    BY <1>2, <2>1, <2>2, ReadCalls
<1>5. CASE At("grep", "open")
  <2>1. Me.prog \in FilePrograms /\ OpenCall(Me.got[1])
    BY <1>5 DEF Grep, OpenStep, At, FilePrograms
  <2>. DEFINE me == [Me EXCEPT !.fd1 = OpenReturns(Me.got[1]), !.pc = "search"]
  <2>3. DOMAIN me = Variables /\ me.prog = Me.prog
    BY <1>1 DEF Variables, Shell, Started
  <2>4. Continue(me)
    BY <1>5 DEF Grep, OpenStep, At
  <2>2. Keeps
    BY <2>3, <2>4, ContinueKeeps
  <2>. QED
    BY <2>1, <2>2, OpenCalls
<1>6. CASE At("grep", "search")
  <2>1. ReadCall(Me.fd1, CHUNK) /\ \E pc : Goto(pc)
    BY <1>6 DEF Grep, OpenStep, At
  <2>. QED
    BY <1>2, <2>1, ReadCalls, GotoKeeps
<1>7. CASE At("grep", "close")
  <2>1. CloseCall(Me.fd1) /\ \E pc : Goto(pc)
    BY <1>7 DEF Grep, OpenStep, At
  <2>. QED
    BY <2>1, CloseCalls, GotoKeeps
<1>. QED
  BY <1>3, <1>4, <1>5, <1>6, <1>7 DEF Grep

LEMMA PlainProgramsCall ==
    ASSUME TasksOK, running \in Slot, Hello \/ Counter \/ Testprint \/ Pingpong
    PROVE  Calls /\ Keeps
<1>1. DOMAIN Me = Variables
  BY GotoKeeps
<1>2. 4 \in Requests /\ 1023 \in Requests
  BY UserlandAssumption
<1>3. CASE Hello
  <2>1. CASE \E message, pc : Puts(message, pc)
    BY <2>1, GotoKeeps
  <2>2. CASE ReadCall(0, 1023) /\ \E pc : Goto(pc)
    BY <1>2, <2>2, ReadCalls, GotoKeeps
  <2>. QED
    BY <1>3, <2>1, <2>2 DEF Hello
<1>4. CASE Counter
  <2>1. CASE \E message, pc : Puts(message, pc)
    BY <2>1, GotoKeeps
  <2>2. CASE At("counter", "line")
    <3>1. ReadCall(0, 1023)
      BY <1>4, <2>2 DEF Counter, At
    <3>2. CASE Goto("wrong")
      BY <1>2, <3>1, <3>2, ReadCalls, GotoKeeps
    <3>3. CASE ~ Goto("wrong")
      <4>. DEFINE me(max) == [Me EXCEPT !.got = [i \in 1 .. max |-> ToString(i)],
                                        !.pc = "count"]
      <4>1. \A max : DOMAIN me(max) = Variables /\ me(max).prog = Me.prog
        BY <1>1 DEF Variables, Shell, Started
      <4>2. \E max : Continue(me(max))
        BY <1>4, <2>2, <3>3 DEF Counter, At
      <4>3. Keeps
        BY <4>1, <4>2, ContinueKeeps
      <4>. QED
        BY <1>2, <3>1, <4>3, ReadCalls
    <3>. QED
      BY <3>2, <3>3
  <2>3. CASE At("counter", "count")
    <3>. DEFINE me == [Me EXCEPT !.got = Tail(@)]
    <3>1. DOMAIN me = Variables /\ me.prog = Me.prog
      BY <1>1 DEF Variables, Shell, Started
    <3>2. SameFiles /\ (Goto("return") \/ Continue(me))
      BY <1>4, <2>3 DEF Counter, At
    <3>. QED
      BY <3>1, <3>2, SameCalls, GotoKeeps, ContinueKeeps
  <2>. QED
    BY <1>4, <2>1, <2>2, <2>3 DEF Counter
<1>5. CASE Testprint
  BY <1>5, GotoKeeps DEF Testprint
<1>6. CASE Pingpong
  <2>1. CASE OpenStep("pingpong", "main", "rtc", "rate")
    <3>. DEFINE me == [Me EXCEPT !.pc = "rate", !.fd = OpenReturns("rtc")]
    <3>1. DOMAIN me = Variables /\ me.prog = Me.prog
      BY <1>1 DEF Variables, Shell, Started
    <3>. QED
      BY <2>1, <3>1, OpenCalls, ContinueKeeps DEF OpenStep
  <2>2. CASE SameFiles /\ \E pc : Goto(pc)
    BY <2>2, SameCalls, GotoKeeps
  <2>3. CASE ReadCall(Me.fd, 4) /\ \E pc : Goto(pc)
    BY <1>2, <2>3, ReadCalls, GotoKeeps
  <2>. QED
    BY <1>6, <2>1, <2>2, <2>3 DEF Pingpong
<1>. QED
  BY <1>3, <1>4, <1>5, <1>6

LEMMA SyserrCalls ==
    ASSUME TasksOK, running \in Slot, Syserr
    PROVE  Calls /\ Keeps
<1>1. DOMAIN Me = Variables
  BY GotoKeeps
<1>2. CASE SameFiles /\ \E pc : Goto(pc)
  BY <1>2, SameCalls, GotoKeeps
<1>3. ASSUME NEW next, OpenLots(next) PROVE Calls /\ Keeps
  <2>1. OpenCall(".") /\ Me.prog \in FilePrograms
    BY <1>3 DEF OpenLots, At, FilePrograms
  <2>. DEFINE me1 == [Me EXCEPT !.got = <<>>, !.pc = next]
              me2 == [Me EXCEPT !.got = Append(@, OpenReturns("."))]
  <2>2. /\ DOMAIN me1 = Variables /\ me1.prog = Me.prog
        /\ DOMAIN me2 = Variables /\ me2.prog = Me.prog
    BY <1>1 DEF Variables, Shell, Started
  <2>3. Continue(me1) \/ Continue(me2)
    BY <1>3 DEF OpenLots
  <2>. QED
    BY <2>1, <2>2, <2>3, OpenCalls, ContinueKeeps
<1>4. CASE \E test, passes, next : Judge(test, passes, next)
  <2>1. SameFiles /\ \E pc : Goto(pc)
    BY <1>4 DEF Judge
  <2>. QED
    BY <1>2, <2>1
<1>. QED
  BY <1>2, <1>3, <1>4 DEF Syserr

LEMMA FishCalls ==
    ASSUME TasksOK, running \in Slot, Fish
    PROVE  Calls /\ Keeps
<1>1. DOMAIN Me = Variables
  BY GotoKeeps
<1>2. 1 \in Requests /\ 4 \in Requests
  BY UserlandAssumption
<1>3. CASE OpenStep("fish", "main", "rtc", "open0")
  <2>. DEFINE me == [Me EXCEPT !.pc = "open0", !.fd = OpenReturns("rtc")]
  <2>1. DOMAIN me = Variables /\ me.prog = Me.prog
    BY <1>1 DEF Variables, Shell, Started
  <2>. QED
    BY <1>3, <2>1, OpenCalls, ContinueKeeps DEF OpenStep
<1>4. ASSUME NEW k, NEW from, NEW to, OpenFrame(k, from, to) PROVE Calls /\ Keeps
  <2>1. OpenCall(Frames[k]) /\ Me.prog \in FilePrograms
    BY <1>4 DEF OpenFrame, At, FilePrograms
  <2>. DEFINE me == [Me EXCEPT !.pc = to, !.frames.fds[k] = OpenReturns(Frames[k])]
  <2>2. DOMAIN me = Variables /\ me.prog = Me.prog
    BY <1>1 DEF Variables, Shell, Started
  <2>3. Goto("return") \/ Continue(me)
    BY <1>4 DEF OpenFrame
  <2>. QED
    BY <2>1, <2>2, <2>3, OpenCalls, GotoKeeps, ContinueKeeps
<1>5. ASSUME NEW k, NEW from, NEW to, ReadFrame(k, from, to) PROVE Calls /\ Keeps
  <2>. DEFINE fd == Me.frames.fds[k]
              me1 == [Me EXCEPT !.pc = to, !.frames.c[k] = "\n", !.frames.eof[k] = TRUE]
              me2 == [Me EXCEPT !.pc = to, !.frames.c[k] = Bytes(fd, 1)[1]]
  <2>1. /\ DOMAIN me1 = Variables /\ me1.prog = Me.prog
        /\ DOMAIN me2 = Variables /\ me2.prog = Me.prog
    BY <1>1 DEF Variables, Shell, Started
  <2>2. \/ SameFiles /\ Goto(to)
        \/ ReadCall(fd, 1) /\ (Continue(me1) \/ Continue(me2))
    BY <1>5 DEF ReadFrame
  <2>. QED
    BY <1>2, <2>1, <2>2, SameCalls, ReadCalls, GotoKeeps, ContinueKeeps
<1>6. CASE AddBlink
  <2>. DEFINE me == [Me EXCEPT !.pc = "read0", !.frames.col = @ + 1]
  <2>1. DOMAIN me = Variables /\ me.prog = Me.prog
    BY <1>1 DEF Variables, Shell, Started
  <2>. QED
    BY <1>6, <2>1, SameCalls, ContinueKeeps DEF AddBlink
<1>7. ASSUME NEW k, NEW from, NEW to, CloseFrame(k, from, to) PROVE Calls /\ Keeps
  <2>. DEFINE me == [Me EXCEPT !.pc = to, !.frames.c[k] = "0"]
  <2>1. DOMAIN me = Variables /\ me.prog = Me.prog
    BY <1>1 DEF Variables, Shell, Started
  <2>2. \/ CloseCall(Me.frames.fds[k]) /\ Goto(to)
        \/ SameFiles /\ Continue(me)
    BY <1>7 DEF CloseFrame
  <2>. QED
    BY <2>1, <2>2, SameCalls, CloseCalls, GotoKeeps, ContinueKeeps
<1>8. CASE NextRow
  <2>. DEFINE me(pc) == [Me EXCEPT !.frames.row = @ + 1, !.frames.col = 0, !.pc = pc]
  <2>1. \A pc : DOMAIN me(pc) = Variables /\ me(pc).prog = Me.prog
    BY <1>1 DEF Variables, Shell, Started
  <2>2. SameFiles /\ \E pc : Continue(me(pc))
    BY <1>8 DEF NextRow
  <2>. QED
    BY <2>1, <2>2, SameCalls, ContinueKeeps
<1>9. CASE Blinking
  <2>1. \/ SameFiles /\ Goto("ticks")
        \/ ReadCall(Me.fd, 4) /\ Goto("close")
        \/ CloseCall(Me.fd) /\ Goto("return")
    BY <1>9 DEF Blinking
  <2>. QED
    BY <1>2, <2>1, SameCalls, ReadCalls, CloseCalls, GotoKeeps
<1>. QED
  BY <1>3, <1>4, <1>5, <1>6, <1>7, <1>8, <1>9 DEF Fish

(* Every step of a program but its last is one of its system calls.        *)
LEMMA ProgramCalls ==
    ASSUME TasksOK, running \in Slot, Program
    PROVE  Return \/ (Calls /\ Keeps)
BY CatAndLsCall, GrepCalls, PlainProgramsCall, SyserrCalls, FishCalls DEF Program

-----------------------------------------------------------------------------
(* The programs take turns.                                                *)

LEMMA NoFilesInNew == ASSUME NEW s \in Slot, file_array[s] = NewTable PROVE FilesOpen(s) = {}
BY NewTableOK DEF FilesOpen, Used

(* A program that can open a file is in front of the only terminal that    *)
(* has such programs, and those behind it there are shells.                *)
LEMMA TurnsAreTaken ==
    ASSUME OneFileTerminal, UsersInv, Me.prog \in FilePrograms
    PROVE  TakesTurns
<1>1. StacksOK /\ WhereProgramsAre /\ OnlyTheyOpenFiles /\ FilesHaveTheirProgram
  BY DEF UsersInv, FilesInv
<1>2. /\ shown \in Terminal /\ Len(stack[shown]) \in 1 .. Len(stack[shown])
      /\ running = stack[shown][Len(stack[shown])]
      /\ stack \in [Terminal -> Seq(Slot)]
  BY <1>1, LenProperties DEF StacksOK
<1>3. UsesFiles(shown)
  BY <1>1, <1>2 DEF WhereProgramsAre, Me
<1>4. ASSUME NEW s \in Slot \ {running}, FilesOpen(s) # {} PROVE FALSE
  <2>1. s \in Procs!Placed /\ task[s].prog \in FilePrograms
    BY <1>1, <1>4, NoFilesInNew DEF FilesHaveTheirProgram, OnlyTheyOpenFiles
  <2>2. PICK t \in Terminal : \E k \in 1 .. Len(stack[t]) : stack[t][k] = s
    BY <1>2, <2>1, PlacedIs DEF Procs!Placed, Procs!ToSet
  <2>3. PICK k \in 1 .. Len(stack[t]) : stack[t][k] = s
    BY <2>2
  <2>4. t = shown
    <3>1. task[stack[t][k]].prog \in FilePrograms
      BY <2>1, <2>3
    <3>2. UsesFiles(t)
      BY <1>1, <3>1 DEF WhereProgramsAre
    <3>. QED
      BY <1>2, <1>3, <3>2 DEF OneFileTerminal
  <2>5. k < Len(stack[t])
    BY <1>2, <1>4, <2>3, <2>4
  <2>6. task[s].prog = "shell"
    BY <1>1, <2>3, <2>5 DEF WhereProgramsAre
  <2>. QED
    BY <2>1, <2>6 DEF FilePrograms
<1>. QED
  BY <1>4 DEF TakesTurns

LEMMA CallsArePolite ==
    ASSUME OneFileTerminal, UsersInv, Calls
    PROVE  [PoliteNext]_vars
BY TurnsAreTaken DEF Calls, PoliteNext

LEMMA UsersArePolite ==
    ASSUME OneFileTerminal, UsersInv, [UserNext]_userVars
    PROVE  [PoliteNext]_vars
<1>1. TasksOK /\ running \in Slot
  BY RunningIsPlaced DEF UsersInv, FilesInv
<1>2. CASE ShellStep
  BY <1>2 DEF ShellStep, ShellExecutes, ShellFindsNoCommand, ShellExits, PoliteNext, ProcessStep
<1>3. CASE Program
  <2>1. CASE Return
    BY <2>1 DEF Return, PoliteNext, ProcessStep
  <2>. QED
    BY <1>1, <1>3, <2>1, ProgramCalls, CallsArePolite
<1>4. ASSUME NEW t \in Terminal, SwitchKey(t) PROVE [PoliteNext]_vars
  BY <1>4 DEF SwitchKey, PoliteNext, ProcessStep
<1>5. CASE UNCHANGED userVars
  BY <1>5 DEF userVars
<1>. QED
  BY <1>2, <1>3, <1>4, <1>5 DEF UserNext

(* Where the programs are once another is pushed, and once one is popped.  *)
LEMMA PushedPlaces ==
    ASSUME StacksOK, NEW p \in Slot, Procs!Push(p)
    PROVE  \A t \in Terminal : \A k \in 1 .. Len(stack'[t]) :
              \/ /\ t = shown /\ k = Len(stack'[t]) /\ stack'[t][k] = p
              \/ /\ k \in 1 .. Len(stack[t]) /\ stack'[t][k] = stack[t][k]
                 /\ k < Len(stack'[t]) =>
                       k < Len(stack[t]) \/ (t = shown /\ k = Len(stack[t]))
<1>1. /\ stack \in [Terminal -> Seq(Slot)] /\ shown \in Terminal
      /\ stack' = [stack EXCEPT ![shown] = Append(stack[shown], p)]
  BY DEF StacksOK, Procs!Push
<1>2. stack[shown] \in Seq(Slot) /\ Len(stack[shown]) \in Nat
  BY <1>1, LenProperties
<1>3. /\ Len(Append(stack[shown], p)) = Len(stack[shown]) + 1
      /\ \A k \in 1 .. Len(stack[shown]) : Append(stack[shown], p)[k] = stack[shown][k]
      /\ Append(stack[shown], p)[Len(stack[shown]) + 1] = p
  BY <1>2, AppendProperties
<1>4. \A t \in Terminal : Len(stack[t]) \in Nat
  BY <1>1, LenProperties
<1>5. /\ stack'[shown] = Append(stack[shown], p)
      /\ \A t \in Terminal \ {shown} : stack'[t] = stack[t]
  BY <1>1
<1>. TAKE t \in Terminal
<1>. TAKE k \in 1 .. Len(stack'[t])
<1>6. CASE t # shown
  BY <1>5, <1>6
<1>7. CASE t = shown
  BY <1>2, <1>3, <1>5, <1>7
<1>. QED
  BY <1>6, <1>7

LEMMA PoppedPlaces ==
    ASSUME StacksOK, Procs!Pop
    PROVE  \A t \in Terminal : \A k \in 1 .. Len(stack'[t]) :
              /\ k \in 1 .. Len(stack[t]) /\ stack'[t][k] = stack[t][k]
              /\ k < Len(stack'[t]) => k < Len(stack[t])
              /\ stack[t][k] # running
              /\ t = shown => k < Len(stack[t])
<1>1. /\ stack \in [Terminal -> Seq(Slot)] /\ shown \in Terminal
      /\ Len(stack[shown]) > 1
      /\ stack' = [stack EXCEPT ![shown] = Front(stack[shown])]
      /\ running = stack[shown][Len(stack[shown])]
  BY DEF StacksOK, Procs!Pop, Procs!Front, Front
<1>2. stack[shown] \in Seq(Slot) /\ Len(stack[shown]) \in Nat
  BY <1>1, LenProperties
<1>3. /\ Len(Front(stack[shown])) = Len(stack[shown]) - 1
      /\ \A k \in 1 .. Len(stack[shown]) - 1 : Front(stack[shown])[k] = stack[shown][k]
  BY <1>1, <1>2, FrontOf
<1>4. \A t, u \in Terminal :
         \A k \in 1 .. Len(stack[t]), l \in 1 .. Len(stack[u]) :
            stack[t][k] = stack[u][l] => t = u /\ k = l
  BY DEF StacksOK
<1>5. /\ stack'[shown] = Front(stack[shown])
      /\ \A t \in Terminal \ {shown} : stack'[t] = stack[t]
  BY <1>1
<1>. TAKE t \in Terminal
<1>. TAKE k \in 1 .. Len(stack'[t])
<1>6. CASE t # shown
  <2>1. Len(stack[shown]) \in 1 .. Len(stack[shown])
    BY <1>1, <1>2
  <2>2. stack'[t] = stack[t]
    BY <1>5, <1>6
  <2>. QED
    BY <1>1, <1>4, <1>6, <2>1, <2>2
<1>7. CASE t = shown
  <2>1. k \in 1 .. Len(stack[shown]) - 1
    BY <1>3, <1>5, <1>7
  <2>2. k \in 1 .. Len(stack[shown]) /\ Len(stack[shown]) \in 1 .. Len(stack[shown])
        /\ k # Len(stack[shown]) /\ k < Len(stack[shown])
    BY <1>2, <2>1
  <2>. QED
    BY <1>1, <1>3, <1>4, <1>5, <1>7, <2>1, <2>2
<1>. QED
  BY <1>6, <1>7

(* What the system calls of a program leave alone: the stacks, the tables  *)
(* of the others and, unless it opens one, that it has no files open.      *)
LEMMA CallsLeave ==
    ASSUME UsersInv, Calls
    PROVE  /\ UNCHANGED procVars
           /\ \A s \in Slot \ {running} : file_array'[s] = file_array[s]
           /\ FilesOpen(running)' # {} => FilesOpen(running) # {} \/ Me.prog \in FilePrograms
<1>1. FilesInv /\ running \in Slot
  BY RunningIsPlaced DEF UsersInv, FilesInv
<1>2. CASE UNCHANGED vars
  BY <1>2 DEF vars, procVars, FilesOpen, Used
<1>3. ASSUME NEW fd, NEW d, Replaces(fd, d)
      PROVE  /\ UNCHANGED procVars
             /\ \A s \in Slot \ {running} : file_array'[s] = file_array[s]
             /\ \A g \in Fds : file_array'[running][g] =
                                  IF g = fd THEN d ELSE file_array[running][g]
  BY <1>1, <1>3 DEF Replaces, FilesInv, TablesOK
<1>4. ASSUME NEW fd \in Fds, NEW d, Replaces(fd, d),
             \/ d.flags = 0 \/ d.fops_ptr # "file_fops" \/ FilesOpen(running) # {}
             \/ Me.prog \in FilePrograms
      PROVE  FilesOpen(running)' # {} => FilesOpen(running) # {} \/ Me.prog \in FilePrograms
  <2>1. running' = running
    BY <1>3, <1>4 DEF procVars
  <2>. QED
    BY <1>3, <1>4, <2>1 DEF FilesOpen, Used
<1>5. \A fd, d : Replaces(fd, d) => fd \in Fds
  BY FdFacts DEF Replaces
<1>6. ASSUME NEW fname \in Names, OpenRtc(fname)
      PROVE  Replaces(OpenReturns(fname), RtcDescriptor)
  BY <1>1, <1>6, OpenRtcReplaces
<1>7. ASSUME NEW fname \in Names, OpenFile(fname)
      PROVE  Replaces(OpenReturns(fname), OpenedFile(fname))
  BY <1>1, <1>7, OpenFileReplaces
<1>8. ASSUME NEW fd \in Fds, Close(fd)
      PROVE  Replaces(fd, Cleared)
  BY <1>1, <1>8, CloseReplaces
<1>9. ASSUME NEW fd \in Fds, NEW n \in Requests, ReadFile(fd, n)
      PROVE  FilesOpen(running) # {} /\ \E d : Replaces(fd, d)
  <2>1. \E d : Replaces(fd, d)
    BY <1>1, <1>9, ReadReplaces
  <2>2. fd \in FilesOpen(running)
    BY <1>9 DEF ReadFile, CanRead, FilesOpen
  <2>. QED
    BY <2>1, <2>2
<1>. QED
  BY <1>2, <1>3, <1>4, <1>5, <1>6, <1>7, <1>8, <1>9, DescriptorFacts DEF Calls

LEMMA FreeSlotIsFree ==
    ASSUME Execute
    PROVE  FreeSlot \in Slot /\ FreeSlot \notin Procs!Placed
<1>1. Slot \ Procs!Placed \in SUBSET Nat /\ Slot \ Procs!Placed # {}
  BY FilesAssumption DEF Execute
<1>2. \E s \in Slot \ Procs!Placed : \A r \in Slot \ Procs!Placed : s <= r
  BY <1>1, LeastNumber, Zenon
<1>. QED
  BY <1>2 DEF FreeSlot

LEMMA ShellExecutesInv ==
    ASSUME OneFileTerminal, UsersInv, FilesInv',
           NEW cmd \in Commands[shown], ShellExecutes(cmd)
    PROVE  UsersInv'
<1>. DEFINE new == FreeSlot
<1>1. /\ new \in Slot /\ new \notin Procs!Placed
      /\ StacksOK /\ Procs!Push(new) /\ task' = [task EXCEPT ![new] = Started(cmd.prog, cmd.arg)]
      /\ file_array' = [file_array EXCEPT ![new] = NewTable]
      /\ file_array \in [Slot -> [Fds -> Descriptors]]
  BY FreeSlotIsFree DEF ShellExecutes, Execute, UsersInv, FilesInv, TablesOK
<1>. HIDE DEF new
<1>2. /\ \A s \in Slot : task'[s] = IF s = new THEN Started(cmd.prog, cmd.arg) ELSE task[s]
      /\ DOMAIN task' = Slot
  BY <1>1 DEF UsersInv, TasksOK
<1>3. TasksOK'
  BY <1>2 DEF UsersInv, TasksOK, Variables, Shell, Started
<1>4. ASSUME NEW t \in Terminal, NEW k \in 1 .. Len(stack'[t])
      PROVE  /\ k < Len(stack'[t]) => task'[stack'[t][k]].prog = "shell"
             /\ task'[stack'[t][k]].prog \in FilePrograms => UsesFiles(t)
  <2>1. CASE t = shown /\ k = Len(stack'[t]) /\ stack'[t][k] = new
    <3>1. task'[new].prog = cmd.prog
      BY <1>1, <1>2 DEF Started
    <3>. QED
      BY <2>1, <3>1 DEF UsesFiles
  <2>2. CASE /\ k \in 1 .. Len(stack[t]) /\ stack'[t][k] = stack[t][k]
             /\ k < Len(stack'[t]) =>
                   k < Len(stack[t]) \/ (t = shown /\ k = Len(stack[t]))
    <3>1. stack[t][k] \in Procs!Placed /\ stack[t][k] \in Slot
      <4>1. stack \in [Terminal -> Seq(Slot)] /\ stack[t] \in Seq(Slot)
        BY <1>1 DEF StacksOK
      <4>. QED
        BY <2>2, <4>1, PlacedIs, ElementOfSeq DEF Procs!Placed, Procs!ToSet
    <3>2. task'[stack'[t][k]] = task[stack[t][k]]
      BY <1>1, <1>2, <2>2, <3>1
    <3>3. t = shown /\ k = Len(stack[t]) => task[stack[t][k]].prog = "shell"
      BY <1>1 DEF ShellExecutes, At, Me, StacksOK
    <3>. QED
      BY <2>2, <3>2, <3>3 DEF UsersInv, WhereProgramsAre
  <2>. QED
    BY <1>1, <2>1, <2>2, PushedPlaces
<1>5. ASSUME NEW s \in Slot, FilesOpen(s)' # {} PROVE task'[s].prog \in FilePrograms
  <2>1. s # new
    BY <1>1, <1>5, NewTableOK DEF FilesOpen, Used
  <2>2. file_array'[s] = file_array[s]
    BY <1>1, <2>1
  <2>. QED
    BY <1>2, <1>5, <2>1, <2>2 DEF UsersInv, OnlyTheyOpenFiles, FilesOpen, Used
<1>. QED
  BY <1>3, <1>4, <1>5 DEF UsersInv, WhereProgramsAre, OnlyTheyOpenFiles

(* A program halts, and its slot is left to whom it is given next.         *)
LEMMA HaltsInv ==
    ASSUME UsersInv, FilesInv', Halt,
           task' = task \/ task' = [task EXCEPT ![running] = Shell]
    PROVE  UsersInv'
<1>1. /\ StacksOK /\ Procs!Pop /\ running \in Slot
      /\ \A s \in Slot \ {running} : task'[s] = task[s]
      /\ file_array' = [file_array EXCEPT ![running] = NewTable]
      /\ file_array \in [Slot -> [Fds -> Descriptors]]
  <2>1. running \in Slot
    BY RunningIsPlaced DEF UsersInv, FilesInv
  <2>2. ClosedTable(file_array[running]) = NewTable
    BY <2>1, ClosedIsNew DEF UsersInv, FilesInv, TablesOK
  <2>. QED
    BY <2>1, <2>2 DEF Halt, UsersInv, FilesInv, TablesOK, TasksOK
<1>2. TasksOK'
  BY <1>1 DEF UsersInv, TasksOK, Variables
<1>3. ASSUME NEW t \in Terminal, NEW k \in 1 .. Len(stack'[t])
      PROVE  /\ k < Len(stack'[t]) => task'[stack'[t][k]].prog = "shell"
             /\ task'[stack'[t][k]].prog \in FilePrograms => UsesFiles(t)
  <2>1. /\ k \in 1 .. Len(stack[t]) /\ stack'[t][k] = stack[t][k]
        /\ k < Len(stack'[t]) => k < Len(stack[t])
        /\ stack[t][k] # running
    BY <1>1, PoppedPlaces
  <2>2. stack[t][k] \in Slot
    <3>1. stack[t] \in Seq(Slot)
      BY <1>1 DEF StacksOK
    <3>. QED
      BY <2>1, <3>1, ElementOfSeq
  <2>3. task'[stack'[t][k]] = task[stack[t][k]]
    BY <1>1, <2>1, <2>2
  <2>. QED
    BY <2>1, <2>3 DEF UsersInv, WhereProgramsAre
<1>4. ASSUME NEW s \in Slot, FilesOpen(s)' # {} PROVE task'[s].prog \in FilePrograms
  <2>1. s # running
    BY <1>1, <1>4, NewTableOK DEF FilesOpen, Used
  <2>. QED
    BY <1>1, <1>4, <2>1 DEF UsersInv, OnlyTheyOpenFiles, FilesOpen, Used
<1>. QED
  BY <1>2, <1>3, <1>4 DEF UsersInv, WhereProgramsAre, OnlyTheyOpenFiles

LEMMA CallsInv ==
    ASSUME UsersInv, FilesInv', Calls, Keeps
    PROVE  UsersInv'
<1>1. StacksOK /\ running \in Slot
  BY RunningIsPlaced DEF UsersInv, FilesInv
<1>2. PICK me : /\ task' = [task EXCEPT ![running] = me]
                /\ DOMAIN me = Variables /\ me.prog = Me.prog
  BY DEF Keeps
<1>3. TasksOK'
  BY <1>1, <1>2 DEF UsersInv, TasksOK, Variables
<1>4. \A s \in Slot : task'[s].prog = task[s].prog
  BY <1>1, <1>2 DEF UsersInv, TasksOK, Me
<1>5. WhereProgramsAre'
  <2>1. stack' = stack
    BY CallsLeave DEF procVars
  <2>2. \A t \in Terminal : \A k \in 1 .. Len(stack[t]) : stack[t][k] \in Slot
    BY <1>1, ElementOfSeq DEF StacksOK
  <2>. QED
    BY <1>4, <2>1, <2>2 DEF UsersInv, WhereProgramsAre
<1>6. ASSUME NEW s \in Slot, FilesOpen(s)' # {} PROVE task[s].prog \in FilePrograms
  <2>1. CASE s = running
    <3>1. FilesOpen(running) # {} \/ Me.prog \in FilePrograms
      <4>1. running' = running
        BY CallsLeave DEF procVars
      <4>. QED
        BY <1>6, <2>1, <4>1, CallsLeave DEF FilesOpen, Used
    <3>. QED
      BY <1>1, <2>1, <3>1 DEF UsersInv, OnlyTheyOpenFiles, Me
  <2>2. CASE s # running
    BY <1>6, <2>2, CallsLeave DEF UsersInv, OnlyTheyOpenFiles, FilesOpen, Used
  <2>. QED
    BY <2>1, <2>2
<1>7. OnlyTheyOpenFiles'
  BY <1>4, <1>6 DEF OnlyTheyOpenFiles
<1>. QED
  BY <1>3, <1>5, <1>7 DEF UsersInv

LEMMA InitUsersInv == UserInit => UsersInv
<1>. SUFFICES ASSUME UserInit PROVE UsersInv
  OBVIOUS
<1>1. FilesInv /\ \A s \in Slot : file_array[s] = NewTable
  BY InitFilesInv DEF UserInit, Init
<1>2. \A s \in Slot : task[s] = Shell
  BY DEF UserInit
<1>3. TasksOK
  BY DEF UserInit, TasksOK, Variables
<1>4. WhereProgramsAre
  <2>1. \A t \in Terminal : \A k \in 1 .. Len(stack[t]) : stack[t][k] \in Slot
    BY <1>1, ElementOfSeq DEF FilesInv, StacksOK
  <2>2. Shell.prog = "shell" /\ "shell" \notin FilePrograms
    BY DEF Shell, Started, FilePrograms
  <2>. QED
    BY <1>2, <2>1, <2>2 DEF WhereProgramsAre
<1>5. OnlyTheyOpenFiles
  BY <1>1, NoFilesInNew DEF OnlyTheyOpenFiles
<1>. QED
  BY <1>1, <1>3, <1>4, <1>5 DEF UsersInv

LEMMA NextUsersInv ==
    ASSUME OneFileTerminal, UsersInv, [UserNext]_userVars
    PROVE  UsersInv'
<1>1. FilesInv'
  BY UsersArePolite, NextFilesInv DEF UsersInv
<1>2. TasksOK /\ running \in Slot
  BY RunningIsPlaced DEF UsersInv, FilesInv
<1>3. ASSUME UNCHANGED <<stack, file_array, task>> PROVE UsersInv'
  BY <1>1, <1>3 DEF UsersInv, TasksOK, WhereProgramsAre, OnlyTheyOpenFiles, FilesOpen, Used
<1>4. CASE ShellStep
  <2>1. ASSUME NEW cmd \in Commands[shown], ShellExecutes(cmd) PROVE UsersInv'
    BY <1>1, <2>1, ShellExecutesInv
  <2>2. CASE ShellFindsNoCommand
    BY <1>3, <2>2 DEF ShellFindsNoCommand, vars
  <2>3. CASE Halt /\ task' = task
    BY <1>1, <2>3, HaltsInv
  <2>4. CASE HaltFirstShell /\ task' = task
    <3>1. /\ \A s \in Slot \ {running} : file_array'[s] = file_array[s]
          /\ file_array'[running] = NewTable /\ stack' = stack
      BY <1>2, <2>4 DEF HaltFirstShell, procVars, UsersInv, FilesInv, TablesOK
    <3>2. \A s \in Slot : FilesOpen(s)' # {} => FilesOpen(s) # {}
      BY <3>1, NewTableOK DEF FilesOpen, Used
    <3>. QED
      BY <1>1, <2>4, <3>1, <3>2 DEF UsersInv, TasksOK, WhereProgramsAre, OnlyTheyOpenFiles
  <2>. QED
    BY <1>4, <2>1, <2>2, <2>3, <2>4 DEF ShellStep, ShellExits
<1>5. CASE Program
  <2>1. CASE Return
    BY <1>1, <2>1, HaltsInv DEF Return
  <2>. QED
    BY <1>1, <1>2, <1>5, <2>1, ProgramCalls, CallsInv
<1>6. ASSUME NEW t \in Terminal, SwitchKey(t) PROVE UsersInv'
  BY <1>3, <1>6 DEF SwitchKey, Switch, Procs!Show
<1>7. CASE UNCHANGED userVars
  BY <1>3, <1>7 DEF userVars, vars
<1>. QED
  BY <1>4, <1>5, <1>6, <1>7 DEF UserNext

LEMMA AlwaysUsersInv ==
    ASSUME OneFileTerminal
    PROVE  UserSpec => []UsersInv
<1>1. UsersInv /\ [UserNext]_userVars => UsersInv'
  BY NextUsersInv
<1>. QED
  BY <1>1, InitUsersInv, PTL DEF UserSpec

(* When the commands that open files are typed on one terminal only, the   *)
(* shipped programs use the descriptors as users who take turns: all that  *)
(* is proved of those holds of them.                                       *)
THEOREM UsersDoTakeTurns ==
    ASSUME OneFileTerminal
    PROVE  UserSpec => UsersTakeTurns
<1>1. UserInit => Init
  BY DEF UserInit
<1>2. UsersInv /\ [UserNext]_userVars => [PoliteNext]_vars
  BY UsersArePolite
<1>. QED
  BY <1>1, <1>2, AlwaysUsersInv, PTL DEF UserSpec, UsersTakeTurns, PoliteSpec

(* So nothing of a program is left behind in its slot, and every program's *)
(* handles are its own.                                                    *)
THEOREM ProgramsKeepTheirFiles ==
    ASSUME OneFileTerminal
    PROVE  UserSpec => []FilesHaveTheirProgram /\ RefinesOpenFiles
BY UsersDoTakeTurns, FilesKeepTheirProgram, FilesImplementHandles, PTL DEF UsersTakeTurns

-----------------------------------------------------------------------------
(* What a program reads.                                                   *)

(* All there is to read of a file, of the directory and of the clock.      *)
Whole(f) == IF f = "." THEN DirectoryNames ELSE Text(f)

(* The descriptor of an open file from which n bytes or names were read.   *)
OnFile(f, n) == IF f = "rtc" THEN RtcDescriptor ELSE MovedTo(OpenedFile(f), n)

Holds(table, fd, f, n) ==
    /\ fd \in FD_BEGIN .. MAX_FD - 1 /\ n \in 0 .. Len(Whole(f))
    /\ table[fd] = OnFile(f, n)

LEMMA WholeFacts ==
    ASSUME NEW f \in Names
    PROVE  /\ Whole(f) \in Seq(STRING) /\ Len(Whole(f)) \in Nat
           /\ f = "rtc" => Len(Whole(f)) = 0 /\ Entry(f).type = 0
           /\ f = "." => Entry(f).type = 1 /\ Len(Whole(f)) = Len(directory)
           /\ f \notin {"rtc", "."} => /\ Entry(f).type \notin {0, 1}
                                       /\ Len(Whole(f)) = Entry(f).length
                                       /\ Whole(f) = contents[f]
<1>1. /\ Entry(f).type = 0 <=> f = "rtc"
      /\ Entry(f).type = 1 <=> f = "."
  BY ImageAssumption
<1>2. CASE f = "."
  <2>1. /\ DOMAIN directory = 1 .. Len(directory) /\ Len(directory) \in Nat
        /\ \A k \in 1 .. Len(directory) : directory[k].name \in STRING
    <3>1. directory \in Seq([name : STRING, type : 0 .. 2, length : Nat])
      BY DirectoryAssumption
    <3>2. \A k \in 1 .. Len(directory) :
            directory[k] \in [name : STRING, type : 0 .. 2, length : Nat]
      BY <3>1, ElementOfSeq
    <3>. QED
      BY <3>1, <3>2, LenProperties
  <2>2. DirectoryNames = [k \in 1 .. Len(directory) |-> directory[k].name]
    BY <2>1 DEF DirectoryNames
  <2>3. DirectoryNames \in Seq(STRING) /\ Len(DirectoryNames) = Len(directory)
    BY <2>1, <2>2
  <2>. QED
    BY <1>1, <1>2, <2>1, <2>3 DEF Whole
<1>3. CASE f = "rtc"
  <2>1. f \notin DOMAIN contents
    BY <1>1, <1>3, ImageAssumption
  <2>. QED
    BY <1>1, <1>3, <2>1 DEF Whole, Text
<1>4. CASE f \notin {"rtc", "."}
  <2>1. Entry(f).type = 2
    <3>1. Entry(f).type \in 0 .. 2
      BY EntryOf
    <3>. QED
      BY <1>1, <1>4, <3>1
  <2>2. /\ f \in DOMAIN contents /\ contents[f] \in Seq(STRING)
        /\ Len(contents[f]) = Entry(f).length
    BY <2>1, ImageAssumption
  <2>. QED
    BY <1>4, <2>1, <2>2, LenProperties DEF Whole, Text
<1>. QED
  BY <1>2, <1>3, <1>4

LEMMA OnFileFacts ==
    ASSUME NEW f \in Names, NEW n \in Nat
    PROVE  /\ OnFile(f, n).flags = 1
           /\ OnFile(f, n).fops_ptr = IF f = "rtc" THEN "rtc_fops" ELSE "file_fops"
           /\ OnFile(f, n).inode_ptr = IF f \in {"rtc", "."} THEN NULL ELSE f
           /\ f # "rtc" => /\ OnFile(f, n).file_position = n
                           /\ \A m \in Nat : MovedTo(OnFile(f, n), m) = OnFile(f, m)
BY WholeFacts DEF OnFile, RtcDescriptor, MovedTo, OpenedFile, Descriptor

(* A file that is opened is at its beginning.                              *)
LEMMA OpenHolds ==
    ASSUME UsersInv, NEW f \in Names, OpenReturns(f) # -1, OpenCall(f)
    PROVE  /\ OpenReturns(f) \in FD_BEGIN .. MAX_FD - 1
           /\ file_array[running][OpenReturns(f)] = Cleared
           /\ file_array'[running] =
                [file_array[running] EXCEPT ![OpenReturns(f)] = OnFile(f, 0)]
<1>1. FilesInv /\ running \in Slot /\ file_array \in [Slot -> [Fds -> Descriptors]]
  BY RunningIsPlaced DEF UsersInv, FilesInv, TablesOK
<1>2. OpenFile(f) \/ OpenRtc(f)
  BY DEF OpenCall
<1>3. CASE OpenRtc(f)
  <2>1. f = "rtc"
    BY <1>3, ImageAssumption DEF OpenRtc
  <2>. QED
    BY <1>1, <1>3, <2>1, OpenRtcReplaces DEF Replaces, OnFile
<1>4. CASE OpenFile(f)
  <2>1. f # "rtc"
    BY <1>4, ImageAssumption DEF OpenFile
  <2>2. OnFile(f, 0) = OpenedFile(f)
    BY <2>1 DEF OnFile, MovedTo, OpenedFile, Descriptor
  <2>. QED
    BY <1>1, <1>4, <2>2, OpenFileReplaces DEF Replaces
<1>. QED
  BY <1>2, <1>3, <1>4

(* A read from n to m: it gives what comes next.                           *)
ReadsOn(f, fd, n, req, m) ==
    /\ m \in n .. Len(Whole(f))
    /\ file_array'[running] = [file_array[running] EXCEPT ![fd] = OnFile(f, m)]
    /\ ReadReturns(fd, req) = m - n /\ m <= n + req
    /\ m = n => n = Len(Whole(f))
    /\ Bytes(fd, req) = SubSeq(Whole(f), n + 1, m)
    /\ f = "." /\ m # n => m = n + 1 /\ Bytes(fd, req) = <<directory[m].name>>

(* A read gives what comes next, and gives nothing only at the end.        *)
LEMMA ReadHolds ==
    ASSUME UsersInv, NEW f \in Names, NEW fd, NEW n, Holds(file_array[running], fd, f, n),
           NEW req \in Requests \ {0}, ReadCall(fd, req)
    PROVE  \E m : ReadsOn(f, fd, n, req, m)
<1>. DEFINE d == file_array[running][fd]
            N == Len(Whole(f))
<1>1. /\ running \in Slot /\ file_array \in [Slot -> [Fds -> Descriptors]]
      /\ file_array[running] \in [Fds -> Descriptors]
      /\ FilesHaveTheirProgram
  BY RunningIsPlaced DEF UsersInv, FilesInv, TablesOK
<1>2. fd \in Fds /\ fd # 1 /\ n \in 0 .. N /\ d = OnFile(f, n)
  BY FdFacts DEF Holds, FD_BEGIN
<1>3. N \in Nat /\ n \in Nat /\ n <= N /\ Whole(f) \in Seq(STRING)
  BY <1>2, WholeFacts
<1>4. d.flags = 1 /\ d.fops_ptr = IF f = "rtc" THEN "rtc_fops" ELSE "file_fops"
  BY <1>2, <1>3, OnFileFacts
<1>5. CanRead(fd)
  BY <1>2, <1>4 DEF CanRead, Used
<1>6. req \in Nat /\ req > 0
  BY FilesAssumption
<1>7. SubSeq(Whole(f), n + 1, n) = <<>>
  BY <1>3, SubSeqEmpty, n + 1 \in Int, n < n + 1
<1>8. CASE f = "rtc"
  <2>1. N = 0 /\ n = 0
    BY <1>3, <1>8, WholeFacts
  <2>2. ReadReturns(fd, req) = 0 /\ SameFiles
    BY <1>4, <1>5, <1>8 DEF ReadReturns, ReadCall
  <2>3. Bytes(fd, req) = <<>>
    BY <2>2 DEF Bytes
  <2>4. file_array'[running] = [file_array[running] EXCEPT ![fd] = OnFile(f, n)]
    BY <1>1, <1>2, <2>2 DEF SameFiles, vars
  <2>5. ReadsOn(f, fd, n, req, n)
    BY <1>3, <1>6, <1>7, <1>8, <2>1, <2>2, <2>3, <2>4 DEF ReadsOn
  <2>. QED
    BY <2>5
<1>9. CASE f # "rtc"
  <2>1. /\ d.fops_ptr = "file_fops" /\ d.file_position = n
        /\ d.inode_ptr = IF f = "." THEN NULL ELSE f
    BY <1>2, <1>3, <1>4, <1>9, OnFileFacts
  <2>2. pcb = running
    <3>1. fd \in FilesOpen(running)
      BY <1>2, <1>4, <2>1 DEF FilesOpen, Used
    <3>. QED
      BY <1>1, <3>1 DEF FilesHaveTheirProgram
  <2>. DEFINE a == Advance(d, req)
              m == n + a
  <2>3. /\ a \in Nat /\ n + a <= N /\ (a = 0 => n = N) /\ a <= req
        /\ f = "." => a \in {0, 1}
    <3>1. CASE f = "."
      <4>1. d.inode_ptr = NULL /\ N = Len(directory) /\ num_inodes >= N
        BY <2>1, <3>1, WholeFacts, DirectoryAssumption
      <4>2. a = IF n < N THEN 1 ELSE 0
        <5>1. a = IF n < N /\ n < num_inodes THEN 1 ELSE 0
          BY <2>1, <4>1 DEF Advance
        <5>2. n < N => n < num_inodes
          <6>1. num_inodes \in Int
            BY DirectoryAssumption
          <6>. QED
            BY <1>3, <4>1, <6>1
        <5>. QED
          BY <5>1, <5>2
      <4>. QED
        BY <1>3, <1>6, <4>2
    <3>2. CASE f # "."
      <4>1. d.inode_ptr = f /\ f # NULL /\ N = Entry(f).length
        BY <1>9, <2>1, <3>2, WholeFacts, DirectoryAssumption
      <4>2. a = IF N - n <= 0 THEN 0 ELSE IF req < N - n THEN req ELSE N - n
        BY <2>1, <4>1 DEF Advance
      <4>. QED
        BY <1>3, <1>6, <3>2, <4>2
    <3>. QED
      BY <3>1, <3>2
  <2>4. ReadReturns(fd, req) = a
    BY <1>5, <2>1, <2>2 DEF ReadReturns, ReadPcb
  <2>5. ReadFile(fd, req)
    BY <1>5, <2>1 DEF ReadCall
  <2>6. file_array'[running] = [file_array[running] EXCEPT ![fd] = OnFile(f, m)]
    <3>1. file_array' = [file_array EXCEPT ![running] =
                           [@ EXCEPT ![fd] = MovedTo(d, d.file_position + a)]]
      BY <1>1, <1>2, <2>2, <2>5 DEF ReadFile, ReadPcb, MovedTo
    <3>2. MovedTo(d, d.file_position + a) = OnFile(f, m)
      BY <1>2, <1>3, <1>9, <2>1, <2>3, OnFileFacts, n + a \in Nat
    <3>. QED
      BY <1>1, <3>1, <3>2
  <2>7. /\ Bytes(fd, req) = SubSeq(Whole(f), n + 1, m)
        /\ f = "." /\ a # 0 => m = n + 1 /\ Bytes(fd, req) = <<directory[m].name>>
    <3>1. CASE a = 0
      BY <1>3, <1>7, <2>3, <2>4, <3>1 DEF Bytes
    <3>2. CASE a # 0 /\ f = "."
      <4>1. a = 1 /\ m = n + 1
        BY <2>3, <3>2
      <4>2. Bytes(fd, req) = <<directory[m].name>>
        BY <2>1, <2>2, <2>4, <3>2, <4>1 DEF Bytes, ReadPcb
      <4>3. m \in 1 .. N /\ m \in Int /\ n + 1 = m
        BY <1>3, <2>3, <4>1
      <4>4. Whole(f)[m] = directory[m].name /\ Whole(f)[m] \in STRING
        <5>1. m \in DOMAIN directory
          BY <3>2, <4>3, WholeFacts, DirectoryAssumption, LenProperties
        <5>2. Whole(f)[m] = directory[m].name
          BY <3>2, <5>1 DEF Whole, DirectoryNames
        <5>3. Whole(f)[m] \in STRING
          BY <1>3, <4>3, ElementOfSeq
        <5>. QED
          BY <5>2, <5>3
      <4>. DEFINE b == SubSeq(Whole(f), m, m)
      <4>5. b \in Seq(STRING) /\ Len(b) = 1 /\ b[1] = Whole(f)[m]
        <5>1. \A i \in m .. m : Whole(f)[i] \in STRING
          BY <4>3, <4>4
        <5>2. /\ b \in Seq(STRING) /\ Len(b) = IF m <= m THEN m - m + 1 ELSE 0
              /\ \A i \in 1 .. m - m + 1 : b[i] = Whole(f)[m + i - 1]
          BY <4>3, <5>1, SubSeqProperties
        <5>3. Len(b) = 1 /\ 1 \in 1 .. m - m + 1 /\ m + 1 - 1 = m
          BY <4>3, <5>2
        <5>. QED
          BY <5>2, <5>3
      <4>6. b = <<directory[m].name>>
        <5>. HIDE DEF b
        <5>1. <<directory[m].name>> \in Seq(STRING)
          BY <4>4
        <5>2. \A i \in 1 .. Len(b) : b[i] = <<directory[m].name>>[i]
          BY <4>4, <4>5
        <5>. QED
          BY <4>5, <5>1, <5>2, SeqEqual
      <4>. QED
        BY <4>1, <4>2, <4>3, <4>6
    <3>3. CASE a # 0 /\ f # "."
      <4>1. d.inode_ptr = f /\ f # NULL /\ Whole(f) = contents[f]
        BY <1>9, <2>1, <3>3, WholeFacts, DirectoryAssumption
      <4>2. ~ (a <= 0)
        BY <2>3, <3>3
      <4>. QED
        BY <2>1, <2>2, <2>4, <3>3, <4>1, <4>2 DEF Bytes, ReadPcb
    <3>. QED
      BY <3>1, <3>2, <3>3
  <2>8. m \in n .. N /\ m - n = a /\ (m = n <=> a = 0) /\ m <= n + req
    BY <1>3, <1>6, <2>3
  <2>. HIDE DEF m, a, d
  <2>9. ReadsOn(f, fd, n, req, m)
    BY <2>3, <2>4, <2>6, <2>7, <2>8 DEF ReadsOn
  <2>. QED
    BY <2>9
<1>. QED
  BY <1>8, <1>9

(* A descriptor that is closed leaves the others as they are.              *)
LEMMA CloseLeaves ==
    ASSUME UsersInv, NEW fd, CloseCall(fd)
    PROVE  \A g \in Fds \ {fd} : file_array'[running][g] = file_array[running][g]
<1>1. FilesInv /\ running \in Slot /\ file_array \in [Slot -> [Fds -> Descriptors]]
  BY RunningIsPlaced DEF UsersInv, FilesInv, TablesOK
<1>. QED
  BY <1>1 DEF CloseCall, SameFiles, vars, Close

-----------------------------------------------------------------------------
(* Whole files are read.  What is known of a program's variables x, its    *)
(* descriptors and what it has written so far, at each of its places.      *)

New(table, out) == table = NewTable /\ out = <<>>

(* cat and ls: what is written, or read and about to be, is what the       *)
(* position of the descriptor has passed.                                  *)
Reads(x, table, out, f) ==
    /\ x.pc = "main" => New(table, out)
    /\ x.pc = "read" =>
         /\ f \in Names
         /\ \E n : Holds(table, x.fd, f, n) /\ out = SubSeq(Whole(f), 1, n)
    /\ x.pc = "write" =>
         /\ f \in Names
         /\ \E n : Holds(table, x.fd, f, n) /\ out \o x.got = SubSeq(Whole(f), 1, n)
    /\ x.pc = "return" =>
         out = IF f \in Names THEN Whole(f) ELSE <<"file not found">>

(* What grep finds in the first p entries of the directory.                *)
Found(k) == IF directory[k].name = "." THEN <<>> ELSE Text(directory[k].name)

FoundIn(p) == FlattenSeq([k \in 1 .. p |-> Found(k)])

Searches(x, table, out) ==
    /\ x.pc = "main" => New(table, out)
    /\ x.pc = "names" =>
         \E p : Holds(table, x.fd, ".", p) /\ out = FoundIn(p)
    /\ x.pc = "open" =>
         \E p \in 1 .. Len(directory) :
            /\ Holds(table, x.fd, ".", p) /\ out = FoundIn(p - 1)
            /\ directory[p].name # "." /\ x.got = <<directory[p].name>>
    /\ x.pc = "search" =>
         \E p \in 1 .. Len(directory) :
            /\ Holds(table, x.fd, ".", p) /\ directory[p].name # "."
            /\ x.fd1 # -1 =>
                 /\ x.fd1 # x.fd
                 /\ \E n : /\ Holds(table, x.fd1, directory[p].name, n)
                           /\ out = FoundIn(p - 1) \o SubSeq(Whole(directory[p].name), 1, n)
    /\ x.pc = "close" =>
         \E p : /\ Holds(table, x.fd, ".", p) /\ out = FoundIn(p)
                /\ x.fd1 # x.fd
    /\ x.pc = "return" => out = Searched

(* counter: the numbers written and those left are all there are to write. *)
Question == <<"Enter the Test Number">>

Numbers(max) == [i \in 1 .. max |-> ToString(i)]

CountsUp(x, out) ==
    /\ x.pc = "main" => out = <<>>
    /\ x.pc \in {"line", "wrong"} => out = Question
    /\ x.pc = "count" =>
         \E max \in {0} \cup Counts : \E n \in 0 .. max :
            /\ out = Question \o SubSeq(Numbers(max), 1, n)
            /\ x.got = SubSeq(Numbers(max), n + 1, max)
    /\ x.pc = "return" =>
         Tail(out) \in {<<"Wrong Choice!">>} \cup {Numbers(max) : max \in {0} \cup Counts}

(* syserr: a test that is typed starts from a new table; the test that     *)
(* opens too many files has so far opened as many as it has got.           *)
Lots(k) ==
    [fd \in Fds |-> IF fd < FD_BEGIN THEN TerminalDescriptor
                    ELSE IF fd < FD_BEGIN + k THEN OnFile(".", 0) ELSE Cleared]

TestsErrors(x, table, out) ==
    x.arg # "0" =>
      /\ x.pc = "main" => x.arg \in Tests /\ x.got = <<>>
      /\ x.pc \in {"main"} \cup (Tests \ {"open_lots"}) => New(table, out)
      /\ x.pc = "open_lots" =>
           /\ x.got \in Seq(Int) /\ Len(x.got) <= MAX_FD - FD_BEGIN
           /\ out = <<>> /\ table = Lots(Len(x.got))
      /\ x.pc = "return" => out = <<"PASS">>

-----------------------------------------------------------------------------
(* The picture of fish.  The k-th byte of a frame W is in the row Row(W, k)*)
(* and, unless it is the end of a line, in the column Col(W, k).           *)

Ends(W, n) == {j \in 1 .. n : W[j] = "\n"}

Row(W, k) == Cardinality(Ends(W, k - 1))

InRow(W, n, r) == {j \in 1 .. n : Row(W, j) = r /\ W[j] # "\n"}

Col(W, k) == Cardinality(InRow(W, k - 1, Row(W, k)))

Before(W, k, r, c) == Row(W, k) < r \/ (Row(W, k) = r /\ Col(W, k) < c)

LEMMA RowFacts ==
    ASSUME NEW W \in Seq(STRING)
    PROVE  /\ \A n \in Nat : Row(W, n + 1) \in Nat /\ Row(W, n + 1) <= n
           /\ \A n \in Nat : Row(W, n + 2) = Row(W, n + 1) + (IF W[n + 1] = "\n" THEN 1 ELSE 0)
           /\ \A m, n \in Nat : m <= n => Row(W, m + 1) <= Row(W, n + 1)
<1>1. \A n \in Nat : /\ IsFiniteSet(Ends(W, n)) /\ Cardinality(Ends(W, n)) \in Nat
                     /\ Cardinality(Ends(W, n)) <= n
  <2>. SUFFICES ASSUME NEW n \in Nat
                PROVE  /\ IsFiniteSet(Ends(W, n)) /\ Cardinality(Ends(W, n)) \in Nat
                       /\ Cardinality(Ends(W, n)) <= n
    OBVIOUS
  <2>1. IsFiniteSet(1 .. n) /\ Cardinality(1 .. n) = n
    BY FS_Interval
  <2>2. Ends(W, n) \in SUBSET (1 .. n)
    BY DEF Ends
  <2>. QED
    BY <2>1, <2>2, FS_Subset, FS_CardinalityType
<1>2. \A n \in Nat : Row(W, n + 1) = Cardinality(Ends(W, n))
  BY DEF Row
<1>3. ASSUME NEW n \in Nat
      PROVE  Row(W, n + 2) = Row(W, n + 1) + (IF W[n + 1] = "\n" THEN 1 ELSE 0)
  <2>1. Ends(W, n + 1) = IF W[n + 1] = "\n" THEN Ends(W, n) \cup {n + 1} ELSE Ends(W, n)
    BY DEF Ends
  <2>2. n + 1 \notin Ends(W, n)
    BY DEF Ends
  <2>3. Row(W, n + 2) = Cardinality(Ends(W, n + 1)) /\ Row(W, n + 1) = Cardinality(Ends(W, n))
    BY (n + 2) - 1 = n + 1, <1>2 DEF Row
  <2>4. Cardinality(Ends(W, n)) \in Nat /\ IsFiniteSet(Ends(W, n))
    BY <1>1
  <2>5. Cardinality(Ends(W, n) \cup {n + 1}) = Cardinality(Ends(W, n)) + 1
    BY <2>2, <2>4, FS_AddElement
  <2>. QED
    BY <2>1, <2>3, <2>4, <2>5
<1>4. ASSUME NEW m \in Nat, NEW n \in Nat, m <= n
      PROVE  Row(W, m + 1) <= Row(W, n + 1)
  <2>1. Ends(W, m) \in SUBSET Ends(W, n)
    BY <1>4 DEF Ends
  <2>. QED
    BY <1>1, <1>2, <2>1, FS_Subset
<1>5. \A n \in Nat : Row(W, n + 1) \in Nat /\ Row(W, n + 1) <= n
  BY <1>1, <1>2
<1>. QED
  BY <1>3, <1>4, <1>5

LEMMA ColFacts ==
    ASSUME NEW W \in Seq(STRING)
    PROVE  /\ \A n \in Nat : Col(W, n + 1) \in Nat /\ Col(W, n + 1) <= n
           /\ \A n \in Nat : InRow(W, n, Row(W, n + 1)) = {} => Col(W, n + 1) = 0
           /\ \A k, l \in 1 .. Len(W) :
                 k < l /\ Row(W, k) = Row(W, l) /\ W[k] # "\n" => Col(W, k) < Col(W, l)
           /\ \A n \in Nat : W[n + 1] # "\n" => Col(W, n + 2) = Col(W, n + 1) + 1
<1>1. \A n \in Nat : \A r : /\ IsFiniteSet(InRow(W, n, r))
                             /\ Cardinality(InRow(W, n, r)) \in Nat
                             /\ Cardinality(InRow(W, n, r)) <= n
  <2>. SUFFICES ASSUME NEW n \in Nat, NEW r
                PROVE  /\ IsFiniteSet(InRow(W, n, r)) /\ Cardinality(InRow(W, n, r)) \in Nat
                       /\ Cardinality(InRow(W, n, r)) <= n
    OBVIOUS
  <2>1. IsFiniteSet(1 .. n) /\ Cardinality(1 .. n) = n
    BY FS_Interval
  <2>2. InRow(W, n, r) \in SUBSET (1 .. n)
    BY DEF InRow
  <2>. QED
    BY <2>1, <2>2, FS_Subset, FS_CardinalityType
<1>2. \A n \in Nat : Col(W, n + 1) = Cardinality(InRow(W, n, Row(W, n + 1)))
  BY DEF Col
<1>3. \A n \in Nat : InRow(W, n, Row(W, n + 1)) = {} => Col(W, n + 1) = 0
  BY <1>2, FS_EmptySet
<1>4. ASSUME NEW k \in 1 .. Len(W), NEW l \in 1 .. Len(W),
             k < l, Row(W, k) = Row(W, l), W[k] # "\n"
      PROVE  Col(W, k) < Col(W, l)
  <2>. DEFINE r == Row(W, l)
              A == InRow(W, k - 1, r)
              B == InRow(W, l - 1, r)
  <2>1. k - 1 \in Nat /\ l - 1 \in Nat /\ k \in 1 .. l - 1
    BY <1>4
  <2>2. A \in SUBSET B /\ k \in B /\ k \notin A
    BY <1>4, <2>1 DEF InRow
  <2>3. Col(W, k) = Cardinality(A) /\ Col(W, l) = Cardinality(B)
    BY <1>4 DEF Col
  <2>4. IsFiniteSet(B) /\ Cardinality(B) \in Nat /\ Cardinality(A) \in Nat
    BY <1>1, <2>1
  <2>. HIDE DEF A, B
  <2>5. Cardinality(A) <= Cardinality(B) /\ Cardinality(A) # Cardinality(B)
    BY <2>2, <2>4, FS_Subset
  <2>. QED
    BY <2>3, <2>4, <2>5
<1>5. ASSUME NEW n \in Nat, W[n + 1] # "\n"
      PROVE  Col(W, n + 2) = Col(W, n + 1) + 1
  <2>. DEFINE r == Row(W, n + 1)
              A == InRow(W, n, r)
  <2>1. Row(W, n + 2) = r
    <3>1. /\ Row(W, n + 1) \in Nat
          /\ Row(W, n + 2) = Row(W, n + 1) + (IF W[n + 1] = "\n" THEN 1 ELSE 0)
      BY RowFacts
    <3>. QED
      BY <1>5, <3>1
  <2>2. InRow(W, n + 1, r) = A \cup {n + 1} /\ n + 1 \notin A
    BY <1>5 DEF InRow
  <2>3. Col(W, n + 2) = Cardinality(InRow(W, n + 1, r)) /\ Col(W, n + 1) = Cardinality(A)
    BY <2>1, (n + 2) - 1 = n + 1, <1>2 DEF Col
  <2>4. IsFiniteSet(A) /\ Cardinality(A) \in Nat
    BY <1>1
  <2>. HIDE DEF A
  <2>5. Cardinality(A \cup {n + 1}) = Cardinality(A) + 1
    BY <2>2, <2>4, FS_AddElement
  <2>. QED
    BY <2>2, <2>3, <2>5
<1>6. \A n \in Nat : Col(W, n + 1) \in Nat /\ Col(W, n + 1) <= n
  BY <1>1, <1>2
<1>. QED
  BY <1>3, <1>4, <1>5, <1>6

(* The places of two bytes are two, and in their order.                    *)
LEMMA PlacesAreOrdered ==
    ASSUME NEW W \in Seq(STRING), NEW k \in 1 .. Len(W), NEW l \in 1 .. Len(W), k < l,
           W[k] # "\n"
    PROVE  /\ Row(W, k) \in Nat /\ Row(W, l) \in Nat /\ Col(W, k) \in Nat /\ Col(W, l) \in Nat
           /\ Before(W, k, Row(W, l), Col(W, l))
<1>1. /\ k - 1 \in Nat /\ l - 1 \in Nat /\ (k - 1) + 1 = k /\ (l - 1) + 1 = l /\ k - 1 <= l - 1
  BY LenProperties
<1>2. /\ Row(W, k) \in Nat /\ Row(W, l) \in Nat /\ Col(W, k) \in Nat /\ Col(W, l) \in Nat
      /\ Row(W, k) <= Row(W, l)
  <2>1. /\ \A n \in Nat : Row(W, n + 1) \in Nat /\ Col(W, n + 1) \in Nat
        /\ \A m, n \in Nat : m <= n => Row(W, m + 1) <= Row(W, n + 1)
    BY RowFacts, ColFacts
  <2>2. Row(W, (k - 1) + 1) <= Row(W, (l - 1) + 1)
    BY <1>1, <2>1
  <2>. QED
    BY <1>1, <2>1, <2>2
<1>3. Row(W, k) = Row(W, l) => Col(W, k) < Col(W, l)
  BY ColFacts
<1>. QED
  BY <1>2, <1>3 DEF Before

Places(W, r, c) == {k \in 1 .. Len(W) : W[k] # "\n" /\ Row(W, k) = r /\ Col(W, k) = c}

LEMMA CellIs ==
    ASSUME NEW W \in Seq(STRING)
    PROVE  /\ \A k \in 1 .. Len(W) : W[k] # "\n" => Cell(W, Row(W, k), Col(W, k)) = W[k]
           /\ \A r, c : Places(W, r, c) = {} => Cell(W, r, c) = " "
           /\ \A r, c : Cell(W, r, c) \in STRING \cup {" "}
<1>1. ASSUME NEW r, NEW c
      PROVE  Cell(W, r, c) = IF Places(W, r, c) = {} THEN " "
                             ELSE W[CHOOSE k \in Places(W, r, c) : TRUE]
  <2>1. \A k : Row(W, k) = Cardinality({j \in 1 .. k - 1 : W[j] = "\n"})
    BY DEF Row, Ends
  <2>2. \A k : Row(W, k) = r => Col(W, k) = Cardinality({j \in 1 .. k - 1 : Row(W, j) = r /\ W[j] # "\n"})
    BY DEF Col, InRow
  <2>. DEFINE P == {k \in DOMAIN W : W[k] # "\n" /\ Row(W, k) = r
                      /\ c = Cardinality({j \in 1 .. k - 1 : Row(W, j) = r /\ W[j] # "\n"})}
  <2>3. Cell(W, r, c) = IF P = {} THEN " " ELSE W[CHOOSE k \in P : TRUE]
    BY DEF Cell, Row, Ends
  <2>4. P = Places(W, r, c)
    <3>1. DOMAIN W = 1 .. Len(W)
      BY LenProperties
    <3>. QED
      BY <2>2, <3>1 DEF Places
  <2>. QED
    BY <2>3, <2>4
<1>2. ASSUME NEW k \in 1 .. Len(W), W[k] # "\n"
      PROVE  Cell(W, Row(W, k), Col(W, k)) = W[k]
  <2>. DEFINE P == Places(W, Row(W, k), Col(W, k))
              l == CHOOSE j \in P : TRUE
  <2>1. k \in P
    BY <1>2 DEF Places
  <2>2. l \in P
    BY <2>1
  <2>3. l \in 1 .. Len(W) /\ W[l] # "\n" /\ Row(W, l) = Row(W, k) /\ Col(W, l) = Col(W, k)
    BY <2>2 DEF Places
  <2>. HIDE DEF l
  <2>4. l = k
    <3>1. CASE k < l
      BY <1>2, <2>3, <3>1, PlacesAreOrdered DEF Before
    <3>2. CASE l < k
      BY <1>2, <2>3, <3>2, PlacesAreOrdered DEF Before
    <3>. QED
      BY <2>3, <3>1, <3>2
  <2>. QED
    BY <1>1, <2>1, <2>4 DEF l
<1>3. \A r, c : Cell(W, r, c) \in STRING \cup {" "}
  <2>. SUFFICES ASSUME NEW r, NEW c PROVE Cell(W, r, c) \in STRING \cup {" "}
    OBVIOUS
  <2>1. CASE Places(W, r, c) = {}
    BY <1>1, <2>1
  <2>2. CASE Places(W, r, c) # {}
    <3>. DEFINE l == CHOOSE j \in Places(W, r, c) : TRUE
    <3>1. l \in Places(W, r, c)
      BY <2>2
    <3>2. l \in 1 .. Len(W)
      BY <3>1 DEF Places
    <3>3. W[l] \in STRING
      BY <3>2, ElementOfSeq
    <3>. QED
      BY <1>1, <2>2, <3>3
  <2>. QED
    BY <2>1, <2>2
<1>. QED
  BY <1>1, <1>2, <1>3

(* A frame of which n bytes are read, those before the place r, c: the     *)
(* byte read last is the end of the line, or the next one is at the place. *)
ReadTo(W, n, r, c, last, eof) ==
    /\ n \in 0 .. Len(W)
    /\ \A k \in 1 .. Len(W) : W[k] # "\n" => (k <= n <=> Before(W, k, r, c))
    /\ IF eof THEN n = Len(W) /\ last = "\n"
       ELSE IF last = "\n" THEN Row(W, n + 1) = r + 1
       ELSE Row(W, n + 1) = r /\ Col(W, n + 1) = c

Blank(W, r, c) == Cell(W, r, c) = " "

LEMMA NoByteAfter ==
    ASSUME NEW W \in Seq(STRING), NEW r \in Nat, NEW c \in Nat, NEW n, NEW last, NEW eof,
           ReadTo(W, n, r, c, last, eof), last = "\n"
    PROVE  /\ \A k \in 1 .. Len(W) : k > n => Row(W, k) > r
           /\ \A k \in 1 .. Len(W) : W[k] # "\n" => Row(W, k) # r \/ Col(W, k) < c
<1>1. n \in Nat /\ Len(W) \in Nat /\ Row(W, n + 1) \in Nat
      /\ \A k \in 1 .. Len(W) : Row(W, k) \in Nat
  <2>1. \A k \in Nat : Row(W, k + 1) \in Nat
    BY RowFacts
  <2>2. \A k \in 1 .. Len(W) : k - 1 \in Nat /\ (k - 1) + 1 = k
    BY LenProperties
  <2>3. n \in 0 .. Len(W) /\ Len(W) \in Nat
    BY LenProperties DEF ReadTo
  <2>4. \A k \in 1 .. Len(W) : Row(W, k) \in Nat
    BY <2>1, <2>2
  <2>. QED
    BY <2>1, <2>3, <2>4
<1>2. ASSUME NEW k \in 1 .. Len(W), k > n PROVE Row(W, k) > r
  <2>1. eof => FALSE
    BY <1>1, <1>2 DEF ReadTo
  <2>2. Row(W, n + 1) = r + 1
    BY <2>1 DEF ReadTo
  <2>3. n <= k - 1 /\ k - 1 \in Nat /\ (k - 1) + 1 = k
    BY <1>1, <1>2
  <2>4. Row(W, n + 1) <= Row(W, (k - 1) + 1)
    BY <1>1, <2>3, RowFacts
  <2>. QED
    BY <1>1, <2>2, <2>3, <2>4
<1>. QED
  BY <1>1, <1>2 DEF ReadTo, Before

(* The place r, c of a frame that has been passed: at the end of a line,   *)
(* or of the file, it is blank, and otherwise it shows the byte read.      *)
LEMMA LineIsOver ==
    ASSUME NEW W \in Seq(STRING), NEW r \in Nat, NEW c \in Nat, NEW n, NEW last, NEW eof,
           ReadTo(W, n, r, c, last, eof), last = "\n"
    PROVE  /\ ReadTo(W, n, r, c + 1, last, eof)
           /\ ReadTo(W, n, r + 1, 0, IF eof THEN "\n" ELSE "0", eof)
           /\ \A d \in Nat : d >= c => Blank(W, r, d)
           /\ eof => \A i, j \in Nat : i > r => Blank(W, i, j)
<1>1. /\ \A k \in 1 .. Len(W) : k > n => Row(W, k) > r
      /\ \A k \in 1 .. Len(W) : W[k] # "\n" => Row(W, k) # r \/ Col(W, k) < c
  BY NoByteAfter
<1>2. /\ n \in 0 .. Len(W) /\ Len(W) \in Nat /\ Row(W, n + 1) \in Nat /\ Col(W, n + 1) \in Nat
      /\ \A k \in 1 .. Len(W) : Row(W, k) \in Nat /\ Col(W, k) \in Nat
  <2>1. \A k \in Nat : Row(W, k + 1) \in Nat /\ Col(W, k + 1) \in Nat
    BY RowFacts, ColFacts
  <2>2. n \in 0 .. Len(W) /\ Len(W) \in Nat
    BY LenProperties DEF ReadTo
  <2>3. \A k \in 1 .. Len(W) : k - 1 \in Nat /\ (k - 1) + 1 = k
    BY <2>2
  <2>4. \A k \in 1 .. Len(W) : Row(W, k) \in Nat /\ Col(W, k) \in Nat
    BY <2>1, <2>3
  <2>. QED
    BY <2>1, <2>2, <2>4
<1>3. \A k \in 1 .. Len(W) : W[k] # "\n" => (k <= n <=> Before(W, k, r, c))
  BY DEF ReadTo
<1>4. ReadTo(W, n, r, c + 1, last, eof)
  <2>1. \A k \in 1 .. Len(W) : W[k] # "\n" => (k <= n <=> Before(W, k, r, c + 1))
    BY <1>1, <1>2, <1>3 DEF Before
  <2>. QED
    BY <2>1 DEF ReadTo
<1>5. ReadTo(W, n, r + 1, 0, IF eof THEN "\n" ELSE "0", eof)
  <2>1. \A k \in 1 .. Len(W) : W[k] # "\n" => (k <= n <=> Before(W, k, r + 1, 0))
    BY <1>1, <1>2, <1>3 DEF Before
  <2>2. CASE eof
    BY <2>1, <2>2 DEF ReadTo
  <2>3. CASE ~ eof
    <3>1. Row(W, n + 1) = r + 1
      BY <2>3 DEF ReadTo
    <3>2. InRow(W, n, r + 1) = {}
      <4>. SUFFICES ASSUME NEW k \in 1 .. n, W[k] # "\n" PROVE Row(W, k) # r + 1
        BY DEF InRow
      <4>1. k \in 1 .. Len(W) /\ k <= n
        BY <1>2
      <4>. QED
        BY <1>2, <1>3, <4>1 DEF Before
    <3>3. Col(W, n + 1) = 0
      BY <1>2, <3>1, <3>2, ColFacts
    <3>. QED
      BY <2>1, <2>3, <3>1, <3>3 DEF ReadTo
  <2>. QED
    BY <2>2, <2>3
<1>6. ASSUME NEW d \in Nat, d >= c PROVE Blank(W, r, d)
  <2>1. Places(W, r, d) = {}
    BY <1>1, <1>2, <1>6 DEF Places
  <2>. QED
    BY <2>1, CellIs DEF Blank
<1>7. ASSUME eof, NEW i \in Nat, NEW j \in Nat, i > r PROVE Blank(W, i, j)
  <2>1. \A k \in 1 .. Len(W) : W[k] # "\n" => Before(W, k, r, c)
    BY <1>2, <1>3, <1>7 DEF ReadTo
  <2>2. Places(W, i, j) = {}
    BY <1>2, <1>7, <2>1 DEF Places, Before
  <2>. QED
    BY <2>2, CellIs DEF Blank
<1>. QED
  BY <1>4, <1>5, <1>6, <1>7

LEMMA ByteIsRead ==
    ASSUME NEW W \in Seq(STRING), NEW r \in Nat, NEW c \in Nat, NEW n, NEW last, NEW eof,
           ReadTo(W, n, r, c, last, eof), last # "\n"
    PROVE  /\ n = Len(W) => ReadTo(W, n, r, c + 1, "\n", TRUE) /\ Cell(W, r, c) = " "
           /\ n # Len(W) => /\ n + 1 \in 1 .. Len(W)
                            /\ ReadTo(W, n + 1, r, c + 1, W[n + 1], FALSE)
                            /\ Cell(W, r, c) = Shown(W[n + 1])
<1>1. /\ n \in 0 .. Len(W) /\ Len(W) \in Nat /\ Row(W, n + 1) = r /\ Col(W, n + 1) = c
      /\ \A k \in 1 .. Len(W) : W[k] # "\n" => (k <= n <=> Before(W, k, r, c))
  BY LenProperties DEF ReadTo
<1>2. \A k \in 1 .. Len(W) : Row(W, k) \in Nat /\ Col(W, k) \in Nat
  <2>1. \A k \in Nat : Row(W, k + 1) \in Nat /\ Col(W, k + 1) \in Nat
    BY RowFacts, ColFacts
  <2>2. \A k \in 1 .. Len(W) : k - 1 \in Nat /\ (k - 1) + 1 = k
    BY <1>1
  <2>. QED
    BY <2>1, <2>2
<1>3. CASE n = Len(W)
  <2>1. \A k \in 1 .. Len(W) : W[k] # "\n" => Before(W, k, r, c) /\ Before(W, k, r, c + 1)
    BY <1>1, <1>2, <1>3 DEF Before
  <2>2. Places(W, r, c) = {}
    BY <1>2, <2>1 DEF Places, Before
  <2>3. ReadTo(W, n, r, c + 1, "\n", TRUE)
    BY <1>1, <1>3, <2>1 DEF ReadTo
  <2>. QED
    BY <1>3, <2>2, <2>3, CellIs
<1>4. CASE n # Len(W)
  <2>1. n + 1 \in 1 .. Len(W) /\ n \in Nat /\ (n + 1) + 1 = n + 2
    BY <1>1, <1>4
  <2>2. Row(W, n + 2) = r + (IF W[n + 1] = "\n" THEN 1 ELSE 0)
    BY <1>1, <2>1, RowFacts
  <2>3. CASE W[n + 1] = "\n"
    <3>1. \A k \in 1 .. Len(W) : k > n + 1 => Row(W, k) >= r + 1
      <4>. SUFFICES ASSUME NEW k \in 1 .. Len(W), k > n + 1 PROVE Row(W, k) >= r + 1
        OBVIOUS
      <4>1. n + 1 \in Nat /\ k - 1 \in Nat /\ n + 1 <= k - 1 /\ (k - 1) + 1 = k
        BY <2>1
      <4>2. Row(W, (n + 1) + 1) <= Row(W, (k - 1) + 1)
        BY <4>1, RowFacts
      <4>. QED
        BY <2>1, <2>2, <2>3, <4>1, <4>2
    <3>2. \A k \in 1 .. Len(W) : W[k] # "\n" =>
             /\ k <= n + 1 <=> Before(W, k, r, c + 1)
             /\ Row(W, k) # r \/ Col(W, k) # c
      <4>. SUFFICES ASSUME NEW k \in 1 .. Len(W), W[k] # "\n"
                    PROVE  /\ k <= n + 1 <=> Before(W, k, r, c + 1)
                           /\ Row(W, k) # r \/ Col(W, k) # c
        OBVIOUS
      <4>1. k # n + 1 /\ Row(W, k) \in Nat /\ Col(W, k) \in Nat
        BY <1>2, <2>3
      <4>2. CASE k <= n
        BY <1>1, <2>1, <4>1, <4>2 DEF Before
      <4>3. CASE k > n + 1
        BY <2>1, <3>1, <4>1, <4>3 DEF Before
      <4>. QED
        BY <2>1, <4>1, <4>2, <4>3
    <3>3. ReadTo(W, n + 1, r, c + 1, W[n + 1], FALSE)
      BY <1>1, <2>1, <2>2, <2>3, <3>2 DEF ReadTo
    <3>4. Places(W, r, c) = {}
      BY <3>2 DEF Places
    <3>. QED
      BY <1>4, <2>1, <2>3, <3>3, <3>4, CellIs DEF Shown
  <2>4. CASE W[n + 1] # "\n"
    <3>1. Cell(W, r, c) = W[n + 1]
      BY <1>1, <2>1, <2>4, CellIs
    <3>2. \A k \in 1 .. Len(W) : W[k] # "\n" => (k <= n + 1 <=> Before(W, k, r, c + 1))
      <4>. SUFFICES ASSUME NEW k \in 1 .. Len(W), W[k] # "\n"
                    PROVE  k <= n + 1 <=> Before(W, k, r, c + 1)
        OBVIOUS
      <4>1. Row(W, k) \in Nat /\ Col(W, k) \in Nat
        BY <1>2
      <4>2. CASE k <= n
        BY <1>1, <2>1, <4>1, <4>2 DEF Before
      <4>3. CASE k = n + 1
        BY <1>1, <2>1, <4>3 DEF Before
      <4>4. CASE k > n + 1
        <5>1. Before(W, n + 1, Row(W, k), Col(W, k))
          BY <2>1, <2>4, <4>4, PlacesAreOrdered
        <5>. QED
          BY <1>1, <4>1, <4>4, <5>1 DEF Before
      <4>. QED
        BY <2>1, <4>2, <4>3, <4>4
    <3>3. Col(W, n + 2) = c + 1
      BY <1>1, <2>1, <2>4, ColFacts
    <3>4. ReadTo(W, n + 1, r, c + 1, W[n + 1], FALSE)
      BY <1>1, <2>1, <2>2, <2>4, <3>2, <3>3 DEF ReadTo
    <3>. QED
      BY <1>4, <2>1, <2>4, <3>1, <3>4 DEF Shown
  <2>. QED
    BY <2>3, <2>4
<1>. QED
  BY <1>3, <1>4

LEMMA NothingRead ==
    ASSUME NEW W \in Seq(STRING)
    PROVE  ReadTo(W, 0, 0, 0, "0", FALSE)
<1>1. Row(W, 0 + 1) \in Nat /\ Row(W, 0 + 1) <= 0 /\ Col(W, 0 + 1) \in Nat /\ Col(W, 0 + 1) <= 0
  BY RowFacts, ColFacts
<1>2. Row(W, 1) = 0 /\ Col(W, 1) = 0 /\ 0 \in 0 .. Len(W)
  BY <1>1, LenProperties
<1>3. ASSUME NEW k \in 1 .. Len(W) PROVE ~ (k <= 0) /\ ~ Before(W, k, 0, 0)
  <2>1. k - 1 \in Nat /\ (k - 1) + 1 = k
    BY LenProperties
  <2>2. Row(W, (k - 1) + 1) \in Nat /\ Col(W, (k - 1) + 1) \in Nat
    BY <2>1, RowFacts, ColFacts
  <2>. QED
    BY <2>1, <2>2 DEF Before
<1>. QED
  BY <1>2, <1>3 DEF ReadTo

-----------------------------------------------------------------------------
(* What fish has read and drawn.                                           *)
Frame(k) == Text(Frames[k])

FrameShape(f) ==
    f \in [fds : [{1, 2} -> Int], c : [{1, 2} -> STRING \cup {"0", "\n"}],
           eof : [{1, 2} -> BOOLEAN], row : Nat, col : Nat]

(* The descriptor of a frame that is open, and where its reading has come. *)
OfFrame(k, f, table, r, c) ==
    \E n : /\ ~ f.eof[k] => Holds(table, f.fds[k], Frames[k], n)
           /\ ReadTo(Frame(k), n, r, c, f.c[k], f.eof[k])

(* The byte that has been read for the place is the one to be shown.       *)
IsCell(k, f) == Shown(f.c[k]) = Cell(Frame(k), f.row, f.col)

Blinks(i, j) == ~ (Blank(Frame(1), i, j) /\ Blank(Frame(2), i, j))

BlinkAt(i, j) ==
    [row |-> i, col |-> j, on |-> Cell(Frame(1), i, j), off |-> Cell(Frame(2), i, j)]

Picture == {BlinkAt(i, j) : i \in Nat, j \in Nat}

(* All that blinks before a place is drawn, and nothing else.              *)
Drawn(out, r, c) ==
    /\ out \in Seq(Picture)
    /\ \A b : b \in ToSet(out) <=>
                 \E i, j \in Nat : /\ i < r \/ (i = r /\ j < c)
                                   /\ Blinks(i, j) /\ b = BlinkAt(i, j)

AllDrawn(out) ==
    \A b : b \in ToSet(out) <=> \E i, j \in Nat : Blinks(i, j) /\ b = BlinkAt(i, j)

OnlyOpen(table, S) == \A g \in (FD_BEGIN .. MAX_FD - 1) \ S : table[g].flags = 0

Opening(x, table, out) ==
    /\ x.pc = "main" => New(table, out) /\ x.frames = FishVariables
    /\ x.pc = "open0" => x.frames = FishVariables /\ out = <<>> /\ OnlyOpen(table, {x.fd})
    /\ x.pc = "open1" =>
         \E g : /\ x.frames = [FishVariables EXCEPT !.fds[1] = g] /\ out = <<>>
                /\ Holds(table, g, Frames[1], 0) /\ OnlyOpen(table, {x.fd, g})

Drawing(pc, f, table, out) ==
    LET r == f.row
        c == f.col
    IN  /\ FrameShape(f) /\ f.fds[1] # f.fds[2]
        /\ OfFrame(1, f, table, IF pc \in {"close1", "row"} THEN r + 1 ELSE r,
                   IF pc = "read0" THEN c ELSE IF pc \in {"read1", "add"} THEN c + 1 ELSE 0)
        /\ OfFrame(2, f, table, IF pc = "row" THEN r + 1 ELSE r,
                   IF pc \in {"read0", "read1"} THEN c ELSE IF pc \in {"add", "close1"} THEN c + 1
                   ELSE 0)
        /\ pc \in {"read1", "add"} => IsCell(1, f)
        /\ pc = "add" => IsCell(2, f)
        /\ IF pc \in {"close1", "row"} THEN Drawn(out, r + 1, 0) ELSE Drawn(out, r, c)

DrawingPlaces == {"read0", "read1", "add", "close1", "row"}

Draws(x, table, out) ==
    /\ Opening(x, table, out)
    /\ x.pc \in DrawingPlaces => Drawing(x.pc, x.frames, table, out)
    /\ x.pc \in {"rate", "ticks", "close", "return"} => AllDrawn(out)

-----------------------------------------------------------------------------
(* What is known of the program in front of a terminal.                    *)

Sound(x, table, out) ==
    /\ x.prog = "cat" => Reads(x, table, out, x.arg)
    /\ x.prog = "ls" => Reads(x, table, out, ".")
    /\ x.prog = "grep" => Searches(x, table, out)
    /\ x.prog = "counter" => CountsUp(x, out)
    /\ x.prog = "syserr" => TestsErrors(x, table, out)
    /\ x.prog = "fish" /\ FramesThere => Draws(x, table, out)

Top(t) == stack[t][Len(stack[t])]

(* Of every terminal, of the program in front.                             *)
DataInv ==
    /\ UsersInv /\ DOMAIN printed = Terminal
    /\ \A t \in Terminal : Sound(task[Top(t)], file_array[Top(t)], printed[t])

(* The program that runs before and after its step.                        *)
SoundNow == Sound(Me, file_array[running], printed[shown])
SoundNext == Sound(task'[running], file_array'[running], printed'[shown])

(* The step of a program: a new value of its variables, and what it shows. *)
LEMMA StepsTo ==
    ASSUME UsersInv, DOMAIN printed = Terminal
    PROVE  /\ running \in Slot /\ shown \in Terminal
           /\ DOMAIN Me = Variables /\ file_array[running] \in [Fds -> Descriptors]
           /\ \A me : Continue(me) => task'[running] = me
           /\ \A pc : Goto(pc) => task'[running] = [Me EXCEPT !.pc = pc]
           /\ Silent => printed'[shown] = printed[shown]
           /\ \A items : Shows(items) => printed'[shown] = printed[shown] \o items
           /\ SameFiles => file_array'[running] = file_array[running]
<1>1. running \in Slot /\ shown \in Terminal
  BY RunningIsPlaced DEF UsersInv, FilesInv, StacksOK
<1>2. /\ DOMAIN task = Slot /\ DOMAIN Me = Variables
      /\ file_array[running] \in [Fds -> Descriptors]
  BY <1>1 DEF UsersInv, TasksOK, Me, FilesInv, TablesOK
<1>. QED
  BY <1>1, <1>2 DEF Continue, Goto, Silent, Shows, SameFiles, vars

(* In a new table every name can be opened.                                *)
LEMMA OpensInNew ==
    ASSUME file_array[running] = NewTable, NEW f
    PROVE  OpenReturns(f) = -1 <=> f \notin Names
<1>1. FD_BEGIN \in FD_BEGIN .. MAX_FD - 1 /\ FD_BEGIN \in Fds /\ MAX_FD \in Nat
  BY FilesAssumption DEF Fds, FD_BEGIN
<1>2. NewTable[FD_BEGIN].flags = 0
  BY <1>1, DescriptorFacts DEF NewTable, FD_BEGIN
<1>3. FD_BEGIN \in FreeFds(running)
  BY <1>1, <1>2 DEF FreeFds, Used
<1>4. FreeFds(running) \in SUBSET Nat /\ FreeFds(running) # {}
  BY <1>3, FdFacts DEF FreeFds
<1>. DEFINE fd == CHOOSE g \in FreeFds(running) : \A h \in FreeFds(running) : g <= h
<1>5. fd \in Nat
  BY <1>4, LeastNumber
<1>6. OpenReturns(f) = IF f \notin Names THEN -1 ELSE fd
  BY <1>4 DEF OpenReturns
<1>. HIDE DEF fd
<1>. QED
  BY <1>5, <1>6

LEMMA WritesInNew ==
    ASSUME file_array[running] = NewTable, NEW n \in Nat
    PROVE  WriteReturns(1, n) = n + 1
<1>1. 1 \in Fds /\ 1 < FD_BEGIN
  BY FilesAssumption DEF Fds, FD_BEGIN
<1>2. NewTable[1].flags = 1 /\ NewTable[1].fops_ptr = "terminal_fops"
  BY <1>1, DescriptorFacts DEF NewTable, TerminalDescriptor
<1>. QED
  BY <1>1, <1>2 DEF WriteReturns, CanWrite, Used

(* A read from where n have been read, when that much has been written.    *)
LEMMA ReadsNext ==
    ASSUME UsersInv, DOMAIN printed = Terminal, NEW f \in Names, NEW n,
           NEW prog, NEW req \in Requests \ {0}, ReadStep(prog, req),
           Holds(file_array[running], Me.fd, f, n), printed[shown] = SubSeq(Whole(f), 1, n)
    PROVE  /\ task'[running].fd = Me.fd /\ task'[running].arg = Me.arg
           /\ \/ /\ task'[running].pc = "return" /\ printed'[shown] = Whole(f)
              \/ /\ task'[running].pc = "write"
                 /\ \E m : /\ Holds(file_array'[running], Me.fd, f, m)
                           /\ printed'[shown] \o task'[running].got = SubSeq(Whole(f), 1, m)
<1>. DEFINE me == [Me EXCEPT !.pc = NextAfterRead(Me.fd, req), !.got = Bytes(Me.fd, req)]
<1>1. /\ file_array[running] \in [Fds -> Descriptors] /\ DOMAIN Me = Variables
      /\ task'[running] = me /\ printed'[shown] = printed[shown]
  BY StepsTo DEF ReadStep
<1>2. /\ me.fd = Me.fd /\ me.arg = Me.arg /\ me.pc = NextAfterRead(Me.fd, req)
      /\ me.got = Bytes(Me.fd, req)
  BY <1>1 DEF Variables, Shell, Started
<1>3. PICK m \in n .. Len(Whole(f)) :
        /\ file_array'[running] = [file_array[running] EXCEPT ![Me.fd] = OnFile(f, m)]
        /\ ReadReturns(Me.fd, req) = m - n
        /\ m = n => n = Len(Whole(f))
        /\ Bytes(Me.fd, req) = SubSeq(Whole(f), n + 1, m)
  <2>1. \E m : ReadsOn(f, Me.fd, n, req, m)
    BY ReadHolds DEF ReadStep
  <2>. QED
    BY <2>1 DEF ReadsOn
<1>4. n \in 0 .. Len(Whole(f)) /\ Len(Whole(f)) \in Nat /\ Whole(f) \in Seq(STRING)
  BY WholeFacts DEF Holds
<1>5. Holds(file_array'[running], Me.fd, f, m)
  BY <1>1, <1>3, <1>4, FdFacts DEF Holds
<1>6. /\ SubSeq(Whole(f), 1, n) \o SubSeq(Whole(f), n + 1, m) = SubSeq(Whole(f), 1, m)
      /\ SubSeq(Whole(f), 1, Len(Whole(f))) = Whole(f)
  <2>. DEFINE W == Whole(f)
  <2>1. W \in Seq(STRING) /\ n \in 0 .. Len(W) /\ m \in n .. Len(W)
    BY <1>3, <1>4
  <2>. HIDE DEF W
  <2>2. /\ SubSeq(W, 1, n) \o SubSeq(W, n + 1, m) = SubSeq(W, 1, m)
        /\ SubSeq(W, 1, Len(W)) = W
    BY <2>1, ReadOn
  <2>. QED
    BY <2>2 DEF W
<1>. HIDE DEF me
<1>7. CASE m = n
  BY <1>1, <1>2, <1>3, <1>4, <1>6, <1>7 DEF NextAfterRead
<1>8. CASE m # n
  <2>1. ReadReturns(Me.fd, req) # 0
    BY <1>3, <1>4, <1>8
  <2>2. me.pc = "write"
    BY <1>2, <2>1 DEF NextAfterRead
  <2>3. printed'[shown] \o me.got = SubSeq(Whole(f), 1, m)
    BY <1>1, <1>2, <1>3, <1>6
  <2>4. task'[running] = me
    BY <1>1
  <2>5. \E k : /\ Holds(file_array'[running], Me.fd, f, k)
               /\ printed'[shown] \o me.got = SubSeq(Whole(f), 1, k)
    BY <1>5, <2>3
  <2>. QED
    BY <1>2, <2>2, <2>4, <2>5
<1>. QED
  BY <1>2, <1>1, <1>7, <1>8

LEMMA WritesNext ==
    ASSUME UsersInv, DOMAIN printed = Terminal, NEW prog, WriteStep(prog)
    PROVE  /\ task'[running].fd = Me.fd /\ task'[running].arg = Me.arg
           /\ task'[running].pc = "read" /\ printed'[shown] = printed[shown] \o Me.got
           /\ file_array'[running] = file_array[running]
<1>1. /\ DOMAIN Me = Variables
      /\ task'[running] = [Me EXCEPT !.pc = "read"]
      /\ printed'[shown] = printed[shown] \o Me.got
      /\ file_array'[running] = file_array[running]
  BY StepsTo DEF WriteStep
<1>. QED
  BY <1>1 DEF Variables, Shell, Started

(* An open of a name there is, by a program that has only begun.           *)
LEMMA OpensNew ==
    ASSUME UsersInv, DOMAIN printed = Terminal, NEW prog, NEW f, NEW to,
           OpenStep(prog, "main", f, to), New(file_array[running], printed[shown])
    PROVE  /\ task'[running].arg = Me.arg /\ task'[running].pc = to /\ f \in Names
           /\ Holds(file_array'[running], task'[running].fd, f, 0)
           /\ printed'[shown] = <<>> /\ SubSeq(Whole(f), 1, 0) = <<>>
<1>1. f \in Names
  BY OpensInNew DEF OpenStep, New
<1>2. /\ DOMAIN Me = Variables /\ file_array[running] \in [Fds -> Descriptors]
      /\ task'[running] = [Me EXCEPT !.pc = to, !.fd = OpenReturns(f)]
      /\ printed'[shown] = printed[shown]
  BY StepsTo DEF OpenStep
<1>3. task'[running].fd = OpenReturns(f) /\ task'[running].arg = Me.arg /\ task'[running].pc = to
  BY <1>2 DEF Variables, Shell, Started
<1>4. /\ OpenReturns(f) \in FD_BEGIN .. MAX_FD - 1
      /\ file_array'[running] = [file_array[running] EXCEPT ![OpenReturns(f)] = OnFile(f, 0)]
  BY <1>1, OpenHolds DEF OpenStep
<1>5. /\ Len(Whole(f)) \in Nat /\ Whole(f) \in Seq(STRING)
      /\ SubSeq(Whole(f), 1, 0) = <<>>
  BY <1>1, WholeFacts, SubSeqEmpty
<1>6. Holds(file_array'[running], OpenReturns(f), f, 0)
  BY <1>2, <1>4, <1>5, FdFacts DEF Holds
<1>. QED
  BY <1>1, <1>2, <1>3, <1>5, <1>6 DEF New

LEMMA CatAndLsSound ==
    ASSUME UsersInv, DOMAIN printed = Terminal, SoundNow, Cat \/ Ls
    PROVE  SoundNext
<1>1. /\ Me.prog \in {"cat", "ls"} /\ Keeps /\ running \in Slot
  <2>1. running \in Slot
    BY StepsTo
  <2>. QED
    BY <2>1, CatAndLsCall DEF UsersInv, Cat, Ls, OpenStep, OpenFails, ReadStep, WriteStep, At
<1>. DEFINE f == IF Me.prog = "cat" THEN Me.arg ELSE "."
            x == task'[running]
            n == IF Me.prog = "cat" THEN CHUNK ELSE 32
<1>2. Reads(Me, file_array[running], printed[shown], f)
  BY <1>1 DEF SoundNow, Sound
<1>3. x.prog = Me.prog
  BY <1>1 DEF Keeps, UsersInv, TasksOK
<1>4. n \in Requests \ {0}
  BY UserlandAssumption
<1>5. \/ OpenStep(Me.prog, "main", f, "read")
      \/ OpenFails(Me.prog, "main", f) /\ Me.prog = "cat"
      \/ ReadStep(Me.prog, n)
      \/ WriteStep(Me.prog)
  BY <1>1 DEF Cat, Ls, OpenStep, OpenFails, ReadStep, WriteStep, At
<1>. SUFFICES x.arg = Me.arg /\ Reads(x, file_array'[running], printed'[shown], f)
  BY <1>1, <1>3 DEF SoundNext, Sound
<1>6. CASE OpenStep(Me.prog, "main", f, "read")
  <2>1. New(file_array[running], printed[shown])
    BY <1>2, <1>6 DEF OpenStep, At, Reads
  <2>2. /\ x.arg = Me.arg /\ x.pc = "read" /\ f \in Names
        /\ Holds(file_array'[running], x.fd, f, 0)
        /\ printed'[shown] = SubSeq(Whole(f), 1, 0)
    BY <1>6, <2>1, OpensNew
  <2>. HIDE DEF f, x
  <2>. QED
    BY <2>2 DEF Reads
<1>7. CASE OpenFails(Me.prog, "main", f)
  <2>1. New(file_array[running], printed[shown]) /\ OpenReturns(f) = -1
    BY <1>2, <1>7 DEF OpenFails, At, Reads
  <2>2. f \notin Names
    BY <2>1, OpensInNew DEF New
  <2>3. /\ DOMAIN Me = Variables /\ x = [Me EXCEPT !.pc = "return"]
        /\ printed'[shown] = printed[shown] \o <<"file not found">>
    BY <1>7, StepsTo DEF OpenFails, Puts
  <2>4. x.pc = "return" /\ x.arg = Me.arg
    BY <2>3 DEF Variables, Shell, Started
  <2>5. printed'[shown] = <<"file not found">>
    <3>1. <<"file not found">> \in Seq({"file not found"})
      OBVIOUS
    <3>2. <<>> \o <<"file not found">> = <<"file not found">>
      BY <3>1, ConcatEmptySeq
    <3>. QED
      BY <2>1, <2>3, <3>2 DEF New
  <2>. QED
    BY <2>2, <2>4, <2>5 DEF Reads
<1>8. CASE ReadStep(Me.prog, n)
  <2>1. f \in Names /\ \E k : /\ Holds(file_array[running], Me.fd, f, k)
                              /\ printed[shown] = SubSeq(Whole(f), 1, k)
    BY <1>2, <1>8 DEF ReadStep, At, Reads
  <2>. QED
    BY <1>4, <1>8, <2>1, ReadsNext DEF Reads
<1>9. CASE WriteStep(Me.prog)
  <2>1. f \in Names /\ \E k : /\ Holds(file_array[running], Me.fd, f, k)
                              /\ printed[shown] \o Me.got = SubSeq(Whole(f), 1, k)
    BY <1>2, <1>9 DEF WriteStep, At, Reads
  <2>. QED
    BY <1>9, <2>1, WritesNext DEF Reads
<1>. QED
  BY <1>5, <1>6, <1>7, <1>8, <1>9

LEMMA FoundInGrows ==
    /\ FoundIn(0) = <<>> /\ FoundIn(Len(directory)) = Searched
    /\ \A p \in 1 .. Len(directory) :
         /\ directory[p].name \in Names
         /\ Found(p) = IF directory[p].name = "." THEN <<>> ELSE Whole(directory[p].name)
         /\ Found(p) \in Seq(STRING) /\ FoundIn(p - 1) \in Seq(STRING)
         /\ FoundIn(p) = FoundIn(p - 1) \o Found(p)
<1>. DEFINE N == Len(directory)
            step == [p \in 1 .. N |-> [g \in Seq(STRING) |-> g \o Found(p)]]
<1>1. N \in Nat /\ DOMAIN directory = 1 .. N
  BY DirectoryAssumption, LenProperties
<1>2. ASSUME NEW p \in 1 .. N
      PROVE  /\ directory[p].name \in Names
             /\ Found(p) = IF directory[p].name = "." THEN <<>> ELSE Whole(directory[p].name)
             /\ Found(p) \in Seq(STRING)
  <2>1. directory[p].name \in Names
    BY <1>1 DEF Names
  <2>2. Found(p) = IF directory[p].name = "." THEN <<>> ELSE Whole(directory[p].name)
    BY DEF Found, Whole
  <2>3. Found(p) \in Seq(STRING)
    <3>1. <<>> \in Seq(STRING) /\ Whole(directory[p].name) \in Seq(STRING)
      BY <2>1, WholeFacts
    <3>. QED
      BY <2>2, <3>1
  <2>. QED
    BY <2>1, <2>2, <2>3
<1>3. step \in [1 .. N -> [Seq(STRING) -> Seq(STRING)]]
  <2>1. \A p \in 1 .. N, g \in Seq(STRING) : g \o Found(p) \in Seq(STRING)
    BY <1>2, ConcatProperties
  <2>. QED
    BY <2>1
<1>4. PICK f \in [0 .. N -> Seq(STRING)] :
        f[0] = <<>> /\ \A n \in 1 .. N : f[n] = step[n][f[n - 1]]
  <2>. HIDE DEF step, N
  <2>1. Recursion(N, Seq(STRING), <<>>, step)
    BY <1>1, <1>3, RecursionOn, <<>> \in Seq(STRING)
  <2>. QED
    BY <2>1 DEF Recursion
<1>5. ASSUME NEW n \in 1 .. N PROVE f[n - 1] \in Seq(STRING) /\ f[n] = f[n - 1] \o Found(n)
  <2>1. n - 1 \in 0 .. N
    BY <1>1
  <2>2. f[n - 1] \in Seq(STRING)
    BY <2>1
  <2>. QED
    BY <1>4, <2>2
<1>. HIDE DEF step
<1>6. ASSUME NEW p \in 0 .. N PROVE FoundIn(p) = f[p]
  <2>. DEFINE ss == [k \in 1 .. p |-> Found(k)]
              g == [n \in 0 .. p |-> f[n]]
  <2>1. p \in Nat /\ 1 .. p \subseteq 1 .. N /\ 0 .. p \subseteq 0 .. N
    BY <1>1
  <2>2. ss \in Seq(Seq(STRING)) /\ Len(ss) = p /\ DOMAIN ss = 1 .. p
    BY <1>2, <2>1
  <2>3. g \in [0 .. p -> Seq(STRING)] /\ g[0] = <<>>
    BY <1>4, <2>1
  <2>4. \A n \in 1 .. p : ss[n] \in Seq(STRING) /\ g[n] = g[n - 1] \o ss[n]
    <3>. SUFFICES ASSUME NEW n \in 1 .. p
                  PROVE  ss[n] \in Seq(STRING) /\ g[n] = g[n - 1] \o ss[n]
      OBVIOUS
    <3>1. n \in 1 .. N /\ n \in 0 .. p /\ n - 1 \in 0 .. p
      BY <2>1
    <3>. QED
      BY <1>2, <1>5, <3>1
  <2>5. p = 0 => ss = <<>>
    OBVIOUS
  <2>6. FoundIn(p) = FlattenSeq(ss) /\ g[p] = f[p]
    BY <2>1 DEF FoundIn
  <2>. HIDE DEF ss, g
  <2>7. FlattenSeq(ss) = g[p]
    <3>1. Flattening(STRING, ss, p, g)
      BY <2>1, <2>2, <2>3, <2>4, <2>5 DEF Flattening
    <3>. QED
      BY <3>1, FlattenIs
  <2>. QED
    BY <2>6, <2>7
<1>7. FoundIn(N) = Searched
  BY <1>1 DEF FoundIn, Searched, Found
<1>8. FoundIn(0) = <<>>
  BY <1>1, <1>4, <1>6
<1>9. ASSUME NEW p \in 1 .. N
      PROVE  FoundIn(p - 1) \in Seq(STRING) /\ FoundIn(p) = FoundIn(p - 1) \o Found(p)
  <2>1. p - 1 \in 0 .. N /\ p \in 0 .. N
    BY <1>1
  <2>. QED
    BY <1>5, <1>6, <2>1
<1>. QED
  BY <1>2, <1>7, <1>8, <1>9

(* The steps of grep, from one name of the directory to the next.          *)
LEMMA GrepNames ==
    ASSUME UsersInv, DOMAIN printed = Terminal, Grep, Me.pc = "names",
           Searches(Me, file_array[running], printed[shown])
    PROVE  Searches(task'[running], file_array'[running], printed'[shown])
<1>. DEFINE N == Len(directory)
            me(pc) == [Me EXCEPT !.got = Bytes(Me.fd, 32), !.pc = pc]
            next == IF ReadReturns(Me.fd, 32) = 0 THEN "return"
                    ELSE IF Bytes(Me.fd, 32) = <<".">> THEN "names" ELSE "open"
            x == task'[running]
<1>1. At("grep", "names") /\ ReadCall(Me.fd, 32) /\ Continue(me(next)) /\ Silent
  BY DEF Grep, OpenStep, At
<1>2. /\ x.pc = next /\ x.fd = Me.fd /\ x.got = Bytes(Me.fd, 32)
      /\ printed'[shown] = printed[shown]
      /\ file_array[running] \in [Fds -> Descriptors]
  <2>1. /\ DOMAIN Me = Variables /\ x = me(next) /\ printed'[shown] = printed[shown]
        /\ file_array[running] \in [Fds -> Descriptors]
    BY <1>1, StepsTo
  <2>. HIDE DEF next
  <2>. QED
    BY <2>1 DEF Variables, Shell, Started
<1>3. PICK p : Holds(file_array[running], Me.fd, ".", p) /\ printed[shown] = FoundIn(p)
  BY DEF Searches
<1>4. "." \in Names /\ Len(Whole(".")) = N /\ N \in Nat /\ p \in 0 .. N
  BY <1>3, ImageAssumption, WholeFacts DEF Holds
<1>5. 32 \in Requests \ {0}
  BY UserlandAssumption
<1>6. PICK m \in p .. N :
        /\ file_array'[running] = [file_array[running] EXCEPT ![Me.fd] = OnFile(".", m)]
        /\ ReadReturns(Me.fd, 32) = m - p
        /\ m = p => p = N
        /\ m # p => m = p + 1 /\ Bytes(Me.fd, 32) = <<directory[m].name>>
  <2>1. \E m : ReadsOn(".", Me.fd, p, 32, m)
    <3>1. /\ ReadCall(Me.fd, 32) /\ "." \in Names /\ 32 \in Requests \ {0}
          /\ Holds(file_array[running], Me.fd, ".", p)
      BY <1>1, <1>3, <1>4, <1>5
    <3>. QED
      BY ONLY UsersInv, <3>1, ReadHolds
  <2>. QED
    BY <1>4, <2>1 DEF ReadsOn
<1>7. Holds(file_array'[running], x.fd, ".", m)
  BY <1>2, <1>3, <1>4, <1>6, FdFacts DEF Holds
<1>. HIDE DEF x, next
<1>8. CASE m = p
  <2>1. next = "return" /\ p = N
    BY <1>4, <1>6, <1>8 DEF next
  <2>. QED
    BY <1>2, <1>3, <2>1, FoundInGrows DEF Searches, x
<1>9. CASE m # p
  <2>1. /\ m \in 1 .. N /\ m = p + 1 /\ p = m - 1 /\ ReadReturns(Me.fd, 32) # 0
        /\ x.got = <<directory[m].name>>
    BY <1>2, <1>4, <1>6, <1>9
  <2>2. CASE directory[m].name = "."
    <3>1. next = "names"
      BY <1>2, <2>1, <2>2 DEF next
    <3>2. FoundIn(m) = FoundIn(p) \o <<>> /\ FoundIn(p) \in Seq(STRING)
      BY <2>1, <2>2, FoundInGrows
    <3>3. FoundIn(m) = FoundIn(p)
      BY <3>2, ConcatEmptySeq
    <3>. QED
      BY <1>2, <1>3, <1>7, <3>1, <3>3 DEF Searches, x
  <2>3. CASE directory[m].name # "."
    <3>1. next = "open"
      BY <1>2, <2>1, <2>3 DEF next
    <3>. QED
      BY <1>2, <1>3, <1>7, <2>1, <2>3, <3>1 DEF Searches, x
  <2>. QED
    BY <2>2, <2>3
<1>. QED
  BY <1>8, <1>9

LEMMA GrepOpens ==
    ASSUME UsersInv, DOMAIN printed = Terminal, Grep, Me.pc = "open",
           Searches(Me, file_array[running], printed[shown])
    PROVE  Searches(task'[running], file_array'[running], printed'[shown])
<1>. DEFINE me == [Me EXCEPT !.fd1 = OpenReturns(Me.got[1]), !.pc = "search"]
            x == task'[running]
<1>1. At("grep", "open") /\ OpenCall(Me.got[1]) /\ Continue(me) /\ Silent
  BY DEF Grep, OpenStep, At
<1>2. /\ x.pc = "search" /\ x.fd = Me.fd /\ x.fd1 = OpenReturns(Me.got[1])
      /\ printed'[shown] = printed[shown]
      /\ file_array[running] \in [Fds -> Descriptors]
      /\ SameFiles => file_array'[running] = file_array[running]
  <2>1. /\ DOMAIN Me = Variables /\ x = me /\ printed'[shown] = printed[shown]
        /\ file_array[running] \in [Fds -> Descriptors]
        /\ SameFiles => file_array'[running] = file_array[running]
    BY <1>1, StepsTo
  <2>. QED
    BY <2>1 DEF Variables, Shell, Started
<1>3. PICK p \in 1 .. Len(directory) :
        /\ Holds(file_array[running], Me.fd, ".", p) /\ printed[shown] = FoundIn(p - 1)
        /\ directory[p].name # "." /\ Me.got = <<directory[p].name>>
  BY DEF Searches
<1>. DEFINE f == directory[p].name
<1>4. Me.got[1] = f /\ f \in Names /\ FoundIn(p - 1) \in Seq(STRING)
  BY <1>3, FoundInGrows
<1>5. CASE OpenReturns(f) = -1
  <2>1. file_array'[running] = file_array[running]
    BY <1>1, <1>2, <1>4, <1>5 DEF OpenCall
  <2>. QED
    BY <1>2, <1>3, <1>4, <1>5, <2>1 DEF Searches
<1>6. CASE OpenReturns(f) # -1
  <2>. DEFINE fd1 == OpenReturns(f)
  <2>1. /\ fd1 \in FD_BEGIN .. MAX_FD - 1
        /\ file_array[running][fd1] = Cleared
        /\ file_array'[running] = [file_array[running] EXCEPT ![fd1] = OnFile(f, 0)]
    BY <1>1, <1>4, <1>6, OpenHolds
  <2>2. fd1 # Me.fd
    <3>1. p \in Nat /\ file_array[running][Me.fd] = OnFile(".", p)
      BY <1>3 DEF Holds
    <3>2. file_array[running][Me.fd].flags = 1
      BY <3>1, OnFileFacts, ImageAssumption
    <3>. QED
      BY <2>1, <3>2, DescriptorFacts
  <2>3. 0 \in 0 .. Len(Whole(f)) /\ SubSeq(Whole(f), 1, 0) = <<>>
    BY <1>4, WholeFacts, SubSeqEmpty
  <2>. HIDE DEF fd1
  <2>4. Holds(file_array'[running], fd1, f, 0)
    BY <1>2, <2>1, <2>3, FdFacts DEF Holds
  <2>5. Holds(file_array'[running], Me.fd, ".", p)
    BY <1>2, <1>3, <2>1, <2>2, FdFacts DEF Holds
  <2>6. printed'[shown] = FoundIn(p - 1) \o SubSeq(Whole(f), 1, 0)
    BY <1>2, <1>3, <1>4, <2>3, ConcatEmptySeq
  <2>7. x.fd1 = fd1
    BY <1>2, <1>4 DEF fd1
  <2>. HIDE DEF x
  <2>. QED
    BY <1>2, <1>3, <2>2, <2>4, <2>5, <2>6, <2>7 DEF Searches, x
<1>. QED
  BY <1>5, <1>6

LEMMA Joined ==
    ASSUME NEW a \in Seq(STRING), NEW b \in Seq(STRING), NEW c \in Seq(STRING)
    PROVE  (a \o b) \o c = a \o (b \o c)
BY ConcatAssociative

LEMMA GrepSearches ==
    ASSUME UsersInv, DOMAIN printed = Terminal, Grep, Me.pc = "search",
           Searches(Me, file_array[running], printed[shown])
    PROVE  Searches(task'[running], file_array'[running], printed'[shown])
<1>. DEFINE x == task'[running]
            next == IF ReadReturns(Me.fd1, CHUNK) = 0 THEN "close" ELSE "search"
<1>1. /\ At("grep", "search") /\ ReadCall(Me.fd1, CHUNK)
      /\ Shows(Bytes(Me.fd1, CHUNK)) /\ Goto(next)
  BY DEF Grep, OpenStep, At
<1>2. /\ x.pc = next /\ x.fd = Me.fd /\ x.fd1 = Me.fd1
      /\ printed'[shown] = printed[shown] \o Bytes(Me.fd1, CHUNK)
      /\ file_array[running] \in [Fds -> Descriptors]
      /\ SameFiles => file_array'[running] = file_array[running]
  <2>. HIDE DEF next
  <2>1. /\ DOMAIN Me = Variables /\ x = [Me EXCEPT !.pc = next]
        /\ printed'[shown] = printed[shown] \o Bytes(Me.fd1, CHUNK)
        /\ file_array[running] \in [Fds -> Descriptors]
        /\ SameFiles => file_array'[running] = file_array[running]
    BY <1>1, StepsTo
  <2>. QED
    BY <2>1 DEF Variables, Shell, Started
<1>3. PICK p \in 1 .. Len(directory) :
        /\ Holds(file_array[running], Me.fd, ".", p) /\ directory[p].name # "."
        /\ Me.fd1 # -1 =>
             /\ Me.fd1 # Me.fd
             /\ \E n : /\ Holds(file_array[running], Me.fd1, directory[p].name, n)
                       /\ printed[shown] = FoundIn(p - 1) \o
                                              SubSeq(Whole(directory[p].name), 1, n)
  BY DEF Searches
<1>. DEFINE f == directory[p].name
<1>4. /\ f \in Names /\ FoundIn(p - 1) \in Seq(STRING) /\ Found(p) = Whole(f)
      /\ FoundIn(p) = FoundIn(p - 1) \o Whole(f)
      /\ Whole(f) \in Seq(STRING) /\ Len(Whole(f)) \in Nat
  BY <1>3, FoundInGrows, WholeFacts
<1>5. CASE Me.fd1 = -1
  <2>1. ~ CanRead(Me.fd1)
    BY <1>5, FdFacts DEF CanRead, Used
  <2>2. SameFiles /\ ReadReturns(Me.fd1, CHUNK) = -1
    BY <1>1, <2>1 DEF ReadCall, ReadReturns
  <2>3. next = "search"
    BY <2>2
  <2>. HIDE DEF x, next
  <2>. QED
    BY <1>2, <1>3, <1>5, <2>2, <2>3 DEF Searches, x
<1>6. CASE Me.fd1 # -1
  <2>1. PICK n : /\ Holds(file_array[running], Me.fd1, f, n)
                 /\ printed[shown] = FoundIn(p - 1) \o SubSeq(Whole(f), 1, n)
    BY <1>3, <1>6
  <2>2. Me.fd1 # Me.fd /\ n \in 0 .. Len(Whole(f))
    BY <1>3, <1>6, <2>1 DEF Holds
  <2>3. PICK m \in n .. Len(Whole(f)) :
          /\ file_array'[running] = [file_array[running] EXCEPT ![Me.fd1] = OnFile(f, m)]
          /\ ReadReturns(Me.fd1, CHUNK) = m - n
          /\ m = n => n = Len(Whole(f))
          /\ Bytes(Me.fd1, CHUNK) = SubSeq(Whole(f), n + 1, m)
    <3>1. CHUNK \in Requests \ {0} /\ f \in Names /\ ReadCall(Me.fd1, CHUNK)
      BY <1>1, <1>4, UserlandAssumption
    <3>2. Holds(file_array[running], Me.fd1, f, n)
      BY <2>1
    <3>. HIDE DEF f
    <3>3. \E m : ReadsOn(f, Me.fd1, n, CHUNK, m)
      BY ONLY UsersInv, <3>1, <3>2, ReadHolds
    <3>. QED
      BY <3>3 DEF ReadsOn
  <2>. DEFINE W == Whole(f)
  <2>4. W \in Seq(STRING) /\ n \in 0 .. Len(W) /\ m \in n .. Len(W)
    BY <1>4, <2>2, <2>3
  <2>5. /\ SubSeq(W, 1, n) \in Seq(STRING) /\ SubSeq(W, n + 1, m) \in Seq(STRING)
        /\ SubSeq(W, 1, n) \o SubSeq(W, n + 1, m) = SubSeq(W, 1, m)
        /\ SubSeq(W, 1, Len(W)) = W
    <3>. HIDE DEF W
    <3>. QED
      BY <2>4, ReadOn
  <2>6. printed'[shown] = FoundIn(p - 1) \o SubSeq(W, 1, m)
    <3>. DEFINE a == FoundIn(p - 1)
                b == SubSeq(W, 1, n)
                c == SubSeq(W, n + 1, m)
    <3>1. printed'[shown] = (a \o b) \o c
      BY <1>2, <2>1, <2>3
    <3>2. a \in Seq(STRING) /\ b \in Seq(STRING) /\ c \in Seq(STRING)
      BY <1>4, <2>5
    <3>3. b \o c = SubSeq(W, 1, m)
      BY <2>5
    <3>. HIDE DEF a, b, c, W
    <3>4. (a \o b) \o c = a \o (b \o c)
      BY <3>2, Joined
    <3>5. (a \o b) \o c = a \o SubSeq(W, 1, m)
      BY <3>3, <3>4, Zenon
    <3>6. printed'[shown] = a \o SubSeq(W, 1, m)
      BY <3>1, <3>5, Zenon
    <3>7. a = FoundIn(p - 1)
      BY DEF a
    <3>. QED
      BY <3>6, <3>7, Zenon
  <2>7. Holds(file_array'[running], Me.fd1, f, m)
    BY <1>2, <1>4, <2>1, <2>2, <2>3, FdFacts, SMTT(20) DEF Holds
  <2>8. Holds(file_array'[running], Me.fd, ".", p)
    BY <1>2, <1>3, <2>2, <2>3, FdFacts DEF Holds
  <2>. HIDE DEF x, next
  <2>9. CASE m = n
    <3>1. next = "close" /\ printed'[shown] = FoundIn(p)
      <4>1. ReadReturns(Me.fd1, CHUNK) = 0 /\ m = Len(W)
        BY <2>2, <2>3, <2>9
      <4>2. SubSeq(W, 1, m) = Whole(f)
        BY <2>5, <4>1
      <4>3. next = "close"
        BY <4>1 DEF next
      <4>. HIDE DEF W, f
      <4>. QED
        BY <1>4, <2>6, <4>2, <4>3
    <3>. QED
      BY <1>2, <2>2, <2>8, <3>1 DEF Searches, x
  <2>10. CASE m # n
    <3>1. next = "search"
      BY <2>2, <2>3, <2>10 DEF next
    <3>. QED
      BY <1>2, <1>3, <2>2, <2>6, <2>7, <2>8, <3>1 DEF Searches, x
  <2>. QED
    BY <2>9, <2>10
<1>. QED
  BY <1>5, <1>6

LEMMA GrepCloses ==
    ASSUME UsersInv, DOMAIN printed = Terminal, Grep, Me.pc = "close",
           Searches(Me, file_array[running], printed[shown])
    PROVE  Searches(task'[running], file_array'[running], printed'[shown])
<1>. DEFINE x == task'[running]
<1>1. At("grep", "close") /\ CloseCall(Me.fd1) /\ Goto("names") /\ Silent
  BY DEF Grep, OpenStep, At
<1>2. x.pc = "names" /\ x.fd = Me.fd /\ printed'[shown] = printed[shown]
  <2>1. /\ DOMAIN Me = Variables /\ x = [Me EXCEPT !.pc = "names"]
        /\ printed'[shown] = printed[shown]
    BY <1>1, StepsTo
  <2>. QED
    BY <2>1 DEF Variables, Shell, Started
<1>3. PICK p : /\ Holds(file_array[running], Me.fd, ".", p) /\ printed[shown] = FoundIn(p)
               /\ Me.fd1 # Me.fd
  BY DEF Searches
<1>4. Holds(file_array'[running], Me.fd, ".", p)
  BY <1>1, <1>3, CloseLeaves, FdFacts DEF Holds
<1>. QED
  BY <1>2, <1>3, <1>4 DEF Searches

LEMMA GrepSound ==
    ASSUME UsersInv, DOMAIN printed = Terminal, SoundNow, Grep
    PROVE  SoundNext
<1>. DEFINE x == task'[running]
<1>1. Me.prog = "grep" /\ Me.pc \in {"main", "names", "open", "search", "close"}
  BY DEF Grep, OpenStep, At
<1>2. Searches(Me, file_array[running], printed[shown])
  BY <1>1 DEF SoundNow, Sound
<1>3. x.prog = "grep"
  <2>1. Keeps /\ running \in Slot
    BY StepsTo, GrepCalls DEF UsersInv
  <2>. QED
    BY <1>1, <2>1 DEF Keeps, UsersInv, TasksOK
<1>. SUFFICES Searches(x, file_array'[running], printed'[shown])
  BY <1>3 DEF SoundNext, Sound
<1>4. CASE Me.pc = "main"
  <2>1. OpenStep("grep", "main", ".", "names")
    BY <1>4 DEF Grep, At
  <2>2. New(file_array[running], printed[shown])
    BY <1>2, <1>4 DEF Searches
  <2>3. /\ x.pc = "names" /\ Holds(file_array'[running], x.fd, ".", 0)
        /\ printed'[shown] = FoundIn(0)
    BY <2>1, <2>2, OpensNew, FoundInGrows
  <2>. HIDE DEF x
  <2>. QED
    BY <2>3 DEF Searches
<1>. QED
  BY <1>1, <1>2, <1>4, GrepNames, GrepOpens, GrepSearches, GrepCloses

(* The steps of counter.                                                   *)
Words == {ToString(i) : i \in Nat} \cup {"Enter the Test Number", "Wrong Choice!"}

LEMMA NumbersFacts ==
    ASSUME NEW max \in {0} \cup Counts
    PROVE  max \in Nat /\ Numbers(max) \in Seq(Words) /\ Len(Numbers(max)) = max
<1>1. max \in Nat
  BY UserlandAssumption
<1>2. \A i \in 1 .. max : ToString(i) \in Words
  <2>. TAKE i \in 1 .. max
  <2>1. i \in Nat
    BY <1>1
  <2>. QED
    BY <2>1 DEF Words
<1>. QED
  BY <1>1, <1>2 DEF Numbers

LEMMA CounterSound ==
    ASSUME UsersInv, DOMAIN printed = Terminal, SoundNow, Counter
    PROVE  SoundNext
<1>. DEFINE x == task'[running]
<1>1. Me.prog = "counter" /\ Me.pc \in {"main", "line", "wrong", "count"}
  BY DEF Counter, At
<1>2. CountsUp(Me, printed[shown])
  BY <1>1 DEF SoundNow, Sound
<1>3. x.prog = "counter"
  <2>1. Keeps /\ running \in Slot
    BY StepsTo, PlainProgramsCall DEF UsersInv
  <2>. QED
    BY <1>1, <2>1 DEF Keeps, UsersInv, TasksOK
<1>4. Question \in Seq(Words) /\ <<"Wrong Choice!">> \in Seq(Words)
  BY DEF Question, Words
<1>5. DOMAIN Me = Variables
  BY StepsTo
<1>6. /\ \A message, pc : Puts(message, pc) =>
           x.pc = pc /\ printed'[shown] = printed[shown] \o <<message>>
      /\ \A pc : Goto(pc) => x.pc = pc
  <2>1. /\ \A pc : Goto(pc) => x = [Me EXCEPT !.pc = pc]
        /\ \A items : Shows(items) => printed'[shown] = printed[shown] \o items
    BY StepsTo
  <2>2. \A pc : [Me EXCEPT !.pc = pc].pc = pc
    BY <1>5 DEF Variables, Shell, Started
  <2>. QED
    BY <2>1, <2>2 DEF Puts
<1>. SUFFICES CountsUp(x, printed'[shown])
  BY <1>3 DEF SoundNext, Sound
<1>. HIDE DEF x
<1>7. CASE Me.pc = "main"
  <2>1. x.pc = "line" /\ printed'[shown] = <<>> \o Question
    BY <1>2, <1>6, <1>7 DEF Counter, At, CountsUp, Question
  <2>. QED
    BY <1>4, <2>1, ConcatEmptySeq DEF CountsUp
<1>8. CASE Me.pc = "line"
  <2>1. printed'[shown] = Question
    BY <1>2, <1>8, StepsTo DEF Counter, At, CountsUp
  <2>2. CASE x.pc = "wrong"
    BY <2>1, <2>2 DEF CountsUp
  <2>3. CASE x.pc # "wrong"
    <3>1. PICK max \in {0} \cup Counts :
            Continue([Me EXCEPT !.got = Numbers(max), !.pc = "count"])
      BY <1>6, <1>8, <2>3 DEF Counter, At, Numbers
    <3>2. x.pc = "count" /\ x.got = Numbers(max)
      <4>1. x = [Me EXCEPT !.got = Numbers(max), !.pc = "count"]
        BY <3>1, StepsTo DEF x
      <4>. QED
        BY <1>5, <4>1 DEF Variables, Shell, Started
    <3>3. max \in Nat /\ 0 \in 0 .. max /\ SubSeq(Numbers(max), 0 + 1, max) = Numbers(max)
          /\ SubSeq(Numbers(max), 1, 0) = <<>>
      <4>. DEFINE W == Numbers(max)
      <4>1. W \in Seq(Words) /\ Len(W) = max /\ max \in Nat
        BY NumbersFacts
      <4>. HIDE DEF W
      <4>2. SubSeq(W, 1, Len(W)) = W /\ SubSeq(W, 1, 0) = <<>>
        BY <4>1, ReadOn, 0 \in 0 .. Len(W)
      <4>. QED
        BY <4>1, <4>2 DEF W
    <3>4. printed'[shown] = Question \o SubSeq(Numbers(max), 1, 0)
      BY <1>4, <2>1, <3>3, ConcatEmptySeq
    <3>. QED
      BY <3>2, <3>3, <3>4 DEF CountsUp
  <2>. QED
    BY <2>2, <2>3
<1>9. CASE Me.pc = "wrong"
  <2>1. x.pc = "return" /\ printed'[shown] = Question \o <<"Wrong Choice!">>
    BY <1>2, <1>6, <1>9 DEF Counter, At, CountsUp
  <2>2. Tail(printed'[shown]) = <<"Wrong Choice!">>
    <3>1. "Enter the Test Number" \in Words
      BY DEF Words
    <3>. QED
      BY <1>4, <2>1, <3>1, TailOfOne DEF Question
  <2>. QED
    BY <2>1, <2>2 DEF CountsUp
<1>10. CASE Me.pc = "count"
  <2>1. PICK max \in {0} \cup Counts : \E n \in 0 .. max :
            /\ printed[shown] = Question \o SubSeq(Numbers(max), 1, n)
            /\ Me.got = SubSeq(Numbers(max), n + 1, max)
    BY <1>2, <1>10 DEF CountsUp
  <2>. DEFINE W == Numbers(max)
  <2>2. W \in Seq(Words) /\ Len(W) = max /\ max \in Nat
    BY NumbersFacts
  <2>3. PICK n \in 0 .. max : /\ printed[shown] = Question \o SubSeq(W, 1, n)
                              /\ Me.got = SubSeq(W, n + 1, max)
    BY <2>1
  <2>4. /\ Me.got = <<>> <=> n = max
        /\ n # max => /\ n + 1 \in 0 .. max /\ <<Head(Me.got)>> \in Seq(Words)
                      /\ Tail(Me.got) = SubSeq(W, n + 2, max)
                      /\ SubSeq(W, 1, n) \o <<Head(Me.got)>> = SubSeq(W, 1, n + 1)
    <3>. HIDE DEF W
    <3>. QED
      BY <2>2, <2>3, WriteOn
  <2>5. SubSeq(W, 1, n) \in Seq(Words) /\ SubSeq(W, 1, max) = W
    <3>. HIDE DEF W
    <3>1. n \in 0 .. Len(W) /\ Len(W) \in n .. Len(W)
      BY <2>2
    <3>. QED
      BY <2>2, <3>1, ReadOn
  <2>6. CASE n = max
    <3>1. x.pc = "return" /\ printed'[shown] = Question \o W
      <4>1. Silent /\ Goto("return")
        BY <1>10, <2>4, <2>6 DEF Counter, At
      <4>2. printed'[shown] = printed[shown]
        BY <4>1, StepsTo
      <4>. QED
        BY <1>6, <2>3, <2>5, <2>6, <4>1, <4>2
    <3>2. Tail(printed'[shown]) = W
      <4>1. "Enter the Test Number" \in Words
        BY DEF Words
      <4>. HIDE DEF W
      <4>. QED
        BY <2>2, <3>1, <4>1, TailOfOne DEF Question
    <3>. QED
      BY <3>1, <3>2 DEF CountsUp
  <2>7. CASE n # max
    <3>1. Shows(<<Head(Me.got)>>) /\ Continue([Me EXCEPT !.got = Tail(@)])
      BY <1>10, <2>4, <2>7 DEF Counter, At
    <3>2. x.pc = "count" /\ x.got = Tail(Me.got)
      <4>1. x = [Me EXCEPT !.got = Tail(@)]
        BY <3>1, StepsTo DEF x
      <4>. QED
        BY <1>5, <1>10, <4>1 DEF Variables, Shell, Started
    <3>3. printed'[shown] = (Question \o SubSeq(W, 1, n)) \o <<Head(Me.got)>>
      BY <2>3, <3>1, StepsTo
    <3>4. printed'[shown] = Question \o SubSeq(W, 1, n + 1)
      <4>. DEFINE a == Question
                  b == SubSeq(W, 1, n)
                  c == <<Head(Me.got)>>
      <4>1. a \in Seq(Words) /\ b \in Seq(Words) /\ c \in Seq(Words)
        BY <1>4, <2>4, <2>5, <2>7
      <4>2. b \o c = SubSeq(W, 1, n + 1)
        BY <2>4, <2>7
      <4>. HIDE DEF a, b, c, W
      <4>3. (a \o b) \o c = a \o (b \o c)
        BY <4>1, ConcatAssociative
      <4>. QED
        BY <3>3, <4>2, <4>3 DEF a, b, c
    <3>5. n + 1 \in 0 .. max /\ x.got = SubSeq(W, (n + 1) + 1, max)
      BY <2>2, <2>4, <2>7, <3>2, (n + 1) + 1 = n + 2
    <3>. QED
      BY <3>2, <3>4, <3>5 DEF CountsUp
  <2>. QED
    BY <2>6, <2>7
<1>. QED
  BY <1>1, <1>7, <1>8, <1>9, <1>10

(* The tests of syserr, of a program that has opened nothing.              *)
LEMMA RefusedIn ==
    ASSUME NEW calls \in Seq({-1})
    PROVE  AllRefused(calls)
<1>1. \A k \in 1 .. Len(calls) : calls[k] \in {-1}
  BY ElementOfSeq
<1>. QED
  BY <1>1, LenProperties DEF AllRefused

LEMMA TestsPassInNew ==
    ASSUME file_array[running] = NewTable
    PROVE  /\ NegFdPasses /\ BigFdPasses /\ OpenPasses /\ UnopenedPasses /\ VidmapPasses
           /\ StdinOutPasses /\ SyscallNumPasses
<1>1. MAX_FD \in Nat /\ MAX_FD > 2 /\ Fds = 0 .. MAX_FD - 1 /\ FD_BEGIN = 2
  BY FilesAssumption DEF Fds, FD_BEGIN
<1>2. \A fd : fd \in Used(running) <=> fd \in {0, 1}
  <2>1. \A fd \in Fds : NewTable[fd].flags = IF fd < 2 THEN 1 ELSE 0
    BY <1>1, DescriptorFacts DEF NewTable, TerminalDescriptor
  <2>. QED
    BY <1>1, <2>1 DEF Used
<1>3. \A fd, n : fd \notin {0, 1} =>
         ReadReturns(fd, n) = -1 /\ WriteReturns(fd, n) = -1 /\ CloseReturns(fd) = -1
  BY <1>2 DEF ReadReturns, WriteReturns, CloseReturns, CanRead, CanWrite
<1>4. NegFdPasses
  BY <1>3 DEF NegFdPasses, NEG_FD, AllRefused
<1>5. BigFdPasses
  BY <1>3 DEF BigFdPasses, BIG_FD, AllRefused
<1>6. OpenPasses
  <2>1. "helloo" \notin Names /\ "shel" \notin Names /\ "" \notin Names
    BY SyserrAssumption
  <2>2. OpenReturns("helloo") = -1 /\ OpenReturns("shel") = -1 /\ OpenReturns("") = -1
    BY <2>1, OpensInNew
  <2>3. OpenPasses = AllRefused(<<-1, -1, -1>>)
    BY <2>2 DEF OpenPasses
  <2>4. <<-1, -1, -1>> \in Seq({-1})
    OBVIOUS
  <2>. QED
    BY <2>3, <2>4, RefusedIn
<1>7. UnopenedPasses
  <2>. DEFINE a == [k \in 1 .. MAX_FD |-> CloseReturns(k - 1)]
              b == [k \in 1 .. MAX_FD - 2 |-> ReadReturns(k + 1, 31)]
              c == [k \in 1 .. MAX_FD - 2 |-> WriteReturns(k + 1, 31)]
  <2>1. MAX_FD - 2 \in Nat
    BY <1>1
  <2>2. a \in Seq({-1})
    <3>1. \A k \in 1 .. MAX_FD : CloseReturns(k - 1) = -1
      <4>. SUFFICES ASSUME NEW k \in 1 .. MAX_FD PROVE CloseReturns(k - 1) = -1
        OBVIOUS
      <4>1. CASE k - 1 \in {0, 1}
        <5>1. k - 1 \notin FD_BEGIN .. MAX_FD - 1
          BY <1>1, <4>1
        <5>. QED
          BY <5>1 DEF CloseReturns
      <4>. QED
        BY <1>3, <4>1
    <3>. QED
      BY <1>1, <3>1
  <2>3. b \in Seq({-1}) /\ c \in Seq({-1})
    <3>1. \A k \in 1 .. MAX_FD - 2 : k + 1 \notin {0, 1}
      BY <1>1
    <3>2. \A k \in 1 .. MAX_FD - 2 : /\ ReadReturns(k + 1, 31) = -1
                                     /\ WriteReturns(k + 1, 31) = -1
      BY <1>3, <3>1
    <3>. QED
      BY <2>1, <3>2
  <2>4. UnopenedPasses = AllRefused(a \o b \o c)
    BY DEF UnopenedPasses
  <2>. HIDE DEF a, b, c
  <2>5. a \o b \o c \in Seq({-1})
    BY <2>2, <2>3, ConcatProperties
  <2>. QED
    BY <2>4, <2>5, RefusedIn
<1>8. VidmapPasses
  <2>1. ~ Kernel!VidmapAccepts(0) /\ ~ Kernel!VidmapAccepts(KERNEL_POINTER)
    BY SyserrAssumption DEF Kernel!VidmapAccepts
  <2>. QED
    BY <2>1 DEF VidmapPasses, VidmapReturns, AllRefused
<1>9. StdinOutPasses
  <2>1. WriteReturns(0, 31) = -1 /\ ReadReturns(1, 31) = -1
    BY DEF WriteReturns, ReadReturns, CanWrite, CanRead
  <2>. QED
    BY <2>1 DEF StdinOutPasses, AllRefused
<1>10. SyscallNumPasses
  <2>1. call_sys(BIG_NUM) = -1 /\ call_sys(NEG_NUM) = -1 /\ call_sys(0) = -1
    BY DEF call_sys, Kernel!Dispatch, BIG_NUM, NEG_NUM
  <2>. QED
    BY <2>1 DEF SyscallNumPasses, AllRefused
<1>. QED
  BY <1>4, <1>5, <1>6, <1>7, <1>8, <1>9, <1>10

(* The next open when k descriptors have been opened.                      *)
LEMMA LotsNext ==
    ASSUME UsersInv, NEW k \in 0 .. MAX_FD - FD_BEGIN, file_array[running] = Lots(k),
           OpenCall(".")
    PROVE  /\ k = MAX_FD - FD_BEGIN => OpenReturns(".") = -1
           /\ k # MAX_FD - FD_BEGIN => /\ OpenReturns(".") \in Int
                                       /\ file_array'[running] = Lots(k + 1)
<1>1. MAX_FD \in Nat /\ MAX_FD > 2 /\ Fds = 0 .. MAX_FD - 1 /\ FD_BEGIN = 2
  BY FilesAssumption DEF Fds, FD_BEGIN
<1>2. "." \in Names /\ OnFile(".", 0).flags = 1
  BY ImageAssumption, OnFileFacts
<1>3. \A fd \in Fds : Lots(k)[fd].flags = IF fd < 2 + k THEN 1 ELSE 0
  BY <1>1, <1>2, DescriptorFacts DEF Lots
<1>4. \A fd : fd \in FreeFds(running) <=> fd \in 2 + k .. MAX_FD - 1
  BY <1>1, <1>3 DEF FreeFds, Used
<1>5. CASE k = MAX_FD - FD_BEGIN
  <2>1. FreeFds(running) = {}
    BY <1>1, <1>4, <1>5
  <2>. QED
    BY <1>5, <2>1 DEF OpenReturns
<1>6. CASE k # MAX_FD - FD_BEGIN
  <2>. DEFINE fd == CHOOSE g \in FreeFds(running) : \A h \in FreeFds(running) : g <= h
  <2>1. 2 + k \in FreeFds(running) /\ \A h \in FreeFds(running) : 2 + k <= h
    BY <1>1, <1>4, <1>6
  <2>2. /\ fd \in FreeFds(running) /\ \A h \in FreeFds(running) : fd <= h
    BY <2>1
  <2>3. OpenReturns(".") = fd
    BY <1>2, <2>1 DEF OpenReturns
  <2>. HIDE DEF fd
  <2>4. fd = 2 + k
    <3>1. fd \in Int /\ fd <= 2 + k /\ 2 + k <= fd
      BY <1>4, <2>1, <2>2
    <3>. QED
      BY <3>1
  <2>5. file_array'[running] = [Lots(k) EXCEPT ![2 + k] = OnFile(".", 0)]
    <3>1. OpenReturns(".") # -1
      BY <2>3, <2>4
    <3>. QED
      BY <1>2, <2>3, <2>4, <3>1, OpenHolds
  <2>6. [Lots(k) EXCEPT ![2 + k] = OnFile(".", 0)] = Lots(k + 1)
    BY <1>1 DEF Lots
  <2>. QED
    BY <1>6, <2>3, <2>4, <2>5, <2>6
<1>. QED
  BY <1>5, <1>6

LEMMA SyserrSound ==
    ASSUME UsersInv, DOMAIN printed = Terminal, SoundNow, Syserr
    PROVE  SoundNext
<1>. DEFINE x == task'[running]
            T == file_array[running]
            Then(test) == IF Me.arg = "0" THEN test ELSE "return"
<1>1. Me.prog = "syserr"
  BY DEF Syserr, Judge, OpenLots, At
<1>2. TestsErrors(Me, T, printed[shown])
  BY <1>1 DEF SoundNow, Sound
<1>3. /\ running \in Slot /\ DOMAIN Me = Variables
      /\ \A me : Continue(me) => x = me
      /\ \A pc : Goto(pc) => x = [Me EXCEPT !.pc = pc]
      /\ Silent => printed'[shown] = printed[shown]
      /\ \A items : Shows(items) => printed'[shown] = printed[shown] \o items
      /\ SameFiles => file_array'[running] = T
  BY StepsTo
<1>. HIDE DEF T
<1>4. x.prog = "syserr"
  <2>1. Keeps
    BY <1>3, SyserrCalls DEF UsersInv
  <2>. QED
    BY <1>1, <1>3, <2>1 DEF Keeps, UsersInv, TasksOK
<1>. HIDE DEF x
<1>5. \A pc : /\ [Me EXCEPT !.pc = pc].pc = pc /\ [Me EXCEPT !.pc = pc].arg = Me.arg
              /\ [Me EXCEPT !.pc = pc].got = Me.got
  BY <1>3 DEF Variables, Shell, Started
<1>. SUFFICES TestsErrors(x, file_array'[running], printed'[shown])
  BY <1>4 DEF SoundNext, Sound, x
<1>6. <<"PASS">> \in Seq({"PASS"}) /\ <<>> \o <<"PASS">> = <<"PASS">>
  <2>1. <<"PASS">> \in Seq({"PASS"})
    OBVIOUS
  <2>. QED
    BY <2>1, ConcatEmptySeq
<1>7. CASE Me.pc = "main" /\ Goto(IF Me.arg = "0" THEN "neg_fd" ELSE Me.arg)
           /\ Silent /\ SameFiles
  <2>1. CASE Me.arg = "0"
    <3>1. x = [Me EXCEPT !.pc = "neg_fd"]
      BY <1>3, <1>7, <2>1
    <3>2. x.arg = "0"
      BY <1>5, <2>1, <3>1
    <3>. QED
      BY <1>5, <3>2 DEF TestsErrors
  <2>2. CASE Me.arg # "0"
    <3>1. /\ x.arg = Me.arg /\ x.pc = Me.arg /\ x.got = Me.got /\ Me.arg \in Tests
          /\ Me.got = <<>> /\ New(file_array'[running], printed'[shown])
      <4>1. Me.arg \in Tests /\ Me.got = <<>> /\ New(T, printed[shown])
        BY <1>2, <1>7, <2>2 DEF TestsErrors
      <4>2. /\ x = [Me EXCEPT !.pc = Me.arg] /\ printed'[shown] = printed[shown]
            /\ file_array'[running] = T
        BY <1>3, <1>7, <2>2
      <4>3. x.arg = Me.arg /\ x.pc = Me.arg /\ x.got = Me.got
        BY <1>5, <4>2
      <4>. QED
        BY <4>1, <4>2, <4>3
    <3>2. NewTable = Lots(0)
      BY FdFacts DEF NewTable, Lots, TerminalDescriptor, FD_BEGIN
    <3>3. <<>> \in Seq(Int) /\ Len(<<>>) = 0 /\ 0 <= MAX_FD - FD_BEGIN
      BY FilesAssumption DEF FD_BEGIN
    <3>4. x.pc \in Tests /\ x.got = <<>>
      BY <3>1
    <3>. QED
      BY <3>1, <3>2, <3>3, <3>4 DEF TestsErrors, New, Tests
  <2>. QED
    BY <2>1, <2>2
<1>8. ASSUME NEW test \in Tests \ {"open_lots"}, NEW passes, NEW next,
             Judge(test, passes, next),
             T = NewTable => passes, Me.arg # "0" => next = "return"
      PROVE  TestsErrors(x, file_array'[running], printed'[shown])
  <2>1. x.arg = Me.arg /\ x.pc = next /\ Me.pc = test
    BY <1>3, <1>5, <1>8 DEF Judge, At
  <2>2. CASE Me.arg = "0"
    BY <2>1, <2>2 DEF TestsErrors
  <2>3. CASE Me.arg # "0"
    <3>1. New(T, printed[shown])
      BY <1>2, <1>8, <2>1, <2>3 DEF TestsErrors
    <3>2. printed'[shown] = printed[shown] \o <<"PASS">>
      BY <1>3, <1>8, <3>1 DEF Judge, New
    <3>3. printed'[shown] = <<"PASS">>
      BY <1>6, <3>1, <3>2 DEF New
    <3>. QED
      BY <1>8, <2>1, <2>3, <3>3 DEF TestsErrors, Tests
  <2>. QED
    BY <2>2, <2>3
<1>9. ASSUME NEW next, OpenLots(next), Me.arg # "0" => next = "return"
      PROVE  TestsErrors(x, file_array'[running], printed'[shown])
  <2>. DEFINE me1 == [Me EXCEPT !.got = <<>>, !.pc = next]
              me2 == [Me EXCEPT !.got = Append(@, OpenReturns("."))]
  <2>1. /\ Me.pc = "open_lots" /\ OpenCall(".")
        /\ IF Len(Me.got) = MAX_FD - FD_BEGIN
             THEN /\ x = me1
                  /\ Shows(<<IF AllRefused(<<OpenReturns(".")>>) THEN "PASS" ELSE "FAIL">>)
             ELSE x = me2 /\ Silent
    BY <1>3, <1>9 DEF OpenLots, At
  <2>2. /\ me1.arg = Me.arg /\ me1.pc = next
        /\ me2.arg = Me.arg /\ me2.pc = Me.pc /\ me2.got = Append(Me.got, OpenReturns("."))
    BY <1>3 DEF Variables, Shell, Started
  <2>. HIDE DEF me1, me2
  <2>3. CASE Me.arg = "0"
    BY <2>1, <2>2, <2>3 DEF TestsErrors
  <2>4. CASE Me.arg # "0"
    <3>1. /\ Me.got \in Seq(Int) /\ Len(Me.got) \in 0 .. MAX_FD - FD_BEGIN
          /\ printed[shown] = <<>> /\ T = Lots(Len(Me.got))
      <4>1. /\ Me.got \in Seq(Int) /\ Len(Me.got) <= MAX_FD - FD_BEGIN
            /\ printed[shown] = <<>> /\ T = Lots(Len(Me.got))
        BY <1>2, <2>1, <2>4 DEF TestsErrors
      <4>2. Len(Me.got) \in Nat /\ MAX_FD - FD_BEGIN \in Int
        BY <4>1, LenProperties, FilesAssumption DEF FD_BEGIN
      <4>. QED
        BY <4>1, <4>2
    <3>2. /\ Len(Me.got) = MAX_FD - FD_BEGIN => OpenReturns(".") = -1
          /\ Len(Me.got) # MAX_FD - FD_BEGIN =>
               OpenReturns(".") \in Int /\ file_array'[running] = Lots(Len(Me.got) + 1)
      BY <2>1, <3>1, LotsNext DEF T
    <3>3. CASE Len(Me.got) = MAX_FD - FD_BEGIN
      <4>1. AllRefused(<<OpenReturns(".")>>)
        BY <3>2, <3>3 DEF AllRefused
      <4>2. printed'[shown] = <<"PASS">>
        BY <1>3, <1>6, <2>1, <3>1, <3>3, <4>1
      <4>. QED
        BY <1>9, <2>1, <2>2, <2>4, <3>3, <4>2 DEF TestsErrors, Tests
    <3>4. CASE Len(Me.got) # MAX_FD - FD_BEGIN
      <4>1. x = me2 /\ printed'[shown] = <<>>
        BY <1>3, <2>1, <3>1, <3>4
      <4>2. /\ x.got \in Seq(Int) /\ Len(x.got) = Len(Me.got) + 1
        <5>. DEFINE r == OpenReturns(".")
        <5>1. r \in Int /\ x.got = Append(Me.got, r)
          BY <2>2, <3>2, <3>4, <4>1
        <5>. HIDE DEF r
        <5>. QED
          BY <3>1, <5>1, AppendProperties
      <4>3. Len(Me.got) + 1 <= MAX_FD - FD_BEGIN
        BY <3>1, <3>4, FilesAssumption DEF FD_BEGIN
      <4>. QED
        BY <2>1, <2>2, <3>2, <3>4, <4>1, <4>2, <4>3 DEF TestsErrors, Tests
    <3>. QED
      BY <3>3, <3>4
  <2>. QED
    BY <2>3, <2>4
<1>10. T = NewTable => /\ NegFdPasses /\ BigFdPasses /\ OpenPasses /\ UnopenedPasses
                       /\ VidmapPasses /\ StdinOutPasses /\ SyscallNumPasses
  BY TestsPassInNew DEF T
<1>11. \/ Me.pc = "main" /\ Goto(IF Me.arg = "0" THEN "neg_fd" ELSE Me.arg)
              /\ Silent /\ SameFiles
       \/ Judge("neg_fd", NegFdPasses, Then("big_fd"))
       \/ Judge("big_fd", BigFdPasses, Then("open_lots"))
       \/ OpenLots(Then("open"))
       \/ Judge("open", OpenPasses, Then("unopened"))
       \/ Judge("unopened", UnopenedPasses, Then("vidmap"))
       \/ Judge("vidmap", VidmapPasses, Then("stdin_out"))
       \/ Judge("stdin_out", StdinOutPasses, Then("syscall_num"))
       \/ Judge("syscall_num", SyscallNumPasses, "return")
  BY DEF Syserr, At
<1>12. \A test : Me.arg # "0" => Then(test) = "return"
  OBVIOUS
<1>13. /\ "neg_fd" \in Tests \ {"open_lots"} /\ "big_fd" \in Tests \ {"open_lots"}
       /\ "open" \in Tests \ {"open_lots"} /\ "unopened" \in Tests \ {"open_lots"}
       /\ "vidmap" \in Tests \ {"open_lots"} /\ "stdin_out" \in Tests \ {"open_lots"}
       /\ "syscall_num" \in Tests \ {"open_lots"}
  BY DEF Tests
<1>. HIDE DEF Then
<1>. QED
  BY <1>7, <1>8, <1>9, <1>10, <1>11, <1>12, <1>13

-----------------------------------------------------------------------------
(* The steps of fish.                                                      *)

LEMMA FrameFacts ==
    ASSUME FramesThere, NEW k \in {1, 2}
    PROVE  /\ Frames[k] \in Names /\ Frames[k] # "." /\ Frames[k] # "rtc"
           /\ Whole(Frames[k]) = Frame(k) /\ Frame(k) \in Seq(STRING)
<1>1. Frames[k] \in DOMAIN contents /\ Frames[k] \in {"frame0", "frame1"}
  BY DEF FramesThere, Frames
<1>2. Frames[k] # "." /\ Frames[k] # "rtc"
  BY <1>1
<1>. QED
  BY <1>1, <1>2, ImageAssumption, WholeFacts DEF Whole, Frame

LEMMA PairIs ==
    ASSUME NEW S, NEW p \in [{1, 2} -> S], NEW a, NEW b
    PROVE  p = <<a, b>> <=> p[1] = a /\ p[2] = b
<1>1. DOMAIN p = DOMAIN <<a, b>>
  OBVIOUS
<1>. QED
  BY <1>1

(* The other frame is left as it is.                                       *)
LEMMA OtherFrame ==
    ASSUME NEW k, NEW f, NEW table, NEW r, NEW c, OfFrame(k, f, table, r, c), NEW g, NEW after,
           g.fds[k] = f.fds[k], g.c[k] = f.c[k], g.eof[k] = f.eof[k],
           ~ f.eof[k] => after[f.fds[k]] = table[f.fds[k]]
    PROVE  OfFrame(k, g, after, r, c)
BY DEF OfFrame, Holds

(* The frames when of the k-th another byte is read.                       *)
After(f, k, c, eof) == [f EXCEPT !.c[k] = c, !.eof[k] = eof]

Another(g, f, k, c, eof) ==
    /\ FrameShape(g) /\ g.fds = f.fds /\ g.row = f.row /\ g.col = f.col
    /\ g.c[k] = c /\ g.eof[k] = eof
    /\ \A j \in {1, 2} \ {k} : g.c[j] = f.c[j] /\ g.eof[j] = f.eof[j]

FrameOf(fds, c, eof, row, col) ==
    [fds |-> fds, c |-> c, eof |-> eof, row |-> row, col |-> col]

Put(p, k, x) == [p EXCEPT ![k] = x]

LEMMA AfterIs ==
    ASSUME NEW f, FrameShape(f), NEW k, NEW c, NEW eof
    PROVE  /\ f = FrameOf(f.fds, f.c, f.eof, f.row, f.col)
           /\ After(f, k, c, eof) = FrameOf(f.fds, Put(f.c, k, c), Put(f.eof, k, eof), f.row, f.col)
<1>1. f = [fds |-> f.fds, c |-> f.c, eof |-> f.eof, row |-> f.row, col |-> f.col]
  BY DEF FrameShape
<1>. DEFINE g == [f EXCEPT !.c[k] = c]
<1>2. g = [fds |-> f.fds, c |-> [f.c EXCEPT ![k] = c], eof |-> f.eof,
           row |-> f.row, col |-> f.col]
  BY <1>1
<1>3. After(f, k, c, eof) = [g EXCEPT !.eof[k] = eof]
  BY DEF After
<1>4. After(f, k, c, eof) = [fds |-> f.fds, c |-> [f.c EXCEPT ![k] = c],
                             eof |-> [f.eof EXCEPT ![k] = eof],
                             row |-> f.row, col |-> f.col]
  <2>. HIDE DEF g
  <2>. QED
    BY <1>2, <1>3
<1>. QED
  BY <1>1, <1>4 DEF FrameOf, Put

LEMMA ByteIs ==
    ASSUME NEW f, FrameShape(f), NEW k, NEW c
    PROVE  [f EXCEPT !.c[k] = c] = FrameOf(f.fds, Put(f.c, k, c), f.eof, f.row, f.col)
<1>1. f = [fds |-> f.fds, c |-> f.c, eof |-> f.eof, row |-> f.row, col |-> f.col]
  BY DEF FrameShape
<1>. QED
  BY <1>1 DEF FrameOf, Put

LEMMA AfterFacts ==
    ASSUME NEW f, FrameShape(f), NEW k \in {1, 2}, NEW c \in STRING \cup {"0", "\n"},
           NEW eof \in BOOLEAN
    PROVE  Another(After(f, k, c, eof), f, k, c, eof)
<1>. DEFINE p == Put(f.c, k, c)
            q == Put(f.eof, k, eof)
            g == After(f, k, c, eof)
<1>1. /\ f.fds \in [{1, 2} -> Int] /\ f.c \in [{1, 2} -> STRING \cup {"0", "\n"}]
      /\ f.eof \in [{1, 2} -> BOOLEAN] /\ f.row \in Nat /\ f.col \in Nat
  BY DEF FrameShape
<1>2. /\ p \in [{1, 2} -> STRING \cup {"0", "\n"}] /\ q \in [{1, 2} -> BOOLEAN]
      /\ p[k] = c /\ q[k] = eof
      /\ \A j \in {1, 2} \ {k} : p[j] = f.c[j] /\ q[j] = f.eof[j]
  BY <1>1 DEF Put
<1>3. g = FrameOf(f.fds, p, q, f.row, f.col)
  BY AfterIs
<1>. HIDE DEF g, p, q
<1>4. g.fds = f.fds /\ g.row = f.row /\ g.col = f.col /\ g.c = p /\ g.eof = q
  BY <1>3 DEF FrameOf
<1>5. FrameShape(g)
  BY <1>1, <1>2, <1>3 DEF FrameShape, FrameOf
<1>. QED
  BY <1>2, <1>4, <1>5 DEF Another, g

LEMMA SameAfter ==
    ASSUME NEW f, FrameShape(f), NEW k \in {1, 2}
    PROVE  /\ After(f, k, f.c[k], f.eof[k]) = f
           /\ \A c : [f EXCEPT !.c[k] = c] = After(f, k, c, f.eof[k])
<1>1. Put(f.eof, k, f.eof[k]) = f.eof /\ Put(f.c, k, f.c[k]) = f.c
  BY DEF FrameShape, Put
<1>2. After(f, k, f.c[k], f.eof[k]) = f
  BY <1>1, AfterIs
<1>3. ASSUME NEW c PROVE [f EXCEPT !.c[k] = c] = After(f, k, c, f.eof[k])
  BY <1>1, AfterIs, ByteIs
<1>. QED
  BY <1>2, <1>3

(* A byte of a frame is read, or its line has ended: how it is afterwards. *)
Advances(k, c, eof) ==
    LET f == After(Me.frames, k, c, eof)
    IN  /\ c \in STRING \cup {"0", "\n"} /\ eof \in BOOLEAN /\ IsCell(k, f)
        /\ OfFrame(k, f, file_array'[running], Me.frames.row, Me.frames.col + 1)
        /\ task'[running].frames = f

LEMMA OneByte ==
    ASSUME NEW W \in Seq(STRING), NEW n \in Nat, n + 1 \in 1 .. Len(W)
    PROVE  SubSeq(W, n + 1, n + 1)[1] = W[n + 1]
OBVIOUS

LEMMA FrameIsRead ==
    ASSUME UsersInv, DOMAIN printed = Terminal, FramesThere, NEW k \in {1, 2},
           NEW from, NEW to, ReadFrame(k, from, to), FrameShape(Me.frames),
           OfFrame(k, Me.frames, file_array[running], Me.frames.row, Me.frames.col)
    PROVE  /\ \E c, eof : Advances(k, c, eof)
           /\ task'[running].pc = to /\ printed'[shown] = printed[shown]
           /\ \A g : g # Me.frames.fds[k] =>
                        file_array'[running][g] = file_array[running][g]
<1>. DEFINE F == Me.frames
            fd == F.fds[k]
            W == Frame(k)
            T == file_array[running]
<1>1. /\ Frames[k] \in Names /\ Whole(Frames[k]) = W /\ W \in Seq(STRING)
      /\ F.row \in Nat /\ F.col \in Nat /\ Len(W) \in Nat
      /\ F.c[k] \in STRING \cup {"0", "\n"} /\ F.eof[k] \in BOOLEAN /\ FrameShape(F)
  BY FrameFacts, LenProperties DEF FrameShape
<1>2. PICK n : /\ ~ F.eof[k] => Holds(T, fd, Frames[k], n)
               /\ ReadTo(W, n, F.row, F.col, F.c[k], F.eof[k])
  BY DEF OfFrame
<1>3. ASSUME NEW c \in STRING \cup {"0", "\n"}, NEW eof \in BOOLEAN, NEW m,
             ReadTo(W, m, F.row, F.col + 1, c, eof), Cell(W, F.row, F.col) = Shown(c),
             ~ eof => Holds(file_array'[running], fd, Frames[k], m),
             task'[running].frames = After(F, k, c, eof)
      PROVE  Advances(k, c, eof)
  <2>. DEFINE f == After(F, k, c, eof)
  <2>1. f.fds = F.fds /\ f.row = F.row /\ f.col = F.col /\ f.c[k] = c /\ f.eof[k] = eof
    <3>. HIDE DEF F
    <3>1. FrameShape(F)
      BY <1>1
    <3>2. c \in STRING \cup {"0", "\n"} /\ eof \in BOOLEAN /\ k \in {1, 2}
      OBVIOUS
    <3>3. Another(After(F, k, c, eof), F, k, c, eof)
      BY ONLY <3>1, <3>2, AfterFacts
    <3>. QED
      BY <3>3 DEF Another
  <2>. HIDE DEF f, F, W
  <2>2. IsCell(k, f)
    BY <1>3, <2>1 DEF IsCell, W
  <2>3. OfFrame(k, f, file_array'[running], F.row, F.col + 1)
    BY <1>3, <2>1 DEF OfFrame, W
  <2>. QED
    BY <1>3, <2>2, <2>3 DEF Advances, f, F
<1>4. /\ DOMAIN Me = Variables /\ T \in [Fds -> Descriptors]
      /\ printed'[shown] = printed[shown]
      /\ SameFiles => file_array'[running] = T
  BY StepsTo DEF ReadFrame
<1>5. CASE F.c[k] = "\n"
  <2>1. SameFiles /\ Goto(to)
    BY <1>5 DEF ReadFrame, LineEnds
  <2>2. task'[running] = [Me EXCEPT !.pc = to]
    BY <2>1, StepsTo
  <2>3. task'[running].pc = to /\ task'[running].frames = F
    BY <1>4, <2>2 DEF Variables, Shell, Started
  <2>4. After(F, k, F.c[k], F.eof[k]) = F
    <3>. HIDE DEF F
    <3>. QED
      BY <1>1, SameAfter
  <2>5. /\ ReadTo(W, n, F.row, F.col + 1, F.c[k], F.eof[k])
        /\ Blank(W, F.row, F.col)
    BY <1>1, <1>2, <1>5, LineIsOver
  <2>6. Cell(W, F.row, F.col) = Shown(F.c[k])
    BY <1>5, <2>5 DEF Shown, Blank
  <2>7. file_array'[running] = T
    BY <1>4, <2>1
  <2>. HIDE DEF F, T, W
  <2>8. Advances(k, F.c[k], F.eof[k])
    BY <1>1, <1>2, <1>3, <2>3, <2>4, <2>5, <2>6, <2>7
  <2>. QED
    BY <1>4, <2>3, <2>7, <2>8 DEF T
<1>6. CASE F.c[k] # "\n"
  <2>1. ~ F.eof[k] /\ n \in 0 .. Len(W) /\ Holds(T, fd, Frames[k], n)
    BY <1>2, <1>6 DEF ReadTo
  <2>2. ReadCall(fd, 1) /\ 1 \in Requests \ {0}
    BY <1>6, UserlandAssumption DEF ReadFrame, LineEnds
  <2>3. PICK m \in n .. Len(W) :
          /\ file_array'[running] = [T EXCEPT ![fd] = OnFile(Frames[k], m)]
          /\ ReadReturns(fd, 1) = m - n /\ m <= n + 1
          /\ m = n => n = Len(W)
          /\ Bytes(fd, 1) = SubSeq(W, n + 1, m)
    <3>. DEFINE f == Frames[k]
    <3>1. f \in Names /\ Holds(file_array[running], fd, f, n) /\ Whole(f) = W
      BY <1>1, <2>1
    <3>. HIDE DEF f, fd, W
    <3>2. \E m : ReadsOn(f, fd, n, 1, m)
      BY ONLY UsersInv, <2>2, <3>1, ReadHolds
    <3>. QED
      BY <3>1, <3>2 DEF f, ReadsOn
  <2>4. /\ \A g : g # fd => file_array'[running][g] = T[g]
        /\ fd \in FD_BEGIN .. MAX_FD - 1 /\ file_array'[running][fd] = OnFile(Frames[k], m)
    BY <1>4, <2>1, <2>3, FdFacts DEF Holds
  <2>5. CASE m = n
    <3>1. task'[running] = [Me EXCEPT !.pc = to, !.frames.c[k] = "\n", !.frames.eof[k] = TRUE]
      <4>1. ReadReturns(fd, 1) = 0
        BY <2>1, <2>3, <2>5
      <4>2. Continue([Me EXCEPT !.pc = to, !.frames.c[k] = "\n", !.frames.eof[k] = TRUE])
        BY <1>6, <4>1 DEF ReadFrame, LineEnds
      <4>. QED
        BY <4>2, StepsTo
    <3>2. task'[running].pc = to /\ task'[running].frames = After(F, k, "\n", TRUE)
      BY <1>1, <1>4, <3>1 DEF Variables, Shell, Started, After
    <3>3. ReadTo(W, n, F.row, F.col + 1, "\n", TRUE) /\ Cell(W, F.row, F.col) = Shown("\n")
      <4>1. n = Len(W)
        BY <2>3, <2>5
      <4>. HIDE DEF W, F
      <4>2. ReadTo(W, n, F.row, F.col + 1, "\n", TRUE) /\ Cell(W, F.row, F.col) = " "
        BY <1>1, <1>2, <1>6, <4>1, ByteIsRead
      <4>. QED
        BY <4>2 DEF Shown
    <3>. HIDE DEF F, T, W
    <3>4. Advances(k, "\n", TRUE)
      BY <1>3, <3>2, <3>3
    <3>. QED
      BY <1>4, <2>4, <3>2, <3>4 DEF F, T
  <2>6. CASE m # n
    <3>. DEFINE c == Bytes(fd, 1)[1]
    <3>1. m = n + 1 /\ n # Len(W) /\ n \in Nat /\ n + 1 \in 1 .. Len(W)
      BY <1>1, <2>1, <2>3, <2>6
    <3>2. c = W[n + 1]
      <4>1. Bytes(fd, 1) = SubSeq(W, n + 1, n + 1)
        BY <2>3, <3>1
      <4>. HIDE DEF W
      <4>2. W \in Seq(STRING)
        BY <1>1
      <4>3. SubSeq(W, n + 1, n + 1)[1] = W[n + 1]
        BY ONLY <3>1, <4>2, OneByte
      <4>. QED
        BY <4>1, <4>3
    <3>3. task'[running] = [Me EXCEPT !.pc = to, !.frames.c[k] = c]
      <4>1. ReadReturns(fd, 1) # 0
        BY <2>3, <3>1
      <4>2. Continue([Me EXCEPT !.pc = to, !.frames.c[k] = c])
        BY <1>6, <4>1 DEF ReadFrame, LineEnds
      <4>. QED
        BY <4>2, StepsTo
    <3>. HIDE DEF c
    <3>4. c \in STRING \cup {"0", "\n"}
      BY <1>1, <3>1, <3>2, ElementOfSeq
    <3>5. task'[running].pc = to /\ task'[running].frames = After(F, k, c, FALSE)
      <4>1. task'[running].pc = to /\ task'[running].frames = [F EXCEPT !.c[k] = c]
        BY <1>4, <3>3 DEF Variables, Shell, Started
      <4>2. F.eof[k] = FALSE
        BY <1>1, <2>1
      <4>3. [F EXCEPT !.c[k] = c] = After(F, k, c, FALSE)
        <5>. HIDE DEF F
        <5>1. FrameShape(F) /\ FALSE \in BOOLEAN
          BY <1>1
        <5>2. [F EXCEPT !.c[k] = c] = After(F, k, c, F.eof[k])
          BY <5>1, SameAfter
        <5>. QED
          BY <4>2, <5>2
      <4>. QED
        BY <4>1, <4>3
    <3>6. ReadTo(W, n + 1, F.row, F.col + 1, c, FALSE) /\ Cell(W, F.row, F.col) = Shown(c)
      <4>. HIDE DEF W, F
      <4>. QED
        BY <1>1, <1>2, <1>6, <3>1, <3>2, ByteIsRead
    <3>7. Holds(file_array'[running], fd, Frames[k], n + 1)
      BY <1>1, <2>4, <3>1 DEF Holds
    <3>. HIDE DEF F, T, W
    <3>8. Advances(k, c, FALSE)
      BY <1>3, <3>4, <3>5, <3>6, <3>7
    <3>. QED
      BY <1>4, <2>4, <3>5, <3>8 DEF F, T
  <2>. QED
    BY <2>5, <2>6
<1>. QED
  BY <1>5, <1>6

(* The picture grows by the place that has been read in both frames, and   *)
(* has the whole line when both are at its end.                            *)
LEMMA PictureGrows ==
    ASSUME NEW out, NEW r \in Nat, NEW c \in Nat, Drawn(out, r, c)
    PROVE  /\ ~ Blinks(r, c) => Drawn(out, r, c + 1)
           /\ Blinks(r, c) => Drawn(out \o <<BlinkAt(r, c)>>, r, c + 1)
           /\ (\A d \in Nat : d >= c => ~ Blinks(r, d)) => Drawn(out, r + 1, 0)
<1>1. /\ out \in Seq(Picture)
      /\ \A b : b \in ToSet(out) <=>
                  \E i, j \in Nat : /\ i < r \/ (i = r /\ j < c)
                                    /\ Blinks(i, j) /\ b = BlinkAt(i, j)
  BY DEF Drawn
<1>2. CASE ~ Blinks(r, c)
  <2>1. \A i, j \in Nat : Blinks(i, j) =>
           (i < r \/ (i = r /\ j < c) <=> i < r \/ (i = r /\ j < c + 1))
    BY <1>2
  <2>. QED
    BY <1>1, <1>2, <2>1 DEF Drawn
<1>3. CASE Blinks(r, c)
  <2>. DEFINE o == out \o <<BlinkAt(r, c)>>
  <2>1. BlinkAt(r, c) \in Picture
    BY DEF Picture
  <2>2. /\ o \in Seq(Picture)
        /\ \A b : b \in ToSet(o) <=> b \in ToSet(out) \/ b = BlinkAt(r, c)
    <3>. DEFINE b0 == BlinkAt(r, c)
    <3>. HIDE DEF b0
    <3>1. b0 \in Picture /\ <<b0>> \in Seq(Picture) /\ o = out \o <<b0>>
      BY <2>1 DEF b0
    <3>2. /\ o \in Seq(Picture) /\ Len(o) = Len(out) + 1 /\ Len(out) \in Nat
          /\ \A k \in 1 .. Len(out) : o[k] = out[k]
          /\ o[Len(out) + 1] = b0
      BY <1>1, <3>1, ConcatProperties, LenProperties
    <3>. HIDE DEF o
    <3>3. \A b : /\ b \in ToSet(o) <=> \E k \in 1 .. Len(out) + 1 : o[k] = b
                 /\ b \in ToSet(out) <=> \E k \in 1 .. Len(out) : out[k] = b
      BY <1>1, <3>2, ElementsOf
    <3>. QED
      BY <3>2, <3>3 DEF b0
  <2>. HIDE DEF o
  <2>3. \A i, j \in Nat : i < r \/ (i = r /\ j < c + 1) <=>
                          i < r \/ (i = r /\ j < c) \/ (i = r /\ j = c)
    OBVIOUS
  <2>4. \A b : b \in ToSet(o) <=>
                  \E i, j \in Nat : /\ i < r \/ (i = r /\ j < c + 1)
                                    /\ Blinks(i, j) /\ b = BlinkAt(i, j)
    BY <1>1, <1>3, <2>2, <2>3
  <2>. QED
    BY <1>3, <2>2, <2>4 DEF Drawn, o
<1>4. CASE \A d \in Nat : d >= c => ~ Blinks(r, d)
  <2>1. \A i, j \in Nat : Blinks(i, j) =>
           (i < r \/ (i = r /\ j < c) <=> i < r + 1 \/ (i = r + 1 /\ j < 0))
    BY <1>4
  <2>. QED
    BY <1>1, <2>1 DEF Drawn
<1>5. (\A d \in Nat : d >= c => ~ Blinks(r, d)) => Drawn(out, r + 1, 0)
  BY <1>4
<1>. QED
  BY <1>2, <1>3, <1>5

LEMMA NothingDrawn == Drawn(<<>>, 0, 0)
<1>1. <<>> \in Seq(Picture) /\ \A b : b \notin ToSet(<<>>)
  BY DEF ToSet
<1>. QED
  BY <1>1 DEF Drawn

FishNow  == Draws(Me, file_array[running], printed[shown])
FishNext == Draws(task'[running], file_array'[running], printed'[shown])

(* A descriptor is free for the next open.                                 *)
LEMMA OpensIfFree ==
    ASSUME NEW f \in Names, NEW g \in FD_BEGIN .. MAX_FD - 1,
           file_array[running][g].flags = 0
    PROVE  OpenReturns(f) # -1
<1>1. g \in FreeFds(running) /\ FreeFds(running) \in SUBSET Nat
  BY FdFacts DEF FreeFds, Used
<1>. DEFINE fd == CHOOSE i \in FreeFds(running) : \A h \in FreeFds(running) : i <= h
<1>2. fd \in Nat
  BY <1>1, LeastNumber
<1>3. OpenReturns(f) = fd
  BY <1>1 DEF OpenReturns
<1>. HIDE DEF fd
<1>. QED
  BY <1>2, <1>3

WithFd(f, k, g) == [f EXCEPT !.fds[k] = g]

HasFd(h, f, k, g) ==
    /\ FrameShape(h) /\ h.fds[k] = g /\ \A j \in {1, 2} \ {k} : h.fds[j] = f.fds[j]
    /\ h.c = f.c /\ h.eof = f.eof /\ h.row = f.row /\ h.col = f.col

LEMMA WithFdFacts ==
    ASSUME NEW f, FrameShape(f), NEW k \in {1, 2}, NEW g \in Int
    PROVE  HasFd(WithFd(f, k, g), f, k, g)
<1>. DEFINE h == WithFd(f, k, g)
            p == [f.fds EXCEPT ![k] = g]
<1>1. f = [fds |-> f.fds, c |-> f.c, eof |-> f.eof, row |-> f.row, col |-> f.col]
  BY DEF FrameShape
<1>2. h = [fds |-> p, c |-> f.c, eof |-> f.eof, row |-> f.row, col |-> f.col]
  BY <1>1 DEF WithFd
<1>3. p \in [{1, 2} -> Int] /\ p[k] = g /\ \A j \in {1, 2} \ {k} : p[j] = f.fds[j]
  BY DEF FrameShape
<1>. HIDE DEF h, p
<1>4. h.fds = p /\ h.c = f.c /\ h.eof = f.eof /\ h.row = f.row /\ h.col = f.col
  BY <1>2
<1>5. FrameShape(h)
  BY <1>2, <1>3 DEF FrameShape
<1>6. HasFd(h, f, k, g)
  BY <1>3, <1>4, <1>5 DEF HasFd
<1>. QED
  BY <1>6 DEF h

LEMMA TwoOf ==
    /\ \A S, a : a \in S => <<a, a>> \in [{1, 2} -> S]
    /\ \A a : \A k \in {1, 2} : <<a, a>>[k] = a
<1>1. ASSUME NEW S, NEW a \in S PROVE <<a, a>> \in [{1, 2} -> S]
  OBVIOUS
<1>2. ASSUME NEW a PROVE \A k \in {1, 2} : <<a, a>>[k] = a
  OBVIOUS
<1>. QED
  BY <1>1, <1>2

LEMMA FishBegins ==
    LET f == FishVariables
    IN  /\ FrameShape(f) /\ f.row = 0 /\ f.col = 0
        /\ \A k \in {1, 2} : f.c[k] = "0" /\ f.eof[k] = FALSE
<1>1. /\ <<-1, -1>> \in [{1, 2} -> Int] /\ <<FALSE, FALSE>> \in [{1, 2} -> BOOLEAN]
      /\ <<"0", "0">> \in [{1, 2} -> STRING \cup {"0", "\n"}]
  <2>1. /\ -1 \in Int /\ FALSE \in BOOLEAN /\ "0" \in STRING \cup {"0", "\n"}
    OBVIOUS
  <2>. QED
    BY <2>1, TwoOf
<1>2. FrameShape(FishVariables)
  BY <1>1 DEF FrameShape, FishVariables
<1>3. \A k \in {1, 2} : <<"0", "0">>[k] = "0" /\ <<FALSE, FALSE>>[k] = FALSE
  BY TwoOf
<1>. QED
  BY <1>2, <1>3 DEF FishVariables

(* An open of a frame's file, when there are descriptors enough.           *)
LEMMA OpensFrame ==
    ASSUME UsersInv, DOMAIN printed = Terminal, FramesThere, NEW k \in {1, 2},
           NEW from, NEW to, OpenFrame(k, from, to), FrameShape(Me.frames),
           NEW S, OnlyOpen(file_array[running], S),
           NEW g \in (FD_BEGIN .. MAX_FD - 1) \ S
    PROVE  LET fd == OpenReturns(Frames[k])
               after == file_array'[running]
           IN  /\ fd \in FD_BEGIN .. MAX_FD - 1 /\ file_array[running][fd] = Cleared
               /\ task'[running].pc = to /\ task'[running].fd = Me.fd
               /\ task'[running].frames = WithFd(Me.frames, k, fd)
               /\ \A h : h # fd => after[h] = file_array[running][h]
               /\ Holds(after, fd, Frames[k], 0) /\ OnlyOpen(after, S \cup {fd})
               /\ printed'[shown] = printed[shown]
<1>. DEFINE fd == OpenReturns(Frames[k])
            T == file_array[running]
            after == file_array'[running]
<1>1. Frames[k] \in Names /\ Len(Whole(Frames[k])) \in Nat
  BY FrameFacts, WholeFacts
<1>2. fd # -1
  BY <1>1, OpensIfFree DEF OnlyOpen
<1>3. /\ fd \in FD_BEGIN .. MAX_FD - 1 /\ T[fd] = Cleared
      /\ after = [T EXCEPT ![fd] = OnFile(Frames[k], 0)]
  BY <1>1, <1>2, OpenHolds DEF OpenFrame
<1>4. /\ T \in [Fds -> Descriptors] /\ DOMAIN Me = Variables
      /\ printed'[shown] = printed[shown]
      /\ task'[running] = [Me EXCEPT !.pc = to, !.frames.fds[k] = fd]
  BY <1>2, StepsTo DEF OpenFrame
<1>5. /\ task'[running].pc = to /\ task'[running].fd = Me.fd
      /\ task'[running].frames = WithFd(Me.frames, k, fd)
  BY <1>4 DEF Variables, Shell, Started, WithFd
<1>6. /\ after[fd] = OnFile(Frames[k], 0)
      /\ \A h : h # fd => after[h] = T[h]
  BY <1>3, <1>4, FdFacts
<1>7. Holds(after, fd, Frames[k], 0)
  BY <1>1, <1>3, <1>6 DEF Holds
<1>8. OnlyOpen(after, S \cup {fd})
  BY <1>6 DEF OnlyOpen
<1>. QED
  BY <1>3, <1>4, <1>5, <1>6, <1>7, <1>8

(* Of the three descriptors one more is free.                              *)
LEMMA AnotherIsFree ==
    ASSUME FramesThere, NEW a, NEW b
    PROVE  \E g \in FD_BEGIN .. MAX_FD - 1 : g \notin {a, b}
<1>1. /\ 2 \in FD_BEGIN .. MAX_FD - 1 /\ 3 \in FD_BEGIN .. MAX_FD - 1
      /\ 4 \in FD_BEGIN .. MAX_FD - 1
  BY FilesAssumption DEF FramesThere, FD_BEGIN
<1>. QED
  BY <1>1

LEMMA FishOpens ==
    ASSUME UsersInv, DOMAIN printed = Terminal, FramesThere, FishNow,
           \/ OpenStep("fish", "main", "rtc", "open0")
           \/ OpenFrame(1, "open0", "open1")
           \/ OpenFrame(2, "open1", "read0")
    PROVE  FishNext
<1>. DEFINE x == task'[running]
            after == file_array'[running]
            out == printed'[shown]
<1>1. Opening(Me, file_array[running], printed[shown])
  BY DEF FishNow, Draws
<1>2. CASE OpenStep("fish", "main", "rtc", "open0")
  <2>1. /\ New(file_array[running], printed[shown]) /\ Me.frames = FishVariables
        /\ OpenReturns("rtc") # -1 /\ OpenCall("rtc")
    BY <1>1, <1>2 DEF OpenStep, At, Opening
  <2>2. "rtc" \in Names
    BY <2>1, OpensInNew DEF New
  <2>3. /\ x.pc = "open0" /\ out = <<>> /\ x.fd = OpenReturns("rtc") /\ x.frames = FishVariables
    <3>1. /\ x = [Me EXCEPT !.pc = "open0", !.fd = OpenReturns("rtc")]
          /\ DOMAIN Me = Variables /\ out = printed[shown]
      BY <1>2, StepsTo DEF OpenStep
    <3>. QED
      BY <2>1, <3>1 DEF Variables, Shell, Started, New
  <2>4. after = [NewTable EXCEPT ![OpenReturns("rtc")] = OnFile("rtc", 0)]
    BY <2>1, <2>2, OpenHolds DEF New
  <2>5. OnlyOpen(after, {x.fd})
    <3>1. \A g \in FD_BEGIN .. MAX_FD - 1 : NewTable[g].flags = 0
      BY FdFacts, DescriptorFacts DEF NewTable
    <3>2. \A g \in FD_BEGIN .. MAX_FD - 1 : g # x.fd => after[g] = NewTable[g]
      BY <2>3, <2>4, FdFacts DEF NewTable
    <3>. QED
      BY <3>1, <3>2 DEF OnlyOpen
  <2>. HIDE DEF x, after, out
  <2>6. Draws(x, after, out)
    BY <2>3, <2>5 DEF Draws, Opening, DrawingPlaces
  <2>. QED
    BY <2>6 DEF FishNext, x, after, out
<1>3. CASE OpenFrame(1, "open0", "open1")
  <2>1. /\ Me.frames = FishVariables /\ printed[shown] = <<>>
        /\ OnlyOpen(file_array[running], {Me.fd})
    BY <1>1, <1>3 DEF OpenFrame, At, Opening
  <2>2. PICK g \in FD_BEGIN .. MAX_FD - 1 : g \notin {Me.fd}
    BY AnotherIsFree
  <2>. DEFINE fd == OpenReturns(Frames[1])
  <2>3. /\ x.pc = "open1" /\ x.fd = Me.fd /\ x.frames = WithFd(FishVariables, 1, fd)
        /\ Holds(after, fd, Frames[1], 0) /\ OnlyOpen(after, {Me.fd, fd}) /\ out = <<>>
    <3>1. /\ x.pc = "open1" /\ x.fd = Me.fd /\ x.frames = WithFd(Me.frames, 1, fd)
          /\ Holds(after, fd, Frames[1], 0) /\ OnlyOpen(after, {Me.fd} \cup {fd})
          /\ out = printed[shown]
      BY <1>3, <2>1, <2>2, FishBegins, OpensFrame
    <3>. QED
      BY <2>1, <3>1, {Me.fd} \cup {fd} = {Me.fd, fd}
  <2>. HIDE DEF x, after, out, fd
  <2>4. Draws(x, after, out)
    BY <2>3 DEF Draws, Opening, DrawingPlaces, WithFd
  <2>. QED
    BY <2>4 DEF FishNext, x, after, out
<1>4. CASE OpenFrame(2, "open1", "read0")
  <2>1. PICK g1 : /\ Me.frames = WithFd(FishVariables, 1, g1) /\ printed[shown] = <<>>
                  /\ Holds(file_array[running], g1, Frames[1], 0)
                  /\ OnlyOpen(file_array[running], {Me.fd, g1})
    BY <1>1, <1>4 DEF OpenFrame, At, Opening, WithFd
  <2>2. g1 \in Int
    BY <2>1, FdFacts DEF Holds
  <2>3. PICK g \in FD_BEGIN .. MAX_FD - 1 : g \notin {Me.fd, g1}
    BY AnotherIsFree
  <2>. DEFINE fd == OpenReturns(Frames[2])
              f == WithFd(FishVariables, 1, g1)
              h == WithFd(f, 2, fd)
  <2>4. /\ FrameShape(f) /\ f.fds[1] = g1 /\ f.c = FishVariables.c /\ f.eof = FishVariables.eof
        /\ f.row = 0 /\ f.col = 0
    <3>1. HasFd(f, FishVariables, 1, g1)
      BY <2>2, FishBegins, WithFdFacts
    <3>. QED
      BY <3>1, FishBegins DEF HasFd
  <2>5. /\ x.pc = "read0" /\ x.frames = h /\ out = <<>>
        /\ fd \in FD_BEGIN .. MAX_FD - 1 /\ file_array[running][fd] = Cleared
        /\ \A i : i # fd => after[i] = file_array[running][i]
        /\ Holds(after, fd, Frames[2], 0)
    <3>1. /\ x.pc = "read0" /\ x.frames = WithFd(Me.frames, 2, fd) /\ out = printed[shown]
          /\ fd \in FD_BEGIN .. MAX_FD - 1 /\ file_array[running][fd] = Cleared
          /\ \A i : i # fd => after[i] = file_array[running][i]
          /\ Holds(after, fd, Frames[2], 0)
      BY <1>4, <2>1, <2>3, <2>4, OpensFrame
    <3>. QED
      BY <2>1, <3>1
  <2>. HIDE DEF x, after, out, fd, f
  <2>6. fd \in Int
    BY <2>5, FdFacts
  <2>7. /\ FrameShape(h) /\ h.fds[1] = g1 /\ h.fds[2] = fd /\ h.row = 0 /\ h.col = 0
        /\ \A k \in {1, 2} : h.c[k] = "0" /\ h.eof[k] = FALSE
    <3>1. /\ FrameShape(h) /\ h.fds[2] = fd /\ \A j \in {1, 2} \ {2} : h.fds[j] = f.fds[j]
          /\ h.c = f.c /\ h.eof = f.eof /\ h.row = f.row /\ h.col = f.col
      <4>1. HasFd(h, f, 2, fd)
        BY <2>4, <2>6, WithFdFacts
      <4>. HIDE DEF h
      <4>. QED
        BY <4>1 DEF HasFd
    <3>. HIDE DEF h
    <3>2. h.fds[1] = g1
      BY <2>4, <3>1
    <3>. QED
      BY <2>4, <3>1, <3>2, FishBegins
  <2>8. g1 # fd /\ Holds(after, g1, Frames[1], 0)
    <3>1. OnFile(Frames[1], 0).flags = 1
      BY FrameFacts, OnFileFacts
    <3>2. g1 # fd
      BY <2>1, <2>5, <3>1, DescriptorFacts DEF Holds
    <3>. QED
      BY <2>1, <2>5, <3>2 DEF Holds
  <2>9. \A k \in {1, 2} : ReadTo(Frame(k), 0, 0, 0, "0", FALSE)
    BY FrameFacts, NothingRead
  <2>. HIDE DEF h
  <2>10. OfFrame(1, h, after, 0, 0) /\ OfFrame(2, h, after, 0, 0)
    BY <2>5, <2>7, <2>8, <2>9 DEF OfFrame
  <2>11. Drawing("read0", h, after, out)
    BY <2>5, <2>7, <2>8, <2>10, NothingDrawn DEF Drawing
  <2>12. Draws(x, after, out)
    BY <2>5, <2>11 DEF Draws, Opening
  <2>. QED
    BY <2>12 DEF FishNext, x, after, out
<1>. QED
  BY <1>2, <1>3, <1>4

(* At each of its places between the files and the picture.                *)
LEMMA DrawingAt ==
    ASSUME NEW x, NEW table, NEW out
    PROVE  /\ Draws(x, table, out) /\ x.pc \in DrawingPlaces =>
                Drawing(x.pc, x.frames, table, out)
           /\ x.pc \in DrawingPlaces /\ Drawing(x.pc, x.frames, table, out) =>
                Draws(x, table, out)
<1>1. x.pc \in DrawingPlaces => x.pc \notin {"main", "open0", "open1", "rate", "ticks", "close",
                                             "return"}
  BY DEF DrawingPlaces
<1>2. x.pc \in DrawingPlaces => Opening(x, table, out)
  BY <1>1 DEF Opening
<1>. QED
  BY <1>1, <1>2 DEF Draws

LEMMA FishReads ==
    ASSUME UsersInv, DOMAIN printed = Terminal, FramesThere, FishNow,
           ReadFrame(1, "read0", "read1") \/ ReadFrame(2, "read1", "add")
    PROVE  FishNext
<1>. DEFINE x == task'[running]
            T == file_array[running]
            after == file_array'[running]
            out == printed[shown]
            F == Me.frames
            r == F.row
            c == F.col
<1>1. CASE ReadFrame(1, "read0", "read1")
  <2>1. Me.pc = "read0" /\ Drawing("read0", F, T, out)
    BY <1>1, DrawingAt DEF ReadFrame, At, FishNow, DrawingPlaces
  <2>2. /\ FrameShape(F) /\ F.fds[1] # F.fds[2] /\ Drawn(out, r, c)
        /\ OfFrame(1, F, T, r, c) /\ OfFrame(2, F, T, r, c)
    BY <2>1 DEF Drawing
  <2>3. /\ \E b, eof : Advances(1, b, eof)
        /\ x.pc = "read1" /\ printed'[shown] = out
        /\ \A g : g # F.fds[1] => after[g] = T[g]
    BY <1>1, <2>2, FrameIsRead
  <2>4. PICK b, eof : Advances(1, b, eof)
    BY <2>3
  <2>. HIDE DEF x, T, after, out, F, r, c
  <2>5. /\ Another(x.frames, F, 1, b, eof)
        /\ IsCell(1, x.frames) /\ OfFrame(1, x.frames, after, r, c + 1)
    <3>1. /\ x.frames = After(F, 1, b, eof) /\ b \in STRING \cup {"0", "\n"}
          /\ eof \in BOOLEAN /\ IsCell(1, x.frames) /\ OfFrame(1, x.frames, after, r, c + 1)
      BY <2>4 DEF Advances, x, F, after, r, c
    <3>2. Another(After(F, 1, b, eof), F, 1, b, eof)
      BY <2>2, <3>1, AfterFacts
    <3>. QED
      BY <3>1, <3>2
  <2>6. /\ FrameShape(x.frames) /\ x.frames.fds = F.fds /\ x.frames.row = r /\ x.frames.col = c
        /\ x.frames.c[2] = F.c[2] /\ x.frames.eof[2] = F.eof[2]
    BY <2>5 DEF Another, r, c
  <2>7. OfFrame(2, x.frames, after, r, c)
    BY <2>2, <2>3, <2>6, OtherFrame
  <2>8. Drawing("read1", x.frames, after, printed'[shown])
    BY <2>2, <2>3, <2>5, <2>6, <2>7 DEF Drawing
  <2>. QED
    BY <2>3, <2>8, DrawingAt DEF FishNext, DrawingPlaces, x, after
<1>2. CASE ReadFrame(2, "read1", "add")
  <2>1. Me.pc = "read1" /\ Drawing("read1", F, T, out)
    BY <1>2, DrawingAt DEF ReadFrame, At, FishNow, DrawingPlaces
  <2>2. /\ FrameShape(F) /\ F.fds[1] # F.fds[2] /\ Drawn(out, r, c) /\ IsCell(1, F)
        /\ OfFrame(1, F, T, r, c + 1) /\ OfFrame(2, F, T, r, c)
    BY <2>1 DEF Drawing
  <2>3. /\ \E b, eof : Advances(2, b, eof)
        /\ x.pc = "add" /\ printed'[shown] = out
        /\ \A g : g # F.fds[2] => after[g] = T[g]
    BY <1>2, <2>2, FrameIsRead
  <2>4. PICK b, eof : Advances(2, b, eof)
    BY <2>3
  <2>. HIDE DEF x, T, after, out, F, r, c
  <2>5. /\ Another(x.frames, F, 2, b, eof)
        /\ IsCell(2, x.frames) /\ OfFrame(2, x.frames, after, r, c + 1)
    <3>1. /\ x.frames = After(F, 2, b, eof) /\ b \in STRING \cup {"0", "\n"}
          /\ eof \in BOOLEAN /\ IsCell(2, x.frames) /\ OfFrame(2, x.frames, after, r, c + 1)
      BY <2>4 DEF Advances, x, F, after, r, c
    <3>2. Another(After(F, 2, b, eof), F, 2, b, eof)
      BY <2>2, <3>1, AfterFacts
    <3>. QED
      BY <3>1, <3>2
  <2>6. /\ FrameShape(x.frames) /\ x.frames.fds = F.fds /\ x.frames.row = r /\ x.frames.col = c
        /\ x.frames.c[1] = F.c[1] /\ x.frames.eof[1] = F.eof[1]
    BY <2>5 DEF Another, r, c
  <2>7. OfFrame(1, x.frames, after, r, c + 1)
    BY <2>2, <2>3, <2>6, OtherFrame
  <2>8. IsCell(1, x.frames)
    BY <2>2, <2>6 DEF IsCell, r, c
  <2>9. Drawing("add", x.frames, after, printed'[shown])
    BY <2>2, <2>3, <2>5, <2>6, <2>7, <2>8 DEF Drawing
  <2>. QED
    BY <2>3, <2>9, DrawingAt DEF FishNext, DrawingPlaces, x, after
<1>. QED
  BY <1>1, <1>2

(* The frames at another place of the screen.                              *)
AtPlace(f, r, c) == FrameOf(f.fds, f.c, f.eof, r, c)

LEMMA Moved ==
    ASSUME NEW f, FrameShape(f)
    PROVE  /\ [f EXCEPT !.col = @ + 1] = AtPlace(f, f.row, f.col + 1)
           /\ [f EXCEPT !.row = @ + 1, !.col = 0] = AtPlace(f, f.row + 1, 0)
<1>1. f = [fds |-> f.fds, c |-> f.c, eof |-> f.eof, row |-> f.row, col |-> f.col]
  BY DEF FrameShape
<1>2. [f EXCEPT !.col = @ + 1] = AtPlace(f, f.row, f.col + 1)
  BY <1>1 DEF AtPlace, FrameOf
<1>3. [f EXCEPT !.row = @ + 1, !.col = 0] = AtPlace(f, f.row + 1, 0)
  <2>. DEFINE g == [f EXCEPT !.row = @ + 1]
  <2>1. g = [fds |-> f.fds, c |-> f.c, eof |-> f.eof, row |-> f.row + 1, col |-> f.col]
    BY <1>1
  <2>2. [f EXCEPT !.row = @ + 1, !.col = 0] = [g EXCEPT !.col = 0]
    OBVIOUS
  <2>. HIDE DEF g
  <2>. QED
    BY <2>1, <2>2 DEF AtPlace, FrameOf
<1>. QED
  BY <1>2, <1>3

LEMMA MovedFacts ==
    ASSUME NEW f, FrameShape(f), NEW r \in Nat, NEW c \in Nat
    PROVE  LET g == AtPlace(f, r, c)
           IN  /\ FrameShape(g) /\ g.fds = f.fds /\ g.c = f.c /\ g.eof = f.eof
               /\ g.row = r /\ g.col = c
BY DEF FrameShape, AtPlace, FrameOf

(* A pair is added to the picture, unless both of its bytes are blank.     *)
LEMMA FishAdds ==
    ASSUME UsersInv, DOMAIN printed = Terminal, FramesThere, FishNow, AddBlink
    PROVE  FishNext
<1>. DEFINE x == task'[running]
            T == file_array[running]
            out == printed[shown]
            F == Me.frames
            r == F.row
            c == F.col
            blank == {F.c[1], F.c[2]} \subseteq {" ", "\n"}
<1>1. Me.pc = "add" /\ Drawing("add", F, T, out)
  BY DrawingAt DEF AddBlink, At, FishNow, DrawingPlaces
<1>2. /\ FrameShape(F) /\ F.fds[1] # F.fds[2] /\ Drawn(out, r, c) /\ IsCell(1, F) /\ IsCell(2, F)
      /\ OfFrame(1, F, T, r, c + 1) /\ OfFrame(2, F, T, r, c + 1) /\ r \in Nat /\ c \in Nat
  BY <1>1 DEF Drawing, FrameShape
<1>3. /\ file_array'[running] = T /\ x = [Me EXCEPT !.pc = "read0", !.frames.col = @ + 1]
      /\ DOMAIN Me = Variables
  BY StepsTo DEF AddBlink
<1>4. x.pc = "read0" /\ x.frames = AtPlace(F, r, c + 1)
  <2>1. x.pc = "read0" /\ x.frames = [F EXCEPT !.col = @ + 1]
    BY <1>3 DEF Variables, Shell, Started
  <2>. HIDE DEF F
  <2>. QED
    BY <1>2, <2>1, Moved
<1>5. printed'[shown] = out \o (IF blank THEN <<>>
         ELSE <<[row |-> r, col |-> c, on |-> Shown(F.c[1]), off |-> Shown(F.c[2])]>>)
  BY StepsTo DEF AddBlink
<1>. HIDE DEF x, T, out, F, r, c
<1>6. /\ FrameShape(x.frames) /\ x.frames.fds = F.fds /\ x.frames.c = F.c
      /\ x.frames.eof = F.eof /\ x.frames.row = r /\ x.frames.col = c + 1
  <2>1. c + 1 \in Nat
    BY <1>2
  <2>. DEFINE g == AtPlace(F, r, c + 1)
  <2>2. /\ FrameShape(g) /\ g.fds = F.fds /\ g.c = F.c
        /\ g.eof = F.eof /\ g.row = r /\ g.col = c + 1
    <3>1. FrameShape(F) /\ r \in Nat
      BY <1>2
    <3>2. \A m \in Nat : /\ FrameShape(AtPlace(F, r, m)) /\ AtPlace(F, r, m).fds = F.fds
                          /\ AtPlace(F, r, m).c = F.c /\ AtPlace(F, r, m).eof = F.eof
                          /\ AtPlace(F, r, m).row = r /\ AtPlace(F, r, m).col = m
      BY ONLY <3>1, MovedFacts
    <3>. QED
      BY <2>1, <3>2
  <2>. HIDE DEF g
  <2>3. x.frames = g
    BY <1>4 DEF g
  <2>. QED
    BY <2>2, <2>3
<1>7. /\ OfFrame(1, x.frames, T, r, c + 1) /\ OfFrame(2, x.frames, T, r, c + 1)
  BY <1>2, <1>6, OtherFrame
<1>8. Drawn(printed'[shown], r, c + 1)
  <2>1. /\ Shown(F.c[1]) = Cell(Frame(1), r, c) /\ Shown(F.c[2]) = Cell(Frame(2), r, c)
    BY <1>2 DEF IsCell, r, c
  <2>2. blank <=> ~ Blinks(r, c)
    BY <2>1 DEF Blinks, Blank, Shown
  <2>3. [row |-> r, col |-> c, on |-> Shown(F.c[1]), off |-> Shown(F.c[2])] = BlinkAt(r, c)
    BY <2>1 DEF BlinkAt
  <2>. HIDE DEF blank
  <2>4. CASE blank
    <3>1. out \in Seq(Picture)
      BY <1>2 DEF Drawn
    <3>2. printed'[shown] = out
      BY <1>5, <2>4, <3>1, ConcatEmptySeq
    <3>. QED
      BY <1>2, <2>2, <2>4, <3>2, PictureGrows
  <2>5. CASE ~ blank
    <3>1. printed'[shown] = out \o <<BlinkAt(r, c)>>
      BY <1>5, <2>3, <2>5
    <3>. QED
      BY <1>2, <2>2, <2>5, <3>1, PictureGrows
  <2>. QED
    BY <2>4, <2>5
<1>9. Drawing("read0", x.frames, T, printed'[shown])
  BY <1>2, <1>6, <1>7, <1>8 DEF Drawing
<1>. QED
  BY <1>3, <1>4, <1>9, DrawingAt DEF FishNext, DrawingPlaces, x

(* A frame at the end of its line is taken to the next one, and closed at  *)
(* the end of its file.                                                    *)
LEMMA FrameCloses ==
    ASSUME UsersInv, DOMAIN printed = Terminal, FramesThere, NEW k \in {1, 2},
           NEW from, NEW to, CloseFrame(k, from, to), FrameShape(Me.frames),
           NEW r \in Nat, NEW d \in Nat, OfFrame(k, Me.frames, file_array[running], r, d)
    PROVE  LET x == task'[running]
               F == Me.frames
               after == file_array'[running]
           IN  /\ x.pc = to /\ printed'[shown] = printed[shown]
               /\ Another(x.frames, F, k, IF F.eof[k] THEN "\n" ELSE "0", F.eof[k])
               /\ OfFrame(k, x.frames, after, r + 1, 0)
               /\ \A g \in Fds \ {F.fds[k]} : after[g] = file_array[running][g]
               /\ \A e \in Nat : e >= d => Blank(Frame(k), r, e)
<1>. DEFINE x == task'[running]
            F == Me.frames
            fd == F.fds[k]
            T == file_array[running]
            after == file_array'[running]
            last == IF F.eof[k] THEN "\n" ELSE "0"
            W == Frame(k)
<1>1. W \in Seq(STRING) /\ F.c[k] = "\n" /\ F.eof[k] \in BOOLEAN /\ DOMAIN Me = Variables
      /\ printed'[shown] = printed[shown]
  BY FrameFacts, StepsTo DEF CloseFrame, FrameShape
<1>2. PICK n : /\ ~ F.eof[k] => Holds(T, fd, Frames[k], n)
               /\ ReadTo(W, n, r, d, "\n", F.eof[k])
  BY <1>1 DEF OfFrame
<1>3. /\ ReadTo(W, n, r + 1, 0, last, F.eof[k])
      /\ \A e \in Nat : e >= d => Blank(W, r, e)
  <2>. HIDE DEF F, W
  <2>1. /\ ReadTo(W, n, r + 1, 0, IF F.eof[k] THEN "\n" ELSE "0", F.eof[k])
        /\ \A e \in Nat : e >= d => Blank(W, r, e)
    BY <1>1, <1>2, LineIsOver
  <2>. QED
    BY <2>1
<1>4. /\ x.pc = to /\ x.frames = After(F, k, last, F.eof[k])
      /\ \A g \in Fds \ {fd} : after[g] = T[g]
      /\ ~ F.eof[k] => after = T
  <2>1. CASE F.eof[k]
    <3>1. CloseCall(fd) /\ x = [Me EXCEPT !.pc = to]
      BY <2>1, StepsTo DEF CloseFrame
    <3>2. x.pc = to /\ x.frames = F
      BY <1>1, <3>1 DEF Variables, Shell, Started
    <3>3. \A g \in Fds \ {fd} : after[g] = T[g]
      BY <3>1, CloseLeaves
    <3>. HIDE DEF F
    <3>4. After(F, k, F.c[k], F.eof[k]) = F
      BY SameAfter DEF F
    <3>. QED
      BY <1>1, <2>1, <3>2, <3>3, <3>4
  <2>2. CASE ~ F.eof[k]
    <3>1. SameFiles /\ x = [Me EXCEPT !.pc = to, !.frames.c[k] = "0"]
      BY <2>2, StepsTo DEF CloseFrame
    <3>2. x.pc = to /\ x.frames = [F EXCEPT !.c[k] = "0"]
      BY <1>1, <3>1 DEF Variables, Shell, Started
    <3>3. after = T
      BY <3>1, StepsTo
    <3>4. [F EXCEPT !.c[k] = "0"] = After(F, k, "0", F.eof[k])
      <4>. HIDE DEF F
      <4>1. FrameShape(F)
        BY DEF F
      <4>. QED
        BY ONLY <4>1, k \in {1, 2}, SameAfter
    <3>. QED
      BY <2>2, <3>2, <3>3, <3>4
  <2>. QED
    BY <2>1, <2>2
<1>5. Another(x.frames, F, k, last, F.eof[k])
  <2>. HIDE DEF F
  <2>1. last \in STRING \cup {"0", "\n"} /\ FrameShape(F)
    BY DEF F
  <2>. HIDE DEF last, x
  <2>2. Another(After(F, k, last, F.eof[k]), F, k, last, F.eof[k])
    BY <1>1, <2>1, AfterFacts
  <2>. QED
    BY <1>4, <2>2
<1>6. OfFrame(k, x.frames, after, r + 1, 0)
  <2>1. x.frames.fds[k] = fd /\ x.frames.c[k] = last /\ x.frames.eof[k] = F.eof[k]
    BY <1>5 DEF Another
  <2>. HIDE DEF x, F, last
  <2>. QED
    BY <1>2, <1>3, <1>4, <2>1 DEF OfFrame
<1>. QED
  BY <1>1, <1>3, <1>4, <1>5, <1>6

LEMMA OtherStays ==
    ASSUME NEW k, NEW j, NEW f, NEW table, NEW r, NEW c, OfFrame(k, f, table, r, c),
           NEW g, NEW after, g.fds = f.fds, f.fds[j] # f.fds[k],
           g.c[k] = f.c[k], g.eof[k] = f.eof[k],
           \A i \in Fds \ {f.fds[j]} : after[i] = table[i]
    PROVE  OfFrame(k, g, after, r, c)
<1>1. FD_BEGIN .. MAX_FD - 1 \in SUBSET Fds
  BY FdFacts
<1>2. ~ f.eof[k] => f.fds[k] \in FD_BEGIN .. MAX_FD - 1
  BY DEF OfFrame, Holds
<1>. QED
  BY <1>1, <1>2, OtherFrame

LEMMA FishCloses ==
    ASSUME UsersInv, DOMAIN printed = Terminal, FramesThere, FishNow,
           \/ Me.frames.c = <<"\n", "\n">> /\ CloseFrame(1, "add", "close1")
           \/ CloseFrame(2, "close1", "row")
    PROVE  FishNext
<1>. DEFINE x == task'[running]
            T == file_array[running]
            after == file_array'[running]
            out == printed[shown]
            F == Me.frames
            r == F.row
            c == F.col
<1>1. CASE Me.frames.c = <<"\n", "\n">> /\ CloseFrame(1, "add", "close1")
  <2>1. Me.pc = "add" /\ Drawing("add", F, T, out)
    BY <1>1, DrawingAt DEF CloseFrame, At, FishNow, DrawingPlaces
  <2>2. /\ FrameShape(F) /\ F.fds[1] # F.fds[2] /\ Drawn(out, r, c) /\ IsCell(1, F)
        /\ IsCell(2, F) /\ r \in Nat /\ c \in Nat /\ c + 1 \in Nat
        /\ OfFrame(1, F, T, r, c + 1) /\ OfFrame(2, F, T, r, c + 1)
    BY <2>1 DEF Drawing, FrameShape
  <2>3. F.c[1] = "\n" /\ F.c[2] = "\n"
    BY <1>1
  <2>4. /\ x.pc = "close1" /\ printed'[shown] = out
        /\ Another(x.frames, F, 1, IF F.eof[1] THEN "\n" ELSE "0", F.eof[1])
        /\ OfFrame(1, x.frames, after, r + 1, 0)
        /\ \A g \in Fds \ {F.fds[1]} : after[g] = T[g]
        /\ \A e \in Nat : e >= c + 1 => Blank(Frame(1), r, e)
    BY <1>1, <2>2, FrameCloses
  <2>. HIDE DEF x, T, after, out, F, r, c
  <2>5. /\ FrameShape(x.frames) /\ x.frames.fds = F.fds /\ x.frames.row = r /\ x.frames.col = c
        /\ x.frames.c[2] = F.c[2] /\ x.frames.eof[2] = F.eof[2]
    BY <2>4 DEF Another, r, c
  <2>6. OfFrame(2, x.frames, after, r, c + 1)
    BY <2>2, <2>4, <2>5, OtherStays
  <2>7. \A e \in Nat : e >= c + 1 => Blank(Frame(2), r, e)
    <3>1. PICK n : ReadTo(Frame(2), n, r, c + 1, "\n", F.eof[2])
      BY <2>2, <2>3 DEF OfFrame
    <3>. QED
      BY <2>2, <3>1, FrameFacts, LineIsOver
  <2>8. Blank(Frame(1), r, c) /\ Blank(Frame(2), r, c)
    BY <2>2, <2>3 DEF IsCell, Shown, Blank, r, c
  <2>9. \A e \in Nat : e >= c => ~ Blinks(r, e)
    BY <2>2, <2>4, <2>7, <2>8 DEF Blinks
  <2>10. Drawn(out, r + 1, 0)
    BY <2>2, <2>9, PictureGrows
  <2>11. Drawing("close1", x.frames, after, printed'[shown])
    BY <2>2, <2>4, <2>5, <2>6, <2>10 DEF Drawing
  <2>. QED
    BY <2>4, <2>11, DrawingAt DEF FishNext, DrawingPlaces, x, after
<1>2. CASE CloseFrame(2, "close1", "row")
  <2>1. Me.pc = "close1" /\ Drawing("close1", F, T, out)
    BY <1>2, DrawingAt DEF CloseFrame, At, FishNow, DrawingPlaces
  <2>2. /\ FrameShape(F) /\ F.fds[1] # F.fds[2] /\ Drawn(out, r + 1, 0)
        /\ r \in Nat /\ c \in Nat /\ c + 1 \in Nat
        /\ OfFrame(1, F, T, r + 1, 0) /\ OfFrame(2, F, T, r, c + 1)
    BY <2>1 DEF Drawing, FrameShape
  <2>3. /\ x.pc = "row" /\ printed'[shown] = out
        /\ Another(x.frames, F, 2, IF F.eof[2] THEN "\n" ELSE "0", F.eof[2])
        /\ OfFrame(2, x.frames, after, r + 1, 0)
        /\ \A g \in Fds \ {F.fds[2]} : after[g] = T[g]
    BY <1>2, <2>2, FrameCloses
  <2>. HIDE DEF x, T, after, out, F, r, c
  <2>4. /\ FrameShape(x.frames) /\ x.frames.fds = F.fds /\ x.frames.row = r /\ x.frames.col = c
        /\ x.frames.c[1] = F.c[1] /\ x.frames.eof[1] = F.eof[1]
    BY <2>3 DEF Another, r, c
  <2>5. OfFrame(1, x.frames, after, r + 1, 0)
    <3>. DEFINE q == r + 1
    <3>1. F.fds[2] # F.fds[1] /\ OfFrame(1, F, T, q, 0)
      BY <2>2
    <3>2. \A i \in Fds \ {F.fds[2]} : after[i] = T[i]
      BY <2>3
    <3>3. x.frames.fds = F.fds /\ x.frames.c[1] = F.c[1] /\ x.frames.eof[1] = F.eof[1]
      BY <2>4
    <3>. HIDE DEF q
    <3>4. OfFrame(1, x.frames, after, q, 0)
      BY ONLY <3>1, <3>2, <3>3, OtherStays
    <3>. QED
      BY <3>4 DEF q
  <2>6. Drawing("row", x.frames, after, printed'[shown])
    BY <2>2, <2>3, <2>4, <2>5 DEF Drawing
  <2>. QED
    BY <2>3, <2>6, DrawingAt DEF FishNext, DrawingPlaces, x, after
<1>. QED
  BY <1>1, <1>2

(* The next line, or the picture is complete.                              *)
LEMMA FishMovesOn ==
    ASSUME UsersInv, DOMAIN printed = Terminal, FramesThere, FishNow, NextRow
    PROVE  FishNext
<1>. DEFINE x == task'[running]
            T == file_array[running]
            out == printed[shown]
            F == Me.frames
            r == F.row
<1>1. Me.pc = "row" /\ Drawing("row", F, T, out)
  BY DrawingAt DEF NextRow, At, FishNow, DrawingPlaces
<1>2. /\ FrameShape(F) /\ F.fds[1] # F.fds[2] /\ Drawn(out, r + 1, 0)
      /\ OfFrame(1, F, T, r + 1, 0) /\ OfFrame(2, F, T, r + 1, 0) /\ r \in Nat /\ r + 1 \in Nat
      /\ F.eof \in [{1, 2} -> BOOLEAN]
  BY <1>1 DEF Drawing, FrameShape
<1>3. /\ file_array'[running] = T /\ printed'[shown] = out
      /\ x = [Me EXCEPT !.frames.row = @ + 1, !.frames.col = 0,
                        !.pc = IF F.eof = <<TRUE, TRUE>> THEN "rate" ELSE "read0"]
      /\ DOMAIN Me = Variables
  BY StepsTo DEF NextRow
<1>4. /\ x.pc = IF F.eof = <<TRUE, TRUE>> THEN "rate" ELSE "read0"
      /\ x.frames = [F EXCEPT !.row = @ + 1, !.col = 0]
  BY <1>3 DEF Variables, Shell, Started
<1>. HIDE DEF x, T, out, F, r
<1>5. CASE F.eof # <<TRUE, TRUE>>
  <2>. DEFINE g == AtPlace(F, r + 1, 0)
  <2>1. x.frames = g
    <3>1. FrameShape(F)
      BY <1>2
    <3>2. [F EXCEPT !.row = @ + 1, !.col = 0] = AtPlace(F, F.row + 1, 0)
      BY ONLY <3>1, Moved
    <3>. QED
      BY <1>4, <3>2 DEF r
  <2>2. /\ FrameShape(g) /\ g.fds = F.fds /\ g.c = F.c
        /\ g.eof = F.eof /\ g.row = r + 1 /\ g.col = 0
    <3>1. FrameShape(F)
      BY <1>2
    <3>2. \A m \in Nat : /\ FrameShape(AtPlace(F, m, 0)) /\ AtPlace(F, m, 0).fds = F.fds
                          /\ AtPlace(F, m, 0).c = F.c /\ AtPlace(F, m, 0).eof = F.eof
                          /\ AtPlace(F, m, 0).row = m /\ AtPlace(F, m, 0).col = 0
      BY ONLY <3>1, MovedFacts
    <3>. QED
      BY <1>2, <3>2
  <2>. HIDE DEF g
  <2>3. OfFrame(1, g, T, r + 1, 0) /\ OfFrame(2, g, T, r + 1, 0)
    BY <1>2, <2>2, OtherFrame
  <2>4. Drawing("read0", x.frames, T, out)
    BY <1>2, <2>1, <2>2, <2>3 DEF Drawing
  <2>. QED
    BY <1>3, <1>4, <1>5, <2>4, DrawingAt DEF FishNext, DrawingPlaces, x
<1>6. CASE F.eof = <<TRUE, TRUE>>
  <2>1. ASSUME NEW k \in {1, 2}, NEW i \in Nat, NEW j \in Nat, ~ i < r + 1
        PROVE  Blank(Frame(k), i, j)
    <3>1. F.eof[k]
      BY <1>6, TwoOf
    <3>2. PICK n : ReadTo(Frame(k), n, r + 1, 0, F.c[k], F.eof[k])
      BY <1>2 DEF OfFrame
    <3>3. ReadTo(Frame(k), n, r + 1, 0, "\n", TRUE)
      BY <3>1, <3>2 DEF ReadTo
    <3>4. /\ \A d \in Nat : d >= 0 => Blank(Frame(k), r + 1, d)
          /\ \A l, m \in Nat : l > r + 1 => Blank(Frame(k), l, m)
      BY <1>2, <3>3, FrameFacts, LineIsOver
    <3>. QED
      BY <1>2, <2>1, <3>4
  <2>2. \A i, j \in Nat : Blinks(i, j) => i < r + 1
    BY <2>1 DEF Blinks
  <2>3. AllDrawn(out)
    BY <1>2, <2>2 DEF Drawn, AllDrawn
  <2>4. Draws(x, T, out)
    BY <1>4, <1>6, <2>3 DEF Draws, Opening, DrawingPlaces
  <2>. QED
    BY <1>3, <2>4 DEF FishNext, x
<1>. QED
  BY <1>5, <1>6

(* Then the picture blinks.                                                *)
LEMMA FishSound ==
    ASSUME UsersInv, DOMAIN printed = Terminal, FramesThere, FishNow, Fish
    PROVE  FishNext
<1>1. CASE Blinking
  <2>1. Me.pc \in {"rate", "ticks", "close"} /\ AllDrawn(printed[shown])
    BY <1>1 DEF Blinking, At, FishNow, Draws
  <2>2. /\ task'[running].pc \in {"rate", "ticks", "close", "return"}
        /\ printed'[shown] = printed[shown]
    <3>1. PICK pc \in {"ticks", "close", "return"} : Goto(pc) /\ Silent
      BY <1>1 DEF Blinking
    <3>2. /\ task'[running] = [Me EXCEPT !.pc = pc] /\ DOMAIN Me = Variables
          /\ printed'[shown] = printed[shown]
      BY <3>1, StepsTo
    <3>. QED
      BY <3>2 DEF Variables, Shell, Started
  <2>. QED
    BY <2>1, <2>2 DEF FishNext, Draws, Opening, DrawingPlaces
<1>. QED
  BY <1>1, FishOpens, FishReads, FishAdds, FishCloses, FishMovesOn DEF Fish

-----------------------------------------------------------------------------
(* A step of a program shows something on its own terminal, or nothing.    *)
LEMMA ShowsItsOwn ==
    ASSUME Program, ~ Return
    PROVE  Silent \/ \E items : Shows(items)
<1>1. CASE Cat \/ Ls
  BY <1>1 DEF Cat, Ls, OpenStep, OpenFails, ReadStep, WriteStep, Puts
<1>2. CASE Grep
  BY <1>2 DEF Grep, OpenStep
<1>3. CASE Hello \/ Testprint
  BY <1>3 DEF Hello, Testprint, Puts
<1>4. CASE Counter
  BY <1>4 DEF Counter, Puts
<1>5. CASE Pingpong
  BY <1>5 DEF Pingpong, OpenStep
<1>6. CASE Syserr
  BY <1>6 DEF Syserr, Judge, OpenLots
<1>7. CASE Fish
  BY <1>7 DEF Fish, OpenStep, OpenFrame, ReadFrame, AddBlink, CloseFrame, NextRow, Blinking
<1>. QED
  BY <1>1, <1>2, <1>3, <1>4, <1>5, <1>6, <1>7 DEF Program

LEMMA ProgramSound ==
    ASSUME UsersInv, DOMAIN printed = Terminal, SoundNow, Program, ~ Return
    PROVE  SoundNext
<1>1. task'[running].prog = Me.prog
  <2>1. Keeps /\ running \in Slot
    BY StepsTo, ProgramCalls DEF UsersInv
  <2>. QED
    BY <2>1 DEF Keeps, UsersInv, TasksOK
<1>2. CASE Hello \/ Testprint \/ Pingpong
  <2>1. Me.prog \in {"hello", "testprint", "pingpong"}
    BY <1>2 DEF Hello, Testprint, Pingpong, OpenStep, At
  <2>. QED
    BY <1>1, <2>1 DEF SoundNext, Sound
<1>3. CASE Fish
  <2>1. Me.prog = "fish"
    BY <1>3 DEF Fish, OpenStep, OpenFrame, ReadFrame, AddBlink, CloseFrame, NextRow, Blinking, At
  <2>2. FramesThere => FishNow
    BY <2>1 DEF SoundNow, Sound, FishNow
  <2>3. FramesThere => FishNext
    BY <1>3, <2>2, FishSound
  <2>. QED
    BY <1>1, <2>1, <2>3 DEF SoundNext, Sound, FishNext
<1>. QED
  BY <1>2, <1>3, CatAndLsSound, GrepSound, CounterSound, SyserrSound DEF Program

(* The programs in front of two terminals are two.                         *)
LEMMA TopsApart ==
    ASSUME UsersInv
    PROVE  /\ shown \in Terminal /\ Top(shown) = running
           /\ \A t \in Terminal : Top(t) \in Slot /\ Top(t) \in Procs!Placed
           /\ \A t \in Terminal \ {shown} : Top(t) # running
<1>1. /\ StacksOK /\ shown \in Terminal /\ Top(shown) = running
      /\ stack \in [Terminal -> Seq(Slot)]
  BY DEF UsersInv, FilesInv, StacksOK, Top
<1>2. \A t \in Terminal : Len(stack[t]) \in 1 .. Len(stack[t])
  BY <1>1, LenProperties DEF StacksOK
<1>3. \A t \in Terminal : Top(t) \in Slot /\ Top(t) \in Procs!Placed
  <2>. SUFFICES ASSUME NEW t \in Terminal PROVE Top(t) \in Slot /\ Top(t) \in Procs!Placed
    OBVIOUS
  <2>1. stack[t] \in Seq(Slot)
    BY <1>1
  <2>. QED
    BY <1>1, <1>2, <2>1, ElementOfSeq, PlacedIs DEF Top, Procs!Placed, Procs!ToSet
<1>4. \A t \in Terminal \ {shown} : Top(t) # running
  BY <1>1, <1>2 DEF StacksOK, Top
<1>. QED
  BY <1>1, <1>3, <1>4

(* Every terminal is left as it is, or what is known of it holds again.    *)
Left(t) ==
    /\ stack'[t] = stack[t] /\ task'[Top(t)] = task[Top(t)]
    /\ file_array'[Top(t)] = file_array[Top(t)] /\ printed'[t] = printed[t]

LEMMA TerminalsSound ==
    ASSUME DataInv, UsersInv', DOMAIN printed' = Terminal,
           \A t \in Terminal :
              Left(t) \/ Sound(task'[Top(t)'], file_array'[Top(t)'], printed'[t])
    PROVE  DataInv'
<1>1. ASSUME NEW t \in Terminal PROVE Sound(task'[Top(t)'], file_array'[Top(t)'], printed'[t])
  <2>1. CASE Left(t)
    <3>1. Top(t)' = Top(t)
      BY <2>1 DEF Top, Left
    <3>2. Sound(task[Top(t)], file_array[Top(t)], printed[t])
      BY DEF DataInv
    <3>. QED
      BY <2>1, <3>1, <3>2 DEF Left
  <2>. QED
    BY <2>1
<1>. QED
  BY <1>1 DEF DataInv

LEMMA NoShellIsJudged ==
    ASSUME NEW x, x.prog = "shell", NEW table, NEW out
    PROVE  Sound(x, table, out)
BY DEF Sound

LEMMA StartedSound ==
    ASSUME shown \in Terminal, NEW cmd \in Commands[shown]
    PROVE  Sound(Started(cmd.prog, cmd.arg), NewTable, <<>>)
<1>. DEFINE x == Started(cmd.prog, cmd.arg)
<1>1. /\ x.prog = cmd.prog /\ x.pc = "main" /\ x.arg = cmd.arg /\ x.got = <<>>
  BY DEF Started
<1>2. cmd.prog = "syserr" => cmd.arg \in {"0"} \cup Tests
  BY SyserrAssumption
<1>. HIDE DEF x
<1>3. \A f : Reads(x, NewTable, <<>>, f)
  BY <1>1 DEF Reads, New
<1>4. Searches(x, NewTable, <<>>) /\ CountsUp(x, <<>>)
  BY <1>1 DEF Searches, CountsUp, New
<1>5. x.prog = "syserr" => TestsErrors(x, NewTable, <<>>)
  BY <1>1, <1>2 DEF TestsErrors, New
<1>6. Draws(x, NewTable, <<>>)
  <2>1. x.frames = FishVariables
    BY DEF Started, x
  <2>. QED
    BY <1>1, <2>1 DEF Draws, Opening, DrawingPlaces, New
<1>7. Sound(x, NewTable, <<>>)
  BY <1>3, <1>4, <1>5, <1>6 DEF Sound
<1>. QED
  BY <1>7 DEF x

(* A program that is executed has read nothing, and one that halts leaves  *)
(* its terminal to a shell.                                                *)
LEMMA ExecuteSound ==
    ASSUME DataInv, UsersInv', NEW cmd \in Commands[shown], ShellExecutes(cmd)
    PROVE  DataInv'
<1>. DEFINE new == FreeSlot
<1>1. /\ new \in Slot /\ new \notin Procs!Placed
      /\ StacksOK /\ Procs!Push(new)
      /\ task' = [task EXCEPT ![new] = Started(cmd.prog, cmd.arg)] /\ DOMAIN task = Slot
      /\ file_array' = [file_array EXCEPT ![new] = NewTable] /\ DOMAIN file_array = Slot
      /\ printed' = [printed EXCEPT ![shown] = <<>>] /\ DOMAIN printed = Terminal
  BY FreeSlotIsFree DEF ShellExecutes, Execute, DataInv, UsersInv, TasksOK, FilesInv, TablesOK
<1>. HIDE DEF new
<1>2. /\ shown \in Terminal /\ \A t \in Terminal : Top(t) \in Slot /\ Top(t) # new
  BY <1>1, TopsApart DEF DataInv
<1>3. stack \in [Terminal -> Seq(Slot)] /\ stack' = [stack EXCEPT ![shown] = Append(@, new)]
  BY <1>1 DEF StacksOK, Procs!Push
<1>4. ASSUME NEW t \in Terminal \ {shown} PROVE Left(t)
  BY <1>1, <1>2, <1>3, <1>4 DEF Left
<1>5. ASSUME NEW t \in Terminal, t = shown
      PROVE  Sound(task'[Top(t)'], file_array'[Top(t)'], printed'[t])
  <2>1. stack[t] \in Seq(Slot) /\ stack'[t] = Append(stack[t], new)
    BY <1>3, <1>5
  <2>2. Top(t)' = new
    BY <1>1, <2>1, AppendProperties, LenProperties DEF Top
  <2>3. Sound(Started(cmd.prog, cmd.arg), NewTable, <<>>)
    BY <1>2, StartedSound
  <2>4. /\ task'[new] = Started(cmd.prog, cmd.arg) /\ file_array'[new] = NewTable
        /\ printed'[t] = <<>>
    BY <1>1, <1>5
  <2>. QED
    BY <2>2, <2>3, <2>4
<1>6. DOMAIN printed' = Terminal
  BY <1>1
<1>. QED
  BY <1>4, <1>5, <1>6, TerminalsSound

LEMMA HaltSound ==
    ASSUME DataInv, UsersInv', Halt,
           task' = task \/ task' = [task EXCEPT ![running] = Shell],
           printed' = printed \/ printed' = [printed EXCEPT ![shown] = <<>>]
    PROVE  DataInv'
<1>1. /\ StacksOK /\ Procs!Pop /\ DOMAIN printed' = Terminal
      /\ shown \in Terminal /\ Len(stack[shown]) > 1
      /\ stack \in [Terminal -> Seq(Slot)]
      /\ \A s \in Slot \ {running} : task'[s] = task[s] /\ file_array'[s] = file_array[s]
      /\ \A t \in Terminal \ {shown} : stack'[t] = stack[t] /\ printed'[t] = printed[t]
  BY DEF Halt, DataInv, UsersInv, FilesInv, TablesOK, TasksOK, StacksOK, Procs!Pop
<1>2. ASSUME NEW t \in Terminal \ {shown} PROVE Left(t)
  BY <1>1, TopsApart DEF Left, DataInv
<1>3. ASSUME NEW t \in Terminal, t = shown
      PROVE  Sound(task'[Top(t)'], file_array'[Top(t)'], printed'[t])
  <2>. DEFINE k == Len(stack'[t])
  <2>1. k \in 1 .. Len(stack'[t])
    <3>1. stack' \in [Terminal -> Seq(Slot)] /\ Len(stack'[t]) > 0
      BY DEF UsersInv, FilesInv, StacksOK
    <3>. QED
      BY <3>1, LenProperties
  <2>2. /\ k \in 1 .. Len(stack[t]) /\ stack'[t][k] = stack[t][k]
        /\ stack[t][k] # running /\ k < Len(stack[t])
    BY <1>1, <1>3, <2>1, PoppedPlaces
  <2>3. stack[t][k] \in Slot
    BY <1>1, <2>2, ElementOfSeq
  <2>4. task'[stack[t][k]].prog = "shell"
    BY <1>1, <2>2, <2>3 DEF DataInv, UsersInv, WhereProgramsAre
  <2>5. Top(t)' = stack[t][k]
    BY <2>2 DEF Top
  <2>. QED
    BY <2>4, <2>5, NoShellIsJudged
<1>. QED
  BY <1>1, <1>2, <1>3, TerminalsSound

LEMMA ProgramStepSound ==
    ASSUME DataInv, UsersInv', Program, ~ Return
    PROVE  DataInv'
<1>1. /\ UsersInv /\ TasksOK /\ running \in Slot /\ shown \in Terminal
      /\ DOMAIN printed = Terminal
  BY StepsTo DEF DataInv, UsersInv
<1>2. SoundNow
  BY TopsApart DEF DataInv, SoundNow, Me
<1>3. SoundNext
  BY <1>1, <1>2, ProgramSound
<1>4. /\ UNCHANGED procVars /\ Keeps
      /\ \A s \in Slot \ {running} : file_array'[s] = file_array[s]
  BY <1>1, ProgramCalls, CallsLeave
<1>5. \A s \in Slot \ {running} : task'[s] = task[s]
  BY <1>1, <1>4 DEF Keeps, TasksOK
<1>6. /\ DOMAIN printed' = Terminal
      /\ \A t \in Terminal \ {shown} : printed'[t] = printed[t]
  BY <1>1, ShowsItsOwn DEF Silent, Shows
<1>7. ASSUME NEW t \in Terminal \ {shown} PROVE Left(t)
  BY <1>1, <1>4, <1>5, <1>6, TopsApart DEF Left, procVars
<1>8. ASSUME NEW t \in Terminal, t = shown
      PROVE  Sound(task'[Top(t)'], file_array'[Top(t)'], printed'[t])
  <2>1. Top(t)' = running
    BY <1>1, <1>4, <1>8, TopsApart DEF Top, procVars
  <2>. QED
    BY <1>3, <1>4, <1>8, <2>1 DEF SoundNext, procVars
<1>. QED
  BY <1>6, <1>7, <1>8, TerminalsSound

LEMMA NextDataInv ==
    ASSUME OneFileTerminal, DataInv, [UserNext]_userVars
    PROVE  DataInv'
<1>1. UsersInv /\ UsersInv' /\ DOMAIN printed = Terminal
  BY NextUsersInv DEF DataInv
<1>2. ASSUME UNCHANGED <<stack, file_array, task, printed>> PROVE DataInv'
  BY <1>1, <1>2, TerminalsSound DEF Left
<1>3. ASSUME At("shell", "main"), UNCHANGED <<stack, shown, task>>, DOMAIN printed' = Terminal,
             \A s \in Slot \ {running} : file_array'[s] = file_array[s],
             \A t \in Terminal \ {shown} : printed'[t] = printed[t]
      PROVE  DataInv'
  <2>1. ASSUME NEW t \in Terminal \ {shown} PROVE Left(t)
    BY <1>1, <1>3, TopsApart DEF Left
  <2>2. ASSUME NEW t \in Terminal, t = shown
        PROVE  Sound(task'[Top(t)'], file_array'[Top(t)'], printed'[t])
    <3>1. Top(t)' = running
      BY <1>1, <1>3, <2>2, TopsApart DEF Top
    <3>. QED
      BY <1>3, <3>1, NoShellIsJudged DEF At, Me
  <2>. QED
    BY <1>1, <1>3, <2>1, <2>2, TerminalsSound
<1>4. CASE ShellStep
  <2>1. ASSUME NEW cmd \in Commands[shown], ShellExecutes(cmd) PROVE DataInv'
    BY <1>1, <2>1, ExecuteSound
  <2>2. CASE ShellFindsNoCommand
    <3>1. /\ At("shell", "main") /\ UNCHANGED <<stack, shown, task>>
          /\ file_array' = file_array /\ printed' = [printed EXCEPT ![shown] = <<"no such command">>]
      BY <2>2 DEF ShellFindsNoCommand, vars
    <3>. QED
      BY <1>1, <1>3, <3>1
  <2>3. CASE Halt /\ task' = task /\ printed' = printed
    BY <1>1, <2>3, HaltSound
  <2>4. CASE At("shell", "main") /\ HaltFirstShell /\ task' = task /\ printed' = printed
    <3>1. /\ \A s \in Slot \ {running} : file_array'[s] = file_array[s]
          /\ UNCHANGED <<stack, shown>>
      BY <1>1, <2>4 DEF HaltFirstShell, procVars, UsersInv, FilesInv, TablesOK
    <3>. QED
      BY <1>1, <1>3, <2>4, <3>1
  <2>. QED
    BY <1>4, <2>1, <2>2, <2>3, <2>4 DEF ShellStep, ShellExits
<1>5. CASE Program
  <2>1. CASE Return
    BY <1>1, <2>1, HaltSound DEF Return
  <2>. QED
    BY <1>1, <1>5, <2>1, ProgramStepSound
<1>6. ASSUME NEW t \in Terminal, SwitchKey(t) PROVE DataInv'
  BY <1>2, <1>6 DEF SwitchKey, Switch, Procs!Show
<1>7. CASE UNCHANGED userVars
  BY <1>2, <1>7 DEF userVars, vars
<1>. QED
  BY <1>4, <1>5, <1>6, <1>7 DEF UserNext

LEMMA InitDataInv == UserInit => DataInv
<1>. SUFFICES ASSUME UserInit PROVE DataInv
  OBVIOUS
<1>1. UsersInv
  BY InitUsersInv
<1>2. \A t \in Terminal : task[Top(t)] = Shell
  BY <1>1, TopsApart DEF UserInit
<1>3. Shell.prog = "shell"
  BY DEF Shell, Started
<1>4. \A t \in Terminal : Sound(task[Top(t)], file_array[Top(t)], printed[t])
  BY <1>2, <1>3, NoShellIsJudged
<1>. QED
  BY <1>1, <1>4 DEF DataInv, UserInit

LEMMA AlwaysDataInv ==
    ASSUME OneFileTerminal
    PROVE  UserSpec => []DataInv
<1>1. DataInv /\ [UserNext]_userVars => DataInv'
  BY NextDataInv
<1>. QED
  BY <1>1, InitDataInv, PTL DEF UserSpec

(* cat, ls and grep have written all of their files when they return, also *)
(* when other terminals ran between two of their reads; counter has        *)
(* counted to a number it offers.                                          *)
THEOREM ProgramsReadWholeFiles ==
    ASSUME OneFileTerminal
    PROVE  UserSpec => []WholeFilesAreRead
<1>1. DataInv => WholeFilesAreRead
  <2>. SUFFICES ASSUME DataInv PROVE WholeFilesAreRead
    OBVIOUS
  <2>1. Sound(Me, file_array[running], printed[shown])
    BY TopsApart DEF DataInv, Me
  <2>2. CASE Finished("cat")
    <3>1. /\ Me.prog = "cat"
          /\ printed[shown] = IF Me.arg \in Names THEN Whole(Me.arg) ELSE <<"file not found">>
      BY <2>1, <2>2 DEF Sound, Reads, Finished
    <3>2. CASE Me.arg = "."
      BY <3>1, <3>2, ImageAssumption DEF Whole, Finished, WholeFilesAreRead
    <3>3. CASE Me.arg \in Names \ {"."}
      <4>1. printed[shown] = Text(Me.arg)
        BY <3>1, <3>3 DEF Whole
      <4>. QED
        BY <3>1, <3>3, <4>1 DEF Finished, WholeFilesAreRead
    <3>4. CASE Me.arg # "." /\ Me.arg \notin Names
      BY <3>1, <3>4 DEF Finished, WholeFilesAreRead
    <3>. QED
      BY <3>2, <3>3, <3>4
  <2>3. CASE Finished("ls")
    BY <2>1, <2>3, ImageAssumption DEF Sound, Reads, Finished, Whole, WholeFilesAreRead
  <2>4. CASE Finished("grep")
    BY <2>1, <2>4 DEF Sound, Searches, Finished, WholeFilesAreRead
  <2>5. CASE Finished("counter")
    BY <2>1, <2>5 DEF Sound, CountsUp, Finished, Numbers, WholeFilesAreRead
  <2>6. CASE Me.prog \notin {"cat", "ls", "grep", "counter"} \/ Me.pc # "return"
    BY <2>6 DEF Finished, WholeFilesAreRead
  <2>. QED
    BY <2>2, <2>3, <2>4, <2>5, <2>6 DEF Finished
<1>. QED
  BY <1>1, AlwaysDataInv, PTL

(* What blinks lies within the area of the two frames.                     *)
LEMMA InTheArea ==
    ASSUME NEW W \in Seq(STRING), NEW i, NEW j, ~ Blank(W, i, j)
    PROVE  i \in Nat /\ i <= Len(W) /\ j \in Nat /\ j <= Len(W)
<1>1. PICK k \in 1 .. Len(W) : Row(W, k) = i /\ Col(W, k) = j
  BY CellIs DEF Blank, Places
<1>2. k - 1 \in Nat /\ (k - 1) + 1 = k /\ k - 1 <= Len(W) /\ Len(W) \in Nat
  BY LenProperties
<1>3. /\ Row(W, (k - 1) + 1) \in Nat /\ Row(W, (k - 1) + 1) <= k - 1
      /\ Col(W, (k - 1) + 1) \in Nat /\ Col(W, (k - 1) + 1) <= k - 1
  BY <1>2, RowFacts, ColFacts
<1>. QED
  BY <1>1, <1>2, <1>3

LEMMA PlaceIs ==
    ASSUME NEW S, NEW p \in S \X S
    PROVE  p = <<p[1], p[2]>> /\ p[1] \in S /\ p[2] \in S
OBVIOUS

LEMMA PictureIsDrawn ==
    ASSUME FramesThere, DataInv
    PROVE  FramesAreDrawn
<1>. SUFFICES ASSUME Finished("fish") PROVE FramesAreDrawn
  BY DEF FramesAreDrawn
<1>. DEFINE Size(k) == Len(Text(Frames[k]))
            Area == 0 .. Size(1) + Size(2)
            At0(p) == <<Cell(Text(Frames[1]), p[1], p[2]), Cell(Text(Frames[2]), p[1], p[2])>>
            B(p) == [row |-> p[1], col |-> p[2], on |-> At0(p)[1], off |-> At0(p)[2]]
            P == {q \in Area \X Area : At0(q) # <<" ", " ">>}
            out == printed[shown]
<1>1. \A b : b \in ToSet(out) <=> \E i, j \in Nat : Blinks(i, j) /\ b = BlinkAt(i, j)
  <2>1. Sound(Me, file_array[running], out)
    BY TopsApart DEF DataInv, Me
  <2>. QED
    BY <2>1 DEF Sound, Finished, Draws, AllDrawn
<1>2. \A i, j : /\ Blinks(i, j) <=> At0(<<i, j>>) # <<" ", " ">>
                /\ BlinkAt(i, j) = B(<<i, j>>)
  BY DEF Blinks, Blank, BlinkAt, Frame
<1>3. ASSUME NEW i, NEW j, Blinks(i, j)
      PROVE  i \in Area /\ j \in Area
  <2>1. Frame(1) \in Seq(STRING) /\ Frame(2) \in Seq(STRING)
    BY FrameFacts
  <2>2. PICK k \in {1, 2} : ~ Blank(Frame(k), i, j)
    BY <1>3 DEF Blinks
  <2>3. i \in Nat /\ i <= Len(Frame(k)) /\ j \in Nat /\ j <= Len(Frame(k))
    BY <2>1, <2>2, InTheArea
  <2>4. Size(1) \in Nat /\ Size(2) \in Nat /\ Len(Frame(k)) \in {Size(1), Size(2)}
    BY <2>1, LenProperties DEF Frame
  <2>. QED
    BY <2>3, <2>4
<1>4. Area \in SUBSET Nat
  OBVIOUS
<1>. HIDE DEF At0, Area, out
<1>5. ASSUME NEW b \in ToSet(out) PROVE b \in {B(p) : p \in P}
  <2>1. PICK i, j \in Nat : Blinks(i, j) /\ b = BlinkAt(i, j)
    BY <1>1
  <2>2. <<i, j>> \in P
    BY <1>2, <1>3, <2>1
  <2>. QED
    BY <1>2, <2>1, <2>2
<1>6. ASSUME NEW p \in P PROVE B(p) \in ToSet(out)
  <2>1. p[1] \in Nat /\ p[2] \in Nat /\ p = <<p[1], p[2]>> /\ At0(p) # <<" ", " ">>
    <3>1. p \in Area \X Area /\ At0(p) # <<" ", " ">>
      OBVIOUS
    <3>2. p = <<p[1], p[2]>> /\ p[1] \in Area /\ p[2] \in Area
      BY <3>1, PlaceIs
    <3>. QED
      BY <1>4, <3>1, <3>2
  <2>2. Blinks(p[1], p[2]) /\ BlinkAt(p[1], p[2]) = B(p)
    BY <1>2, <2>1
  <2>. QED
    BY <1>1, <2>1, <2>2
<1>7. ToSet(out) = {B(p) : p \in P}
  BY <1>5, <1>6
<1>. QED
  BY <1>7 DEF FramesAreDrawn, At0, Area, out

(* fish has both of its files and its descriptors: all that cat, ls, grep, *)
(* counter and fish should get from their files they have got when they    *)
(* return, and every place of the picture blinks between the two frames.   *)
THEOREM ProgramsGetAllTheirData ==
    ASSUME OneFileTerminal, FramesThere
    PROVE  UserSpec => []ProgramsGetTheirData
<1>1. DataInv => FramesAreDrawn
  BY PictureIsDrawn
<1>. QED
  BY <1>1, AlwaysDataInv, ProgramsReadWholeFiles, PTL DEF ProgramsGetTheirData

(* Each test of syserr passes when it runs by itself: from the table of a  *)
(* program that has just been executed every call it makes is refused.     *)
THEOREM TestsOfErrorsPass ==
    ASSUME OneFileTerminal
    PROVE  UserSpec => []ErrorTestsPass
<1>1. DataInv => ErrorTestsPass
  <2>. SUFFICES ASSUME DataInv PROVE ErrorTestsPass
    OBVIOUS
  <2>1. Sound(Me, file_array[running], printed[shown])
    BY TopsApart DEF DataInv, Me
  <2>. QED
    BY <2>1 DEF Sound, TestsErrors, Finished, ErrorTestsPass
<1>. QED
  BY <1>1, AlwaysDataInv, PTL

=============================================================================
