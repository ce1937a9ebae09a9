--------------------------- MODULE FunctionsProofs ---------------------------
(***************************************************************************)
(* The functions of MCFunctions, for every input of any size, and the      *)
(* clock driver, whose rate is a function of the frequency, for every      *)
(* number of terminals and every set of frequencies.                       *)
(***************************************************************************)
EXTENDS MCFunctions, Rtc, DataLemmas

(* The copy loop of read_data as the function its definition speaks of.    *)
CopyOf(inode, x, rest) ==
    IF x.left = 0 THEN <<>>
    ELSE IF x.blocks > 0
      THEN CopyFrom(inode, x.i, x.off, BLOCK - x.off) \o rest
      ELSE CopyFrom(inode, x.i, x.off, x.left)

IsCopy(inode, copy) ==
    copy = [x \in Loops |->
              IF x.left = 0 THEN <<>>
              ELSE IF x.blocks > 0
                THEN CopyFrom(inode, x.i, x.off, BLOCK - x.off) \o copy[NextBlock(x)]
                ELSE CopyFrom(inode, x.i, x.off, x.left)]

LEMMA CopyBlocksIs ==
    ASSUME NEW inode, NEW x
    PROVE  CopyBlocks(inode, x) = (CHOOSE copy : IsCopy(inode, copy))[x]
BY DEF CopyBlocks, IsCopy

LEMMA CopyUnfolds ==
    ASSUME NEW inode, NEW copy, IsCopy(inode, copy), NEW x \in Loops
    PROVE  copy[x] = CopyOf(inode, x, copy[NextBlock(x)])
BY DEF IsCopy, CopyOf

(* The bytes that can be copied: no matter of which blocks.                *)
Bytes(inode) ==
    {inode.blocks[p.i + 1] * BLOCK + p.off + p.k - 1 : p \in [i : Nat, off : Nat, k : Nat]}

LEMMA CopyFromIn ==
    ASSUME NEW inode, NEW i \in Nat, NEW off \in Nat, NEW n \in Int
    PROVE  CopyFrom(inode, i, off, n) \in Seq(Bytes(inode))
<1>1. CASE n < 1
  <2>1. CopyFrom(inode, i, off, n) = [k \in 1 .. 0 |-> inode.blocks[i + 1] * BLOCK + off + k - 1]
    BY <1>1 DEF CopyFrom
  <2>. QED
    BY <2>1
<1>2. CASE n >= 1
  <2>1. ASSUME NEW k \in 1 .. n
        PROVE  inode.blocks[i + 1] * BLOCK + off + k - 1 \in Bytes(inode)
    <3>. DEFINE p == [i |-> i, off |-> off, k |-> k]
    <3>1. p \in [i : Nat, off : Nat, k : Nat] /\ p.i = i /\ p.off = off /\ p.k = k
      OBVIOUS
    <3>. HIDE DEF p
    <3>. QED
      BY <3>1 DEF Bytes
  <2>. QED
    BY <1>2, <2>1 DEF CopyFrom
<1>. QED
  BY <1>1, <1>2

(* There is such a function: it is defined by recursion on the blocks that *)
(* are left.                                                               *)
LEMMA CopyExists == ASSUME NEW inode PROVE \E copy : IsCopy(inode, copy)
<1>. DEFINE V == Seq(Bytes(inode))
            T == [Loops -> V]
            zero == [x \in Loops |-> IF x.left = 0 THEN <<>> ELSE CopyFrom(inode, x.i, x.off, x.left)]
            next == [g \in T |-> [x \in Loops |->
                       IF x.left = 0 THEN <<>>
                       ELSE CopyFrom(inode, x.i, x.off, BLOCK - x.off) \o g[NextBlock(x)]]]
            step == [n \in Nat |-> next]
<1>1. \A x \in Loops : /\ NextBlock(x) \in Loops
                       /\ x.left \in Int /\ x.blocks \in Int /\ x.off \in Nat /\ x.i \in Nat
                       /\ NextBlock(x).blocks = x.blocks - 1
                       /\ BLOCK - x.off \in Int
  BY FileDataAssumption DEF Loops, NextBlock
<1>2. <<>> \in V
  OBVIOUS
<1>. HIDE DEF V
<1>3. zero \in T
  <2>1. \A x \in Loops : CopyFrom(inode, x.i, x.off, x.left) \in V
    BY <1>1, CopyFromIn DEF V
  <2>. QED
    BY <1>2, <2>1
<1>4. step \in [Nat -> [T -> T]]
  <2>1. ASSUME NEW g \in T, NEW x \in Loops
        PROVE  CopyFrom(inode, x.i, x.off, BLOCK - x.off) \o g[NextBlock(x)] \in V
    <3>1. CopyFrom(inode, x.i, x.off, BLOCK - x.off) \in V
      BY <1>1, CopyFromIn DEF V
    <3>2. g[NextBlock(x)] \in V
      BY <1>1
    <3>. QED
      BY <3>1, <3>2, ConcatProperties DEF V
  <2>2. next \in [T -> T]
    BY <1>2, <2>1
  <2>. QED
    BY <2>2
<1>5. PICK f \in [Nat -> T] : f[0] = zero /\ \A n \in Nat \ {0} : f[n] = step[n][f[n - 1]]
  <2>1. RecursionForever(T, zero, step)
    <3>. HIDE DEF T, zero, step
    <3>. QED
      BY <1>3, <1>4, RecursionOnNat
  <2>. HIDE DEF T, zero, step
  <2>. QED
    BY <2>1 DEF RecursionForever
<1>. DEFINE Rounds(x) == IF x.blocks > 0 THEN x.blocks ELSE 0
            copy == [x \in Loops |-> f[Rounds(x)][x]]
<1>6. ASSUME NEW x \in Loops
      PROVE  copy[x] = IF x.left = 0 THEN <<>>
                       ELSE IF x.blocks > 0
                         THEN CopyFrom(inode, x.i, x.off, BLOCK - x.off) \o copy[NextBlock(x)]
                         ELSE CopyFrom(inode, x.i, x.off, x.left)
  <2>1. CASE x.blocks > 0
    <3>1. x.blocks \in Nat \ {0} /\ Rounds(x) = x.blocks /\ Rounds(NextBlock(x)) = x.blocks - 1
      BY <1>1, <2>1
    <3>2. f[x.blocks] = next[f[x.blocks - 1]] /\ f[x.blocks - 1] \in T
      <4>1. x.blocks - 1 \in Nat /\ step[x.blocks] = next
        BY <3>1
      <4>. HIDE DEF step, next, T
      <4>. QED
        BY <1>5, <3>1, <4>1
    <3>3. f[x.blocks][x] = IF x.left = 0 THEN <<>>
                           ELSE CopyFrom(inode, x.i, x.off, BLOCK - x.off)
                                  \o f[x.blocks - 1][NextBlock(x)]
      <4>. DEFINE g == f[x.blocks - 1]
      <4>. HIDE DEF g, T
      <4>1. g \in T /\ f[x.blocks] = next[g]
        BY <3>2 DEF g
      <4>. QED
        BY <4>1 DEF g
    <3>. QED
      BY <1>1, <2>1, <3>1, <3>3
  <2>2. CASE ~ (x.blocks > 0)
    BY <1>5, <2>2
  <2>. QED
    BY <2>1, <2>2
<1>7. IsCopy(inode, copy)
  <2>. HIDE DEF Rounds
  <2>. QED
    BY <1>6 DEF IsCopy
<1>. QED
  BY <1>7

-----------------------------------------------------------------------------
(* Division by the size of a block.                                        *)
LEMMA DividedIs ==
    ASSUME NEW b \in Nat \ {0}, NEW q \in Nat, NEW r \in Nat, r < b
    PROVE  (q * b + r) \div b = q /\ (q * b + r) % b = r
OBVIOUS

LEMMA Division ==
    ASSUME NEW b \in Nat \ {0}, NEW x \in Nat
    PROVE  \E q, r \in Nat : /\ q = x \div b /\ r = x % b
                             /\ r < b /\ x = q * b + r
<1>1. ASSUME NEW q \in Nat, NEW r \in Nat, q = x \div b, r = x % b
      PROVE  r < b /\ x = q * b + r
  BY <1>1
<1>2. x \div b \in Nat /\ x % b \in Nat
  OBVIOUS
<1>. QED
  BY <1>1, <1>2

LEMMA InBetween ==
    ASSUME NEW a \in Nat, NEW p \in Nat, NEW n \in Nat, NEW c \in Nat,
           a <= p, p < n, n <= c
    PROVE  a < c
OBVIOUS

LEMMA SmallerFactor ==
    ASSUME NEW b \in Nat \ {0}, NEW i \in Nat, NEW j \in Nat, i * b < j * b
    PROVE  i < j
OBVIOUS

LEMMA Products ==
    ASSUME NEW b \in Nat \ {0}, NEW i \in Int, NEW j \in Int
    PROVE  /\ i * b \in Int /\ (i + j) * b = i * b + j * b
           /\ (i + 1) * b = i * b + b /\ (i - 1) * b = i * b - b
           /\ i * b < j * b => i < j
           /\ i < j => i * b + b <= j * b
           /\ b * i = i * b
OBVIOUS

-----------------------------------------------------------------------------
(* The blocks of a file.                                                   *)
LEMMA InodeFacts ==
    ASSUME NEW inode, IsInode(inode)
    PROVE  /\ inode.length \in Nat /\ Len(inode.blocks) \in Nat
           /\ \A i \in 1 .. Len(inode.blocks) : inode.blocks[i] \in Nat
           /\ inode.length <= Len(inode.blocks) * BLOCK
           /\ BLOCK \in Nat \ {0}
<1>1. inode.blocks \in Seq(Nat)
  BY DEF IsInode
<1>2. \A i \in 1 .. Len(inode.blocks) : inode.blocks[i] \in Nat
  BY <1>1, ElementOfSeq
<1>3. Len(inode.blocks) \in Nat
  BY <1>1, LenProperties
<1>. QED
  BY <1>2, <1>3, FileDataAssumption DEF IsInode

LEMMA FollowingBlocks ==
    ASSUME NEW inode, IsInode(inode), BlocksFollowEachOther(inode),
           NEW i \in Nat, i < Len(inode.blocks)
    PROVE  inode.blocks[i + 1] = inode.blocks[1] + i
<1>. DEFINE N == Len(inode.blocks)
            S == {j \in 0 .. N - 1 : inode.blocks[j + 1] = inode.blocks[1] + j}
<1>1. N \in Nat /\ N - 1 \in Nat /\ \A j \in 1 .. N : inode.blocks[j] \in Nat
  BY InodeFacts
<1>2. 0 \in S
  BY <1>1
<1>3. \A j \in 0 .. N - 1 : j \in S /\ j < N - 1 => j + 1 \in S
  <2>. SUFFICES ASSUME NEW j \in 0 .. N - 1, j < N - 1, inode.blocks[j + 1] = inode.blocks[1] + j
                PROVE  inode.blocks[(j + 1) + 1] = inode.blocks[1] + (j + 1)
    BY <1>1
  <2>1. j + 1 \in 1 .. N - 1
    BY <1>1
  <2>2. inode.blocks[(j + 1) + 1] = inode.blocks[j + 1] + 1
    BY <2>1 DEF BlocksFollowEachOther
  <2>3. inode.blocks[1] \in Nat /\ j \in Nat
    BY <1>1
  <2>. QED
    BY <2>2, <2>3
<1>4. i \in 0 .. N - 1
  BY <1>1
<1>. HIDE DEF S
<1>5. i \in S
  BY <1>1, <1>2, <1>3, <1>4, CountingUp
<1>. QED
  BY <1>5 DEF S

(* A copy that stays in one block, or in a file whose blocks follow each   *)
(* other, gets the bytes at the positions it should.                       *)
LEMMA CopiesTheFile ==
    ASSUME NEW inode, IsInode(inode), NEW i \in Nat, NEW off \in Nat, NEW n \in Nat,
           off <= BLOCK, i * BLOCK + off + n <= inode.length,
           BlocksFollowEachOther(inode) \/ off + n <= BLOCK,
           NEW k \in 1 .. n
    PROVE  CopyFrom(inode, i, off, n)[k] = ByteAt(inode, i * BLOCK + off + k - 1)
<1>. DEFINE p == i * BLOCK + (off + k - 1)
<1>1. /\ inode.length \in Nat /\ Len(inode.blocks) \in Nat
      /\ \A j \in 1 .. Len(inode.blocks) : inode.blocks[j] \in Nat
      /\ inode.length <= Len(inode.blocks) * BLOCK /\ BLOCK \in Nat \ {0}
  BY InodeFacts
<1>2. /\ i * BLOCK \in Nat /\ off + k - 1 \in Nat /\ p \in Nat /\ p < inode.length
      /\ p = i * BLOCK + off + k - 1
  <2>1. i * BLOCK \in Nat
    BY <1>1
  <2>2. ASSUME NEW at \in Nat, at + off + n <= inode.length
        PROVE  /\ off + k - 1 \in Nat /\ at + (off + k - 1) \in Nat
               /\ at + (off + k - 1) < inode.length
               /\ at + (off + k - 1) = at + off + k - 1
    BY <1>1, <2>2, SMTT(30)
  <2>. QED
    BY <2>1, <2>2
<1>3. CopyFrom(inode, i, off, n)[k] = inode.blocks[i + 1] * BLOCK + off + k - 1
  BY DEF CopyFrom
<1>4. ASSUME NEW q \in Nat, NEW r \in Nat, p = q * BLOCK + r, r < BLOCK
      PROVE  /\ q < Len(inode.blocks) /\ i < Len(inode.blocks)
             /\ ByteAt(inode, p) = inode.blocks[q + 1] * BLOCK + r
             /\ inode.blocks[q + 1] \in Nat /\ inode.blocks[i + 1] \in Nat
  <2>1. p \div BLOCK = q /\ p % BLOCK = r
    BY <1>1, <1>4, DividedIs
  <2>2. q * BLOCK < Len(inode.blocks) * BLOCK /\ i * BLOCK < Len(inode.blocks) * BLOCK
    <3>1. q * BLOCK \in Nat /\ Len(inode.blocks) * BLOCK \in Nat
      BY <1>1
    <3>. HIDE DEF p
    <3>2. q * BLOCK <= p
      BY <1>4, <3>1
    <3>3. i * BLOCK <= p
      BY <1>2 DEF p
    <3>. QED
      BY <1>1, <1>2, <3>1, <3>2, <3>3, InBetween
  <2>3. q < Len(inode.blocks) /\ i < Len(inode.blocks)
    BY <1>1, <2>2, SmallerFactor
  <2>4. q + 1 \in 1 .. Len(inode.blocks) /\ i + 1 \in 1 .. Len(inode.blocks)
    BY <1>1, <2>3
  <2>5. ByteAt(inode, p) = inode.blocks[q + 1] * BLOCK + r
    BY <2>1 DEF ByteAt
  <2>. QED
    BY <1>1, <2>3, <2>4, <2>5
<1>5. CASE off + n <= BLOCK
  <2>1. off + k - 1 < BLOCK
    BY <1>1, <1>5
  <2>2. /\ ByteAt(inode, p) = inode.blocks[i + 1] * BLOCK + (off + k - 1)
        /\ inode.blocks[i + 1] \in Nat
    BY <1>2, <1>4, <2>1
  <2>. QED
    BY <1>1, <1>2, <1>3, <2>2, SMTT(30)
<1>6. CASE BlocksFollowEachOther(inode)
  <2>1. PICK q \in Nat, r \in Nat : r < BLOCK /\ p = q * BLOCK + r
    <3>. HIDE DEF p
    <3>. QED
      BY <1>1, <1>2, Division, ZenonT(40)
  <2>2. /\ q < Len(inode.blocks) /\ i < Len(inode.blocks)
        /\ ByteAt(inode, p) = inode.blocks[q + 1] * BLOCK + r
    BY <1>4, <2>1
  <2>. DEFINE first == inode.blocks[1]
  <2>0. 1 \in 1 .. Len(inode.blocks)
    BY <1>1, <2>2
  <2>3. inode.blocks[q + 1] = first + q /\ inode.blocks[i + 1] = first + i /\ first \in Nat
    BY <1>1, <1>6, <2>0, <2>1, <2>2, FollowingBlocks
  <2>. HIDE DEF first
  <2>4. (first + q) * BLOCK = first * BLOCK + q * BLOCK /\ (first + i) * BLOCK = first * BLOCK + i * BLOCK
        /\ first * BLOCK \in Nat /\ q * BLOCK \in Nat /\ i * BLOCK \in Nat
    <3>1. first \in Nat /\ q \in Nat /\ BLOCK \in Nat \ {0}
      BY <1>1, <2>1, <2>3
    <3>. QED
      BY <3>1
  <2>5. ByteAt(inode, p) = (first * BLOCK + q * BLOCK) + r
    BY <2>2, <2>3, <2>4
  <2>6. CopyFrom(inode, i, off, n)[k] = (first * BLOCK + i * BLOCK) + off + k - 1
    BY <1>3, <2>3, <2>4
  <2>. HIDE DEF p
  <2>7. p = i * BLOCK + (off + k - 1)
    BY DEF p
  <2>8. ByteAt(inode, p) = CopyFrom(inode, i, off, n)[k]
    BY <2>1, <2>4, <2>5, <2>6, <2>7
  <2>. QED
    BY <1>2, <2>8
<1>. QED
  BY <1>5, <1>6

-----------------------------------------------------------------------------
(* The copy loop, at any of its rounds: there is enough to copy for the    *)
(* blocks that are counted.                                                *)
Position(x) == x.i * BLOCK + x.off

Counted(inode, x) ==
    /\ x.off <= BLOCK /\ x.left >= 0 /\ Position(x) + x.left <= inode.length
    /\ x.blocks > 0 => (x.i + x.blocks) * BLOCK <= Position(x) + x.left

(* And it is where they are: no block is missed.                           *)
Exact(inode, x) ==
    \/ BlocksFollowEachOther(inode)
    \/ IF x.blocks > 0 THEN Position(x) + x.left <= (x.i + x.blocks + 1) * BLOCK
       ELSE x.off + x.left <= BLOCK

Copies(inode, x, bytes) ==
    /\ bytes \in Seq(Bytes(inode)) /\ Len(bytes) = x.left
    /\ Exact(inode, x) =>
         \A k \in 1 .. x.left : bytes[k] = ByteAt(inode, Position(x) + k - 1)

LEMMA LoopFacts ==
    ASSUME NEW x \in Loops
    PROVE  /\ x.left \in Int /\ x.blocks \in Int /\ x.off \in Nat /\ x.i \in Nat
           /\ Position(x) \in Nat
           /\ NextBlock(x) \in Loops
           /\ NextBlock(x).left = x.left - (BLOCK - x.off) /\ NextBlock(x).blocks = x.blocks - 1
           /\ NextBlock(x).off = 0 /\ NextBlock(x).i = x.i + 1
           /\ Position(NextBlock(x)) = x.i * BLOCK + BLOCK
           /\ x.i * BLOCK \in Nat
<1>1. x.left \in Int /\ x.blocks \in Int /\ x.off \in Nat /\ x.i \in Nat /\ BLOCK \in Nat \ {0}
  BY FileDataAssumption DEF Loops
<1>2. /\ NextBlock(x) \in Loops
      /\ NextBlock(x).left = x.left - (BLOCK - x.off) /\ NextBlock(x).blocks = x.blocks - 1
      /\ NextBlock(x).off = 0 /\ NextBlock(x).i = x.i + 1
  BY <1>1 DEF NextBlock, Loops
<1>3. x.i * BLOCK \in Nat /\ (x.i + 1) * BLOCK = x.i * BLOCK + BLOCK
  BY <1>1
<1>. QED
  BY <1>1, <1>2, <1>3 DEF Position

LEMMA NextCounted ==
    ASSUME NEW inode, NEW x \in Loops, Counted(inode, x), x.blocks > 0
    PROVE  /\ Counted(inode, NextBlock(x)) /\ BLOCK - x.off \in Nat
           /\ BLOCK - x.off <= x.left
           /\ Position(NextBlock(x)) = Position(x) + (BLOCK - x.off)
           /\ Exact(inode, x) => Exact(inode, NextBlock(x))
<1>. DEFINE y == NextBlock(x)
            a == x.i * BLOCK
            c == x.blocks * BLOCK
            e == Position(x) + x.left
<1>1. /\ x.left \in Int /\ x.blocks \in Nat \ {0} /\ x.off \in Nat /\ x.i \in Nat
      /\ y.left = x.left - (BLOCK - x.off) /\ y.blocks = x.blocks - 1 /\ y.off = 0
      /\ y.i = x.i + 1 /\ Position(y) = a + BLOCK /\ Position(x) = a + x.off
      /\ BLOCK \in Nat \ {0}
  BY LoopFacts, FileDataAssumption DEF Position
<1>. HIDE DEF y
<1>2. /\ a \in Nat /\ c \in Nat /\ c >= BLOCK
      /\ (x.i + x.blocks) * BLOCK = a + c
      /\ (x.i + x.blocks + 1) * BLOCK = a + c + BLOCK
      /\ y.blocks = 0 => c = BLOCK
  BY <1>1, SMTT(30)
<1>3. /\ y.i + y.blocks = x.i + x.blocks /\ y.i + y.blocks + 1 = x.i + x.blocks + 1
  BY <1>1, SMTT(30)
<1>. HIDE DEF a, c
<1>4. /\ x.off <= BLOCK /\ x.left >= 0 /\ a + x.off + x.left <= inode.length
      /\ a + c <= a + x.off + x.left
  BY <1>1, <1>2 DEF Counted
<1>5. y.left >= 0 /\ Position(y) + y.left = a + x.off + x.left /\ BLOCK - x.off <= x.left
  BY <1>1, <1>2, <1>4
<1>6. Counted(inode, y)
  BY <1>1, <1>2, <1>3, <1>4, <1>5 DEF Counted
<1>7. ASSUME a + x.off + x.left <= a + c + BLOCK
      PROVE  IF y.blocks > 0 THEN Position(y) + y.left <= (y.i + y.blocks + 1) * BLOCK
             ELSE y.off + y.left <= BLOCK
  <2>1. CASE y.blocks > 0
    BY <1>2, <1>3, <1>5, <1>7, <2>1
  <2>2. CASE ~ (y.blocks > 0)
    BY <1>1, <1>2, <1>5, <1>7, <2>2
  <2>. QED
    BY <2>1, <2>2
<1>8. Exact(inode, x) => Exact(inode, y)
  BY <1>1, <1>2, <1>7 DEF Exact
<1>9. BLOCK - x.off \in Nat /\ Position(y) = Position(x) + (BLOCK - x.off)
  BY <1>1, <1>2, <1>4
<1>. QED
  BY <1>5, <1>6, <1>8, <1>9 DEF y

LEMMA CopyFromLength ==
    ASSUME NEW inode, NEW i \in Nat, NEW off \in Nat, NEW n \in Nat
    PROVE  Len(CopyFrom(inode, i, off, n)) = n
BY DEF CopyFrom

(* Without another whole block to copy, the rest is copied at once.        *)
LEMMA LastCopy ==
    ASSUME NEW inode, IsInode(inode), NEW copy, IsCopy(inode, copy),
           NEW x \in Loops, Counted(inode, x), ~ (x.blocks > 0)
    PROVE  Copies(inode, x, copy[x])
<1>1. /\ x.left \in Nat /\ x.blocks \in Int /\ x.off \in Nat /\ x.i \in Nat
      /\ x.off <= BLOCK /\ Position(x) + x.left <= inode.length
  BY LoopFacts DEF Counted
<1>2. copy[x] = CopyOf(inode, x, copy[NextBlock(x)])
  BY CopyUnfolds
<1>3. CASE x.left = 0
  <2>1. copy[x] = <<>>
    BY <1>2, <1>3 DEF CopyOf
  <2>. QED
    BY <1>3, <2>1 DEF Copies
<1>4. CASE x.left # 0
  <2>1. copy[x] = CopyFrom(inode, x.i, x.off, x.left)
    BY <1>2, <1>4 DEF CopyOf
  <2>2. copy[x] \in Seq(Bytes(inode)) /\ Len(copy[x]) = x.left
    BY <1>1, <2>1, CopyFromIn, CopyFromLength
  <2>3. Exact(inode, x) => BlocksFollowEachOther(inode) \/ x.off + x.left <= BLOCK
    BY DEF Exact
  <2>4. Position(x) = x.i * BLOCK + x.off
    BY DEF Position
  <2>5. ASSUME Exact(inode, x), NEW k \in 1 .. x.left
        PROVE  copy[x][k] = ByteAt(inode, Position(x) + k - 1)
    BY <1>1, <2>1, <2>3, <2>4, <2>5, CopiesTheFile
  <2>. QED
    BY <2>2, <2>5 DEF Copies
<1>. QED
  BY <1>3, <1>4

(* One block is copied, and then what the next rounds copy.                *)
LEMMA BlockCopy ==
    ASSUME NEW inode, IsInode(inode), NEW copy, IsCopy(inode, copy),
           NEW x \in Loops, Counted(inode, x), x.blocks > 0,
           Copies(inode, NextBlock(x), copy[NextBlock(x)])
    PROVE  Copies(inode, x, copy[x])
<1>. DEFINE y == NextBlock(x)
            n == BLOCK - x.off
            a == CopyFrom(inode, x.i, x.off, n)
            b == copy[y]
<1>1. /\ x.left \in Nat /\ x.blocks \in Int /\ x.off \in Nat /\ x.i \in Nat
      /\ x.off <= BLOCK /\ Position(x) + x.left <= inode.length /\ Position(x) \in Nat
  BY LoopFacts DEF Counted
<1>2. /\ n \in Nat /\ n <= x.left /\ y.left = x.left - n /\ Position(y) = Position(x) + n
      /\ Exact(inode, x) => Exact(inode, y)
  BY NextCounted, LoopFacts
<1>6. x.off + n <= BLOCK
  BY <1>1, FileDataAssumption
<1>3. copy[x] = CopyOf(inode, x, b)
  BY CopyUnfolds
<1>4. CASE x.left = 0
  <2>1. copy[x] = <<>>
    BY <1>3, <1>4 DEF CopyOf
  <2>. QED
    BY <1>4, <2>1 DEF Copies
<1>5. CASE x.left # 0
  <2>1. copy[x] = a \o b
    BY <1>3, <1>5 DEF CopyOf
  <2>. HIDE DEF n
  <2>2. a \in Seq(Bytes(inode)) /\ Len(a) = n
    <3>1. n \in Nat /\ n \in Int
      BY <1>2
    <3>2. CopyFrom(inode, x.i, x.off, n) \in Seq(Bytes(inode))
      BY <1>1, <3>1, CopyFromIn
    <3>3. Len(CopyFrom(inode, x.i, x.off, n)) = n
      BY <1>1, <3>1, CopyFromLength
    <3>. QED
      BY <3>2, <3>3
  <2>3. b \in Seq(Bytes(inode)) /\ Len(b) = x.left - n
    BY <1>2 DEF Copies
  <2>. HIDE DEF a, b, n, y
  <2>4. /\ a \o b \in Seq(Bytes(inode)) /\ Len(a \o b) = x.left
        /\ \A k \in 1 .. x.left : (a \o b)[k] = IF k <= n THEN a[k] ELSE b[k - n]
    <3>1. /\ a \o b \in Seq(Bytes(inode)) /\ Len(a \o b) = Len(a) + Len(b)
          /\ \A k \in 1 .. Len(a) + Len(b) :
               (a \o b)[k] = IF k <= Len(a) THEN a[k] ELSE b[k - Len(a)]
      BY <2>2, <2>3, ConcatProperties
    <3>2. Len(a) = n /\ Len(b) = x.left - n /\ n + (x.left - n) = x.left
      BY <1>1, <1>2, <2>2, <2>3
    <3>. QED
      BY <3>1, <3>2
  <2>5. ASSUME Exact(inode, x), NEW k \in 1 .. x.left
        PROVE  (a \o b)[k] = ByteAt(inode, Position(x) + k - 1)
    <3>1. CASE k <= n
      <4>1. k \in 1 .. n /\ Position(x) = x.i * BLOCK + x.off
        BY <1>2, <3>1 DEF Position
      <4>2. Position(x) + n <= inode.length /\ x.off + n <= BLOCK
        <5>1. inode.length \in Nat
          BY InodeFacts
        <5>2. ASSUME NEW at \in Nat, at + x.left <= inode.length
              PROVE  at + n <= inode.length
          BY <1>1, <1>2, <5>1, <5>2
        <5>3. Position(x) + n <= inode.length
          BY <1>1, <5>2
        <5>. QED
          BY <1>6, <5>3
      <4>3. a[k] = ByteAt(inode, Position(x) + k - 1)
        BY <1>1, <1>2, <4>1, <4>2, CopiesTheFile DEF a
      <4>. QED
        BY <2>4, <3>1, <4>3
    <3>2. CASE ~ (k <= n)
      <4>1. k - n \in 1 .. x.left - n /\ Position(x) + n + (k - n) - 1 = Position(x) + k - 1
        BY <1>1, <1>2, <3>2
      <4>2. b[k - n] = ByteAt(inode, Position(y) + (k - n) - 1)
        BY <1>2, <2>5, <4>1 DEF Copies, b, y
      <4>. QED
        BY <1>2, <2>4, <3>2, <4>1, <4>2
    <3>. QED
      BY <3>1, <3>2
  <2>. QED
    BY <2>1, <2>4, <2>5 DEF Copies
<1>. QED
  BY <1>4, <1>5

LEMMA CopyLoop ==
    ASSUME NEW inode, IsInode(inode), NEW copy, IsCopy(inode, copy),
           NEW x \in Loops, Counted(inode, x)
    PROVE  Copies(inode, x, copy[x])
<1>. DEFINE Rounds(z) == IF z.blocks > 0 THEN z.blocks ELSE 0
            N == Rounds(x)
            S == {m \in 0 .. N : \A z \in Loops :
                    Counted(inode, z) /\ Rounds(z) = m => Copies(inode, z, copy[z])}
<1>1. \A z \in Loops : z.blocks \in Int /\ Rounds(z) \in Nat
  BY LoopFacts
<1>2. 0 \in S
  <2>1. ASSUME NEW z \in Loops, Counted(inode, z), Rounds(z) = 0
        PROVE  Copies(inode, z, copy[z])
    BY <1>1, <2>1, LastCopy
  <2>. QED
    BY <1>1, <2>1
<1>3. \A m \in 0 .. N : m \in S /\ m < N => m + 1 \in S
  <2>. SUFFICES ASSUME NEW m \in 0 .. N, m \in S, m < N,
                       NEW z \in Loops, Counted(inode, z), Rounds(z) = m + 1
                PROVE  Copies(inode, z, copy[z])
    BY <1>1
  <2>1. z.blocks > 0 /\ z.blocks = m + 1
    BY <1>1
  <2>2. /\ NextBlock(z) \in Loops /\ Counted(inode, NextBlock(z))
        /\ NextBlock(z).blocks = z.blocks - 1
    BY <2>1, NextCounted, LoopFacts
  <2>3. Rounds(NextBlock(z)) = m
    BY <2>1, <2>2
  <2>. HIDE DEF Rounds
  <2>4. Copies(inode, NextBlock(z), copy[NextBlock(z)])
    BY <2>2, <2>3
  <2>. QED
    BY <2>1, <2>4, BlockCopy
<1>4. N \in Nat
  BY <1>1
<1>. HIDE DEF S, N
<1>5. N \in S
  BY <1>2, <1>3, <1>4, CountingUp
<1>. QED
  BY <1>5 DEF S, N

-----------------------------------------------------------------------------
(* What the loop begins with.                                              *)

(* The bytes of a file from an offset on, and where the loop begins.       *)
Begins(inode, o, length, n, s, off, count) ==
    /\ n = BytesRead(inode, o, length) /\ s = Skipped(o)
    /\ count = BlockCount(inode, o, length)
    /\ off = o - BLOCK * Skipped(o)
    /\ o + n <= inode.length /\ s * BLOCK + off = o /\ off <= BLOCK
    /\ count * BLOCK <= o + n
    /\ CountsFromTheStart(inode, o, length) => o + n < count * BLOCK + BLOCK

LEMMA Beginning ==
    ASSUME NEW inode, IsInode(inode), NEW o \in Nat, o <= inode.length, NEW length \in Nat
    PROVE  \E n, s, off, count \in Nat : Begins(inode, o, length, n, s, off, count)
<1>. DEFINE n == BytesRead(inode, o, length)
            s == Skipped(o)
            off == o - BLOCK * Skipped(o)
            count == BlockCount(inode, o, length)
            b == BLOCK
<1>1. inode.length \in Nat /\ BLOCK \in Nat \ {0}
  BY InodeFacts
<1>2. n \in Nat /\ o + n <= inode.length
  BY <1>1 DEF BytesRead, Clipped
<1>3. s \in Nat /\ off \in Nat /\ s * BLOCK + off = o /\ off <= BLOCK
  <2>1. CASE o = 0
    BY <1>1, <2>1 DEF Skipped
  <2>2. CASE o # 0
    <3>1. o - 1 \in Nat /\ Skipped(o) = (o - 1) \div b
      BY <2>2 DEF Skipped
    <3>2. PICK q \in Nat, r \in Nat : q = (o - 1) \div b /\ r < b /\ o - 1 = q * b + r
      BY <1>1, <3>1, Division
    <3>3. Skipped(o) = q /\ b * q = q * b /\ q * b \in Nat
      BY <1>1, <3>1, <3>2
    <3>4. off = r + 1
      BY <1>1, <3>2, <3>3
    <3>5. r + 1 <= BLOCK
      BY <1>1, <3>2
    <3>. HIDE DEF off
    <3>. QED
      BY <1>1, <3>2, <3>3, <3>4, <3>5
  <2>. QED
    BY <2>1, <2>2
<1>4. /\ count \in Nat /\ count * BLOCK <= o + n
      /\ CountsFromTheStart(inode, o, length) => o + n < count * BLOCK + BLOCK
  <2>. DEFINE m == IF Clipped(inode, o, length) THEN inode.length - o ELSE o + length
  <2>1. /\ m \in Nat /\ m <= o + n
        /\ CountsFromTheStart(inode, o, length) => m = o + n
    BY <1>1 DEF BytesRead, Clipped, CountsFromTheStart
  <2>2. count = m \div b
    BY DEF BlockCount
  <2>. HIDE DEF m
  <2>3. PICK q \in Nat, r \in Nat : q = m \div b /\ r < b /\ m = q * b + r
    BY <1>1, <2>1, Division
  <2>4. count = q /\ q * b \in Nat
    BY <1>1, <2>2, <2>3
  <2>. HIDE DEF count, n
  <2>5. q * b <= m /\ m < q * b + b
    BY <1>1, <2>3, <2>4
  <2>6. q * b <= o + n
    BY <1>1, <1>2, <2>1, <2>3, <2>4, <2>5
  <2>. QED
    BY <2>1, <2>3, <2>4, <2>5, <2>6
<1>5. Begins(inode, o, length, n, s, off, count)
  BY <1>2, <1>3, <1>4 DEF Begins
<1>. HIDE DEF n, s, off, count
<1>. QED
  BY <1>2, <1>3, <1>4, <1>5

LEMMA FirstCounted ==
    ASSUME NEW inode, IsInode(inode), NEW o \in Nat, o <= inode.length, NEW length \in Nat
    PROVE  LET x == FirstBlock(inode, o, length)
           IN  /\ x \in Loops /\ Counted(inode, x) /\ Position(x) = o
               /\ x.left = BytesRead(inode, o, length) /\ x.left \in Nat
<1>. DEFINE x == FirstBlock(inode, o, length)
<1>0. inode.length \in Nat /\ BLOCK \in Nat \ {0}
  BY InodeFacts
<1>9. PICK n \in Nat, s \in Nat, off \in Nat, count \in Nat :
             Begins(inode, o, length, n, s, off, count)
  BY Beginning
<1>1. /\ n = BytesRead(inode, o, length) /\ s = Skipped(o)
      /\ count = BlockCount(inode, o, length)
      /\ off = o - BLOCK * Skipped(o)
      /\ o + n <= inode.length /\ s * BLOCK + off = o /\ off <= BLOCK
      /\ count * BLOCK <= o + n
  BY <1>9 DEF Begins
<1>2. x = [left |-> n, blocks |-> count - s, off |-> off, i |-> s]
  BY <1>1 DEF FirstBlock
<1>3. /\ x \in Loops /\ x.left = n /\ x.blocks = count - s /\ x.off = off /\ x.i = s
  BY <1>2 DEF Loops
<1>. HIDE DEF x
<1>4. s * BLOCK \in Nat /\ count * BLOCK \in Nat
  BY <1>0
<1>5. Position(x) = o
  BY <1>1, <1>3 DEF Position
<1>6. x.i + x.blocks = count
  BY <1>3
<1>7. Counted(inode, x)
  BY <1>1, <1>3, <1>5, <1>6 DEF Counted
<1>8. x.left = BytesRead(inode, o, length) /\ x.left \in Nat
  BY <1>1, <1>3
<1>. QED
  BY <1>3, <1>5, <1>7, <1>8 DEF x

(* The read takes its bytes from one block.                                *)
InOneBlock(inode, o, length) ==
    /\ o % BLOCK # 0
    /\ o \div BLOCK = (o + BytesRead(inode, o, length) - 1) \div BLOCK

LEMMA ExactIs ==
    ASSUME NEW inode, NEW x
    PROVE  /\ x.blocks > 0 /\ Position(x) + x.left <= (x.i + x.blocks + 1) * BLOCK
                => Exact(inode, x)
           /\ ~ (x.blocks > 0) /\ x.off + x.left <= BLOCK => Exact(inode, x)
BY Zenon DEF Exact

LEMMA FirstExact ==
    ASSUME NEW inode, IsInode(inode), NEW o \in Nat, o <= inode.length, NEW length \in Nat,
           \/ CountsFromTheStart(inode, o, length)
           \/ BlocksFollowEachOther(inode)
           \/ InOneBlock(inode, o, length)
    PROVE  Exact(inode, FirstBlock(inode, o, length))
<1>. DEFINE x == FirstBlock(inode, o, length)
            b == BLOCK
<1>0. inode.length \in Nat /\ BLOCK \in Nat \ {0}
  BY InodeFacts
<1>9. PICK n \in Nat, s \in Nat, off \in Nat, count \in Nat :
             Begins(inode, o, length, n, s, off, count)
  BY Beginning
<1>1. /\ n = BytesRead(inode, o, length) /\ s = Skipped(o)
      /\ count = BlockCount(inode, o, length)
      /\ off = o - BLOCK * Skipped(o)
      /\ o + n <= inode.length /\ s * BLOCK + off = o /\ off <= BLOCK
      /\ count * BLOCK <= o + n
      /\ CountsFromTheStart(inode, o, length) => o + n < count * BLOCK + BLOCK
  BY <1>9 DEF Begins
<1>2. x = [left |-> n, blocks |-> count - s, off |-> off, i |-> s]
  BY <1>1 DEF FirstBlock
<1>3. x.left = n /\ x.blocks = count - s /\ x.off = off /\ x.i = s
  BY <1>2
<1>. SUFFICES Exact(inode, x)
  OBVIOUS
<1>. HIDE DEF x
<1>4. Position(x) = o /\ s * BLOCK \in Nat /\ count * BLOCK \in Nat
  BY <1>0, <1>1, <1>3 DEF Position
<1>5. x.i + x.blocks + 1 = count + 1 /\ (count + 1) * BLOCK = count * BLOCK + BLOCK
  BY <1>0, <1>3
<1>6. CASE CountsFromTheStart(inode, o, length)
  <2>1. o + n < count * BLOCK + BLOCK
    BY <1>1, <1>6
  <2>2. CASE x.blocks > 0
    <3>1. Position(x) + x.left <= (x.i + x.blocks + 1) * BLOCK
      <4>1. o + n <= count * BLOCK + BLOCK
        BY <1>0, <1>1, <1>4, <2>1
      <4>. QED
        BY <1>3, <1>4, <1>5, <4>1
    <3>. QED
      BY <2>2, <3>1, ExactIs
  <2>3. CASE ~ (x.blocks > 0)
    <3>1. count <= s
      BY <1>3, <2>3
    <3>2. count * BLOCK <= s * BLOCK
      BY <1>0, <3>1
    <3>3. off + n <= BLOCK
      BY <1>0, <1>1, <1>4, <2>1, <3>2
    <3>. QED
      BY <1>3, <2>3, <3>3, ExactIs
  <2>. QED
    BY <2>2, <2>3
<1>7. CASE InOneBlock(inode, o, length)
  <2>1. PICK q \in Nat, r \in Nat : q = o \div b /\ r = o % b /\ r < b /\ o = q * b + r
    BY <1>0, Division
  <2>2. r # 0 /\ q * b \in Nat /\ o + n - 1 \in Nat /\ o - 1 \in Nat /\ r - 1 \in Nat
    BY <1>0, <1>7, <2>1 DEF InOneBlock
  <2>3. PICK p \in Nat, t \in Nat : /\ p = (o + n - 1) \div b /\ t < b
                                    /\ o + n - 1 = p * b + t
    BY <1>0, <2>2, Division
  <2>4. p = q
    BY <1>1, <1>7, <2>1, <2>3 DEF InOneBlock
  <2>5. s = q
    <3>1. o - 1 = q * b + (r - 1) /\ r - 1 < b
      BY <1>0, <2>1, <2>2
    <3>2. (q * b + (r - 1)) \div b = q
      BY <1>0, <2>2, <3>1, DividedIs
    <3>3. (o - 1) \div b = q
      BY <3>1, <3>2
    <3>4. o # 0
      BY <2>2
    <3>. QED
      BY <1>1, <3>3, <3>4 DEF Skipped
  <2>6. off + n <= BLOCK /\ o + n <= s * BLOCK + BLOCK
    BY <1>0, <1>1, <1>4, <2>2, <2>3, <2>4, <2>5
  <2>7. CASE x.blocks > 0
    <3>1. s < count
      BY <1>3, <2>7
    <3>2. s * BLOCK + BLOCK <= count * BLOCK
      BY <1>0, <3>1, Products
    <3>3. o + n <= count * BLOCK + BLOCK
      BY <1>0, <1>4, <2>6, <3>2
    <3>4. Position(x) + x.left <= (x.i + x.blocks + 1) * BLOCK
      BY <1>3, <1>4, <1>5, <3>3
    <3>. QED
      BY <2>7, <3>4, ExactIs
  <2>8. CASE ~ (x.blocks > 0)
    BY <1>3, <2>6, <2>8, ExactIs
  <2>. QED
    BY <2>7, <2>8
<1>8. CASE BlocksFollowEachOther(inode)
  BY <1>8 DEF Exact
<1>. HIDE DEF b
<1>. QED
  BY <1>6, <1>7, <1>8

(* read_data.                                                              *)
LEMMA ReadDataIs ==
    ASSUME NEW inode, IsInode(inode), ~ TooBig(inode),
           NEW o \in Nat, o <= inode.length, NEW length \in Nat
    PROVE  LET n == BytesRead(inode, o, length)
               expected == FileBytes(inode, o, length)
           IN  /\ Len(ReadData(inode, o, length)) = n /\ Len(expected) = n
               /\ \/ CountsFromTheStart(inode, o, length)
                  \/ BlocksFollowEachOther(inode)
                  \/ InOneBlock(inode, o, length)
                  => ReadData(inode, o, length) = expected
<1>. DEFINE n == BytesRead(inode, o, length)
            expected == FileBytes(inode, o, length)
            x == FirstBlock(inode, o, length)
            copy == CHOOSE c : IsCopy(inode, c)
<1>1. inode.length \in Nat
  BY InodeFacts
<1>2. /\ x \in Loops /\ Counted(inode, x) /\ Position(x) = o /\ x.left = n /\ n \in Nat
  BY FirstCounted
<1>3. expected = [k \in 1 .. n |-> ByteAt(inode, o + k - 1)]
  <2>1. n = IF length < inode.length - o THEN length ELSE inode.length - o
    BY <1>1 DEF BytesRead, Clipped
  <2>. QED
    BY <2>1 DEF FileBytes
<1>4. Len(expected) = n
  <2>. HIDE DEF expected, n
  <2>. QED
    BY <1>2, <1>3
<1>5. CASE inode.length = o
  <2>1. ReadData(inode, o, length) = <<>>
    BY <1>5 DEF ReadData
  <2>2. n = 0
    BY <1>1, <1>5 DEF BytesRead, Clipped
  <2>3. expected = <<>>
    <3>. HIDE DEF expected, n
    <3>. QED
      BY <1>3, <2>2
  <2>. QED
    BY <1>4, <2>1, <2>2, <2>3
<1>6. CASE inode.length # o
  <2>1. IsCopy(inode, copy)
    BY CopyExists
  <2>2. ReadData(inode, o, length) = copy[x]
    BY <1>6, CopyBlocksIs DEF ReadData
  <2>3. Copies(inode, x, copy[x])
    <3>. HIDE DEF copy, x
    <3>. QED
      BY <1>2, <2>1, CopyLoop
  <2>4. Len(copy[x]) = n /\ copy[x] \in Seq(Bytes(inode))
    BY <1>2, <2>3 DEF Copies
  <2>5. ASSUME \/ CountsFromTheStart(inode, o, length)
               \/ BlocksFollowEachOther(inode)
               \/ InOneBlock(inode, o, length)
        PROVE  copy[x] = expected
    <3>1. Exact(inode, x)
      BY <2>5, FirstExact
    <3>. HIDE DEF copy, x, n, expected
    <3>2. \A k \in 1 .. n : copy[x][k] = ByteAt(inode, o + k - 1)
      BY <1>2, <2>3, <3>1 DEF Copies
    <3>3. copy[x] = [k \in 1 .. n |-> copy[x][k]]
      BY <1>2, <2>4
    <3>. QED
      BY <1>3, <3>2, <3>3
  <2>. QED
    BY <1>4, <2>2, <2>4, <2>5
<1>. QED
  BY <1>5, <1>6

-----------------------------------------------------------------------------
(* The calls of MCFunctions: what is called keeps to its inputs, and what  *)
(* it gives stays.                                                         *)

(* The files are inodes, and none is too big for one.                      *)
LEMMA InodesAre == \A inode \in Inodes : IsInode(inode) /\ ~ TooBig(inode)
<1>. SUFFICES ASSUME NEW inode \in Inodes PROVE IsInode(inode) /\ ~ TooBig(inode)
  OBVIOUS
<1>1. /\ inode.length \in 0 .. MaxLength /\ inode.blocks \in Layouts /\ ~ TooBig(inode)
  BY DEF Inodes
<1>2. inode.blocks \in [1 .. INODE_BLOCKS -> 0 .. MaxBlock]
  BY <1>1 DEF Layouts
<1>3. MaxBlock \in Nat /\ MaxLength \in Nat /\ INODE_BLOCKS \in Nat /\ BLOCK \in Nat \ {0}
  BY BoundsAssumption, FileDataAssumption
<1>4. inode.blocks \in Seq(Nat) /\ Len(inode.blocks) = INODE_BLOCKS
  <2>1. inode.blocks \in [1 .. INODE_BLOCKS -> Nat]
    BY <1>2, <1>3
  <2>. QED
    BY <1>3, <2>1
<1>5. inode.length \in Nat
  BY <1>1, <1>3
<1>6. INODE_BLOCKS * BLOCK = BLOCK * INODE_BLOCKS /\ BLOCK * INODE_BLOCKS \in Nat
  BY <1>3
<1>7. INODE_BLOCKS * BLOCK >= inode.length
  BY <1>1, <1>5, <1>6 DEF TooBig
<1>. QED
  BY <1>1, <1>4, <1>5, <1>7 DEF IsInode

(* The arguments of the calls that the theorems speak of.                  *)
Arguments ==
    /\ call.f = "read_data" =>
         \E inode \in Inodes, length \in 0 .. MaxRequest :
            \E offset \in 0 .. inode.length :
              call = [f |-> "read_data", inode |-> inode,
                      offset |-> offset, length |-> length]
    /\ call.f = "name" =>
         \E n \in 0 .. NAME_SIZE, nbytes \in 0 .. NAME_SIZE + 2 :
            call = [f |-> "name", name |-> [k \in 1 .. n |-> k], nbytes |-> nbytes]
    /\ call.f = "execute" =>
         call.cmd \in CommandLines /\ call.nbytes \in {LINE_BUFFER, LINE_BUFFER + 2}
    /\ call.f = "emulate" => call.cmd \in HostLines /\ call.nbytes \in 0 .. MaxHostLine + 1
    /\ call.f = "child" => call.cmd \in HostLines /\ call.child \in Children
    /\ call.f = "host" => \E calls \in HostRuns : call = [f |-> "host", calls |-> calls]
    /\ call.f = "do_call" => call.eax \in 0 .. WORD - 1
    /\ call.f = "vidmap" => call.screen_start \in 0 .. MEM_132MB + MEM_128MB
    /\ call.f = "syscall" => call.eax \in -2 .. 12
    /\ call.f = "keys" => call.codes \in CodeSequences

(* What they have returned.                                                *)
Answers ==
    /\ Called("read_data") => result = ReadData(call.inode, call.offset, call.length)
    /\ Called("name") =>
         result = [kernel |-> read_dir(call.name, NAME_SIZE, Nul),
                   host   |-> ReadEntry(call.name, call.nbytes)]
    /\ Called("execute") =>
         result = [name |-> NameOf(call.cmd),
                   args |-> Getargs(ArgsOf(call.cmd), call.nbytes)]
    /\ Called("emulate") =>
         result = [argv |-> Argv(call.cmd),
                   got  |-> ece391_getargs(Argv(call.cmd), call.nbytes)]
    /\ Called("child") => result = ece391_execute(call.cmd, call.child)
    /\ Called("host") => result = HostRun(call.calls)
    /\ Called("do_call") => result = DO_CALL(call.eax)
    /\ Called("vidmap") => result = VidmapAccepts(call.screen_start)
    /\ Called("syscall") => result = Dispatch(call.eax)
    /\ Called("keys") => result = Typed(call.codes)

CallsInv == Arguments /\ Answers

LEMMA InitCalls == CallInit => CallsInv
BY DEF CallInit, CallsInv, Arguments, Answers, Called

(* A step is the one call there is.                                        *)
LEMMA CallSteps ==
    ASSUME CallNext
    PROVE  /\ UNCHANGED call /\ called' = TRUE /\ ~ called
           /\ call.f = "read_data" => CallReadData
           /\ call.f = "name" => CallName
           /\ call.f = "execute" => CallExecute
           /\ call.f = "emulate" => CallEmulate
           /\ call.f = "child" => CallChild
           /\ call.f = "host" => CallHost
           /\ call.f = "do_call" => CallDoCall
           /\ call.f = "vidmap" => CallVidmap
           /\ call.f = "syscall" => CallSyscall
           /\ call.f = "keys" => CallKeys
BY DEF CallNext, Return, CallReadData, CallMemcpy, CallMemmove, CallMemset, CallMemsetUnits,
   CallStrings, CallItoa, CallPrintf, CallExecute, CallVidmap, CallSyscall, CallKeys,
   CallGrep, CallEmulate, CallChild, CallName, CallHost, CallDoCall, CallUserMemcpy,
   CallUserMemset

LEMMA NextCalls == CallsInv /\ [CallNext]_callVars => CallsInv'
<1>. SUFFICES ASSUME CallsInv, [CallNext]_callVars PROVE CallsInv'
  OBVIOUS
<1>1. CASE CallNext
  <2>1. /\ UNCHANGED call /\ called' = TRUE /\ ~ called
        /\ call.f = "read_data" => CallReadData
        /\ call.f = "name" => CallName
        /\ call.f = "execute" => CallExecute
        /\ call.f = "emulate" => CallEmulate
        /\ call.f = "child" => CallChild
        /\ call.f = "host" => CallHost
        /\ call.f = "do_call" => CallDoCall
        /\ call.f = "vidmap" => CallVidmap
        /\ call.f = "syscall" => CallSyscall
        /\ call.f = "keys" => CallKeys
    BY <1>1, CallSteps
  <2>2. Arguments'
    BY <2>1 DEF CallsInv, Arguments
  <2>3. Answers'
    BY <2>1 DEF Answers, Called, CallReadData, CallName, CallExecute, CallEmulate,
       CallChild, CallHost, CallDoCall, CallVidmap, CallSyscall, CallKeys, Return
  <2>. QED
    BY <2>2, <2>3 DEF CallsInv
<1>2. CASE UNCHANGED callVars
  BY <1>2 DEF callVars, CallsInv, Arguments, Answers, Called
<1>. QED
  BY <1>1, <1>2

LEMMA CallsInvHolds == CallSpec => []CallsInv
BY InitCalls, NextCalls, PTL DEF CallSpec

-----------------------------------------------------------------------------
(* The functions of the kernel and of the host that read the directory.    *)
LEMMA LeastOf ==
    ASSUME NEW S \in SUBSET Int, NEW m \in S, \A k \in S : m <= k
    PROVE  Min(S) = m
<1>1. \A x \in S : (\A y \in S : x <= y) => x = m
  OBVIOUS
<1>2. Min(S) \in S /\ \A y \in S : Min(S) <= y
  BY Zenon DEF Min
<1>. QED
  BY <1>1, <1>2

LEMMA GreatestOf ==
    ASSUME NEW S \in SUBSET Int, NEW m \in S, \A k \in S : k <= m
    PROVE  Max(S) = m
<1>1. \A x \in S : (\A y \in S : x >= y) => x = m
  OBVIOUS
<1>2. Max(S) \in S /\ \A y \in S : Max(S) >= y
  <2>1. \A y \in S : m >= y
    OBVIOUS
  <2>. QED
    BY <2>1, Zenon DEF Max
<1>. QED
  BY <1>1, <1>2

LEMMA DirectoryHolds == CallsInv => DirectoryGivesNames
<1>. SUFFICES ASSUME CallsInv, Called("name")
              PROVE  LET room == Min({call.nbytes, NAME_SIZE})
                     IN  /\ call.nbytes >= NAME_SIZE => result.host = result.kernel
                         /\ room > 0 => result.host = SubSeq(result.kernel, 1, room)
  BY DEF DirectoryGivesNames
<1>1. PICK n \in 0 .. NAME_SIZE, nbytes \in 0 .. NAME_SIZE + 2 :
            call = [f |-> "name", name |-> [k \in 1 .. n |-> k], nbytes |-> nbytes]
  BY DEF CallsInv, Arguments, Called
<1>. DEFINE name == [k \in 1 .. n |-> k]
            room == IF nbytes < NAME_SIZE THEN nbytes ELSE NAME_SIZE
            copied == IF nbytes = 0 THEN n ELSE IF n < nbytes THEN n ELSE nbytes
            filled == IF copied < room THEN room ELSE copied
<1>2. NAME_SIZE \in Nat \ {0} /\ n \in Nat /\ nbytes \in Nat /\ n <= NAME_SIZE
  BY EmulateAssumption
<1>3. call.nbytes = nbytes /\ call.name = name /\ Len(name) = n
  BY <1>1, <1>2
<1>4. /\ result.kernel = read_dir(name, NAME_SIZE, Nul)
      /\ result.host = ReadEntry(name, nbytes)
  BY <1>3 DEF CallsInv, Answers
<1>. HIDE DEF name
<1>5. Min({nbytes, NAME_SIZE}) = room
  <2>. DEFINE S == {nbytes, NAME_SIZE}
  <2>1. S \in SUBSET Int /\ room \in S /\ \A k \in S : room <= k
    BY <1>2
  <2>. HIDE DEF S, room
  <2>2. Min(S) = room
    BY <2>1, LeastOf
  <2>. QED
    BY <2>2 DEF S
<1>6. Min({Len(name), NAME_SIZE} \cup ({nbytes} \ {0})) = copied
  <2>. DEFINE S == {n, NAME_SIZE} \cup ({nbytes} \ {0})
  <2>1. S \in SUBSET Int /\ copied \in S /\ \A k \in S : copied <= k
    BY <1>2
  <2>. HIDE DEF S, copied
  <2>2. Min(S) = copied
    BY <2>1, LeastOf
  <2>. QED
    BY <1>3, <2>2 DEF S
<1>7. Max({copied, room}) = filled
  <2>. DEFINE S == {copied, room}
  <2>1. S \in SUBSET Int /\ filled \in S /\ \A k \in S : k <= filled
    BY <1>2
  <2>. HIDE DEF S, filled
  <2>2. Max(S) = filled
    BY <2>1, GreatestOf
  <2>. QED
    BY <2>2 DEF S
<1>8. result.host = [k \in 1 .. filled |-> IF k <= copied THEN name[k] ELSE Nul]
  BY <1>4, <1>5, <1>6, <1>7 DEF ReadEntry
<1>9. result.kernel = [k \in 1 .. NAME_SIZE |-> IF k <= n THEN name[k] ELSE Nul]
  BY <1>3, <1>4 DEF read_dir
<1>10. CASE nbytes >= NAME_SIZE
  <2>1. room = NAME_SIZE /\ copied = n /\ filled = NAME_SIZE
    BY <1>2, <1>10
  <2>2. result.host = result.kernel
    BY <1>8, <1>9, <2>1, ZenonT(40)
  <2>3. SubSeq(result.kernel, 1, NAME_SIZE) = result.kernel
    BY <1>2, <1>9
  <2>. QED
    BY <1>3, <1>5, <2>1, <2>2, <2>3
<1>11. CASE nbytes < NAME_SIZE /\ nbytes > 0
  <2>1. room = nbytes /\ filled = nbytes /\ copied = IF n < nbytes THEN n ELSE nbytes
    BY <1>2, <1>11
  <2>2. SubSeq(result.kernel, 1, nbytes) = [k \in 1 .. nbytes |-> IF k <= n THEN name[k] ELSE Nul]
    BY <1>2, <1>9, <1>11
  <2>3. result.host = SubSeq(result.kernel, 1, nbytes)
    BY <1>2, <1>8, <2>1, <2>2
  <2>4. ~ (nbytes >= NAME_SIZE)
    BY <1>2, <1>11
  <2>. QED
    BY <1>3, <1>5, <2>1, <2>3, <2>4
<1>12. CASE nbytes = 0
  <2>1. room = 0 /\ ~ (nbytes >= NAME_SIZE) /\ ~ (room > 0)
    BY <1>2, <1>12
  <2>. HIDE DEF room
  <2>. QED
    BY <1>3, <1>5, <2>1
<1>13. nbytes >= NAME_SIZE \/ (nbytes < NAME_SIZE /\ nbytes > 0) \/ nbytes = 0
  BY <1>2
<1>. QED
  BY <1>10, <1>11, <1>12, <1>13, Zenon

LEMMA DataHolds == CallsInv => DataIsTheFile
<1>. SUFFICES ASSUME CallsInv, Called("read_data")
     PROVE  LET expected == FileBytes(call.inode, call.offset, call.length)
                last     == call.offset + Len(expected) - 1
            IN  /\ Len(result) = Len(expected)
                /\ \/ CountsFromTheStart(call.inode, call.offset, call.length)
                   \/ BlocksFollowEachOther(call.inode)
                   \/ call.offset % BLOCK # 0 /\ call.offset \div BLOCK = last \div BLOCK
                   => result = expected
  BY DEF DataIsTheFile
<1>0. PICK inode \in Inodes, length \in 0 .. MaxRequest :
        \E offset \in 0 .. inode.length :
            call = [f |-> "read_data", inode |-> inode, offset |-> offset, length |-> length]
  BY DEF CallsInv, Arguments, Called
<1>1. PICK offset \in 0 .. inode.length :
            call = [f |-> "read_data", inode |-> inode, offset |-> offset, length |-> length]
  BY <1>0
<1>2. call.inode = inode /\ call.offset = offset /\ call.length = length
  BY <1>1
<1>3. result = ReadData(inode, offset, length)
  BY <1>2 DEF CallsInv, Answers
<1>4. IsInode(inode) /\ ~ TooBig(inode)
  BY InodesAre
<1>5. inode.length \in Nat
  BY <1>4, InodeFacts
<1>6. offset \in Nat /\ offset <= inode.length /\ length \in Nat
  BY <1>5, BoundsAssumption
<1>. QED
  BY <1>2, <1>3, <1>4, <1>6, ReadDataIs DEF InOneBlock

(* fs.c: reads of files and of the directory return what is stored there,  *)
(* for every size of a block and of an inode, every placement of the       *)
(* blocks of a file, every offset and every length: read_data's count of   *)
(* blocks, skip and last partial copy come out right, within the limits    *)
(* DataIsTheFile names, and the number of bytes is right without them.     *)
THEOREM ReadsGiveTheFile == CallSpec => []ReadsReturnTheFile
<1>1. CallsInv => ReadsReturnTheFile
  BY DataHolds, DirectoryHolds DEF ReadsReturnTheFile
<1>. QED
  BY <1>1, CallsInvHolds, PTL

-----------------------------------------------------------------------------
(* The descriptors of a program emulated on a host.                        *)

(* The descriptors of a host are some numbers from 3 on.                   *)
Fds     == {n \in Nat : n >= 3}
FdSets  == {fds \in SUBSET Fds : IsFiniteSet(fds)}
Hosts   == [open : FdSets, dir : Fds \cup {NONE}, dir_fd : Fds \cup {-1}, mem_fd : Fds \cup {-1}]
Holds   == [fd : Fds, name : {".", "f"}]
Runs    == [h : Hosts, held : SUBSET Holds, polite : BOOLEAN]

(* The host gives a descriptor that is not open.                           *)
LEMMA HostFdIs ==
    ASSUME NEW fds \in FdSets
    PROVE  /\ HostFd(fds) \in Fds /\ HostFd(fds) \notin fds
           /\ fds \cup {HostFd(fds)} \in FdSets
<1>. DEFINE n == Cardinality(fds)
            free == {fd \in 3 .. 4 + n : fd \notin fds}
<1>1. fds \in SUBSET Fds /\ IsFiniteSet(fds) /\ n \in Nat
  BY FS_CardinalityType DEF FdSets
<1>2. free # {}
  <2>. SUFFICES ASSUME free = {} PROVE FALSE
    OBVIOUS
  <2>1. 3 .. 4 + n \in SUBSET fds
    OBVIOUS
  <2>2. Cardinality(3 .. 4 + n) <= n
    BY <1>1, <2>1, FS_Subset
  <2>. HIDE DEF n
  <2>3. Cardinality(3 .. 4 + n) = n + 2
    BY <1>1, FS_Interval
  <2>. QED
    BY <1>1, <2>2, <2>3
<1>3. free \in SUBSET Nat
  BY <1>1
<1>4. PICK m \in free : \A k \in free : m <= k
  <2>. HIDE DEF free
  <2>. QED
    BY <1>2, <1>3, LeastNumber
<1>5. HostFd(fds) = m
  <2>. HIDE DEF free
  <2>1. Min(free) = m
    <3>1. free \in SUBSET Int
      BY <1>3
    <3>. QED
      BY <1>4, <3>1, LeastOf
  <2>. QED
    BY <2>1 DEF HostFd, free
<1>6. m \in Fds /\ m \notin fds
  BY <1>1, <1>4 DEF Fds
<1>7. fds \cup {m} \in FdSets
  <2>1. IsFiniteSet(fds \cup {m})
    BY <1>1, FS_AddElement
  <2>. QED
    BY <1>1, <1>6, <2>1 DEF FdSets
<1>. QED
  BY <1>5, <1>6, <1>7

LEMMA FdsRemoved ==
    ASSUME NEW fds \in FdSets, NEW gone
    PROVE  fds \ gone \in FdSets
<1>1. fds \in SUBSET Fds /\ IsFiniteSet(fds)
  BY DEF FdSets
<1>2. IsFiniteSet(fds \ gone)
  BY <1>1, FS_Difference
<1>. QED
  BY <1>1, <1>2 DEF FdSets

LEMMA HostFields ==
    ASSUME NEW h \in Hosts
    PROVE  /\ h.open \in FdSets /\ h.open \subseteq Fds
           /\ h.dir \in Fds \cup {NONE} /\ h.dir_fd \in Fds \cup {-1}
           /\ h.mem_fd \in Fds \cup {-1}
           /\ h = [open |-> h.open, dir |-> h.dir, dir_fd |-> h.dir_fd, mem_fd |-> h.mem_fd]
BY DEF Hosts, FdSets

LEMMA OpenDirIs ==
    ASSUME NEW h \in Hosts
    PROVE  \E stream, fd \in Fds :
              /\ stream \notin h.open /\ fd \notin h.open /\ fd # stream
              /\ OpenDir(h) = [open |-> h.open \cup {stream, fd}, dir |-> stream,
                               dir_fd |-> fd, mem_fd |-> h.mem_fd]
              /\ OpenDir(h) \in Hosts
<1>. DEFINE stream == HostFd(h.open)
            fd == HostFd(h.open \cup {stream})
<1>1. /\ h.open \in FdSets /\ h.mem_fd \in Fds \cup {-1}
      /\ h = [open |-> h.open, dir |-> h.dir, dir_fd |-> h.dir_fd, mem_fd |-> h.mem_fd]
  BY HostFields
<1>2. stream \in Fds /\ stream \notin h.open /\ h.open \cup {stream} \in FdSets
  BY <1>1, HostFdIs
<1>3. fd \in Fds /\ fd \notin h.open \cup {stream} /\ (h.open \cup {stream}) \cup {fd} \in FdSets
  BY <1>2, HostFdIs
<1>4. OpenDir(h) = [h EXCEPT !.open = @ \cup {stream, fd}, !.dir = stream, !.dir_fd = fd]
  BY DEF OpenDir
<1>. HIDE DEF stream, fd
<1>5. (h.open \cup {stream}) \cup {fd} = h.open \cup {stream, fd}
  OBVIOUS
<1>6. OpenDir(h) = [open |-> h.open \cup {stream, fd}, dir |-> stream,
                    dir_fd |-> fd, mem_fd |-> h.mem_fd]
  BY <1>1, <1>4
<1>7. OpenDir(h) \in Hosts
  BY <1>1, <1>2, <1>3, <1>5, <1>6 DEF Hosts
<1>. QED
  BY <1>2, <1>3, <1>6, <1>7

LEMMA OpenHostIs ==
    ASSUME NEW h \in Hosts
    PROVE  LET fd == HostFd(h.open)
           IN  /\ fd \in Fds /\ fd \notin h.open
               /\ OpenHost(h) = [open |-> h.open \cup {fd}, dir |-> h.dir,
                                 dir_fd |-> h.dir_fd, mem_fd |-> h.mem_fd]
               /\ OpenHost(h) \in Hosts
<1>. DEFINE fd == HostFd(h.open)
<1>1. /\ h.open \in FdSets /\ h.mem_fd \in Fds \cup {-1} /\ h.dir \in Fds \cup {NONE}
      /\ h.dir_fd \in Fds \cup {-1}
      /\ h = [open |-> h.open, dir |-> h.dir, dir_fd |-> h.dir_fd, mem_fd |-> h.mem_fd]
  BY HostFields
<1>2. fd \in Fds /\ fd \notin h.open /\ h.open \cup {fd} \in FdSets
  BY <1>1, HostFdIs
<1>3. OpenHost(h) = [h EXCEPT !.open = @ \cup {fd}]
  BY DEF OpenHost
<1>. HIDE DEF fd
<1>4. OpenHost(h) = [open |-> h.open \cup {fd}, dir |-> h.dir,
                     dir_fd |-> h.dir_fd, mem_fd |-> h.mem_fd]
  BY <1>1, <1>3
<1>5. OpenHost(h) \in Hosts
  BY <1>1, <1>2, <1>4 DEF Hosts
<1>. QED
  BY <1>2, <1>4, <1>5 DEF fd

LEMMA HostRemade ==
    ASSUME NEW h \in Hosts, NEW open, NEW dir, NEW fd
    PROVE  [h EXCEPT !.open = open, !.dir = dir, !.dir_fd = fd] =
             [open |-> open, dir |-> dir, dir_fd |-> fd, mem_fd |-> h.mem_fd]
<1>. DEFINE T == {open, dir, fd, h.open, h.dir, h.dir_fd, h.mem_fd}
            g == [h EXCEPT !.open = open, !.dir = dir, !.dir_fd = fd]
<1>1. h \in [open : T, dir : T, dir_fd : T, mem_fd : T]
  BY HostFields
<1>2. open \in T /\ dir \in T /\ fd \in T
  OBVIOUS
<1>. HIDE DEF T
<1>3. g \in [open : T, dir : T, dir_fd : T, mem_fd : T]
  BY <1>1, <1>2
<1>4. g.open = open /\ g.dir = dir /\ g.dir_fd = fd /\ g.mem_fd = h.mem_fd
  BY <1>1
<1>. HIDE DEF g
<1>5. g = [open |-> open, dir |-> dir, dir_fd |-> fd, mem_fd |-> h.mem_fd]
  BY <1>3, <1>4
<1>. QED
  BY <1>5 DEF g

LEMMA CloseIs ==
    ASSUME NEW h \in Hosts, NEW fd
    PROVE  /\ ece391_close(h, fd) \in Hosts
           /\ ece391_close(h, fd) =
                IF ReachesDirectory(h, fd)
                  THEN [open |-> h.open \ {h.dir, h.dir_fd}, dir |-> NONE,
                        dir_fd |-> -1, mem_fd |-> h.mem_fd]
                  ELSE [open |-> h.open \ {fd}, dir |-> h.dir,
                        dir_fd |-> h.dir_fd, mem_fd |-> h.mem_fd]
<1>1. /\ h.open \in FdSets /\ h.mem_fd \in Fds \cup {-1} /\ h.dir \in Fds \cup {NONE}
      /\ h.dir_fd \in Fds \cup {-1}
      /\ h = [open |-> h.open, dir |-> h.dir, dir_fd |-> h.dir_fd, mem_fd |-> h.mem_fd]
  BY HostFields
<1>2. h.open \ {h.dir, h.dir_fd} \in FdSets /\ h.open \ {fd} \in FdSets
  BY <1>1, FdsRemoved
<1>3. ece391_close(h, fd) =
                IF ReachesDirectory(h, fd)
                  THEN [open |-> h.open \ {h.dir, h.dir_fd}, dir |-> NONE,
                        dir_fd |-> -1, mem_fd |-> h.mem_fd]
                  ELSE [open |-> h.open \ {fd}, dir |-> h.dir,
                        dir_fd |-> h.dir_fd, mem_fd |-> h.mem_fd]
  <2>1. CASE ReachesDirectory(h, fd)
    <3>1. ece391_close(h, fd) =
            [h EXCEPT !.open = @ \ {h.dir, h.dir_fd}, !.dir = NONE, !.dir_fd = -1]
      BY <2>1 DEF ece391_close
    <3>. DEFINE left == h.open \ {h.dir, h.dir_fd}
    <3>. HIDE DEF left
    <3>2. \A none : [h EXCEPT !.open = left, !.dir = NONE, !.dir_fd = none] =
            [open |-> left, dir |-> NONE, dir_fd |-> none, mem_fd |-> h.mem_fd]
      BY HostRemade
    <3>3. ece391_close(h, fd) = [open |-> left, dir |-> NONE, dir_fd |-> -1, mem_fd |-> h.mem_fd]
      BY <3>1, <3>2 DEF left
    <3>. QED
      BY <2>1, <3>3 DEF left
  <2>2. CASE ~ ReachesDirectory(h, fd)
    <3>1. ece391_close(h, fd) = [h EXCEPT !.open = @ \ {fd}]
      BY <2>2 DEF ece391_close
    <3>2. [h EXCEPT !.open = @ \ {fd}] =
            [open |-> h.open \ {fd}, dir |-> h.dir, dir_fd |-> h.dir_fd, mem_fd |-> h.mem_fd]
      BY <1>1
    <3>. QED
      BY <2>2, <3>1, <3>2
  <2>. QED
    BY <2>1, <2>2
<1>. QED
  BY <1>1, <1>2, <1>3 DEF Hosts

LEMMA VidmapIs ==
    ASSUME NEW h \in Hosts
    PROVE  LET fd == HostFd(h.open)
           IN  /\ fd \in Fds /\ fd \notin h.open
               /\ ece391_vidmap(h) \in Hosts
               /\ ece391_vidmap(h) =
                    IF h.mem_fd # -1 THEN h
                    ELSE [open |-> h.open \cup {fd}, dir |-> h.dir,
                          dir_fd |-> h.dir_fd, mem_fd |-> fd]
<1>. DEFINE fd == HostFd(h.open)
<1>1. /\ h.open \in FdSets /\ h.mem_fd \in Fds \cup {-1} /\ h.dir \in Fds \cup {NONE}
      /\ h.dir_fd \in Fds \cup {-1}
      /\ h = [open |-> h.open, dir |-> h.dir, dir_fd |-> h.dir_fd, mem_fd |-> h.mem_fd]
  BY HostFields
<1>2. fd \in Fds /\ fd \notin h.open /\ h.open \cup {fd} \in FdSets
  BY <1>1, HostFdIs
<1>3. ece391_vidmap(h) =
        IF h.mem_fd # -1 THEN h ELSE [h EXCEPT !.open = @ \cup {fd}, !.mem_fd = fd]
  BY DEF ece391_vidmap
<1>. HIDE DEF fd
<1>4. ece391_vidmap(h) =
        IF h.mem_fd # -1 THEN h
        ELSE [open |-> h.open \cup {fd}, dir |-> h.dir, dir_fd |-> h.dir_fd, mem_fd |-> fd]
  BY <1>1, <1>3
<1>5. ece391_vidmap(h) \in Hosts
  BY <1>1, <1>2, <1>4 DEF Hosts
<1>. QED
  BY <1>2, <1>4, <1>5 DEF fd

(* A host that is as the program that holds some descriptors left it.      *)
Tidy(h, held) ==
    /\ h.open = {x.fd : x \in held} \cup ({h.dir, h.mem_fd} \ {NONE})
    /\ \A x, y \in held : x.fd = y.fd => x = y
    /\ \A x \in held : x.fd # h.dir /\ x.fd # h.mem_fd
    /\ \A x \in held : x.name = "." <=> h.dir # NONE /\ x.fd = h.dir_fd
    /\ h.dir # NONE => h.dir # h.mem_fd /\ \E x \in held : x.fd = h.dir_fd

LEMMA OpenTidy ==
    ASSUME NEW h \in Hosts, NEW held \in SUBSET Holds, NEW name \in {".", "f"}
    PROVE  LET now == held \cup {[fd |-> Opened(h, name), name |-> name]}
           IN  /\ ece391_open(h, name) \in Hosts /\ now \in SUBSET Holds
               /\ Tidy(h, held) /\ ~(name = "." /\ \E x \in held : x.name = ".")
                    => Tidy(ece391_open(h, name), now)
<1>0. NONE = -1 /\ NONE \notin Fds
  BY DEF NONE, Fds
<1>1. /\ h.open \subseteq Fds /\ h.dir \in Fds \cup {NONE} /\ h.mem_fd \in Fds \cup {-1}
      /\ h.dir_fd \in Fds \cup {-1}
  BY HostFields
<1>2. \A x \in held : x.fd \in Fds /\ x.name \in {".", "f"}
                      /\ x = [fd |-> x.fd, name |-> x.name]
  BY DEF Holds
<1>3. CASE name = "."
  <2>1. PICK stream \in Fds, fd \in Fds :
              /\ stream \notin h.open /\ fd \notin h.open /\ fd # stream
              /\ OpenDir(h) = [open |-> h.open \cup {stream, fd}, dir |-> stream,
                               dir_fd |-> fd, mem_fd |-> h.mem_fd]
              /\ OpenDir(h) \in Hosts
    BY OpenDirIs
  <2>. DEFINE g == OpenDir(h)
              new == [fd |-> fd, name |-> "."]
  <2>2. /\ g.open = h.open \cup {stream, fd} /\ g.dir = stream /\ g.dir_fd = fd
        /\ g.mem_fd = h.mem_fd
    BY <2>1
  <2>3. ece391_open(h, name) = g /\ Opened(h, name) = fd
    BY <1>3, <2>2 DEF ece391_open, Opened
  <2>. HIDE DEF g
  <2>4. new \in Holds /\ new.fd = fd /\ new.name = "."
    BY DEF Holds
  <2>5. ASSUME Tidy(h, held), ~ \E x \in held : x.name = "."
        PROVE  Tidy(g, held \cup {new})
    <3>1. h.dir = NONE
      BY <1>2, <2>5 DEF Tidy
    <3>2. \A x \in held : x.fd \in h.open /\ x.fd # fd /\ x.fd # stream /\ x.name # "."
      BY <2>1, <2>5 DEF Tidy
    <3>3. {x.fd : x \in held \cup {new}} = {x.fd : x \in held} \cup {fd}
      BY <2>4
    <3>4. h.mem_fd # NONE => h.mem_fd \in h.open
      BY <2>5 DEF Tidy
    <3>5. g.mem_fd # stream /\ g.mem_fd # fd
      BY <1>0, <2>1, <2>2, <3>4
    <3>6. g.open = {x.fd : x \in held \cup {new}} \cup ({g.dir, g.mem_fd} \ {NONE})
      <4>1. h.open = {x.fd : x \in held} \cup ({h.mem_fd} \ {NONE})
        BY <2>5, <3>1 DEF Tidy
      <4>2. stream # NONE
        BY <1>0
      <4>. QED
        BY <2>2, <3>3, <4>1, <4>2
    <3>7. \A x, y \in held \cup {new} : x.fd = y.fd => x = y
      BY <2>4, <2>5, <3>2 DEF Tidy
    <3>8. \A x \in held \cup {new} : x.fd # g.dir /\ x.fd # g.mem_fd
      BY <2>1, <2>2, <2>4, <2>5, <3>2, <3>5 DEF Tidy
    <3>9. \A x \in held \cup {new} : x.name = "." <=> g.dir # NONE /\ x.fd = g.dir_fd
      BY <1>0, <2>2, <2>4, <3>2
    <3>10. g.dir # g.mem_fd /\ \E x \in held \cup {new} : x.fd = g.dir_fd
      BY <2>2, <2>4, <3>5
    <3>. QED
      BY <3>6, <3>7, <3>8, <3>9, <3>10 DEF Tidy
  <2>6. g \in Hosts /\ [fd |-> Opened(h, name), name |-> name] = new
    BY <1>3, <2>1, <2>3 DEF g
  <2>. HIDE DEF new
  <2>. QED
    BY <1>3, <2>3, <2>4, <2>5, <2>6
<1>4. CASE name = "f"
  <2>. DEFINE fd == HostFd(h.open)
              g == OpenHost(h)
              new == [fd |-> fd, name |-> "f"]
  <2>1. /\ fd \in Fds /\ fd \notin h.open /\ g \in Hosts
        /\ g = [open |-> h.open \cup {fd}, dir |-> h.dir,
                dir_fd |-> h.dir_fd, mem_fd |-> h.mem_fd]
    BY OpenHostIs
  <2>. HIDE DEF g, fd
  <2>2. /\ g.open = h.open \cup {fd} /\ g.dir = h.dir /\ g.dir_fd = h.dir_fd
        /\ g.mem_fd = h.mem_fd
    BY <2>1
  <2>3. ece391_open(h, name) = g /\ Opened(h, name) = fd
    BY <1>4 DEF ece391_open, Opened, g, fd
  <2>4. new \in Holds /\ new.fd = fd /\ new.name = "f"
    BY <2>1 DEF Holds
  <2>5. ASSUME Tidy(h, held) PROVE Tidy(g, held \cup {new})
    <3>2. \A x \in held : x.fd \in h.open /\ x.fd # fd
      BY <2>1, <2>5 DEF Tidy
    <3>3. {x.fd : x \in held \cup {new}} = {x.fd : x \in held} \cup {fd}
      BY <2>4
    <3>4. /\ h.mem_fd # NONE => h.mem_fd \in h.open
          /\ h.dir # NONE => h.dir \in h.open /\ h.dir_fd \in h.open
      BY <2>5, <3>2 DEF Tidy
    <3>5. fd # h.mem_fd /\ fd # h.dir /\ (h.dir # NONE => fd # h.dir_fd)
      BY <1>0, <2>1, <3>4
    <3>6. g.open = {x.fd : x \in held \cup {new}} \cup ({g.dir, g.mem_fd} \ {NONE})
      BY <2>2, <2>5, <3>3 DEF Tidy
    <3>7. \A x, y \in held \cup {new} : x.fd = y.fd => x = y
      BY <2>4, <2>5, <3>2 DEF Tidy
    <3>8. \A x \in held \cup {new} : x.fd # g.dir /\ x.fd # g.mem_fd
      BY <2>2, <2>4, <2>5, <3>5 DEF Tidy
    <3>9. \A x \in held \cup {new} : x.name = "." <=> g.dir # NONE /\ x.fd = g.dir_fd
      BY <2>2, <2>4, <2>5, <3>5 DEF Tidy
    <3>10. g.dir # NONE => g.dir # g.mem_fd /\ \E x \in held \cup {new} : x.fd = g.dir_fd
      BY <2>2, <2>5 DEF Tidy
    <3>. QED
      BY <3>6, <3>7, <3>8, <3>9, <3>10 DEF Tidy
  <2>6. [fd |-> Opened(h, name), name |-> name] = new
    BY <1>4, <2>3
  <2>. HIDE DEF new
  <2>. QED
    BY <2>1, <2>3, <2>4, <2>5, <2>6
<1>. QED
  BY <1>3, <1>4

LEMMA CloseTidy ==
    ASSUME NEW h \in Hosts, NEW held \in SUBSET Holds, NEW fd
    PROVE  LET now == {x \in held : x.fd # fd}
           IN  /\ ece391_close(h, fd) \in Hosts /\ now \in SUBSET Holds
               /\ Tidy(h, held) /\ (\E x \in held : x.fd = fd)
                    => Tidy(ece391_close(h, fd), now)
<1>. DEFINE now == {x \in held : x.fd # fd}
            g == ece391_close(h, fd)
<1>0. NONE = -1 /\ NONE \notin Fds
  BY DEF NONE, Fds
<1>1. g \in Hosts /\ now \in SUBSET Holds
  BY CloseIs
<1>2. ASSUME Tidy(h, held), NEW mine \in held, mine.fd = fd
      PROVE  Tidy(g, now)
  <2>1. {x.fd : x \in now} = {x.fd : x \in held} \ {fd}
    OBVIOUS
  <2>2. fd # h.mem_fd /\ fd # h.dir
    BY <1>2 DEF Tidy
  <2>3. CASE ReachesDirectory(h, fd)
    <3>1. h.dir # NONE /\ h.dir_fd = fd
      BY <2>3 DEF ReachesDirectory
    <3>2. g.open = h.open \ {h.dir, fd} /\ g.dir = NONE /\ g.dir_fd = -1 /\ g.mem_fd = h.mem_fd
      BY <2>3, <3>1, CloseIs
    <3>3. h.dir \notin {x.fd : x \in held} /\ h.dir # h.mem_fd
      BY <1>2, <3>1 DEF Tidy
    <3>. HIDE DEF g
    <3>4. g.open = {x.fd : x \in now} \cup ({g.dir, g.mem_fd} \ {NONE})
      <4>1. h.open = {x.fd : x \in held} \cup ({h.dir, h.mem_fd} \ {NONE})
        BY <1>2 DEF Tidy
      <4>. HIDE DEF now
      <4>. QED
        BY <2>1, <2>2, <3>1, <3>2, <3>3, <4>1
    <3>5. \A x \in now : x.name # "."
      BY <1>2, <3>1 DEF Tidy
    <3>6. \A x \in now : x.fd # g.dir /\ x.fd # g.mem_fd
      BY <1>0, <1>2, <3>2 DEF Tidy, Holds
    <3>7. \A x, y \in now : x.fd = y.fd => x = y
      BY <1>2 DEF Tidy
    <3>. QED
      BY <3>2, <3>4, <3>5, <3>6, <3>7 DEF Tidy
  <2>4. CASE ~ ReachesDirectory(h, fd)
    <3>1. h.dir # NONE => h.dir_fd # fd
      BY <2>4 DEF ReachesDirectory
    <3>2. g.open = h.open \ {fd} /\ g.dir = h.dir /\ g.dir_fd = h.dir_fd /\ g.mem_fd = h.mem_fd
      BY <2>4, CloseIs
    <3>. HIDE DEF g
    <3>4. g.open = {x.fd : x \in now} \cup ({g.dir, g.mem_fd} \ {NONE})
      <4>1. h.open = {x.fd : x \in held} \cup ({h.dir, h.mem_fd} \ {NONE})
        BY <1>2 DEF Tidy
      <4>. HIDE DEF now
      <4>. QED
        BY <2>1, <2>2, <3>2, <4>1
    <3>5. \A x \in now : x.name = "." <=> g.dir # NONE /\ x.fd = g.dir_fd
      BY <1>2, <3>2 DEF Tidy
    <3>6. \A x \in now : x.fd # g.dir /\ x.fd # g.mem_fd
      BY <1>2, <3>2 DEF Tidy
    <3>7. \A x, y \in now : x.fd = y.fd => x = y
      BY <1>2 DEF Tidy
    <3>8. g.dir # NONE => g.dir # g.mem_fd /\ \E x \in now : x.fd = g.dir_fd
      BY <1>2, <3>1, <3>2 DEF Tidy
    <3>. QED
      BY <3>4, <3>5, <3>6, <3>7, <3>8 DEF Tidy
  <2>. QED
    BY <2>3, <2>4
<1>. QED
  BY <1>1, <1>2

LEMMA VidmapTidy ==
    ASSUME NEW h \in Hosts, NEW held \in SUBSET Holds, Tidy(h, held)
    PROVE  Tidy(ece391_vidmap(h), held)
<1>. DEFINE fd == HostFd(h.open)
            g == ece391_vidmap(h)
<1>0. NONE = -1 /\ NONE \notin Fds
  BY DEF NONE, Fds
<1>1. /\ fd \in Fds /\ fd \notin h.open
      /\ g = IF h.mem_fd # -1 THEN h
             ELSE [open |-> h.open \cup {fd}, dir |-> h.dir, dir_fd |-> h.dir_fd, mem_fd |-> fd]
  BY VidmapIs
<1>. HIDE DEF fd, g
<1>2. CASE h.mem_fd # -1
  BY <1>1, <1>2 DEF g
<1>3. CASE h.mem_fd = -1
  <2>1. g.open = h.open \cup {fd} /\ g.dir = h.dir /\ g.dir_fd = h.dir_fd /\ g.mem_fd = fd
    BY <1>1, <1>3
  <2>2. \A x \in held : x.fd \in h.open
    BY DEF Tidy
  <2>3. h.dir # NONE => h.dir \in h.open
    BY DEF Tidy
  <2>4. g.open = {x.fd : x \in held} \cup ({g.dir, g.mem_fd} \ {NONE})
    <3>1. h.open = {x.fd : x \in held} \cup ({h.dir, h.mem_fd} \ {NONE})
      BY DEF Tidy
    <3>. QED
      BY <1>0, <1>1, <1>3, <2>1, <3>1
  <2>5. \A x \in held : x.fd # g.dir /\ x.fd # g.mem_fd
    BY <1>1, <2>1, <2>2 DEF Tidy
  <2>6. g.dir # NONE => g.dir # g.mem_fd /\ \E x \in held : x.fd = g.dir_fd
    BY <1>1, <2>1, <2>3 DEF Tidy
  <2>7. \A x \in held : x.name = "." <=> g.dir # NONE /\ x.fd = g.dir_fd
    BY <2>1 DEF Tidy
  <2>8. Tidy(g, held)
    BY <2>4, <2>5, <2>6, <2>7 DEF Tidy
  <2>. QED
    BY <2>8 DEF g
<1>. QED
  BY <1>2, <1>3

-----------------------------------------------------------------------------
(* A program of descriptor calls.                                          *)
Before == [h |-> NoHost, held |-> {}, polite |-> TRUE]

LEMMA HostSteps ==
    ASSUME NEW run \in Runs, NEW c \in HostCalls
    PROVE  /\ HostStep(run, c) \in Runs
           /\ (run.polite => Tidy(run.h, run.held))
                => (HostStep(run, c).polite => Tidy(HostStep(run, c).h, HostStep(run, c).held))
<1>. DEFINE h == run.h
            held == run.held
            next == HostStep(run, c)
<1>0. h \in Hosts /\ held \in SUBSET Holds /\ run.polite \in BOOLEAN
      /\ run = [h |-> h, held |-> held, polite |-> run.polite]
  BY DEF Runs
<1>1. CASE c \in [open : {".", "f"}]
  <2>1. DOMAIN c = {"open"} /\ c.open \in {".", "f"}
    BY <1>1
  <2>2. next = [h |-> ece391_open(h, c.open),
                held |-> held \cup {[fd |-> Opened(h, c.open), name |-> c.open]},
                polite |-> run.polite /\ ~(c.open = "." /\ \E x \in held : x.name = ".")]
    BY <2>1 DEF HostStep
  <2>. HIDE DEF next
  <2>3. /\ next.h = ece391_open(h, c.open)
        /\ next.held = held \cup {[fd |-> Opened(h, c.open), name |-> c.open]}
        /\ next.polite = (run.polite /\ ~(c.open = "." /\ \E x \in held : x.name = "."))
    BY <2>2
  <2>4. next.h \in Hosts /\ next.held \in SUBSET Holds /\ next.polite \in BOOLEAN
    BY <1>0, <2>1, <2>3, OpenTidy
  <2>5. next \in Runs
    BY <2>2, <2>3, <2>4 DEF Runs
  <2>6. ASSUME run.polite => Tidy(h, held), next.polite PROVE Tidy(next.h, next.held)
    <3>1. run.polite /\ ~(c.open = "." /\ \E x \in held : x.name = ".")
      BY <2>3, <2>6
    <3>2. Tidy(h, held)
      BY <2>6, <3>1
    <3>. HIDE DEF h, held
    <3>3. h \in Hosts /\ held \in SUBSET Holds /\ c.open \in {".", "f"}
      BY <1>0, <2>1
    <3>4. Tidy(ece391_open(h, c.open), held \cup {[fd |-> Opened(h, c.open), name |-> c.open]})
      BY <3>1, <3>2, <3>3, OpenTidy
    <3>. QED
      BY <2>3, <3>4
  <2>. QED
    BY <2>5, <2>6 DEF next
<1>2. CASE c \in [close : 3 .. MaxHostFd]
  <2>1. DOMAIN c = {"close"}
    BY <1>2
  <2>2. next = [h |-> ece391_close(h, c.close),
                held |-> {x \in held : x.fd # c.close},
                polite |-> run.polite /\ \E x \in held : x.fd = c.close]
    BY <2>1 DEF HostStep
  <2>. HIDE DEF next
  <2>3. /\ next.h = ece391_close(h, c.close)
        /\ next.held = {x \in held : x.fd # c.close}
        /\ next.polite = (run.polite /\ \E x \in held : x.fd = c.close)
    BY <2>2
  <2>4. next.h \in Hosts /\ next.held \in SUBSET Holds /\ next.polite \in BOOLEAN
    BY <1>0, <2>3, CloseTidy
  <2>5. next \in Runs
    BY <2>2, <2>3, <2>4 DEF Runs
  <2>6. ASSUME run.polite => Tidy(h, held), next.polite PROVE Tidy(next.h, next.held)
    <3>1. run.polite /\ \E x \in held : x.fd = c.close
      BY <2>3, <2>6
    <3>2. Tidy(h, held)
      BY <2>6, <3>1
    <3>. HIDE DEF h, held
    <3>. QED
      BY <1>0, <2>3, <3>1, <3>2, CloseTidy
  <2>. QED
    BY <2>5, <2>6 DEF next
<1>3. CASE c \in [vidmap : {0}]
  <2>1. DOMAIN c = {"vidmap"}
    BY <1>3
  <2>2. next = [run EXCEPT !.h = ece391_vidmap(h)]
    BY <2>1 DEF HostStep
  <2>. HIDE DEF next
  <2>3. next = [h |-> ece391_vidmap(h), held |-> held, polite |-> run.polite]
    BY <1>0, <2>2
  <2>4. next.h = ece391_vidmap(h) /\ next.held = held /\ next.polite = run.polite
    BY <2>3
  <2>5. next \in Runs
    BY <1>0, <2>3, VidmapIs DEF Runs
  <2>6. ASSUME run.polite => Tidy(h, held), next.polite PROVE Tidy(next.h, next.held)
    BY <1>0, <2>4, <2>6, VidmapTidy
  <2>. QED
    BY <2>5, <2>6 DEF next
<1>. QED
  BY <1>1, <1>2, <1>3 DEF HostCalls

LEMMA BeforeIsTidy == Before \in Runs /\ Before.polite /\ Tidy(Before.h, Before.held)
<1>1. {} \in FdSets
  BY FS_EmptySet DEF FdSets
<1>2. NoHost \in Hosts
  BY <1>1 DEF NoHost, Hosts, NONE
<1>3. Before.h = NoHost /\ Before.held = {} /\ Before.polite = TRUE /\ Before \in Runs
  BY <1>2 DEF Before, Runs
<1>4. /\ NoHost.open = {} /\ NoHost.dir = NONE /\ NoHost.dir_fd = -1 /\ NoHost.mem_fd = NONE
  BY DEF NoHost, NONE
<1>. QED
  BY <1>3, <1>4 DEF Tidy

(* The program as a function of how many of its calls are done.            *)
Running(calls, f) ==
    /\ f \in [0 .. Len(calls) -> Runs]
    /\ f[0] = Before /\ f[Len(calls)] = HostRun(calls)
    /\ \A n \in 1 .. Len(calls) : f[n] = HostStep(f[n - 1], calls[n])

LEMMA HostRunUnfolds ==
    ASSUME NEW calls \in Seq(HostCalls)
    PROVE  \E f : Running(calls, f)
<1>. DEFINE N    == Len(calls)
            step == [n \in 1 .. N |-> [run \in Runs |-> HostStep(run, calls[n])]]
            IsAfter(f) ==
                f = [n \in 0 .. N |-> IF n = 0 THEN Before ELSE HostStep(f[n - 1], calls[n])]
<1>1. N \in Nat /\ \A n \in 1 .. N : calls[n] \in HostCalls
  BY LenProperties, ElementOfSeq
<1>2. step \in [1 .. N -> [Runs -> Runs]]
  BY <1>1, HostSteps
<1>3. PICK f \in [0 .. N -> Runs] :
        f[0] = Before /\ \A n \in 1 .. N : f[n] = step[n][f[n - 1]]
  <2>. HIDE DEF step, N
  <2>1. Recursion(N, Runs, Before, step)
    BY <1>1, <1>2, BeforeIsTidy, RecursionOn
  <2>. QED
    BY <2>1 DEF Recursion
<1>4. ASSUME NEW n \in 1 .. N PROVE f[n] = HostStep(f[n - 1], calls[n])
  <2>1. n - 1 \in 0 .. N
    BY <1>1
  <2>2. f[n - 1] \in Runs
    BY <2>1
  <2>. QED
    BY <1>3, <2>2
<1>5. IsAfter(f)
  <2>1. ASSUME NEW n \in 0 .. N
        PROVE  f[n] = IF n = 0 THEN Before ELSE HostStep(f[n - 1], calls[n])
    <3>1. CASE n = 0
      BY <1>3, <3>1
    <3>2. CASE n # 0
      BY <1>1, <1>4, <3>2
    <3>. QED
      BY <3>1, <3>2
  <2>. QED
    BY <2>1
<1>. DEFINE after == CHOOSE g : IsAfter(g)
<1>6. IsAfter(after)
  <2>. HIDE DEF IsAfter
  <2>. QED
    BY <1>5
<1>7. HostRun(calls) = after[N]
  BY DEF HostRun, Before
<1>. HIDE DEF after
<1>8. after[N] = f[N]
  <2>. DEFINE B == {n \in Nat : n <= N /\ after[n] # f[n]}
  <2>. SUFFICES ASSUME B # {} PROVE FALSE
    BY <1>1
  <2>1. PICK n \in B : \A k \in B : n <= k
    BY LeastNumber
  <2>2. n \in 0 .. N /\ n # 0 /\ n \in 1 .. N
    BY <1>1, <1>3, <1>6, <2>1
  <2>3. after[n - 1] = f[n - 1]
    BY <1>1, <2>1, <2>2
  <2>. QED
    BY <1>4, <1>6, <2>1, <2>2, <2>3
<1>. QED
  BY <1>3, <1>4, <1>7, <1>8 DEF Running

LEMMA HostRunTidy ==
    ASSUME NEW calls \in Seq(HostCalls)
    PROVE  LET run == HostRun(calls)
           IN  run \in Runs /\ (run.polite => Tidy(run.h, run.held))
<1>. DEFINE N == Len(calls)
<1>1. PICK f : Running(calls, f)
  BY HostRunUnfolds
<1>2. /\ N \in Nat /\ \A n \in 1 .. N : calls[n] \in HostCalls
      /\ f \in [0 .. N -> Runs] /\ f[0] = Before /\ f[N] = HostRun(calls)
      /\ \A n \in 1 .. N : f[n] = HostStep(f[n - 1], calls[n])
  BY <1>1, LenProperties, ElementOfSeq DEF Running
<1>. DEFINE S == {n \in 0 .. N : f[n].polite => Tidy(f[n].h, f[n].held)}
<1>3. 0 \in S
  <2>1. f[0].polite => Tidy(f[0].h, f[0].held)
    BY <1>2, BeforeIsTidy
  <2>. QED
    BY <1>2, <2>1
<1>4. \A n \in 0 .. N : n \in S /\ n < N => n + 1 \in S
  <2>. SUFFICES ASSUME NEW n \in 0 .. N, n < N, f[n].polite => Tidy(f[n].h, f[n].held)
                PROVE  f[n + 1].polite => Tidy(f[n + 1].h, f[n + 1].held)
    BY <1>2
  <2>1. n + 1 \in 1 .. N /\ (n + 1) - 1 = n
    BY <1>2
  <2>2. f[n] \in Runs /\ f[n + 1] = HostStep(f[n], calls[n + 1]) /\ calls[n + 1] \in HostCalls
    BY <1>2, <2>1
  <2>. QED
    BY <2>2, HostSteps
<1>. HIDE DEF S
<1>8. N \in Nat
  BY <1>2
<1>. HIDE DEF N
<1>9. \A n \in 0 .. N : n \in S
  BY <1>3, <1>4, <1>8, CountingUp
<1>5. N \in S
  BY <1>8, <1>9
<1>6. f[N].polite => Tidy(f[N].h, f[N].held)
  BY <1>5 DEF S
<1>7. f[N] \in Runs
  BY <1>2
<1>. QED
  BY <1>2, <1>6, <1>7

(* The names of the calls, and their numbers.                              *)
LEMMA Numbers ==
    ASSUME NEW k \in 1 .. 10
    PROVE  SystemCalls[k] \in ToSet(SystemCalls) /\ SYS(SystemCalls[k]) = k
<1>. DEFINE places == {i \in 1 .. Len(SystemCalls) : SystemCalls[i] = SystemCalls[k]}
<1>1. Len(SystemCalls) = 10 /\ DOMAIN SystemCalls = 1 .. 10
  BY DEF SystemCalls
<1>2. \A i \in 1 .. 10 : SystemCalls[i] = SystemCalls[k] => i = k
  BY DEF SystemCalls
<1>3. places = {k}
  BY <1>1, <1>2
<1>4. Min({k}) = k
  <2>1. {k} \in SUBSET Int /\ k \in {k} /\ \A i \in {k} : k <= i
    OBVIOUS
  <2>. QED
    BY <2>1, LeastOf
<1>5. SYS(SystemCalls[k]) = k
  <2>1. SYS(SystemCalls[k]) = IF places # {} THEN Min(places) ELSE 0
    BY DEF SYS, SelectInSeq
  <2>. HIDE DEF places
  <2>. QED
    BY <1>3, <1>4, <2>1
<1>6. SystemCalls[k] \in ToSet(SystemCalls)
  BY <1>1 DEF ToSet
<1>. QED
  BY <1>5, <1>6

LEMMA DispatchHolds ==
    ASSUME CallsInv, Called("syscall")
    PROVE  \/ \E name \in ToSet(SystemCalls) : call.eax = SYS(name) /\ result = name
           \/ call.eax \notin 1 .. Len(SystemCalls) /\ result = "fail"
<1>1. call.eax \in -2 .. 12 /\ result = Dispatch(call.eax)
  BY DEF CallsInv, Arguments, Answers, Called
<1>2. Len(SystemCalls) = 10
  BY DEF SystemCalls
<1>3. CASE call.eax \in 1 .. 10
  <2>1. Dispatch(call.eax) = SystemCalls[call.eax]
    <3>1. call.eax - 1 \in 0 .. 9 /\ (call.eax - 1) + 1 = call.eax
      BY <1>3
    <3>2. system_calls_table[call.eax - 1] = SystemCalls[(call.eax - 1) + 1]
      BY <3>1 DEF system_calls_table
    <3>3. ~ (call.eax <= 0 \/ call.eax > 10)
      BY <1>3
    <3>. QED
      BY <3>1, <3>2, <3>3 DEF Dispatch
  <2>. QED
    BY <1>1, <1>3, <2>1, Numbers
<1>4. CASE call.eax \notin 1 .. 10
  <2>1. call.eax <= 0 \/ call.eax > 10
    BY <1>1, <1>4
  <2>. QED
    BY <1>1, <1>2, <1>4, <2>1 DEF Dispatch
<1>. QED
  BY <1>3, <1>4

LEMMA VidmapHolds ==
    ASSUME CallsInv, Called("vidmap")
    PROVE  /\ call.screen_start \in MEM_128MB .. MEM_132MB - 4 => result
           /\ call.screen_start \notin MEM_128MB .. MEM_132MB => ~result
<1>. DEFINE a == call.screen_start
<1>1. a \in 0 .. MEM_132MB + MEM_128MB /\ result = VidmapAccepts(a)
  BY DEF CallsInv, Arguments, Answers, Called
<1>2. MEM_128MB \in Nat \ {0} /\ MEM_132MB \in Nat
  BY CommandsAssumption
<1>. HIDE DEF a
<1>3. a \in MEM_128MB .. MEM_132MB - 4 => VidmapAccepts(a)
  BY <1>1, <1>2 DEF VidmapAccepts
<1>4. a \notin MEM_128MB .. MEM_132MB => ~VidmapAccepts(a)
  BY <1>1, <1>2 DEF VidmapAccepts
<1>. QED
  BY <1>1, <1>3, <1>4, Zenon DEF a

LEMMA DoCallHolds ==
    ASSUME CallsInv, Called("do_call")
    PROVE  IF \E errno \in 1 .. ERRNO_RANGE - 1 : call.eax = WORD - errno
             THEN result = -1 ELSE result = call.eax
<1>. DEFINE a == call.eax
<1>1. a \in 0 .. WORD - 1 /\ result = DO_CALL(a)
  BY DEF CallsInv, Arguments, Answers, Called
<1>2. WORD \in Nat /\ ERRNO_RANGE \in 1 .. WORD
  BY LibraryAssumption, EmulateAssumption
<1>. HIDE DEF a
<1>3. CASE a > WORD - ERRNO_RANGE
  <2>1. WORD - a \in 1 .. ERRNO_RANGE - 1 /\ a = WORD - (WORD - a)
    BY <1>1, <1>2, <1>3
  <2>2. \E errno \in 1 .. ERRNO_RANGE - 1 : a = WORD - errno
    BY <2>1
  <2>. QED
    BY <1>1, <1>3, <2>2 DEF DO_CALL, a
<1>4. CASE ~ (a > WORD - ERRNO_RANGE)
  <2>1. ~ \E errno \in 1 .. ERRNO_RANGE - 1 : a = WORD - errno
    BY <1>1, <1>2, <1>4
  <2>. QED
    BY <1>1, <1>4, <2>1 DEF DO_CALL, a
<1>. QED
  BY <1>3, <1>4

LEMMA HostHolds ==
    ASSUME CallsInv, Called("host"), result.polite
    PROVE  /\ \A x \in result.held :
                ReachesDirectory(result.h, x.fd) <=> x.name = "."
           /\ result.h.open = {x.fd : x \in result.held}
                                 \cup ({result.h.dir, result.h.mem_fd} \ {NONE})
           /\ \A x, y \in result.held : x.fd = y.fd => x = y
<1>1. PICK calls \in HostRuns : call = [f |-> "host", calls |-> calls]
  BY DEF CallsInv, Arguments, Called
<1>2. result = HostRun(calls)
  BY <1>1 DEF CallsInv, Answers
<1>3. calls \in Seq(HostCalls)
  <2>1. PICK n \in 1 .. MaxHostCalls : calls \in [1 .. n -> HostCalls]
    BY DEF HostRuns
  <2>2. n \in Nat
    BY BoundsAssumption
  <2>. QED
    BY <2>1, <2>2
<1>4. Tidy(result.h, result.held)
  BY <1>2, <1>3, HostRunTidy
<1>. QED
  BY <1>4 DEF Tidy, ReachesDirectory

(* Each wrapper of the system call library reaches the handler of its      *)
(* name, vidmap takes the addresses it should, and a program emulated on a *)
(* host keeps its descriptors apart through every sequence of opens,       *)
(* closes and vidmaps.                                                     *)
THEOREM CallsReachTheirHandlers == CallSpec => []SystemCallsReachTheirHandlers
<1>1. CallsInv => SystemCallsReachTheirHandlers
  BY DispatchHolds, VidmapHolds, DoCallHolds, HostHolds, Zenon
     DEF SystemCallsReachTheirHandlers, HostDescriptorsAreTheirOwn
<1>. QED
  BY <1>1, CallsInvHolds, PTL

-----------------------------------------------------------------------------
(* The command line.                                                       *)

Letters == {"x", "y", Space, NewLine}

LEMMA LeastIn ==
    ASSUME NEW S \in SUBSET Nat, S # {}
    PROVE  Min(S) \in S /\ \A k \in S : Min(S) <= k
<1>1. PICK m \in S : \A k \in S : m <= k
  BY LeastNumber
<1>2. S \in SUBSET Int
  OBVIOUS
<1>3. Min(S) = m
  BY <1>1, <1>2, LeastOf
<1>. QED
  BY <1>1, <1>3

LEMMA CharIs ==
    ASSUME NEW cmd \in Seq(Letters), NEW i \in Nat
    PROVE  /\ Len(cmd) \in Nat
           /\ i < Len(cmd) => /\ CharAt(cmd, i) = cmd[i + 1] /\ CharAt(cmd, i) \in Letters
                              /\ CharAt(cmd, i) # Nul
           /\ i >= Len(cmd) => CharAt(cmd, i) = Nul
<1>1. Len(cmd) \in Nat
  BY LenProperties
<1>2. i < Len(cmd) => cmd[i + 1] \in Letters
  <2>1. i < Len(cmd) => i + 1 \in 1 .. Len(cmd)
    BY <1>1
  <2>. QED
    BY <2>1, ElementOfSeq
<1>3. \A c \in Letters : c # Nul
  BY CharactersAssumption, EmulateAssumption, CommandsAssumption DEF Letters
<1>. QED
  BY <1>1, <1>2, <1>3 DEF CharAt

(* Where the name ends and where the arguments begin, for system_execute.  *)
LEMMA StartIs ==
    ASSUME NEW cmd \in Seq(Letters)
    PROVE  LET e == NameEnd(cmd)
               s == ArgStart(cmd)
           IN  /\ e \in 0 .. Len(cmd) /\ CharAt(cmd, e) \in {Space, Nul}
               /\ \A i \in 0 .. e - 1 : CharAt(cmd, i) \notin {Space, Nul}
               /\ s \in e .. Len(cmd) /\ CharAt(cmd, s) # Space
               /\ \A i \in e .. s - 1 : CharAt(cmd, i) = Space
<1>. DEFINE N == Len(cmd)
            e == NameEnd(cmd)
            s == ArgStart(cmd)
            E == {i \in 0 .. N : CharAt(cmd, i) \in {Space, Nul}}
            S == {i \in e .. N : CharAt(cmd, i) # Space}
<1>1. N \in Nat /\ CharAt(cmd, N) = Nul /\ Nul # Space
  BY CharIs, LenProperties, CommandsAssumption
<1>2. e \in E /\ \A k \in E : e <= k
  <2>1. E \in SUBSET Nat /\ N \in E
    BY <1>1
  <2>2. e = Min(E)
    BY DEF NameEnd
  <2>. HIDE DEF E, e
  <2>. QED
    BY <2>1, <2>2, LeastIn
<1>3. e \in 0 .. N /\ CharAt(cmd, e) \in {Space, Nul}
  BY <1>2
<1>. HIDE DEF e
<1>4. s \in S /\ \A k \in S : s <= k
  <2>1. S \in SUBSET Nat /\ N \in S
    BY <1>1, <1>3
  <2>2. s = Min(S)
    BY DEF ArgStart, e
  <2>. HIDE DEF S, s
  <2>. QED
    BY <2>1, <2>2, LeastIn
<1>5. s \in e .. N /\ CharAt(cmd, s) # Space
  BY <1>4
<1>. HIDE DEF s
<1>6. ASSUME NEW i \in 0 .. e - 1 PROVE CharAt(cmd, i) \notin {Space, Nul}
  <2>1. i \in 0 .. N /\ ~ (e <= i)
    BY <1>1, <1>3
  <2>. QED
    BY <1>2, <2>1
<1>7. ASSUME NEW i \in e .. s - 1 PROVE CharAt(cmd, i) = Space
  <2>1. i \in e .. N /\ ~ (s <= i)
    BY <1>1, <1>3, <1>5
  <2>. QED
    BY <1>4, <2>1
<1>. QED
  BY <1>3, <1>5, <1>6, <1>7 DEF e, s, N

(* What the arguments of a command line are.                               *)
Rest(cmd) == SubSeq(cmd, ArgStart(cmd) + 1, Len(cmd))

LEMMA RestIs ==
    ASSUME NEW cmd \in Seq(Letters)
    PROVE  LET s == ArgStart(cmd)
           IN  /\ Rest(cmd) \in Seq(Letters) /\ Len(Rest(cmd)) = Len(cmd) - s
               /\ s \in 0 .. Len(cmd)
               /\ \A k \in 1 .. Len(cmd) - s : /\ Rest(cmd)[k] = cmd[s + k]
                                               /\ Rest(cmd)[k] = CharAt(cmd, s + k - 1)
                                               /\ Rest(cmd)[k] # Nul
<1>. DEFINE s == ArgStart(cmd)
            N == Len(cmd)
<1>1. N \in Nat /\ s \in 0 .. N
  BY StartIs, LenProperties
<1>. HIDE DEF s, N
<1>2. \A i \in 1 .. N : cmd[i] \in Letters
  BY ElementOfSeq DEF N
<1>3. Rest(cmd) = [k \in 1 .. N - s |-> cmd[s + k]]
  <2>1. SubSeq(cmd, s + 1, N) = [k \in 1 .. N - (s + 1) + 1 |-> cmd[s + 1 + k - 1]]
    BY <1>1 DEF N
  <2>2. N - (s + 1) + 1 = N - s /\ \A k \in 1 .. N - s : s + 1 + k - 1 = s + k
    BY <1>1
  <2>. QED
    BY <2>1, <2>2 DEF Rest, s, N
<1>4. \A k \in 1 .. N - s : s + k \in 1 .. N
  BY <1>1
<1>5. \A k \in 1 .. N - s : /\ Rest(cmd)[k] = cmd[s + k] /\ Rest(cmd)[k] \in Letters
                            /\ Rest(cmd)[k] = CharAt(cmd, s + k - 1)
                            /\ Rest(cmd)[k] # Nul
  <2>. SUFFICES ASSUME NEW k \in 1 .. N - s
                PROVE  /\ Rest(cmd)[k] = cmd[s + k] /\ Rest(cmd)[k] \in Letters
                       /\ Rest(cmd)[k] = CharAt(cmd, s + k - 1) /\ Rest(cmd)[k] # Nul
    OBVIOUS
  <2>1. s + k - 1 \in Nat /\ s + k - 1 < N /\ (s + k - 1) + 1 = s + k
    BY <1>1
  <2>2. CharAt(cmd, s + k - 1) = cmd[s + k] /\ CharAt(cmd, s + k - 1) # Nul
    BY <2>1, CharIs DEF N
  <2>. QED
    BY <1>2, <1>3, <1>4, <2>2
<1>6. Rest(cmd) \in Seq(Letters) /\ Len(Rest(cmd)) = N - s
  BY <1>1, <1>2, <1>3, <1>4
<1>. QED
  BY <1>1, <1>5, <1>6 DEF s, N

-----------------------------------------------------------------------------
(* system_execute and system_getargs.                                      *)
LEMMA KernelArguments ==
    ASSUME NEW cmd \in Seq(Letters), NEW nbytes \in Nat, nbytes >= LINE_BUFFER,
           2 * ArgStart(cmd) + Len(Rest(cmd)) < LINE_BUFFER
    PROVE  StringIn(Getargs(ArgsOf(cmd), nbytes)) = Rest(cmd)
<1>. DEFINE s == ArgStart(cmd)
            n == Len(Rest(cmd))
            N == Len(cmd)
            buf == Getargs(ArgsOf(cmd), nbytes)
            Z == {i \in DOMAIN buf : buf[i] = Nul}
<1>1. /\ N \in Nat /\ s \in 0 .. N /\ n = N - s /\ n \in Nat /\ Rest(cmd) \in Seq(Letters)
      /\ \A k \in 1 .. n : Rest(cmd)[k] = CharAt(cmd, s + k - 1) /\ Rest(cmd)[k] # Nul
  BY RestIs, LenProperties
<1>2. LINE_BUFFER \in Nat /\ 2 * s + n < LINE_BUFFER
  BY CommandsAssumption
<1>. HIDE DEF s, n, N
<1>3. ASSUME NEW k \in 0 .. n
      PROVE  buf[k] = CharAt(cmd, s + k)
  <2>1. k \in 0 .. LINE_BUFFER - 1 /\ k # nbytes /\ k < LINE_BUFFER /\ k \in 0 .. nbytes
    BY <1>1, <1>2
  <2>2. Copied(cmd, k)
    BY <1>1, <1>2 DEF Copied, s, N
  <2>. QED
    BY <2>1, <2>2 DEF Getargs, ArgsOf, s
<1>4. DOMAIN buf = 0 .. nbytes
  BY DEF Getargs
<1>. HIDE DEF buf
<1>5. CharAt(cmd, s + n) = Nul
  BY <1>1, CharIs DEF N
<1>6. Min(Z) = n
  <2>1. n \in Z
    BY <1>1, <1>2, <1>3, <1>4, <1>5
  <2>2. ASSUME NEW i \in Z PROVE n <= i
    <3>. SUFFICES ASSUME i < n PROVE FALSE
      BY <1>1, <1>4
    <3>1. i \in 0 .. n /\ i + 1 \in 1 .. n /\ s + (i + 1) - 1 = s + i
      BY <1>1, <1>4
    <3>2. buf[i] = CharAt(cmd, s + i) /\ CharAt(cmd, s + (i + 1) - 1) # Nul
      BY <1>1, <1>3, <3>1
    <3>. QED
      BY <3>1, <3>2
  <2>3. Z \in SUBSET Int
    BY <1>4
  <2>. HIDE DEF Z
  <2>. QED
    BY <2>1, <2>2, <2>3, LeastOf
<1>7. StringIn(buf) = [k \in 1 .. n |-> buf[k - 1]]
  BY <1>6 DEF StringIn
<1>8. \A k \in 1 .. n : buf[k - 1] = Rest(cmd)[k]
  <2>. TAKE k \in 1 .. n
  <2>1. k - 1 \in 0 .. n /\ s + (k - 1) = s + k - 1
    BY <1>1
  <2>. QED
    BY <1>1, <1>3, <2>1
<1>9. Rest(cmd) = [k \in 1 .. n |-> Rest(cmd)[k]]
  BY <1>1 DEF n
<1>. QED
  BY <1>7, <1>8, <1>9 DEF buf

LEMMA KernelName ==
    ASSUME NEW cmd \in Seq(Letters)
    PROVE  /\ Space \notin ToSet(NameOf(cmd)) /\ IsPrefix(NameOf(cmd), cmd)
           /\ Rest(cmd) # <<>> => Rest(cmd)[1] # Space
<1>. DEFINE e == NameEnd(cmd)
            s == ArgStart(cmd)
            N == Len(cmd)
<1>1. /\ N \in Nat /\ e \in 0 .. N /\ \A i \in 0 .. e - 1 : CharAt(cmd, i) \notin {Space, Nul}
      /\ CharAt(cmd, s) # Space
  BY StartIs, LenProperties
<1>2. \A i \in 1 .. N : cmd[i] \in Letters
  BY ElementOfSeq
<1>3. Rest(cmd) # <<>> => Rest(cmd)[1] # Space
  <2>. SUFFICES ASSUME Rest(cmd) # <<>> PROVE Rest(cmd)[1] # Space
    OBVIOUS
  <2>1. s \in 0 .. N /\ 1 \in 1 .. N - s
    BY <1>1, RestIs
  <2>2. Rest(cmd)[1] = CharAt(cmd, s + 1 - 1) /\ s + 1 - 1 = s
    BY <2>1, RestIs
  <2>. QED
    BY <1>1, <2>2
<1>. HIDE DEF e, s, N
<1>4. NameOf(cmd) = [k \in 1 .. e |-> cmd[k]]
  <2>1. SubSeq(cmd, 1, e) = [k \in 1 .. e |-> cmd[k]]
    BY <1>1 DEF N
  <2>. QED
    BY <2>1 DEF NameOf, e
<1>5. NameOf(cmd) \in Seq(Letters) /\ Len(NameOf(cmd)) = e
  BY <1>1, <1>2, <1>4
<1>6. \A k \in 1 .. e : NameOf(cmd)[k] # Space
  <2>. TAKE k \in 1 .. e
  <2>1. k - 1 \in 0 .. e - 1 /\ k - 1 \in Nat /\ k - 1 < N /\ (k - 1) + 1 = k
    BY <1>1
  <2>. QED
    BY <1>1, <1>4, <2>1, CharIs DEF N
<1>7. Space \notin ToSet(NameOf(cmd))
  BY <1>5, <1>6, ElementsOf
<1>8. IsPrefix(NameOf(cmd), cmd)
  BY <1>1, <1>4, <1>5 DEF IsPrefix, NameOf, e, N
<1>. QED
  BY <1>3, <1>7, <1>8

-----------------------------------------------------------------------------
(* The words of a command on a host.                                       *)
LEMMA WordEndIs ==
    ASSUME NEW cmd \in Seq(Letters), NEW i \in 0 .. Len(cmd)
    PROVE  LET e == WordEnd(cmd, i)
           IN  /\ e \in i .. Len(cmd) /\ CharAt(cmd, e) \in {Space, NewLine, Nul}
               /\ \A j \in i .. e - 1 : CharAt(cmd, j) \notin {Space, NewLine, Nul}
<1>. DEFINE N == Len(cmd)
            e == WordEnd(cmd, i)
            E == {j \in i .. N : CharAt(cmd, j) \in Separators \cup {Nul}}
<1>1. N \in Nat /\ CharAt(cmd, N) = Nul /\ i \in 0 .. N
  BY CharIs, LenProperties
<1>2. e \in E /\ \A k \in E : e <= k
  <2>1. E \in SUBSET Nat /\ N \in E
    BY <1>1
  <2>2. e = Min(E)
    BY DEF WordEnd
  <2>. HIDE DEF E, e
  <2>. QED
    BY <2>1, <2>2, LeastIn
<1>3. e \in i .. N /\ CharAt(cmd, e) \in {Space, NewLine, Nul}
  BY <1>2 DEF Separators
<1>. HIDE DEF e
<1>4. ASSUME NEW j \in i .. e - 1 PROVE CharAt(cmd, j) \notin {Space, NewLine, Nul}
  <2>1. j \in i .. N /\ ~ (e <= j)
    BY <1>1, <1>3
  <2>. QED
    BY <1>2, <2>1 DEF Separators
<1>. QED
  BY <1>3, <1>4 DEF e, N

LEMMA AfterSpacesIs ==
    ASSUME NEW cmd \in Seq(Letters), NEW i \in 0 .. Len(cmd) + 1
    PROVE  LET a == AfterSpaces(cmd, i)
           IN  /\ a \in i .. Len(cmd) + 1 /\ CharAt(cmd, a) # Space
               /\ \A j \in i .. a - 1 : CharAt(cmd, j) = Space
<1>. DEFINE N == Len(cmd)
            a == AfterSpaces(cmd, i)
            E == {j \in i .. N + 1 : CharAt(cmd, j) # Space}
<1>1. N \in Nat /\ CharAt(cmd, N + 1) = Nul /\ Nul # Space /\ i \in 0 .. N + 1
  BY CharIs, LenProperties, CommandsAssumption
<1>2. a \in E /\ \A k \in E : a <= k
  <2>1. E \in SUBSET Nat /\ N + 1 \in E
    BY <1>1
  <2>2. a = Min(E)
    BY DEF AfterSpaces
  <2>. HIDE DEF E, a
  <2>. QED
    BY <2>1, <2>2, LeastIn
<1>3. a \in i .. N + 1 /\ CharAt(cmd, a) # Space
  BY <1>2
<1>. HIDE DEF a
<1>4. ASSUME NEW j \in i .. a - 1 PROVE CharAt(cmd, j) = Space
  <2>1. j \in i .. N + 1 /\ ~ (a <= j)
    BY <1>1, <1>3
  <2>. QED
    BY <1>2, <2>1
<1>. QED
  BY <1>3, <1>4 DEF a, N

(* The places of the parser, one by one.                                   *)
NextPlace(cmd, i) ==
    IF ParseEnds(cmd, i) THEN i ELSE AfterSpaces(cmd, WordEnd(cmd, i) + 1)

LEMMA PlacesAreIn ==
    ASSUME NEW cmd \in Seq(Letters)
    PROVE  /\ AfterSpaces(cmd, WordEnd(cmd, 0) + 1) \in 1 .. Len(cmd) + 1
           /\ \A i \in 1 .. Len(cmd) + 1 :
                /\ NextPlace(cmd, i) \in i .. Len(cmd) + 1
                /\ ParseEnds(cmd, i) \/ NextPlace(cmd, i) > i
                /\ ParseEnds(cmd, i) \/ i < Len(cmd)
<1>. DEFINE N == Len(cmd)
<1>1. N \in Nat
  BY LenProperties
<1>2. ASSUME NEW i \in 0 .. N
      PROVE  AfterSpaces(cmd, WordEnd(cmd, i) + 1) \in i + 1 .. N + 1
  <2>1. WordEnd(cmd, i) \in i .. N
    BY <1>2, WordEndIs
  <2>2. WordEnd(cmd, i) + 1 \in 0 .. N + 1
    BY <1>1, <2>1
  <2>3. AfterSpaces(cmd, WordEnd(cmd, i) + 1) \in WordEnd(cmd, i) + 1 .. N + 1
    BY <2>2, AfterSpacesIs
  <2>. HIDE DEF N
  <2>. QED
    BY <1>1, <2>1, <2>3
<1>3. 0 \in 0 .. N /\ 0 + 1 = 1
  BY <1>1
<1>4. AfterSpaces(cmd, WordEnd(cmd, 0) + 1) \in 1 .. N + 1
  BY <1>2, <1>3
<1>5. ASSUME NEW i \in 1 .. N + 1
      PROVE  /\ NextPlace(cmd, i) \in i .. N + 1
             /\ ParseEnds(cmd, i) \/ NextPlace(cmd, i) > i
             /\ ParseEnds(cmd, i) \/ i < N
  <2>1. CASE ParseEnds(cmd, i)
    BY <1>1, <2>1 DEF NextPlace
  <2>2. CASE ~ ParseEnds(cmd, i)
    <3>1. i < N
      <4>. SUFFICES ASSUME ~ (i < N) PROVE FALSE
        OBVIOUS
      <4>1. i \in Nat /\ i >= N
        BY <1>1
      <4>2. CharAt(cmd, i) = Nul
        BY <4>1, CharIs
      <4>. QED
        BY <2>2, <4>2 DEF ParseEnds
    <3>2. i \in 0 .. N
      BY <1>1, <3>1
    <3>3. NextPlace(cmd, i) \in i + 1 .. N + 1
      BY <1>2, <2>2, <3>2 DEF NextPlace
    <3>. HIDE DEF N
    <3>. QED
      BY <1>1, <3>1, <3>3
  <2>. QED
    BY <2>1, <2>2
<1>. QED
  BY <1>4, <1>5

LEMMA ArgPlacesAre ==
    ASSUME NEW cmd \in Seq(Letters)
    PROVE  LET at == ArgPlaces(cmd)
           IN  /\ \A n \in 0 .. Len(cmd) : at[n] \in 1 .. Len(cmd) + 1
               /\ at[0] = AfterSpaces(cmd, WordEnd(cmd, 0) + 1)
               /\ \A n \in 1 .. Len(cmd) : at[n] = NextPlace(cmd, at[n - 1])
<1>. DEFINE N == Len(cmd)
            Places == 1 .. N + 1
            first == AfterSpaces(cmd, WordEnd(cmd, 0) + 1)
            step == [n \in 1 .. N |-> [i \in Places |-> NextPlace(cmd, i)]]
            IsScan(f) ==
                f = [n \in 0 .. N |->
                       IF n = 0 THEN first
                       ELSE LET i == f[n - 1]
                            IN  IF ParseEnds(cmd, i) THEN i
                                ELSE AfterSpaces(cmd, WordEnd(cmd, i) + 1)]
<1>1. N \in Nat /\ first \in Places /\ \A i \in Places : NextPlace(cmd, i) \in Places
  <2>1. N \in Nat
    BY LenProperties
  <2>2. first \in Places /\ \A i \in Places : NextPlace(cmd, i) \in i .. N + 1
    BY PlacesAreIn
  <2>. HIDE DEF N, first
  <2>. QED
    BY <2>1, <2>2
<1>2. PICK f \in [0 .. N -> Places] :
        f[0] = first /\ \A n \in 1 .. N : f[n] = step[n][f[n - 1]]
  <2>1. step \in [1 .. N -> [Places -> Places]]
    BY <1>1
  <2>. HIDE DEF step, N, first, Places
  <2>2. Recursion(N, Places, first, step)
    BY <1>1, <2>1, RecursionOn
  <2>. QED
    BY <2>2 DEF Recursion
<1>. HIDE DEF first, N, Places
<1>3. ASSUME NEW n \in 1 .. N PROVE f[n - 1] \in Places /\ f[n] = NextPlace(cmd, f[n - 1])
  <2>1. n - 1 \in 0 .. N
    BY <1>1
  <2>. QED
    BY <1>2, <2>1
<1>4. IsScan(f)
  <2>1. ASSUME NEW n \in 0 .. N
        PROVE  f[n] = IF n = 0 THEN first ELSE NextPlace(cmd, f[n - 1])
    <3>1. CASE n = 0
      BY <1>2, <3>1
    <3>2. CASE n # 0
      BY <1>1, <1>3, <3>2
    <3>. QED
      BY <3>1, <3>2
  <2>. QED
    BY <2>1 DEF NextPlace
<1>. DEFINE scan == CHOOSE g : IsScan(g)
<1>5. IsScan(scan)
  <2>. HIDE DEF IsScan
  <2>. QED
    BY <1>4
<1>6. ArgPlaces(cmd) = scan
  BY DEF ArgPlaces, first, N
<1>. HIDE DEF scan
<1>7. /\ scan[0] = first
      /\ \A n \in 1 .. N : scan[n] = NextPlace(cmd, scan[n - 1])
  BY <1>1, <1>5 DEF NextPlace
<1>. DEFINE S == {n \in 0 .. N : scan[n] \in Places}
<1>8. 0 \in S
  BY <1>1, <1>7
<1>9. ASSUME NEW n \in 0 .. N, n \in S, n < N PROVE n + 1 \in S
  <2>1. n + 1 \in 1 .. N /\ (n + 1) - 1 = n /\ n + 1 \in 0 .. N
    BY <1>1, <1>9
  <2>. QED
    BY <1>1, <1>7, <1>9, <2>1
<1>10. \A n \in 0 .. N : n \in S
  <2>. HIDE DEF S
  <2>. QED
    BY <1>1, <1>8, <1>9, CountingUp
<1>. QED
  BY <1>6, <1>7, <1>10 DEF first, N, Places

(* The number of arguments is that of the places passed before the end.    *)
LEMMA ArgvIs ==
    ASSUME NEW cmd \in Seq(Letters)
    PROVE  LET at == ArgPlaces(cmd)
           IN  \E c \in 0 .. Len(cmd) :
                 /\ ParseEnds(cmd, at[c]) /\ \A n \in 0 .. c - 1 : ~ ParseEnds(cmd, at[n])
                 /\ Argv(cmd) \in Seq(Seq(Letters)) /\ Len(Argv(cmd)) = c + 1
                 /\ Argv(cmd)[1] = Word(cmd, 0)
                 /\ \A n \in 1 .. c : Argv(cmd)[n + 1] = Word(cmd, at[n - 1])
<1>. DEFINE N == Len(cmd)
            at == ArgPlaces(cmd)
            E == {n \in 0 .. N : ParseEnds(cmd, at[n])}
            c == Min(E)
<1>1. /\ N \in Nat /\ \A n \in 0 .. N : at[n] \in 1 .. N + 1
      /\ \A n \in 1 .. N : at[n] = NextPlace(cmd, at[n - 1])
  BY ArgPlacesAre, LenProperties
<1>2. \A i \in 1 .. N + 1 : /\ NextPlace(cmd, i) \in i .. N + 1
                            /\ ParseEnds(cmd, i) \/ NextPlace(cmd, i) > i
                            /\ ParseEnds(cmd, i) \/ i < N
  BY PlacesAreIn
<1>. HIDE DEF at
<1>3. \A n \in 0 .. N : ParseEnds(cmd, at[n]) \/ at[n] > n
  <2>. DEFINE S == {n \in 0 .. N : ParseEnds(cmd, at[n]) \/ at[n] > n}
  <2>. HIDE DEF N
  <2>1. 0 \in S
    <3>1. 0 \in 0 .. N
      BY <1>1
    <3>2. at[0] \in 1 .. N + 1
      BY <1>1, <3>1
    <3>. QED
      BY <1>1, <3>1, <3>2
  <2>2. ASSUME NEW n \in 0 .. N, n \in S, n < N PROVE n + 1 \in S
    <3>1. n + 1 \in 1 .. N /\ (n + 1) - 1 = n /\ n + 1 \in 0 .. N
      BY <1>1, <2>2
    <3>2. at[n] \in 1 .. N + 1 /\ at[n + 1] = NextPlace(cmd, at[n])
      BY <1>1, <3>1
    <3>3. CASE ParseEnds(cmd, at[n])
      BY <3>1, <3>2, <3>3 DEF NextPlace
    <3>4. CASE ~ ParseEnds(cmd, at[n])
      <4>1. at[n + 1] \in at[n] .. N + 1 /\ at[n + 1] > at[n]
        BY <1>2, <3>2, <3>4
      <4>2. at[n] > n
        BY <2>2, <3>4
      <4>3. at[n + 1] > n + 1
        BY <1>1, <3>2, <4>1, <4>2
      <4>. QED
        BY <3>1, <4>3
    <3>. QED
      BY <3>3, <3>4
  <2>3. \A n \in 0 .. N : n \in S
    <3>. HIDE DEF S
    <3>. QED
      BY <1>1, <2>1, <2>2, CountingUp
  <2>. QED
    BY <2>3
<1>4. N \in E
  <2>1. N \in 0 .. N /\ at[N] \in 1 .. N + 1
    BY <1>1
  <2>. HIDE DEF N
  <2>2. ParseEnds(cmd, at[N]) \/ at[N] < N
    BY <1>2, <2>1
  <2>3. ParseEnds(cmd, at[N]) \/ at[N] > N
    BY <1>3, <2>1
  <2>. QED
    BY <1>1, <2>1, <2>2, <2>3
<1>5. c \in E /\ \A k \in E : c <= k
  <2>1. E \in SUBSET Nat
    BY <1>1
  <2>. HIDE DEF E
  <2>. QED
    BY <1>4, <2>1, LeastIn
<1>6. c \in 0 .. N /\ ParseEnds(cmd, at[c])
  BY <1>5
<1>7. ASSUME NEW n \in 0 .. c - 1 PROVE ~ ParseEnds(cmd, at[n])
  <2>. HIDE DEF c
  <2>1. n \in 0 .. N /\ ~ (c <= n)
    BY <1>1, <1>6
  <2>. QED
    BY <1>5, <2>1
<1>8. ASSUME NEW i \in 0 .. N PROVE Word(cmd, i) \in Seq(Letters)
  <2>1. WordEnd(cmd, i) \in i .. N
    BY <1>8, WordEndIs
  <2>2. \A k \in 1 .. N : cmd[k] \in Letters
    BY ElementOfSeq
  <2>3. \A k \in i + 1 .. WordEnd(cmd, i) : cmd[k] \in Letters
    <3>. HIDE DEF N
    <3>. QED
      BY <1>1, <2>1, <2>2
  <2>4. i + 1 \in Int /\ WordEnd(cmd, i) \in Int
    BY <1>1, <2>1
  <2>5. SubSeq(cmd, i + 1, WordEnd(cmd, i)) \in Seq(Letters)
    BY <1>1, <2>1, <2>3, <2>4, SubSeqProperties
  <2>. QED
    BY <2>5 DEF Word
<1>. DEFINE args == [n \in 1 .. c |-> Word(cmd, at[n - 1])]
<1>9. Argv(cmd) = <<Word(cmd, 0)>> \o args
  BY DEF Argv, at
<1>. HIDE DEF c
<1>10. args \in Seq(Seq(Letters)) /\ Len(args) = c
  <2>1. ASSUME NEW n \in 1 .. c PROVE Word(cmd, at[n - 1]) \in Seq(Letters)
    <3>1. n - 1 \in 0 .. c - 1 /\ n - 1 \in 0 .. N
      BY <1>1, <1>6
    <3>2. ~ ParseEnds(cmd, at[n - 1]) /\ at[n - 1] \in 1 .. N + 1
      BY <1>1, <1>7, <3>1
    <3>3. at[n - 1] < N
      BY <1>2, <3>2
    <3>4. at[n - 1] \in 0 .. N
      <4>. HIDE DEF N
      <4>. QED
        BY <1>1, <3>2, <3>3
    <3>. QED
      BY <1>8, <3>4
  <2>2. c \in Nat
    BY <1>6
  <2>. QED
    BY <2>1, <2>2
<1>11. Word(cmd, 0) \in Seq(Letters)
  BY <1>1, <1>8
<1>12. /\ Argv(cmd) \in Seq(Seq(Letters)) /\ Len(Argv(cmd)) = c + 1
       /\ Argv(cmd)[1] = Word(cmd, 0)
       /\ \A n \in 1 .. c : Argv(cmd)[n + 1] = args[n]
  <2>. DEFINE w == Word(cmd, 0)
              W == Seq(Letters)
  <2>1. w \in W /\ args \in Seq(W) /\ Len(args) = c /\ c \in Nat
    BY <1>6, <1>10, <1>11
  <2>. HIDE DEF w, W, args
  <2>2. /\ <<w>> \o args \in Seq(W) /\ Len(<<w>> \o args) = c + 1
        /\ (<<w>> \o args)[1] = w
        /\ \A n \in 1 .. c : (<<w>> \o args)[n + 1] = args[n]
    BY <2>1
  <2>. QED
    BY <1>9, <2>2 DEF w, W
<1>. QED
  BY <1>6, <1>7, <1>12 DEF at

-----------------------------------------------------------------------------
(* getargs of a host: the buffer as words are added to it.                 *)
Stored == Letters \cup {Nul}
HostCopies == [value : {0, -1}, buf : Seq(Stored)]

LEMMA CopyFields ==
    ASSUME NEW b \in Seq(Stored), NEW v \in {0, -1}
    PROVE  /\ [value |-> v, buf |-> b] \in HostCopies
           /\ [value |-> v, buf |-> b].value = v /\ [value |-> v, buf |-> b].buf = b
BY DEF HostCopies

LEMMA AddWordIs ==
    ASSUME NEW copy \in HostCopies, NEW word \in Seq(Letters), NEW nbytes \in Nat
    PROVE  LET next == AddWord(copy, word, nbytes)
               text == copy.buf \o word
           IN  /\ next \in HostCopies /\ text \in Seq(Stored)
               /\ copy.value = -1 => next = copy
               /\ copy.value # -1 /\ Len(text) < nbytes =>
                    next.value = 0 /\ next.buf = text \o <<Space>>
               /\ copy.value # -1 /\ Len(text) >= nbytes => next.value = -1
               /\ copy.value # -1 /\ Len(text) > nbytes => next.buf = copy.buf
               /\ copy.value # -1 /\ Len(text) = nbytes => next.buf = text \o <<Nul>>
<1>. DEFINE text == copy.buf \o word
            next == AddWord(copy, word, nbytes)
<1>1. copy.value \in {0, -1} /\ copy.buf \in Seq(Stored)
  BY DEF HostCopies
<1>2. word \in Seq(Stored) /\ <<Space>> \in Seq(Stored) /\ <<Nul>> \in Seq(Stored)
  <2>1. Letters \subseteq Stored /\ Space \in Stored /\ Nul \in Stored
    BY DEF Stored, Letters
  <2>. HIDE DEF Stored, Letters
  <2>. QED
    BY <2>1
<1>3. text \in Seq(Stored) /\ Len(text) \in Nat
  BY <1>1, <1>2
<1>4. text \o <<Space>> \in Seq(Stored) /\ text \o <<Nul>> \in Seq(Stored)
  <2>. HIDE DEF text
  <2>. QED
    BY <1>2, <1>3
<1>5. CASE copy.value = -1
  <2>1. next = copy
    BY <1>5 DEF AddWord
  <2>. QED
    BY <1>3, <1>5, <2>1
<1>6. CASE copy.value # -1 /\ Len(text) > nbytes
  <2>1. next = [copy EXCEPT !.value = -1]
    BY <1>3, <1>6 DEF AddWord
  <2>2. next = [value |-> -1, buf |-> copy.buf]
    BY <2>1 DEF HostCopies
  <2>. HIDE DEF next, text
  <2>3. next \in HostCopies /\ next.value = -1 /\ next.buf = copy.buf
    BY <1>1, <2>2, CopyFields
  <2>4. ~ (Len(text) < nbytes) /\ Len(text) # nbytes
    BY <1>3, <1>6
  <2>. QED
    BY <1>3, <1>6, <2>3, <2>4 DEF text, next
<1>7. CASE copy.value # -1 /\ Len(text) = nbytes
  <2>1. next = [value |-> -1, buf |-> text \o <<Nul>>]
    BY <1>3, <1>7 DEF AddWord
  <2>. HIDE DEF next, text
  <2>2. next \in HostCopies /\ next.value = -1 /\ next.buf = text \o <<Nul>>
    BY <1>4, <2>1, CopyFields
  <2>3. ~ (Len(text) < nbytes) /\ ~ (Len(text) > nbytes)
    BY <1>3, <1>7
  <2>. QED
    BY <1>3, <1>7, <2>2, <2>3 DEF text, next
<1>8. CASE copy.value # -1 /\ Len(text) < nbytes
  <2>1. next = [value |-> 0, buf |-> text \o <<Space>>]
    BY <1>3, <1>8 DEF AddWord
  <2>. HIDE DEF next, text
  <2>2. next \in HostCopies /\ next.value = 0 /\ next.buf = text \o <<Space>>
    BY <1>4, <2>1, CopyFields
  <2>3. ~ (Len(text) >= nbytes) /\ ~ (Len(text) > nbytes) /\ Len(text) # nbytes
    BY <1>3, <1>8
  <2>. QED
    BY <1>3, <1>8, <2>2, <2>3 DEF text, next
<1>. HIDE DEF text
<1>9. Len(text) > nbytes \/ Len(text) = nbytes \/ Len(text) < nbytes
  BY <1>3
<1>. QED
  BY <1>5, <1>6, <1>7, <1>8, <1>9 DEF text

Adding(argv, nbytes, f) ==
    /\ \A n \in 0 .. Len(argv) - 1 : f[n] \in HostCopies
    /\ f[0] = [value |-> 0, buf |-> <<>>]
    /\ \A n \in 1 .. Len(argv) - 1 : f[n] = AddWord(f[n - 1], argv[n + 1], nbytes)
    /\ Len(argv) = 1 =>
         ece391_getargs(argv, nbytes) = IF nbytes < 1 THEN [value |-> -1, buf |-> <<>>]
                                        ELSE [value |-> 0, buf |-> <<Nul>>]
    /\ Len(argv) > 1 =>
         LET last == f[Len(argv) - 1]
         IN  ece391_getargs(argv, nbytes) =
               IF last.value = 0 THEN [last EXCEPT !.buf = Front(@) \o <<Nul>>] ELSE last

LEMMA GetargsIs ==
    ASSUME NEW argv \in Seq(Seq(Letters)), Len(argv) >= 1, NEW nbytes \in Nat
    PROVE  \E f : Adding(argv, nbytes, f)
<1>. DEFINE N == Len(argv) - 1
            zero == [value |-> 0, buf |-> <<>>]
            step == [n \in 1 .. N |-> [copy \in HostCopies |-> AddWord(copy, argv[n + 1], nbytes)]]
            IsCopied(f) ==
                f = [idx \in 0 .. N |-> IF idx = 0 THEN zero
                                        ELSE AddWord(f[idx - 1], argv[idx + 1], nbytes)]
<1>1. N \in Nat /\ Len(argv) = N + 1 /\ \A n \in 1 .. N : argv[n + 1] \in Seq(Letters)
  <2>1. Len(argv) \in Nat /\ \A n \in 1 .. Len(argv) : argv[n] \in Seq(Letters)
    BY LenProperties, ElementOfSeq
  <2>. QED
    BY <2>1
<1>2. zero \in HostCopies
  <2>1. <<>> \in Seq(Stored)
    OBVIOUS
  <2>. QED
    BY <2>1, CopyFields
<1>3. step \in [1 .. N -> [HostCopies -> HostCopies]]
  BY <1>1, AddWordIs
<1>4. PICK f \in [0 .. N -> HostCopies] :
        f[0] = zero /\ \A n \in 1 .. N : f[n] = step[n][f[n - 1]]
  <2>. HIDE DEF step, N, zero
  <2>1. Recursion(N, HostCopies, zero, step)
    BY <1>1, <1>2, <1>3, RecursionOn
  <2>. QED
    BY <2>1 DEF Recursion
<1>. HIDE DEF zero, N
<1>5. ASSUME NEW n \in 1 .. N PROVE f[n] = AddWord(f[n - 1], argv[n + 1], nbytes)
  <2>1. n - 1 \in 0 .. N
    BY <1>1
  <2>2. f[n - 1] \in HostCopies
    BY <2>1
  <2>. QED
    BY <1>4, <2>2
<1>6. IsCopied(f)
  <2>1. ASSUME NEW n \in 0 .. N
        PROVE  f[n] = IF n = 0 THEN zero ELSE AddWord(f[n - 1], argv[n + 1], nbytes)
    <3>1. CASE n = 0
      BY <1>4, <3>1
    <3>2. CASE n # 0
      BY <1>1, <1>5, <3>2
    <3>. QED
      BY <3>1, <3>2
  <2>. QED
    BY <2>1
<1>. DEFINE copied == CHOOSE g : IsCopied(g)
<1>7. IsCopied(copied)
  <2>. HIDE DEF IsCopied
  <2>. QED
    BY <1>6
<1>. DEFINE all == copied[N]
<1>8. /\ Len(argv) > 1 /\ all.value = 0 =>
           ece391_getargs(argv, nbytes) = [all EXCEPT !.buf = Front(@) \o <<Nul>>]
      /\ Len(argv) > 1 /\ all.value # 0 => ece391_getargs(argv, nbytes) = all
      /\ Len(argv) = 1 =>
           ece391_getargs(argv, nbytes) = IF nbytes < 1 THEN [value |-> -1, buf |-> <<>>]
                                          ELSE [value |-> 0, buf |-> <<Nul>>]
  <2>. DEFINE r == ece391_getargs(argv, nbytes)
              one == IF nbytes < 1 THEN [value |-> -1, buf |-> <<>>]
                     ELSE [value |-> 0, buf |-> <<Nul>>]
              ended == [all EXCEPT !.buf = Front(@) \o <<Nul>>]
  <2>1. r = CASE Len(argv) > 1 /\ all.value = 0 -> ended
              [] Len(argv) > 1 /\ all.value # 0 -> all
              [] Len(argv) = 1 -> one
    BY DEF ece391_getargs, zero, N
  <2>. HIDE DEF r, one, ended, all
  <2>2. Len(argv) = 1 => ~ (Len(argv) > 1)
    OBVIOUS
  <2>3. /\ Len(argv) > 1 /\ all.value = 0 => r = ended
        /\ Len(argv) > 1 /\ all.value # 0 => r = all
        /\ Len(argv) = 1 => r = one
    BY <2>1, <2>2, Zenon
  <2>. QED
    BY <2>3 DEF r, one, ended
<1>. HIDE DEF copied
<1>9. \A n \in 0 .. N : copied[n] = f[n]
  <2>. DEFINE S == {n \in 0 .. N : copied[n] = f[n]}
  <2>1. 0 \in S
    BY <1>1, <1>4, <1>7
  <2>2. ASSUME NEW n \in 0 .. N, n \in S, n < N PROVE n + 1 \in S
    <3>1. n + 1 \in 1 .. N /\ (n + 1) - 1 = n /\ n + 1 \in 0 .. N /\ n + 1 # 0
      BY <1>1, <2>2
    <3>2. f[n + 1] = AddWord(f[n], argv[n + 1 + 1], nbytes)
      BY <1>5, <3>1
    <3>3. copied[n + 1] = AddWord(copied[n], argv[n + 1 + 1], nbytes)
      BY <1>7, <3>1
    <3>. QED
      BY <2>2, <3>1, <3>2, <3>3
  <2>3. \A n \in 0 .. N : n \in S
    <3>. HIDE DEF S
    <3>. QED
      BY <1>1, <2>1, <2>2, CountingUp
  <2>. QED
    BY <2>3
<1>10. all = f[N] /\ \A n \in 0 .. N : f[n] \in HostCopies
  BY <1>1, <1>4, <1>9
<1>. HIDE DEF all
<1>11. Len(argv) > 1 =>
         ece391_getargs(argv, nbytes) =
           IF f[N].value = 0 THEN [f[N] EXCEPT !.buf = Front(@) \o <<Nul>>] ELSE f[N]
  BY <1>8, <1>10
<1>. QED
  BY <1>4, <1>5, <1>8, <1>10, <1>11 DEF Adding, N, zero

(* Never more than the NUL is stored behind the buffer, and not even that  *)
(* when the call succeeds.                                                 *)
LEMMA GetargsFits ==
    ASSUME NEW argv \in Seq(Seq(Letters)), Len(argv) >= 1, NEW nbytes \in Nat
    PROVE  LET got == ece391_getargs(argv, nbytes)
           IN  /\ Len(got.buf) <= nbytes + 1
               /\ got.value = 0 => Len(got.buf) <= nbytes
<1>. DEFINE N == Len(argv) - 1
            got == ece391_getargs(argv, nbytes)
            Fits(c) == /\ c \in HostCopies /\ Len(c.buf) <= nbytes + 1
                       /\ c.value = 0 => Len(c.buf) <= nbytes
<1>1. PICK f : Adding(argv, nbytes, f)
  BY GetargsIs
<1>2. /\ N \in Nat /\ Len(argv) = N + 1
      /\ \A n \in 1 .. Len(argv) : argv[n] \in Seq(Letters)
  BY LenProperties, ElementOfSeq
<1>. HIDE DEF N, got
<1>3. /\ \A n \in 0 .. N : f[n] \in HostCopies
      /\ f[0] = [value |-> 0, buf |-> <<>>]
      /\ \A n \in 1 .. N : f[n] = AddWord(f[n - 1], argv[n + 1], nbytes)
      /\ N = 0 => got = IF nbytes < 1 THEN [value |-> -1, buf |-> <<>>]
                        ELSE [value |-> 0, buf |-> <<Nul>>]
      /\ N > 0 => got = IF f[N].value = 0 THEN [f[N] EXCEPT !.buf = Front(@) \o <<Nul>>]
                        ELSE f[N]
  <2>1. Len(argv) - 1 = N /\ (N = 0 <=> Len(argv) = 1) /\ (N > 0 <=> Len(argv) > 1)
    BY <1>2
  <2>. QED
    BY <1>1, <2>1 DEF Adding, got
<1>4. \A n \in 0 .. N : Fits(f[n]) /\ (n > 0 /\ f[n].value = 0 => Len(f[n].buf) >= 1)
  <2>. DEFINE S == {n \in 0 .. N : /\ Fits(f[n])
                                   /\ n > 0 /\ f[n].value = 0 => Len(f[n].buf) >= 1}
  <2>1. 0 \in S
    BY <1>2, <1>3
  <2>2. ASSUME NEW n \in 0 .. N, n \in S, n < N PROVE n + 1 \in S
    <3>1. n + 1 \in 1 .. N /\ (n + 1) - 1 = n /\ n + 1 \in 0 .. N /\ n + 1 > 0
          /\ n + 1 + 1 \in 1 .. Len(argv)
      BY <1>2, <2>2
    <3>. DEFINE c == f[n]
                w == argv[n + 1 + 1]
                d == f[n + 1]
                text == c.buf \o w
    <3>2. Fits(c) /\ w \in Seq(Letters) /\ d = AddWord(c, w, nbytes) /\ d \in HostCopies
      BY <1>2, <1>3, <2>2, <3>1
    <3>. HIDE DEF c, w, d
    <3>3. /\ text \in Seq(Stored)
          /\ c.value = -1 => d = c
          /\ c.value # -1 /\ Len(text) < nbytes => d.value = 0 /\ d.buf = text \o <<Space>>
          /\ c.value # -1 /\ Len(text) >= nbytes => d.value = -1
          /\ c.value # -1 /\ Len(text) > nbytes => d.buf = c.buf
          /\ c.value # -1 /\ Len(text) = nbytes => d.buf = text \o <<Nul>>
      BY <3>2, AddWordIs
    <3>. HIDE DEF text
    <3>4. Len(text) \in Nat /\ Len(text \o <<Space>>) = Len(text) + 1
          /\ Len(text \o <<Nul>>) = Len(text) + 1
      BY <3>3
    <3>5. c.value = -1 \/ c.value # -1
      OBVIOUS
    <3>6. CASE c.value = -1
      <4>1. d = c /\ d.value # 0
        BY <3>3, <3>6
      <4>2. Fits(d) /\ (n + 1 > 0 /\ d.value = 0 => Len(d.buf) >= 1)
        BY <3>2, <4>1
      <4>. QED
        BY <3>1, <4>2 DEF d
    <3>7. CASE c.value # -1 /\ Len(text) < nbytes
      <4>1. Fits(d) /\ Len(d.buf) >= 1
        BY <3>2, <3>3, <3>4, <3>7
      <4>. QED
        BY <3>1, <4>1 DEF d
    <3>8. CASE c.value # -1 /\ Len(text) = nbytes
      <4>1. d.value = -1 /\ Len(d.buf) = nbytes + 1
        BY <3>3, <3>4, <3>8
      <4>2. Fits(d) /\ d.value # 0
        BY <3>2, <4>1
      <4>. QED
        BY <3>1, <4>2 DEF d
    <3>9. CASE c.value # -1 /\ Len(text) > nbytes
      <4>1. d.value = -1 /\ d.buf = c.buf
        BY <3>3, <3>4, <3>9
      <4>2. Fits(d) /\ d.value # 0
        BY <3>2, <4>1
      <4>. QED
        BY <3>1, <4>2 DEF d
    <3>. QED
      BY <3>4, <3>5, <3>6, <3>7, <3>8, <3>9
  <2>3. \A n \in 0 .. N : n \in S
    <3>. HIDE DEF S
    <3>. QED
      BY <1>2, <2>1, <2>2, CountingUp
  <2>. QED
    BY <2>3
<1>5. CASE N = 0
  <2>1. Len(<<Nul>>) = 1 /\ Len(<<>>) = 0
    OBVIOUS
  <2>2. got = IF nbytes < 1 THEN [value |-> -1, buf |-> <<>>]
                            ELSE [value |-> 0, buf |-> <<Nul>>]
    BY <1>3, <1>5
  <2>3. CASE nbytes < 1
    <3>1. got.value = -1 /\ got.buf = <<>>
      BY <2>2, <2>3
    <3>. QED
      BY <2>1, <3>1 DEF got
  <2>4. CASE ~ (nbytes < 1)
    <3>1. got.buf = <<Nul>>
      BY <2>2, <2>4
    <3>. QED
      BY <2>1, <2>4, <3>1 DEF got
  <2>. QED
    BY <2>3, <2>4
<1>6. CASE N > 0
  <2>. DEFINE c == f[N]
  <2>1. Fits(c) /\ (c.value = 0 => Len(c.buf) >= 1)
    BY <1>2, <1>4, <1>6
  <2>2. got = IF c.value = 0 THEN [c EXCEPT !.buf = Front(@) \o <<Nul>>] ELSE c
    BY <1>3, <1>6
  <2>. HIDE DEF c
  <2>3. CASE c.value = 0
    <3>. DEFINE b == Front(c.buf)
    <3>1. c.buf \in Seq(Stored)
      BY <2>1 DEF HostCopies
    <3>2. b \in Seq(Stored) /\ Len(b) = Len(c.buf) - 1
      BY <2>1, <2>3, <3>1, FrontOf
    <3>3. got.buf = b \o <<Nul>>
      BY <2>1, <2>2, <2>3 DEF HostCopies
    <3>. HIDE DEF b
    <3>4. Len(b \o <<Nul>>) = Len(c.buf)
      BY <3>1, <3>2
    <3>. QED
      BY <2>1, <2>3, <3>3, <3>4 DEF got
  <2>4. CASE c.value # 0
    BY <2>1, <2>2, <2>4 DEF got
  <2>. QED
    BY <2>3, <2>4
<1>. QED
  BY <1>2, <1>5, <1>6

-----------------------------------------------------------------------------
(* A command both sides read alike: no end of line, and one space between  *)
(* two arguments.                                                          *)
PlainCommand(cmd) ==
    /\ NewLine \notin ToSet(cmd)
    /\ Rest(cmd) # <<>> => Last(Rest(cmd)) # Space
    /\ \A k \in 1 .. Len(Rest(cmd)) - 1 :
         ~(Rest(cmd)[k] = Space /\ Rest(cmd)[k + 1] = Space)

LEMMA PlainIs ==
    ASSUME NEW cmd \in Seq(Letters), PlainCommand(cmd)
    PROVE  LET s == ArgStart(cmd)
               N == Len(cmd)
           IN  /\ \A i \in Nat : CharAt(cmd, i) # NewLine
               /\ s < N => CharAt(cmd, N - 1) # Space
               /\ \A i \in s .. N - 2 :
                    ~ (CharAt(cmd, i) = Space /\ CharAt(cmd, i + 1) = Space)
<1>. DEFINE s == ArgStart(cmd)
            N == Len(cmd)
            r == Rest(cmd)
<1>1. /\ N \in Nat /\ s \in 0 .. N /\ r \in Seq(Letters) /\ Len(r) = N - s
      /\ \A k \in 1 .. N - s : r[k] = CharAt(cmd, s + k - 1)
  BY RestIs, LenProperties
<1>2. \A i \in Nat : CharAt(cmd, i) # NewLine
  <2>. TAKE i \in Nat
  <2>1. CASE i >= N
    <3>1. CharAt(cmd, i) = Nul
      BY <2>1, CharIs
    <3>. QED
      BY <3>1, EmulateAssumption
  <2>2. CASE i < N
    <3>1. CharAt(cmd, i) = cmd[i + 1] /\ i + 1 \in 1 .. N
      BY <1>1, <2>2, CharIs
    <3>2. cmd[i + 1] \in ToSet(cmd)
      BY <3>1, ElementsOf
    <3>. QED
      BY <3>1, <3>2 DEF PlainCommand
  <2>. QED
    BY <1>1, <2>1, <2>2
<1>3. s < N => CharAt(cmd, N - 1) # Space
  <2>. SUFFICES ASSUME s < N PROVE CharAt(cmd, N - 1) # Space
    OBVIOUS
  <2>1. N - s \in 1 .. N - s /\ s + (N - s) - 1 = N - 1 /\ Len(r) # 0
    BY <1>1
  <2>2. r # <<>>
    BY <2>1
  <2>3. Last(r) # Space
    BY <2>2 DEF PlainCommand
  <2>4. Last(r) = r[N - s]
    BY <1>1 DEF Last
  <2>. QED
    BY <1>1, <2>1, <2>3, <2>4
<1>4. ASSUME NEW i \in s .. N - 2
      PROVE  ~ (CharAt(cmd, i) = Space /\ CharAt(cmd, i + 1) = Space)
  <2>. DEFINE k == i - s + 1
  <2>1. /\ k \in 1 .. N - s /\ k + 1 \in 1 .. N - s /\ k \in 1 .. (N - s) - 1
        /\ s + k - 1 = i /\ s + (k + 1) - 1 = i + 1
    BY <1>1
  <2>2. r[k] = CharAt(cmd, i) /\ r[k + 1] = CharAt(cmd, i + 1)
    BY <1>1, <2>1
  <2>3. ~ (r[k] = Space /\ r[k + 1] = Space)
    BY <1>1, <2>1 DEF PlainCommand
  <2>. QED
    BY <2>2, <2>3
<1>. QED
  BY <1>2, <1>3, <1>4 DEF s, N

(* The parser comes to the place where the arguments begin, and from every *)
(* word to the next one, until it is behind the NUL.                       *)
LEMMA PlainPlaces ==
    ASSUME NEW cmd \in Seq(Letters), PlainCommand(cmd)
    PROVE  LET s == ArgStart(cmd)
               N == Len(cmd)
               first == AfterSpaces(cmd, WordEnd(cmd, 0) + 1)
           IN  /\ WordEnd(cmd, 0) = NameEnd(cmd)
               /\ s < N => first = s
               /\ s = N => ParseEnds(cmd, first)
               /\ \A i \in s .. N - 1 : CharAt(cmd, i) # Space =>
                    LET e == WordEnd(cmd, i)
                    IN  /\ ~ ParseEnds(cmd, i) /\ NextPlace(cmd, i) = e + 1
                        /\ e \in i + 1 .. N /\ CharAt(cmd, e) \in {Space, Nul}
                        /\ e < N => /\ e + 1 < N /\ CharAt(cmd, e) = Space
                                    /\ CharAt(cmd, e + 1) # Space
<1>. DEFINE s == ArgStart(cmd)
            N == Len(cmd)
            z == NameEnd(cmd)
            w == WordEnd(cmd, 0)
            first == AfterSpaces(cmd, w + 1)
<1>1. N \in Nat /\ Nul # Space
  BY LenProperties, CommandsAssumption
<1>2. /\ z \in 0 .. N /\ CharAt(cmd, z) \in {Space, Nul}
      /\ \A i \in 0 .. z - 1 : CharAt(cmd, i) \notin {Space, Nul}
      /\ s \in z .. N /\ CharAt(cmd, s) # Space
      /\ \A i \in z .. s - 1 : CharAt(cmd, i) = Space
  BY StartIs
<1>3. /\ \A i \in Nat : CharAt(cmd, i) # NewLine
      /\ s < N => CharAt(cmd, N - 1) # Space
      /\ \A i \in s .. N - 2 : ~ (CharAt(cmd, i) = Space /\ CharAt(cmd, i + 1) = Space)
  BY PlainIs
<1>4. \A i \in Nat : /\ i < N => CharAt(cmd, i) # Nul
                     /\ i >= N => CharAt(cmd, i) = Nul
  BY CharIs
<1>5. \A i \in 0 .. N : LET e == WordEnd(cmd, i) IN
        /\ e \in i .. N /\ CharAt(cmd, e) \in {Space, NewLine, Nul}
        /\ \A j \in i .. e - 1 : CharAt(cmd, j) \notin {Space, NewLine, Nul}
  BY WordEndIs
<1>6. \A i \in 0 .. N + 1 : LET a == AfterSpaces(cmd, i) IN
        /\ a \in i .. N + 1 /\ CharAt(cmd, a) # Space
        /\ \A j \in i .. a - 1 : CharAt(cmd, j) = Space
  BY AfterSpacesIs
<1>. HIDE DEF s, N, z, first
<1>7. w = z
  <2>1. /\ w \in 0 .. N /\ CharAt(cmd, w) \in {Space, NewLine, Nul}
        /\ \A j \in 0 .. w - 1 : CharAt(cmd, j) \notin {Space, NewLine, Nul}
    BY <1>1, <1>5
  <2>. HIDE DEF w
  <2>2. ~ (w < z)
    <3>. SUFFICES ASSUME w < z PROVE FALSE
      OBVIOUS
    <3>1. w \in 0 .. z - 1 /\ w \in Nat
      BY <1>2, <2>1
    <3>. QED
      BY <1>2, <1>3, <2>1, <3>1
  <2>3. ~ (z < w)
    <3>. SUFFICES ASSUME z < w PROVE FALSE
      OBVIOUS
    <3>1. z \in 0 .. w - 1
      BY <1>2, <2>1
    <3>. QED
      BY <1>2, <2>1, <3>1
  <2>. QED
    BY <1>2, <2>1, <2>2, <2>3
<1>8. /\ first \in z + 1 .. N + 1 /\ CharAt(cmd, first) # Space
      /\ \A j \in z + 1 .. first - 1 : CharAt(cmd, j) = Space
  <2>1. z + 1 \in 0 .. N + 1 /\ first = AfterSpaces(cmd, z + 1)
    BY <1>1, <1>2, <1>7 DEF first
  <2>. QED
    BY <1>6, <2>1
<1>9. s < N => first = s
  <2>. SUFFICES ASSUME s < N PROVE first = s
    OBVIOUS
  <2>1. s # z
    <3>. SUFFICES ASSUME s = z PROVE FALSE
      OBVIOUS
    <3>1. CharAt(cmd, s) = Nul /\ s \in Nat
      BY <1>1, <1>2
    <3>. QED
      BY <1>4, <3>1
  <2>2. ~ (first < s)
    <3>. SUFFICES ASSUME first < s PROVE FALSE
      OBVIOUS
    <3>1. first \in z .. s - 1
      BY <1>1, <1>2, <1>8
    <3>. QED
      BY <1>2, <1>8, <3>1
  <2>3. ~ (s < first)
    <3>. SUFFICES ASSUME s < first PROVE FALSE
      OBVIOUS
    <3>1. s \in z + 1 .. first - 1
      BY <1>1, <1>2, <1>8, <2>1
    <3>. QED
      BY <1>2, <1>8, <3>1
  <2>. QED
    BY <1>1, <1>2, <1>8, <2>2, <2>3
<1>10. s = N => ParseEnds(cmd, first)
  <2>. SUFFICES ASSUME s = N PROVE ParseEnds(cmd, first)
    OBVIOUS
  <2>1. ~ (first < s)
    <3>. SUFFICES ASSUME first < s PROVE FALSE
      OBVIOUS
    <3>1. first \in z .. s - 1
      BY <1>1, <1>2, <1>8
    <3>. QED
      BY <1>2, <1>8, <3>1
  <2>2. first \in Nat /\ first >= N
    BY <1>1, <1>2, <1>8, <2>1
  <2>. QED
    BY <1>4, <2>2 DEF ParseEnds
<1>11. ASSUME NEW i \in s .. N - 1, CharAt(cmd, i) # Space
       PROVE  LET e == WordEnd(cmd, i)
              IN  /\ ~ ParseEnds(cmd, i) /\ NextPlace(cmd, i) = e + 1
                  /\ e \in i + 1 .. N /\ CharAt(cmd, e) \in {Space, Nul}
                  /\ e < N => /\ e + 1 < N /\ CharAt(cmd, e) = Space
                              /\ CharAt(cmd, e + 1) # Space
  <2>. DEFINE e == WordEnd(cmd, i)
              a == AfterSpaces(cmd, e + 1)
  <2>1. i \in 0 .. N /\ i \in Nat /\ i < N /\ s \in Nat /\ s <= i
    BY <1>1, <1>2
  <2>2. CharAt(cmd, i) \notin {Space, NewLine, Nul}
    BY <1>3, <1>4, <1>11, <2>1
  <2>3. /\ e \in i .. N /\ CharAt(cmd, e) \in {Space, NewLine, Nul}
    BY <1>5, <2>1
  <2>. HIDE DEF e
  <2>4. e # i
    BY <2>2, <2>3
  <2>5. e \in i + 1 .. N /\ e \in Nat
    BY <1>1, <2>1, <2>3, <2>4
  <2>6. CharAt(cmd, e) \in {Space, Nul}
    BY <1>3, <2>3, <2>5
  <2>7. ~ ParseEnds(cmd, i)
    BY <2>2 DEF ParseEnds
  <2>8. ASSUME e < N
        PROVE  e + 1 < N /\ CharAt(cmd, e) = Space /\ CharAt(cmd, e + 1) # Space
    <3>1. CharAt(cmd, e) = Space
      BY <1>4, <2>5, <2>6, <2>8
    <3>2. s < N /\ e # N - 1
      BY <1>1, <1>3, <2>1, <3>1
    <3>3. e + 1 < N /\ e \in s .. N - 2
      BY <1>1, <2>1, <2>5, <2>8, <3>2
    <3>. QED
      BY <1>3, <3>1, <3>3
  <2>9. CharAt(cmd, e + 1) # Space
    <3>1. CASE e < N
      BY <2>8, <3>1
    <3>2. CASE ~ (e < N)
      <4>1. e + 1 \in Nat /\ e + 1 >= N
        BY <1>1, <2>5, <3>2
      <4>. QED
        BY <1>1, <1>4, <4>1
    <3>. QED
      BY <3>1, <3>2
  <2>10. a = e + 1
    <3>1. e + 1 \in 0 .. N + 1
      BY <1>1, <2>5
    <3>2. a \in e + 1 .. N + 1 /\ \A j \in e + 1 .. a - 1 : CharAt(cmd, j) = Space
      BY <1>6, <3>1
    <3>. HIDE DEF a
    <3>3. ~ (e + 1 < a)
      <4>. SUFFICES ASSUME e + 1 < a PROVE FALSE
        OBVIOUS
      <4>1. e + 1 \in e + 1 .. a - 1
        BY <2>5, <3>2
      <4>. QED
        BY <2>9, <3>2, <4>1
    <3>. QED
      BY <2>5, <3>2, <3>3
  <2>11. NextPlace(cmd, i) = e + 1
    BY <2>7, <2>10 DEF NextPlace, e
  <2>. QED
    BY <2>5, <2>6, <2>7, <2>8, <2>11 DEF e
<1>. QED
  BY <1>7, <1>9, <1>10, <1>11 DEF s, N, z, first

(* A character of the arguments with a space behind them.                  *)
Spelling(cmd, k) ==
    IF ArgStart(cmd) + k <= Len(cmd) THEN CharAt(cmd, ArgStart(cmd) + k - 1) ELSE Space

(* The buffer when the parser has come to i: the characters before i, if   *)
(* there is room for them.                                                 *)
Spelled(cmd, nbytes, i, copy) ==
    LET n == i - ArgStart(cmd)
    IN  IF n <= nbytes
          THEN /\ copy.value = 0 /\ Len(copy.buf) = n
               /\ \A k \in 1 .. n : copy.buf[k] = Spelling(cmd, k)
          ELSE copy.value = -1

LEMMA OneAfterTheOther ==
    ASSUME NEW S, NEW s \in Seq(S), NEW t \in Seq(S), NEW u, u = s \o t
    PROVE  /\ u \in Seq(S) /\ Len(u) = Len(s) + Len(t)
           /\ \A k \in 1 .. Len(s) : u[k] = s[k]
           /\ \A k \in 1 .. Len(t) : u[Len(s) + k] = t[k]
OBVIOUS

LEMMA SpelledIs ==
    ASSUME NEW cmd, NEW nbytes, NEW i, NEW copy, NEW n, n = i - ArgStart(cmd)
    PROVE  /\ /\ n <= nbytes /\ copy.value = 0 /\ Len(copy.buf) = n
              /\ \A k \in 1 .. n : copy.buf[k] = Spelling(cmd, k)
              => Spelled(cmd, nbytes, i, copy)
           /\ ~ (n <= nbytes) /\ copy.value = -1 => Spelled(cmd, nbytes, i, copy)
BY Zenon DEF Spelled

LEMMA WordSpelled ==
    ASSUME NEW cmd \in Seq(Letters), PlainCommand(cmd), NEW nbytes \in Nat,
           NEW i \in ArgStart(cmd) .. Len(cmd) - 1, CharAt(cmd, i) # Space,
           NEW copy \in HostCopies, Spelled(cmd, nbytes, i, copy)
    PROVE  Spelled(cmd, nbytes, WordEnd(cmd, i) + 1, AddWord(copy, Word(cmd, i), nbytes))
<1>. DEFINE s == ArgStart(cmd)
            N == Len(cmd)
            e == WordEnd(cmd, i)
            w == Word(cmd, i)
            n == i - s
            m == e - s
            b == copy.buf
            text == b \o w
            next == AddWord(copy, w, nbytes)
<1>1. N \in Nat /\ s \in 0 .. N /\ i \in s .. N - 1
  BY RestIs, LenProperties
<1>2. e \in i + 1 .. N /\ CharAt(cmd, e) \in {Space, Nul} /\ (e < N => CharAt(cmd, e) = Space)
  BY PlainPlaces
<1>3. \A k \in 1 .. N : cmd[k] \in Letters
  BY ElementOfSeq
<1>4. w = SubSeq(cmd, i + 1, e)
  BY DEF Word
<1>5. copy.value \in {0, -1} /\ b \in Seq(Stored)
  BY DEF HostCopies
<1>6. IF n <= nbytes THEN /\ copy.value = 0 /\ Len(b) = n
                          /\ \A k \in 1 .. n : b[k] = Spelling(cmd, k)
                     ELSE copy.value = -1
  BY DEF Spelled
<1>. HIDE DEF s, N, e, w, b
<1>7. n \in Nat /\ m \in Nat /\ n < m /\ m = n + (e - i) /\ e - i \in Nat
  BY <1>1, <1>2
<1>8. /\ w \in Seq(Letters) /\ Len(w) = e - i
      /\ \A k \in 1 .. e - i : w[k] = cmd[i + k]
  <2>1. \A k \in i + 1 .. e : cmd[k] \in Letters
    BY <1>1, <1>2, <1>3
  <2>2. SubSeq(cmd, i + 1, e) = [k \in 1 .. e - (i + 1) + 1 |-> cmd[i + 1 + k - 1]]
    BY <1>1, <1>2 DEF N
  <2>3. e - (i + 1) + 1 = e - i /\ \A k \in 1 .. e - i : i + 1 + k - 1 = i + k
    BY <1>1, <1>2
  <2>4. w = [k \in 1 .. e - i |-> cmd[i + k]]
    BY <1>4, <2>2, <2>3
  <2>5. \A k \in 1 .. e - i : i + k \in i + 1 .. e
    BY <1>1, <1>2
  <2>. QED
    BY <1>7, <2>1, <2>4, <2>5
<1>9. /\ next \in HostCopies /\ text \in Seq(Stored)
      /\ copy.value = -1 => next = copy
      /\ copy.value # -1 /\ Len(text) < nbytes =>
           next.value = 0 /\ next.buf = text \o <<Space>>
      /\ copy.value # -1 /\ Len(text) >= nbytes => next.value = -1
  BY <1>8, AddWordIs DEF b
<1>10. (e + 1) - s = m + 1 /\ \A k \in 1 .. m : s + k <= N
  BY <1>1, <1>2
<1>13. /\ Len(text) = Len(b) + (e - i)
       /\ \A k \in 1 .. Len(b) : text[k] = b[k]
       /\ \A k \in 1 .. e - i : text[Len(b) + k] = w[k]
  <2>1. Letters \subseteq Stored
    BY DEF Stored
  <2>2. w \in Seq(Stored)
    <3>. HIDE DEF Stored
    <3>. QED
      BY <1>8, <2>1
  <2>3. text = b \o w
    OBVIOUS
  <2>. HIDE DEF text
  <2>4. /\ Len(text) = Len(b) + Len(w)
        /\ \A k \in 1 .. Len(b) : text[k] = b[k]
        /\ \A k \in 1 .. Len(w) : text[Len(b) + k] = w[k]
    BY <1>5, <2>2, <2>3, OneAfterTheOther
  <2>. QED
    BY <1>8, <2>4
<1>. HIDE DEF next, text
<1>14. ASSUME Spelled(cmd, nbytes, e + 1, next)
       PROVE  Spelled(cmd, nbytes, WordEnd(cmd, i) + 1, AddWord(copy, Word(cmd, i), nbytes))
  BY <1>14 DEF next, e, w
<1>. HIDE DEF n, m
<1>15. (e + 1) - ArgStart(cmd) = m + 1
  BY <1>10 DEF s
<1>11. CASE n > nbytes
  <2>1. next.value = -1 /\ ~ (m + 1 <= nbytes)
    BY <1>6, <1>7, <1>9, <1>11
  <2>. QED
    BY <1>14, <1>15, <2>1, SpelledIs
<1>12. CASE n <= nbytes
  <2>1. copy.value # -1 /\ Len(b) = n /\ \A k \in 1 .. n : b[k] = Spelling(cmd, k)
    BY <1>6, <1>12
  <2>2. Len(text) = m
    BY <1>7, <1>13, <2>1
  <2>3. CASE m >= nbytes
    <3>1. next.value = -1 /\ ~ (m + 1 <= nbytes)
      BY <1>7, <1>9, <2>1, <2>2, <2>3
    <3>. QED
      BY <1>14, <1>15, <3>1, SpelledIs
  <2>4. CASE m < nbytes
    <3>1. next.value = 0 /\ next.buf = text \o <<Space>> /\ m + 1 <= nbytes
      <4>1. m + 1 <= nbytes
        BY <1>7, <2>4
      <4>2. Len(text) < nbytes
        BY <2>2, <2>4
      <4>3. next.value = 0 /\ next.buf = text \o <<Space>>
        BY <1>9, <2>1, <4>2, Zenon
      <4>. QED
        BY <4>1, <4>3
    <3>2. \A k \in 1 .. n : text[k] = b[k]
      BY <1>13, <2>1
    <3>3. \A k \in 1 .. e - i : text[n + k] = w[k]
      BY <1>13, <2>1
    <3>4. \A k \in 1 .. m : text[k] = Spelling(cmd, k)
      <4>. TAKE k \in 1 .. m
      <4>1. CASE k <= n
        BY <1>7, <2>1, <3>2, <4>1
      <4>2. CASE k > n
        <5>. DEFINE j == k - n
        <5>1. j \in 1 .. e - i /\ n + j = k /\ i + j = s + k
          BY <1>1, <1>7, <4>2 DEF n
        <5>2. text[k] = cmd[s + k]
          BY <1>8, <3>3, <5>1
        <5>3. s + k - 1 \in Nat /\ s + k - 1 < N /\ (s + k - 1) + 1 = s + k /\ s + k <= N
          BY <1>1, <1>2, <1>7, <1>10
        <5>4. CharAt(cmd, s + k - 1) = cmd[s + k]
          BY <5>3, CharIs DEF N
        <5>. QED
          BY <5>2, <5>3, <5>4 DEF Spelling, s, N
      <4>. QED
        BY <1>7, <4>1, <4>2
    <3>5. /\ Len(next.buf) = m + 1 /\ next.buf[m + 1] = Space
          /\ \A k \in 1 .. m : next.buf[k] = text[k]
      <4>1. text \in Seq(Stored) /\ Len(text) = m /\ <<Space>> \in Seq(Stored)
            /\ Len(<<Space>>) = 1 /\ <<Space>>[1] = Space
        BY <1>9, <2>2 DEF Stored, Letters
      <4>. DEFINE u == next.buf
      <4>2. u = text \o <<Space>>
        BY <3>1
      <4>. HIDE DEF u
      <4>3. Len(u) = m + 1 /\ u[m + 1] = Space /\ \A k \in 1 .. m : u[k] = text[k]
        <5>1. 1 \in 1 .. Len(<<Space>>)
          BY <4>1
        <5>. QED
          BY <4>1, <4>2, <5>1, OneAfterTheOther
      <4>. QED
        BY <4>3 DEF u
    <3>6. Spelling(cmd, m + 1) = Space
      <4>1. s + (m + 1) = e + 1 /\ s + (m + 1) - 1 = e
        BY <1>1, <1>2 DEF m
      <4>2. CASE e < N
        <5>1. e + 1 <= N
          BY <1>1, <1>2, <4>2
        <5>. QED
          BY <1>2, <4>1, <4>2, <5>1 DEF Spelling, s, N
      <4>3. CASE ~ (e < N)
        <5>1. ~ (e + 1 <= N)
          BY <1>1, <1>2, <4>3
        <5>. QED
          BY <4>1, <5>1 DEF Spelling, s, N
      <4>. QED
        BY <4>2, <4>3
    <3>7. \A k \in 1 .. m + 1 : next.buf[k] = Spelling(cmd, k)
      <4>. TAKE k \in 1 .. m + 1
      <4>1. k \in 1 .. m \/ k = m + 1
        BY <1>7
      <4>. QED
        BY <3>4, <3>5, <3>6, <4>1
    <3>8. m + 1 <= nbytes /\ next.value = 0 /\ Len(next.buf) = m + 1
      BY <3>1, <3>5
    <3>. QED
      BY <1>14, <1>15, <3>7, <3>8, SpelledIs
  <2>. QED
    BY <1>7, <2>3, <2>4
<1>. QED
  BY <1>7, <1>11, <1>12

(* What the program is given, for a command without and with arguments.    *)
LEMMA HostArguments ==
    ASSUME NEW cmd \in Seq(Letters), PlainCommand(cmd), NEW nbytes \in Nat
    PROVE  LET got == ece391_getargs(Argv(cmd), nbytes)
           IN  /\ Argv(cmd)[1] = NameOf(cmd)
               /\ got.value = 0 <=> Len(Rest(cmd)) < nbytes
               /\ got.value = 0 => got.buf = Rest(cmd) \o <<Nul>>
<1>. DEFINE s == ArgStart(cmd)
            N == Len(cmd)
            r == Rest(cmd)
            argv == Argv(cmd)
            at == ArgPlaces(cmd)
            got == ece391_getargs(argv, nbytes)
<1>1. /\ N \in Nat /\ s \in 0 .. N /\ r \in Seq(Letters) /\ Len(r) = N - s
      /\ \A k \in 1 .. N - s : r[k] = CharAt(cmd, s + k - 1)
  BY RestIs, LenProperties
<1>2. PICK c \in 0 .. N :
        /\ ParseEnds(cmd, at[c]) /\ \A n \in 0 .. c - 1 : ~ ParseEnds(cmd, at[n])
        /\ argv \in Seq(Seq(Letters)) /\ Len(argv) = c + 1 /\ argv[1] = Word(cmd, 0)
        /\ \A n \in 1 .. c : argv[n + 1] = Word(cmd, at[n - 1])
  BY ArgvIs
<1>3. /\ at[0] = AfterSpaces(cmd, WordEnd(cmd, 0) + 1)
      /\ \A n \in 1 .. N : at[n] = NextPlace(cmd, at[n - 1])
  BY ArgPlacesAre
<1>4. /\ WordEnd(cmd, 0) = NameEnd(cmd)
      /\ s < N => at[0] = s
      /\ s = N => ParseEnds(cmd, at[0])
      /\ \A i \in s .. N - 1 : CharAt(cmd, i) # Space =>
           LET e == WordEnd(cmd, i)
           IN  /\ ~ ParseEnds(cmd, i) /\ NextPlace(cmd, i) = e + 1
               /\ e \in i + 1 .. N
               /\ e < N => e + 1 < N /\ CharAt(cmd, e + 1) # Space
  BY <1>3, PlainPlaces
<1>5. argv[1] = NameOf(cmd)
  <2>1. Word(cmd, 0) = SubSeq(cmd, 1, NameEnd(cmd))
    <3>1. Word(cmd, 0) = SubSeq(cmd, 0 + 1, WordEnd(cmd, 0)) /\ 0 + 1 = 1
      BY DEF Word
    <3>. QED
      BY <1>4, <3>1
  <2>. QED
    BY <1>2, <2>1 DEF NameOf
<1>6. PICK f : Adding(argv, nbytes, f)
  <2>1. Len(argv) >= 1
    BY <1>2
  <2>. QED
    BY <1>2, <2>1, GetargsIs
<1>. HIDE DEF s, N, r, argv, at, got
<1>7. /\ \A n \in 0 .. c : f[n] \in HostCopies
      /\ f[0] = [value |-> 0, buf |-> <<>>]
      /\ \A n \in 1 .. c : f[n] = AddWord(f[n - 1], argv[n + 1], nbytes)
      /\ c = 0 => got = IF nbytes < 1 THEN [value |-> -1, buf |-> <<>>]
                        ELSE [value |-> 0, buf |-> <<Nul>>]
      /\ c > 0 => got = IF f[c].value = 0 THEN [f[c] EXCEPT !.buf = Front(@) \o <<Nul>>]
                        ELSE f[c]
  <2>1. c \in Nat /\ Len(argv) - 1 = c /\ (c = 0 => Len(argv) = 1) /\ (c > 0 => Len(argv) > 1)
    BY <1>1, <1>2
  <2>. QED
    BY <1>6, <2>1 DEF Adding, got
<1>8. CASE s = N
  <2>1. c = 0
    <3>. SUFFICES ASSUME c # 0 PROVE FALSE
      OBVIOUS
    <3>1. 0 \in 0 .. c - 1
      BY <1>1, <1>2
    <3>. QED
      BY <1>2, <1>4, <1>8, <3>1
  <2>2. Len(r) = 0 /\ r = <<>>
    BY <1>1, <1>8
  <2>3. r \o <<Nul>> = <<Nul>>
    BY <2>2
  <2>4. got = IF nbytes < 1 THEN [value |-> -1, buf |-> <<>>] ELSE [value |-> 0, buf |-> <<Nul>>]
    BY <1>7, <2>1
  <2>5. CASE nbytes < 1
    <3>1. got.value = -1 /\ ~ (Len(r) < nbytes)
      BY <2>2, <2>4, <2>5
    <3>. QED
      BY <1>5, <3>1 DEF r, got, argv
  <2>6. CASE ~ (nbytes < 1)
    <3>1. got.value = 0 /\ got.buf = <<Nul>> /\ Len(r) < nbytes
      BY <2>2, <2>4, <2>6
    <3>. QED
      BY <1>5, <2>3, <3>1 DEF r, got, argv
  <2>. QED
    BY <2>5, <2>6
<1>9. CASE s < N
  <2>. DEFINE There(n) == /\ at[n] = N + 1 \/ (at[n] \in s .. N - 1 /\ CharAt(cmd, at[n]) # Space)
                          /\ Spelled(cmd, nbytes, at[n], f[n])
              S == {n \in 0 .. c : There(n)}
  <2>1. c \in Nat
    BY <1>1, <1>2
  <2>2. 0 \in S
    <3>1. at[0] = s /\ s - s = 0 /\ s \in s .. N - 1
      BY <1>1, <1>4, <1>9
    <3>2. CharAt(cmd, s) # Space
      BY StartIs DEF s
    <3>3. f[0].value = 0 /\ f[0].buf = <<>> /\ Len(<<>>) = 0 /\ 0 <= nbytes
      BY <1>7
    <3>4. Spelled(cmd, nbytes, at[0], f[0])
      BY <3>1, <3>3 DEF Spelled, s
    <3>. QED
      BY <2>1, <3>1, <3>2, <3>4
  <2>3. ASSUME NEW n \in 0 .. c, n \in S, n < c PROVE n + 1 \in S
    <3>1. /\ n + 1 \in 1 .. c /\ n + 1 \in 1 .. N /\ (n + 1) - 1 = n /\ n \in 0 .. c - 1
          /\ n + 1 \in 0 .. c
      BY <1>1, <1>2, <2>1, <2>3
    <3>. DEFINE i == at[n]
    <3>2. /\ ~ ParseEnds(cmd, i) /\ at[n + 1] = NextPlace(cmd, i)
          /\ f[n + 1] = AddWord(f[n], Word(cmd, i), nbytes) /\ f[n] \in HostCopies
      BY <1>2, <1>3, <1>7, <3>1
    <3>3. There(n)
      BY <2>3
    <3>. HIDE DEF i
    <3>4. i # N + 1
      <4>. SUFFICES ASSUME i = N + 1 PROVE FALSE
        OBVIOUS
      <4>1. i \in Nat /\ i >= Len(cmd)
        BY <1>1 DEF N
      <4>2. CharAt(cmd, i) = Nul
        BY <4>1, CharIs
      <4>. QED
        BY <3>2, <4>2 DEF ParseEnds
    <3>5. i \in s .. N - 1 /\ CharAt(cmd, i) # Space /\ Spelled(cmd, nbytes, i, f[n])
      BY <3>3, <3>4 DEF i
    <3>. DEFINE e == WordEnd(cmd, i)
    <3>6. at[n + 1] = e + 1 /\ e \in i + 1 .. N /\ (e < N => e + 1 < N /\ CharAt(cmd, e + 1) # Space)
      BY <1>4, <3>2, <3>5
    <3>7. Spelled(cmd, nbytes, e + 1, f[n + 1])
      BY <3>2, <3>5, WordSpelled DEF s, N
    <3>. HIDE DEF e
    <3>8. e = N \/ e < N
      BY <1>1, <3>5, <3>6
    <3>9. e < N => e + 1 \in s .. N - 1
      BY <1>1, <3>5, <3>6
    <3>10. There(n + 1)
      BY <3>6, <3>7, <3>8, <3>9
    <3>. QED
      BY <3>1, <3>10
  <2>4. There(c)
    <3>1. \A n \in 0 .. c : n \in S
      <4>. HIDE DEF S
      <4>. QED
        BY <2>1, <2>2, <2>3, CountingUp
    <3>. QED
      BY <2>1, <3>1
  <2>5. at[c] = N + 1
    BY <1>2, <1>4, <2>4
  <2>6. c > 0
    <3>. SUFFICES ASSUME c = 0 PROVE FALSE
      BY <2>1
    <3>1. at[0] = N + 1 /\ at[0] = s
      BY <1>4, <1>9, <2>5
    <3>. QED
      BY <1>1, <1>9, <3>1
  <2>. DEFINE d == f[c]
              n == (N + 1) - s
  <2>7. d \in HostCopies /\ Spelled(cmd, nbytes, N + 1, d)
    BY <1>7, <2>1, <2>4, <2>5
  <2>8. got = IF d.value = 0 THEN [d EXCEPT !.buf = Front(@) \o <<Nul>>] ELSE d
    BY <1>7, <2>6
  <2>. HIDE DEF d
  <2>9. IF n <= nbytes THEN /\ d.value = 0 /\ Len(d.buf) = n
                            /\ \A k \in 1 .. n : d.buf[k] = Spelling(cmd, k)
                       ELSE d.value = -1
    BY <2>7 DEF Spelled, s
  <2>10. n \in Nat /\ n = Len(r) + 1 /\ Len(r) \in Nat /\ Len(r) = N - s
    BY <1>1, <1>9
  <2>. HIDE DEF n
  <2>11. CASE ~ (n <= nbytes)
    <3>1. got = d /\ got.value = -1 /\ ~ (Len(r) < nbytes)
      BY <2>8, <2>9, <2>10, <2>11
    <3>. QED
      BY <1>5, <3>1 DEF r, got, argv
  <2>12. CASE n <= nbytes
    <3>1. d.value = 0 /\ Len(d.buf) = n /\ \A k \in 1 .. n : d.buf[k] = Spelling(cmd, k)
      BY <2>9, <2>12
    <3>. DEFINE b == Front(d.buf)
    <3>2. d.buf \in Seq(Stored)
      BY <2>7 DEF HostCopies
    <3>3. b \in Seq(Stored) /\ Len(b) = n - 1 /\ \A k \in 1 .. n - 1 : b[k] = d.buf[k]
      <4>1. Len(d.buf) = n /\ Len(d.buf) >= 1
        BY <2>10, <3>1
      <4>. QED
        BY <3>2, <4>1, FrontOf
    <3>. HIDE DEF b
    <3>4. \A k \in 1 .. Len(r) : b[k] = r[k]
      <4>. TAKE k \in 1 .. Len(r)
      <4>1. k \in 1 .. n - 1 /\ k \in 1 .. n /\ k \in 1 .. N - s /\ s + k <= N
        BY <1>1, <2>10
      <4>2. Spelling(cmd, k) = CharAt(cmd, s + k - 1)
        BY <4>1 DEF Spelling, s, N
      <4>. QED
        BY <1>1, <3>1, <3>3, <4>1, <4>2
    <3>5. b = r
      <4>1. r \in Seq(Stored) /\ Len(b) = Len(r)
        <5>1. Letters \subseteq Stored
          BY DEF Stored
        <5>2. r \in Seq(Stored)
          <6>. HIDE DEF Stored
          <6>. QED
            BY <1>1, <5>1
        <5>. QED
          BY <2>10, <3>3, <5>2
      <4>. QED
        BY <3>3, <3>4, <4>1, SeqEqual
    <3>6. got.value = 0 /\ got.buf = b \o <<Nul>>
      <4>1. got = [d EXCEPT !.buf = b \o <<Nul>>]
        BY <2>8, <3>1 DEF b
      <4>. QED
        BY <2>7, <3>1, <4>1 DEF HostCopies
    <3>7. Len(r) < nbytes
      BY <2>10, <2>12
    <3>. QED
      BY <1>5, <3>5, <3>6, <3>7 DEF r, got, argv
  <2>. QED
    BY <2>11, <2>12
<1>. QED
  BY <1>1, <1>8, <1>9

-----------------------------------------------------------------------------
(* The command lines of the calls.                                         *)
LEMMA LinesAre ==
    /\ CommandLines \subseteq Seq(Letters)
    /\ \A cmd \in HostLines : cmd \in Seq(Letters) /\ Len(cmd) \in Nat
<1>1. ASSUME NEW n \in Nat, NEW S \in SUBSET Letters, NEW cmd \in [1 .. n -> S]
      PROVE  cmd \in Seq(Letters) /\ Len(cmd) \in Nat
  <2>. HIDE DEF Letters
  <2>. QED
    OBVIOUS
<1>2. MaxCommand \in Nat /\ MaxHostLine \in Nat
  BY BoundsAssumption
<1>3. {"x", "y", Space} \in SUBSET Letters /\ {"x", Space, NewLine} \in SUBSET Letters
  BY DEF Letters
<1>. HIDE DEF Letters
<1>4. CommandLines \subseteq Seq(Letters)
  <2>. SUFFICES ASSUME NEW cmd \in CommandLines PROVE cmd \in Seq(Letters)
    OBVIOUS
  <2>1. PICK n \in 1 .. MaxCommand : cmd \in [1 .. n -> {"x", "y", Space}]
    BY DEF CommandLines
  <2>2. n \in Nat
    BY <1>2
  <2>. QED
    BY <1>1, <1>3, <2>1, <2>2
<1>5. \A cmd \in HostLines : cmd \in Seq(Letters) /\ Len(cmd) \in Nat
  <2>. TAKE cmd \in HostLines
  <2>1. PICK n \in 1 .. MaxHostLine : cmd \in [1 .. n -> {"x", Space, NewLine}]
    BY DEF HostLines
  <2>2. n \in Nat
    BY <1>2
  <2>. QED
    BY <1>1, <1>3, <2>1, <2>2
<1>. QED
  BY <1>4, <1>5

LEMMA ExecuteHolds == CallsInv => CommandReachesTheProgram
<1>. SUFFICES ASSUME CallsInv, Called("execute")
              PROVE  LET start == ArgStart(call.cmd)
                         rest  == SubSeq(call.cmd, start + 1, Len(call.cmd))
                     IN  /\ 2 * start + Len(rest) < LINE_BUFFER => StringIn(result.args) = rest
                         /\ Space \notin ToSet(result.name)
                         /\ rest # <<>> => rest[1] # Space
                         /\ IsPrefix(result.name, call.cmd)
  BY DEF CommandReachesTheProgram
<1>. DEFINE cmd == call.cmd
            nbytes == call.nbytes
<1>1. /\ cmd \in CommandLines /\ nbytes \in {LINE_BUFFER, LINE_BUFFER + 2}
      /\ result = [name |-> NameOf(cmd), args |-> Getargs(ArgsOf(cmd), nbytes)]
  BY DEF CallsInv, Arguments, Answers, Called
<1>2. cmd \in Seq(Letters) /\ nbytes \in Nat /\ nbytes >= LINE_BUFFER
  <2>1. LINE_BUFFER \in Nat
    BY CommandsAssumption
  <2>2. cmd \in Seq(Letters)
    BY <1>1, LinesAre
  <2>. QED
    BY <1>1, <2>1, <2>2
<1>. HIDE DEF cmd, nbytes
<1>3. result.name = NameOf(cmd) /\ result.args = Getargs(ArgsOf(cmd), nbytes)
  BY <1>1
<1>4. Rest(cmd) = SubSeq(cmd, ArgStart(cmd) + 1, Len(cmd))
  BY DEF Rest
<1>5. 2 * ArgStart(cmd) + Len(Rest(cmd)) < LINE_BUFFER => StringIn(result.args) = Rest(cmd)
  BY <1>2, <1>3, KernelArguments
<1>6. /\ Space \notin ToSet(result.name) /\ IsPrefix(result.name, cmd)
      /\ Rest(cmd) # <<>> => Rest(cmd)[1] # Space
  BY <1>2, <1>3, KernelName
<1>. QED
  BY <1>4, <1>5, <1>6, Zenon DEF cmd

LEMMA EmulateHolds ==
    ASSUME CallsInv, Called("emulate")
    PROVE  /\ PlainCommand(call.cmd) => result.argv[1] = NameOf(call.cmd)
           /\ PlainCommand(call.cmd) =>
                (result.got.value = 0 <=> Len(Rest(call.cmd)) < call.nbytes)
           /\ PlainCommand(call.cmd) /\ result.got.value = 0 =>
                result.got.buf = Rest(call.cmd) \o <<Nul>>
           /\ Len(result.got.buf) <= call.nbytes + 1
           /\ result.got.value = 0 => Len(result.got.buf) <= call.nbytes
<1>. DEFINE cmd == call.cmd
            nbytes == call.nbytes
<1>1. /\ cmd \in HostLines /\ nbytes \in 0 .. MaxHostLine + 1
      /\ result = [argv |-> Argv(cmd), got |-> ece391_getargs(Argv(cmd), nbytes)]
  BY DEF CallsInv, Arguments, Answers, Called
<1>2. cmd \in Seq(Letters) /\ nbytes \in Nat
  <2>1. MaxHostLine \in Nat
    BY BoundsAssumption
  <2>2. cmd \in Seq(Letters)
    BY <1>1, LinesAre
  <2>. QED
    BY <1>1, <2>1, <2>2
<1>. HIDE DEF cmd, nbytes
<1>3. result.argv = Argv(cmd) /\ result.got = ece391_getargs(Argv(cmd), nbytes)
  BY <1>1
<1>4. Argv(cmd) \in Seq(Seq(Letters)) /\ Len(Argv(cmd)) >= 1
  <2>1. PICK c \in 0 .. Len(cmd) :
          Argv(cmd) \in Seq(Seq(Letters)) /\ Len(Argv(cmd)) = c + 1
    BY <1>2, ArgvIs
  <2>. QED
    BY <2>1
<1>5. /\ Len(result.got.buf) <= nbytes + 1
      /\ result.got.value = 0 => Len(result.got.buf) <= nbytes
  BY <1>2, <1>3, <1>4, GetargsFits
<1>6. PlainCommand(cmd) =>
        /\ result.argv[1] = NameOf(cmd)
        /\ result.got.value = 0 <=> Len(Rest(cmd)) < nbytes
        /\ result.got.value = 0 => result.got.buf = Rest(cmd) \o <<Nul>>
  BY <1>2, <1>3, HostArguments
<1>. QED
  BY <1>5, <1>6 DEF cmd, nbytes

LEMMA ChildHolds ==
    ASSUME CallsInv, Called("child")
    PROVE  IF Len(call.cmd) <= MAX_COMMAND /\ call.child.exits
             THEN result = call.child.status
             ELSE result \in {-1, 256}
<1>. DEFINE cmd == call.cmd
            child == call.child
<1>1. /\ cmd \in HostLines /\ child \in Children
      /\ result = ece391_execute(cmd, child)
  BY DEF CallsInv, Arguments, Answers, Called
<1>2. Len(cmd) \in Nat /\ MAX_COMMAND \in Nat
  BY <1>1, LinesAre, EmulateAssumption
<1>3. child.exits \in BOOLEAN /\ child.status \in {0, 3, 9, 11, 255}
  BY <1>1 DEF Children, KILL
<1>. HIDE DEF cmd, child
<1>4. child.status % 256 = child.status
  BY <1>3
<1>5. CASE Len(cmd) > MAX_COMMAND
  <2>1. result = -1 /\ ~ (Len(cmd) <= MAX_COMMAND)
    BY <1>1, <1>2, <1>5 DEF ece391_execute
  <2>. QED
    BY <2>1 DEF cmd
<1>6. CASE Len(cmd) <= MAX_COMMAND /\ child.exits
  <2>1. result = child.status % 256
    BY <1>1, <1>2, <1>6 DEF ece391_execute
  <2>. QED
    BY <1>4, <1>6, <2>1 DEF cmd, child
<1>7. CASE Len(cmd) <= MAX_COMMAND /\ ~ child.exits
  <2>1. result \in {-1, 256}
    BY <1>1, <1>2, <1>7 DEF ece391_execute
  <2>. QED
    BY <1>7, <2>1 DEF child
<1>. QED
  BY <1>2, <1>3, <1>5, <1>6, <1>7

(* A program finds the arguments of its command line, and nothing of an    *)
(* earlier one, through system_execute and system_getargs and through      *)
(* their emulation on a host, for command lines and buffers of any length. *)
THEOREM ArgumentsAreGiven == CallSpec => []ArgumentsReachTheProgram
<1>1. CallsInv => EmulationGivesTheSame
  <2>. SUFFICES ASSUME CallsInv PROVE EmulationGivesTheSame
    OBVIOUS
  <2>. QED
    BY EmulateHolds, ChildHolds, Zenon DEF EmulationGivesTheSame, PlainCommand, Rest
<1>2. CallsInv => ArgumentsReachTheProgram
  BY <1>1, ExecuteHolds DEF ArgumentsReachTheProgram
<1>. QED
  BY <1>2, CallsInvHolds, PTL

-----------------------------------------------------------------------------
(* The keyboard.                                                           *)
Flags      == [shift_pressed : BOOLEAN, ctrl_pressed : BOOLEAN,
               alt_pressed : BOOLEAN, caps_activated : BOOLEAN]
Characters == {"a", "A", "1", "!"}
States     == [flags : Flags, line : Seq(Characters)]
NoState    == [flags |-> NoFlags, line |-> <<>>]

LEMMA CodeFields ==
    ASSUME NEW code \in Codes
    PROVE  /\ code.key \in Keys /\ code.down \in BOOLEAN
           /\ code = [key |-> code.key, down |-> code.down]
BY DEF Codes

(* The flags one by one.                                                   *)
LEMMA FlagsNow ==
    ASSUME NEW flags \in Flags, NEW code \in Codes
    PROVE  LET now == FlagsAfter(flags, code)
           IN  /\ now \in Flags
               /\ now.shift_pressed = IF code.key \in ShiftKeys THEN code.down
                                      ELSE flags.shift_pressed
               /\ now.ctrl_pressed = IF code.key = "CTRL" THEN code.down ELSE flags.ctrl_pressed
               /\ now.alt_pressed = IF code.key = "ALT" THEN code.down ELSE flags.alt_pressed
               /\ now.caps_activated = IF code.key = "CAPS_LOCK" /\ code.down
                                         THEN ~flags.caps_activated ELSE flags.caps_activated
<1>. DEFINE now == FlagsAfter(flags, code)
<1>1. code.key \in Keys /\ code.down \in BOOLEAN
  BY CodeFields
<1>2. CASE code.down
  <2>1. now = Pressed(flags, code.key)
    BY <1>2 DEF FlagsAfter
  <2>2. CASE code.key \in ShiftKeys
    <3>1. now = [flags EXCEPT !.shift_pressed = TRUE]
      BY <2>1, <2>2 DEF Pressed, ShiftKeys, TypingKeys
    <3>. HIDE DEF now
    <3>. QED
      BY <1>1, <1>2, <2>2, <3>1 DEF Flags, ShiftKeys, now
  <2>3. CASE code.key = "CTRL"
    <3>1. now = [flags EXCEPT !.ctrl_pressed = TRUE]
      BY <2>1, <2>3 DEF Pressed, ShiftKeys, TypingKeys
    <3>. HIDE DEF now
    <3>. QED
      BY <1>1, <1>2, <2>3, <3>1 DEF Flags, ShiftKeys, now
  <2>4. CASE code.key = "ALT"
    <3>1. now = [flags EXCEPT !.alt_pressed = TRUE]
      BY <2>1, <2>4 DEF Pressed, ShiftKeys, TypingKeys
    <3>. HIDE DEF now
    <3>. QED
      BY <1>1, <1>2, <2>4, <3>1 DEF Flags, ShiftKeys, now
  <2>5. CASE code.key = "CAPS_LOCK"
    <3>1. now = [flags EXCEPT !.caps_activated = ~flags.caps_activated]
      BY <2>1, <2>5 DEF Pressed, ShiftKeys, TypingKeys
    <3>. HIDE DEF now
    <3>. QED
      BY <1>1, <1>2, <2>5, <3>1 DEF Flags, ShiftKeys, now
  <2>6. CASE code.key \in TypingKeys
    <3>1. now = flags
      BY <2>1, <2>6 DEF Pressed, ShiftKeys, TypingKeys
    <3>. HIDE DEF now
    <3>. QED
      BY <1>1, <1>2, <2>6, <3>1 DEF Flags, ShiftKeys, TypingKeys, now
  <2>. QED
    BY <1>1, <2>2, <2>3, <2>4, <2>5, <2>6 DEF Keys
<1>3. CASE ~ code.down
  <2>1. now = Released(flags, code.key)
    BY <1>3 DEF FlagsAfter
  <2>2. CASE code.key \in ShiftKeys
    <3>1. now = [flags EXCEPT !.shift_pressed = FALSE]
      BY <2>1, <2>2 DEF Released, ShiftKeys
    <3>. HIDE DEF now
    <3>. QED
      BY <1>1, <1>3, <2>2, <3>1 DEF Flags, ShiftKeys, now
  <2>3. CASE code.key = "CTRL"
    <3>1. now = [flags EXCEPT !.ctrl_pressed = FALSE]
      BY <2>1, <2>3 DEF Released, ShiftKeys
    <3>. HIDE DEF now
    <3>. QED
      BY <1>1, <1>3, <2>3, <3>1 DEF Flags, ShiftKeys, now
  <2>4. CASE code.key = "ALT"
    <3>1. now = [flags EXCEPT !.alt_pressed = FALSE]
      BY <2>1, <2>4 DEF Released, ShiftKeys
    <3>. HIDE DEF now
    <3>. QED
      BY <1>1, <1>3, <2>4, <3>1 DEF Flags, ShiftKeys, now
  <2>5. CASE code.key \notin ShiftKeys \cup {"CTRL", "ALT"}
    <3>1. now = flags
      BY <2>1, <2>5 DEF Released
    <3>. HIDE DEF now
    <3>. QED
      BY <1>1, <1>3, <2>5, <3>1 DEF Flags, now
  <2>. QED
    BY <2>2, <2>3, <2>4, <2>5
<1>. QED
  BY <1>1, <1>2, <1>3

LEMMA TypedCharacters ==
    ASSUME NEW flags \in Flags, NEW code \in Codes
    PROVE  TypedBy(flags, code) \in Seq(Characters)
<1>1. CASE code.down /\ code.key \in TypingKeys /\ ~flags.alt_pressed
  <2>1. Table(flags)[code.key] \in Characters
    BY <1>1 DEF Table, lowercase_char, uppercase_char, caps_char, caps_shift_char, Characters
  <2>2. TypedBy(flags, code) = <<Table(flags)[code.key]>>
    BY <1>1 DEF TypedBy
  <2>. HIDE DEF Characters
  <2>. QED
    BY <2>1, <2>2
<1>2. CASE ~ (code.down /\ code.key \in TypingKeys /\ ~flags.alt_pressed)
  BY <1>2 DEF TypedBy
<1>. QED
  BY <1>1, <1>2

LEMMA HandleIs ==
    ASSUME NEW state \in States, NEW code \in Codes
    PROVE  /\ Handle(state, code) \in States
           /\ Handle(state, code).flags = FlagsAfter(state.flags, code)
           /\ Handle(state, code).line =
                state.line \o TypedBy(FlagsAfter(state.flags, code), code)
<1>. DEFINE now == FlagsAfter(state.flags, code)
            more == TypedBy(now, code)
<1>1. state.flags \in Flags /\ state.line \in Seq(Characters)
  BY DEF States
<1>2. now \in Flags
  BY <1>1, FlagsNow
<1>3. more \in Seq(Characters)
  BY <1>2, TypedCharacters
<1>4. Handle(state, code) = [flags |-> now, line |-> state.line \o more]
  BY DEF Handle
<1>. HIDE DEF now, more
<1>5. state.line \o more \in Seq(Characters)
  BY <1>1, <1>3, ConcatProperties
<1>6. Handle(state, code) \in States
  BY <1>2, <1>4, <1>5 DEF States
<1>7. Handle(state, code).flags = now /\ Handle(state, code).line = state.line \o more
  BY <1>4
<1>. QED
  BY <1>6, <1>7 DEF now, more

LEMMA NoStateIs == NoState \in States /\ NoState.flags = NoFlags /\ NoState.line = <<>>
                   /\ NoFlags \in Flags
<1>1. NoFlags \in Flags
  BY DEF NoFlags, Flags
<1>. QED
  BY <1>1 DEF NoState, States

(* The handler as a function of how many of the codes it has had.          *)
Typing(codes, f) ==
    /\ f \in [0 .. Len(codes) -> States]
    /\ f[0] = NoState /\ f[Len(codes)].line = Typed(codes)
    /\ \A n \in 1 .. Len(codes) : f[n] = Handle(f[n - 1], codes[n])

LEMMA TypedUnfolds ==
    ASSUME NEW codes \in Seq(Codes)
    PROVE  \E f : Typing(codes, f)
<1>. DEFINE N    == Len(codes)
            step == [n \in 1 .. N |-> [state \in States |-> Handle(state, codes[n])]]
            IsAfter(f) ==
                f = [n \in 0 .. N |-> IF n = 0 THEN NoState ELSE Handle(f[n - 1], codes[n])]
<1>1. N \in Nat /\ \A n \in 1 .. N : codes[n] \in Codes
  BY LenProperties, ElementOfSeq
<1>2. step \in [1 .. N -> [States -> States]]
  BY <1>1, HandleIs
<1>3. PICK f \in [0 .. N -> States] :
        f[0] = NoState /\ \A n \in 1 .. N : f[n] = step[n][f[n - 1]]
  <2>. HIDE DEF step, N
  <2>1. Recursion(N, States, NoState, step)
    BY <1>1, <1>2, NoStateIs, RecursionOn
  <2>. QED
    BY <2>1 DEF Recursion
<1>4. ASSUME NEW n \in 1 .. N PROVE f[n] = Handle(f[n - 1], codes[n])
  <2>1. n - 1 \in 0 .. N
    BY <1>1
  <2>2. f[n - 1] \in States
    BY <2>1
  <2>. QED
    BY <1>3, <2>2
<1>5. IsAfter(f)
  <2>1. ASSUME NEW n \in 0 .. N
        PROVE  f[n] = IF n = 0 THEN NoState ELSE Handle(f[n - 1], codes[n])
    <3>1. CASE n = 0
      BY <1>3, <3>1
    <3>2. CASE n # 0
      BY <1>1, <1>4, <3>2
    <3>. QED
      BY <3>1, <3>2
  <2>. QED
    BY <2>1
<1>. DEFINE after == CHOOSE g : IsAfter(g)
<1>6. IsAfter(after)
  <2>. HIDE DEF IsAfter
  <2>. QED
    BY <1>5
<1>7. Typed(codes) = after[N].line
  BY DEF Typed, NoState
<1>. HIDE DEF after
<1>8. after[N] = f[N]
  <2>. DEFINE B == {n \in Nat : n <= N /\ after[n] # f[n]}
  <2>. SUFFICES ASSUME B # {} PROVE FALSE
    BY <1>1
  <2>1. PICK n \in B : \A k \in B : n <= k
    BY LeastNumber
  <2>2. n \in 0 .. N /\ n # 0 /\ n \in 1 .. N
    BY <1>1, <1>3, <1>6, <2>1
  <2>3. after[n - 1] = f[n - 1]
    BY <1>1, <2>1, <2>2
  <2>. QED
    BY <1>4, <1>6, <2>1, <2>2, <2>3
<1>. QED
  BY <1>3, <1>4, <1>7, <1>8 DEF Typing

-----------------------------------------------------------------------------
(* The keys held and the presses of Caps Lock, code by code.               *)
LEMMA HeldNext ==
    ASSUME NEW codes \in Seq(Codes), NEW n \in 1 .. Len(codes)
    PROVE  HeldAfter(codes, n) = IF codes[n].down
                                   THEN HeldAfter(codes, n - 1) \cup {codes[n].key}
                                   ELSE HeldAfter(codes, n - 1) \ {codes[n].key}
<1>1. Len(codes) \in Nat /\ codes[n] \in Codes /\ n \in Nat
  BY LenProperties, ElementOfSeq
<1>2. codes[n].key \in Keys /\ codes[n].down \in BOOLEAN
      /\ codes[n] = [key |-> codes[n].key, down |-> codes[n].down]
  BY <1>1, CodeFields
<1>. DEFINE Holds1(key, m) == \E i \in 1 .. m : /\ codes[i] = [key |-> key, down |-> TRUE]
                                                /\ \A j \in i + 1 .. m : codes[j].key # key
<1>3. \A m : HeldAfter(codes, m) = {key \in Keys : Holds1(key, m)}
  BY DEF HeldAfter
<1>4. ASSUME NEW key \in Keys, key # codes[n].key
      PROVE  Holds1(key, n) <=> Holds1(key, n - 1)
  <2>1. ASSUME Holds1(key, n) PROVE Holds1(key, n - 1)
    <3>1. PICK i \in 1 .. n : /\ codes[i] = [key |-> key, down |-> TRUE]
                              /\ \A j \in i + 1 .. n : codes[j].key # key
      BY <2>1
    <3>2. i # n
      BY <1>4, <3>1
    <3>3. i \in 1 .. n - 1 /\ \A j \in i + 1 .. n - 1 : j \in i + 1 .. n
      BY <1>1, <3>2
    <3>. QED
      BY <3>1, <3>3
  <2>2. ASSUME Holds1(key, n - 1) PROVE Holds1(key, n)
    <3>1. PICK i \in 1 .. n - 1 : /\ codes[i] = [key |-> key, down |-> TRUE]
                                  /\ \A j \in i + 1 .. n - 1 : codes[j].key # key
      BY <2>2
    <3>2. i \in 1 .. n /\ \A j \in i + 1 .. n : j = n \/ j \in i + 1 .. n - 1
      BY <1>1
    <3>3. \A j \in i + 1 .. n : codes[j].key # key
      BY <1>4, <3>1, <3>2
    <3>. QED
      BY <3>1, <3>2, <3>3
  <2>. QED
    BY <2>1, <2>2
<1>5. Holds1(codes[n].key, n) <=> codes[n].down
  <2>1. ASSUME Holds1(codes[n].key, n) PROVE codes[n].down
    <3>1. PICK i \in 1 .. n : /\ codes[i] = [key |-> codes[n].key, down |-> TRUE]
                              /\ \A j \in i + 1 .. n : codes[j].key # codes[n].key
      BY <2>1
    <3>2. i = n
      BY <1>1, <3>1
    <3>. QED
      BY <3>1, <3>2
  <2>2. ASSUME codes[n].down PROVE Holds1(codes[n].key, n)
    <3>1. codes[n] = [key |-> codes[n].key, down |-> TRUE]
      BY <1>2, <2>2
    <3>2. n \in 1 .. n /\ n + 1 .. n = {}
      BY <1>1
    <3>. QED
      BY <3>1, <3>2
  <2>. QED
    BY <2>1, <2>2
<1>. HIDE DEF Holds1
<1>. QED
  BY <1>2, <1>3, <1>4, <1>5

LEMMA HeldFirst == ASSUME NEW codes PROVE HeldAfter(codes, 0) = {}
BY DEF HeldAfter

LEMMA CapsNext ==
    ASSUME NEW codes, NEW n \in Nat \ {0}
    PROVE  /\ CapsPresses(codes, n - 1) \in Nat
           /\ CapsPresses(codes, n) =
                IF codes[n] = [key |-> "CAPS_LOCK", down |-> TRUE]
                  THEN CapsPresses(codes, n - 1) + 1 ELSE CapsPresses(codes, n - 1)
<1>. DEFINE press == [key |-> "CAPS_LOCK", down |-> TRUE]
            S(m) == {i \in 1 .. m : codes[i] = press}
<1>. HIDE DEF press
<1>1. IsFiniteSet(1 .. n - 1)
  BY FS_Interval
<1>2. IsFiniteSet(S(n - 1)) /\ Cardinality(S(n - 1)) \in Nat
  <2>1. S(n - 1) \in SUBSET (1 .. n - 1)
    OBVIOUS
  <2>. HIDE DEF S
  <2>2. IsFiniteSet(S(n - 1))
    BY <1>1, <2>1, FS_Subset
  <2>. QED
    BY <2>2, FS_CardinalityType
<1>3. CASE codes[n] = press
  <2>1. S(n) = S(n - 1) \cup {n} /\ n \notin S(n - 1)
    BY <1>3
  <2>. HIDE DEF S
  <2>2. Cardinality(S(n)) = Cardinality(S(n - 1)) + 1
    BY <1>2, <2>1, FS_AddElement
  <2>. QED
    BY <1>2, <1>3, <2>2 DEF CapsPresses, S, press
<1>4. CASE codes[n] # press
  <2>1. S(n) = S(n - 1)
    BY <1>4
  <2>. QED
    BY <1>2, <1>4, <2>1 DEF CapsPresses, press
<1>. QED
  BY <1>3, <1>4

LEMMA CapsFirst == ASSUME NEW codes PROVE CapsPresses(codes, 0) = 0
<1>1. {i \in 1 .. 0 : codes[i] = [key |-> "CAPS_LOCK", down |-> TRUE]} = {}
  OBVIOUS
<1>. QED
  BY <1>1, FS_EmptySet DEF CapsPresses

(* The flags say which keys are held and how often Caps Lock was pressed.  *)
FlagsTell(flags, codes, n) ==
    /\ flags.shift_pressed <=> HeldAfter(codes, n) \cap ShiftKeys # {}
    /\ flags.ctrl_pressed <=> "CTRL" \in HeldAfter(codes, n)
    /\ flags.alt_pressed <=> "ALT" \in HeldAfter(codes, n)
    /\ flags.caps_activated <=> CapsPresses(codes, n) % 2 = 1

LEMMA FlagsTellNext ==
    ASSUME NEW codes \in Seq(Codes), NEW n \in 1 .. Len(codes), NEW flags \in Flags,
           ~codes[n].down => codes[n].key \in HeldAfter(codes, n - 1),
           ~(ShiftKeys \subseteq HeldAfter(codes, n - 1)),
           FlagsTell(flags, codes, n - 1)
    PROVE  FlagsTell(FlagsAfter(flags, codes[n]), codes, n)
<1>. DEFINE code == codes[n]
            now == FlagsAfter(flags, code)
            old == HeldAfter(codes, n - 1)
            held == HeldAfter(codes, n)
<1>1. code \in Codes /\ n \in Nat \ {0}
  BY LenProperties, ElementOfSeq
<1>2. code.key \in Keys /\ code.down \in BOOLEAN /\ code = [key |-> code.key, down |-> code.down]
  BY <1>1, CodeFields
<1>3. held = IF code.down THEN old \cup {code.key} ELSE old \ {code.key}
  BY HeldNext
<1>4. /\ now.shift_pressed = IF code.key \in ShiftKeys THEN code.down ELSE flags.shift_pressed
      /\ now.ctrl_pressed = IF code.key = "CTRL" THEN code.down ELSE flags.ctrl_pressed
      /\ now.alt_pressed = IF code.key = "ALT" THEN code.down ELSE flags.alt_pressed
      /\ now.caps_activated = IF code.key = "CAPS_LOCK" /\ code.down
                                THEN ~flags.caps_activated ELSE flags.caps_activated
  BY <1>1, FlagsNow
<1>5. /\ flags.shift_pressed \in BOOLEAN /\ flags.ctrl_pressed \in BOOLEAN
      /\ flags.alt_pressed \in BOOLEAN /\ flags.caps_activated \in BOOLEAN
  BY DEF Flags
<1>6. /\ flags.shift_pressed <=> old \cap ShiftKeys # {}
      /\ flags.ctrl_pressed <=> "CTRL" \in old
      /\ flags.alt_pressed <=> "ALT" \in old
      /\ flags.caps_activated <=> CapsPresses(codes, n - 1) % 2 = 1
  BY DEF FlagsTell
<1>7. (~code.down => code.key \in old) /\ ~(ShiftKeys \subseteq old)
  OBVIOUS
<1>8. now.caps_activated <=> CapsPresses(codes, n) % 2 = 1
  <2>. DEFINE c == CapsPresses(codes, n - 1)
  <2>1. /\ c \in Nat
        /\ CapsPresses(codes, n) = IF code = [key |-> "CAPS_LOCK", down |-> TRUE] THEN c + 1 ELSE c
    BY <1>1, CapsNext
  <2>2. code = [key |-> "CAPS_LOCK", down |-> TRUE] <=> code.key = "CAPS_LOCK" /\ code.down
    <3>. HIDE DEF code
    <3>1. ASSUME code = [key |-> "CAPS_LOCK", down |-> TRUE]
          PROVE  code.key = "CAPS_LOCK" /\ code.down
      BY <3>1
    <3>2. ASSUME code.key = "CAPS_LOCK", code.down
          PROVE  code = [key |-> "CAPS_LOCK", down |-> TRUE]
      <4>1. code.down = TRUE
        BY <1>2, <3>2
      <4>2. code = [key |-> code.key, down |-> code.down]
        BY <1>2
      <4>. QED
        BY <3>2, <4>1, <4>2, Zenon
    <3>. QED
      BY <3>1, <3>2
  <2>. HIDE DEF c, code, now
  <2>3. (c + 1) % 2 = 1 <=> ~ (c % 2 = 1)
    BY <2>1
  <2>. QED
    BY <1>4, <1>5, <1>6, <2>1, <2>2, <2>3 DEF c
<1>. HIDE DEF code, now, old, held
<1>9. now.ctrl_pressed <=> "CTRL" \in held
  BY <1>2, <1>3, <1>4, <1>6
<1>10. now.alt_pressed <=> "ALT" \in held
  BY <1>2, <1>3, <1>4, <1>6
<1>11. now.shift_pressed <=> held \cap ShiftKeys # {}
  <2>1. CASE code.key \in ShiftKeys /\ code.down
    BY <1>3, <1>4, <2>1
  <2>2. CASE code.key \in ShiftKeys /\ ~code.down
    <3>1. \A key \in ShiftKeys : key # code.key => key \notin old
      BY <1>7, <2>2 DEF ShiftKeys
    <3>. QED
      BY <1>3, <1>4, <2>2, <3>1
  <2>3. CASE code.key \notin ShiftKeys
    BY <1>3, <1>4, <1>6, <2>3
  <2>. QED
    BY <1>2, <2>1, <2>2, <2>3
<1>. QED
  BY <1>8, <1>9, <1>10, <1>11 DEF FlagsTell, now, held, code

LEMMA TypesExpected ==
    ASSUME NEW codes \in Seq(Codes), NEW n \in 1 .. Len(codes), NEW flags \in Flags,
           FlagsTell(flags, codes, n),
           "CTRL" \in HeldAfter(codes, n) => codes[n].key \notin TypingKeys
    PROVE  TypedBy(flags, codes[n]) = Expected(codes, n)
<1>. DEFINE code == codes[n]
            held == HeldAfter(codes, n)
            shift == held \cap ShiftKeys # {}
            caps == CapsPresses(codes, n) % 2 = 1
<1>1. code \in Codes
  BY ElementOfSeq
<1>2. code.key \in Keys /\ code.down \in BOOLEAN
  BY <1>1, CodeFields
<1>3. /\ flags.shift_pressed \in BOOLEAN /\ flags.ctrl_pressed \in BOOLEAN
      /\ flags.alt_pressed \in BOOLEAN /\ flags.caps_activated \in BOOLEAN
  BY DEF Flags
<1>4. /\ flags.shift_pressed <=> shift
      /\ flags.ctrl_pressed <=> "CTRL" \in held
      /\ flags.alt_pressed <=> "ALT" \in held
      /\ flags.caps_activated <=> caps
  BY DEF FlagsTell
<1>5. Expected(codes, n) =
        IF ~code.down \/ code.key \notin TypingKeys \/ "ALT" \in held THEN <<>>
        ELSE IF code.key = "SIGN" THEN <<IF shift THEN "!" ELSE "1">>
        ELSE <<IF shift # caps THEN "A" ELSE "a">>
  BY DEF Expected
<1>6. "CTRL" \in held => code.key \notin TypingKeys
  OBVIOUS
<1>. HIDE DEF code, held, shift, caps
<1>7. CASE ~code.down \/ code.key \notin TypingKeys \/ "ALT" \in held
  <2>1. TypedBy(flags, code) = <<>>
    BY <1>3, <1>4, <1>7 DEF TypedBy
  <2>. QED
    BY <1>5, <1>7, <2>1 DEF code
<1>8. CASE ~(~code.down \/ code.key \notin TypingKeys \/ "ALT" \in held)
  <2>1. TypedBy(flags, code) = <<Table(flags)[code.key]>> /\ ~flags.ctrl_pressed
    BY <1>3, <1>4, <1>6, <1>8 DEF TypedBy
  <2>2. CASE code.key = "SIGN"
    <3>1. Table(flags)[code.key] = IF flags.shift_pressed THEN "!" ELSE "1"
      BY <1>3, <2>1, <2>2 DEF Table, TypingKeys, lowercase_char, uppercase_char, caps_char,
         caps_shift_char
    <3>2. Table(flags)[code.key] = IF shift THEN "!" ELSE "1"
      BY <1>4, <3>1, Zenon
    <3>3. Expected(codes, n) = <<IF shift THEN "!" ELSE "1">>
      BY <1>5, <1>8, <2>2
    <3>. QED
      BY <2>1, <3>2, <3>3 DEF code
  <2>3. CASE code.key = "LETTER"
    <3>1. Table(flags)[code.key] = IF flags.shift_pressed # flags.caps_activated THEN "A" ELSE "a"
      BY <1>3, <2>1, <2>3 DEF Table, TypingKeys, lowercase_char, uppercase_char, caps_char,
         caps_shift_char
    <3>2. (flags.shift_pressed # flags.caps_activated) <=> (shift # caps)
      BY <1>3, <1>4 DEF shift, caps
    <3>3. Expected(codes, n) = <<IF shift # caps THEN "A" ELSE "a">>
      BY <1>5, <1>8, <2>3
    <3>4. Table(flags)[code.key] = IF shift # caps THEN "A" ELSE "a"
      BY <3>1, <3>2, Zenon
    <3>. QED
      BY <2>1, <3>3, <3>4 DEF code
  <2>. QED
    BY <1>8, <2>2, <2>3 DEF TypingKeys
<1>. QED
  BY <1>7, <1>8

LEMMA TypedIsExpected ==
    ASSUME NEW codes \in CodeSequences, PlainTyping(codes)
    PROVE  Typed(codes) = ExpectedLine(codes)
<1>. DEFINE N == Len(codes)
            ss == [n \in 1 .. N |-> Expected(codes, n)]
<1>1. codes \in Seq(Codes) /\ N \in Nat /\ (\A n \in 1 .. N : codes[n] \in Codes)
      /\ \A n \in 1 .. N : ~codes[n].down => codes[n].key \in HeldAfter(codes, n - 1)
  <2>1. PICK m \in 1 .. MaxCodes : codes \in [1 .. m -> KeyCodes]
    BY DEF CodeSequences
  <2>2. m \in Nat /\ KeyCodes \subseteq Codes
    BY BoundsAssumption DEF KeyCodes
  <2>3. codes \in Seq(Codes)
    BY <2>1, <2>2
  <2>. QED
    BY <2>3, LenProperties, ElementOfSeq DEF CodeSequences
<1>2. PICK f : Typing(codes, f)
  BY <1>1, TypedUnfolds
<1>3. /\ f \in [0 .. N -> States]
      /\ f[0] = NoState /\ f[N].line = Typed(codes)
      /\ \A n \in 1 .. N : f[n] = Handle(f[n - 1], codes[n])
  BY <1>2 DEF Typing
<1>. HIDE DEF N
<1>4. ASSUME NEW n \in 1 .. N
      PROVE  /\ n - 1 \in 0 .. N /\ f[n - 1] \in States /\ f[n] \in States
             /\ f[n - 1].flags \in Flags /\ f[n].flags \in Flags
             /\ f[n - 1].line \in Seq(Characters)
             /\ f[n].flags = FlagsAfter(f[n - 1].flags, codes[n])
             /\ f[n].line = f[n - 1].line \o TypedBy(f[n].flags, codes[n])
  <2>1. n - 1 \in 0 .. N
    BY <1>1
  <2>2. f[n - 1] \in States /\ codes[n] \in Codes
    BY <1>1, <1>3, <2>1
  <2>3. f[n] = Handle(f[n - 1], codes[n])
    BY <1>3
  <2>4. /\ f[n] \in States
        /\ f[n].flags = FlagsAfter(f[n - 1].flags, codes[n])
        /\ f[n].line = f[n - 1].line \o TypedBy(f[n].flags, codes[n])
    <3>1. /\ Handle(f[n - 1], codes[n]) \in States
          /\ Handle(f[n - 1], codes[n]).flags = FlagsAfter(f[n - 1].flags, codes[n])
          /\ Handle(f[n - 1], codes[n]).line =
               f[n - 1].line \o TypedBy(FlagsAfter(f[n - 1].flags, codes[n]), codes[n])
      BY <2>2, HandleIs
    <3>. QED
      BY <2>3, <3>1, Zenon
  <2>. QED
    BY <2>1, <2>2, <2>4 DEF States
<1>. DEFINE S == {n \in 0 .. N : FlagsTell(f[n].flags, codes, n)}
<1>5. 0 \in S
  <2>1. f[0].flags = NoFlags
    BY <1>3, NoStateIs
  <2>2. HeldAfter(codes, 0) = {} /\ CapsPresses(codes, 0) = 0
    BY HeldFirst, CapsFirst
  <2>3. FlagsTell(NoFlags, codes, 0)
    BY <2>2 DEF FlagsTell, NoFlags
  <2>. QED
    BY <1>1, <2>1, <2>3
<1>6. \A n \in 0 .. N : n \in S /\ n < N => n + 1 \in S
  <2>. SUFFICES ASSUME NEW n \in 0 .. N, n < N, FlagsTell(f[n].flags, codes, n)
                PROVE  FlagsTell(f[n + 1].flags, codes, n + 1)
    BY <1>1
  <2>1. n + 1 \in 1 .. N /\ (n + 1) - 1 = n
    BY <1>1
  <2>2. ~(ShiftKeys \subseteq HeldAfter(codes, n))
    <3>1. CASE n = 0
      BY <3>1, HeldFirst DEF ShiftKeys
    <3>2. CASE n # 0
      <4>1. n \in 1 .. N
        BY <1>1, <3>2
      <4>. QED
        BY <4>1 DEF PlainTyping, N
    <3>. QED
      BY <3>1, <3>2
  <2>3. /\ f[n].flags \in Flags /\ f[n + 1].flags = FlagsAfter(f[n].flags, codes[n + 1])
        /\ ~codes[n + 1].down => codes[n + 1].key \in HeldAfter(codes, n)
    BY <1>1, <1>4, <2>1
  <2>. QED
    BY <1>1, <2>1, <2>2, <2>3, FlagsTellNext DEF N
<1>7. \A n \in 0 .. N : FlagsTell(f[n].flags, codes, n)
  <2>. HIDE DEF S
  <2>1. \A n \in 0 .. N : n \in S
    BY <1>1, <1>5, <1>6, CountingUp
  <2>. QED
    BY <2>1 DEF S
<1>8. ASSUME NEW n \in 1 .. N
      PROVE  /\ ss[n] \in Seq(Characters)
             /\ f[n].line = f[n - 1].line \o ss[n]
  <2>1. FlagsTell(f[n].flags, codes, n)
    BY <1>1, <1>7
  <2>2. "CTRL" \in HeldAfter(codes, n) => codes[n].key \notin TypingKeys
    BY DEF PlainTyping, N
  <2>3. TypedBy(f[n].flags, codes[n]) = Expected(codes, n)
    BY <1>1, <1>4, <2>1, <2>2, TypesExpected DEF N
  <2>4. TypedBy(f[n].flags, codes[n]) \in Seq(Characters)
    BY <1>1, <1>4, TypedCharacters
  <2>5. ss[n] = Expected(codes, n)
    OBVIOUS
  <2>. QED
    BY <1>4, <2>3, <2>4, <2>5
<1>. DEFINE g == [n \in 0 .. N |-> f[n].line]
<1>9. Flattening(Characters, ss, N, g)
  <2>1. DOMAIN ss = 1 .. N /\ Len(ss) = N /\ (N = 0 => ss = <<>>)
    BY <1>1
  <2>2. g \in [0 .. N -> Seq(Characters)]
    BY <1>3 DEF States
  <2>3. g[0] = <<>>
    BY <1>1, <1>3, NoStateIs
  <2>4. ASSUME NEW n \in 1 .. N PROVE ss[n] \in Seq(Characters) /\ g[n] = g[n - 1] \o ss[n]
    <3>1. n \in 0 .. N /\ n - 1 \in 0 .. N
      BY <1>1
    <3>2. g[n] = f[n].line /\ g[n - 1] = f[n - 1].line
      BY <3>1
    <3>. QED
      BY <1>8, <3>2
  <2>. HIDE DEF g, ss
  <2>. QED
    BY <1>1, <2>1, <2>2, <2>3, <2>4 DEF Flattening
<1>10. FlattenSeq(ss) = g[N]
  <2>. HIDE DEF g, ss
  <2>. QED
    BY <1>9, FlattenIs
<1>11. g[N] = Typed(codes)
  BY <1>1, <1>3
<1>. QED
  BY <1>10, <1>11 DEF ExpectedLine, N

(* What is typed is what the keys held say, through sequences of scan      *)
(* codes of any length: keyboard_handler's four flags follow the keys, and *)
(* its four tables agree with them.                                        *)
THEOREM TypingIsExpected == CallSpec => []KeysTypeTheirCharacters
<1>1. CallsInv => KeysTypeTheirCharacters
  <2>. SUFFICES ASSUME CallsInv, Called("keys"), PlainTyping(call.codes)
                PROVE  result = ExpectedLine(call.codes)
    BY DEF KeysTypeTheirCharacters
  <2>1. call.codes \in CodeSequences /\ result = Typed(call.codes)
    BY DEF CallsInv, Arguments, Answers, Called
  <2>. QED
    BY <2>1, TypedIsExpected
<1>. QED
  BY <1>1, CallsInvHolds, PTL

-----------------------------------------------------------------------------
(* The clock driver.                                                       *)
(* The flag is up because of a tick that has ended no read, or because the *)
(* read it has ended has yet to lower it.                                  *)
FlagIsAccounted == rtc_flag => unused \/ \E u \in Terminals : pc[u] = "clear"

(* The inductive invariant: that a tick is never shared needs nothing of   *)
(* the clock, and the clock nothing of the flag.                           *)
RtcInv == ClockIsSound /\ FlagIsAccounted

-----------------------------------------------------------------------------
(* The loop of rtc_write.                                                  *)

LEMMA PowersOfTwo ==
    /\ 2^0 = 1 /\ 2^1 = 2 /\ 2^2 = 4 /\ 2^3 = 8 /\ 2^4 = 16 /\ 2^5 = 32
    /\ 2^6 = 64 /\ 2^7 = 128 /\ 2^8 = 256 /\ 2^9 = 512 /\ 2^10 = 1024
    /\ 2^11 = 2048 /\ 2^12 = 4096 /\ 2^13 = 8192 /\ 2^14 = 16384
    /\ 2^15 = 32768
BY SMT

(* The top bit of a 16-bit number.                                         *)
LEMMA WordHalved == \A w \in Words : w \div 32768 \in {0, 1}
<1>. DEFINE top == 65535
<1>1. top \in Nat /\ top < 65536
  OBVIOUS
<1>2. Words = 0 .. top
  BY DEF Words
<1>. HIDE DEF top
<1>3. \A w \in 0 .. top : w \in Nat /\ w < 65536
  BY <1>1
<1>4. \A w \in Nat : w < 32768 => w \div 32768 = 0
  OBVIOUS
<1>5. \A w \in Nat : w < 65536 /\ ~ (w < 32768) => w \div 32768 = 1
  OBVIOUS
<1>6. \A w \in 0 .. top : w \div 32768 \in {0, 1}
  BY <1>3, <1>4, <1>5
<1>. QED
  BY <1>2, <1>6

(* The loop ends: fifteen halvings bring every 16-bit number down to 1 or  *)
(* to 0, and n is the first round that does.                               *)
LEMMA HalvingsEnd ==
    ASSUME NEW freq \in Frequencies
    PROVE  \E n \in 1 .. RATE_MAX :
              /\ freq \div 2^n \in {0, 1}
              /\ \A j \in 1 .. n - 1 : freq \div 2^j \notin {0, 1}
<1>1. freq \div 2^15 \in {0, 1}
  <2>1. freq \in Words
    BY SizesAssumption, Zenon
  <2>2. freq \div 32768 \in {0, 1}
    BY <2>1, WordHalved
  <2>. QED
    BY <2>2, PowersOfTwo
<1>. DEFINE Ends == {k \in 1 .. RATE_MAX : freq \div 2^k \in {0, 1}}
<1>2. \A k : k \in Ends <=> k \in 1 .. RATE_MAX /\ freq \div 2^k \in {0, 1}
  BY Zenon
<1>3. 15 \in 1 .. RATE_MAX /\ 1 .. RATE_MAX \subseteq Nat
  BY DEF RATE_MAX
<1>4. 15 \in Ends
  BY <1>1, <1>2, <1>3, Zenon
<1>. HIDE DEF Ends
<1>5. Ends \in SUBSET Nat /\ Ends # {}
  BY <1>2, <1>3, <1>4, Zenon
<1>6. PICK n \in Ends : \A y \in Ends : n <= y
  BY <1>5, LeastNumber, Zenon
<1>7. n \in 1 .. RATE_MAX /\ freq \div 2^n \in {0, 1}
  BY <1>2, Zenon
<1>8. ASSUME NEW j \in 1 .. n - 1 PROVE freq \div 2^j \notin {0, 1}
  <2>1. n \in 1 .. RATE_MAX
    BY <1>7, Zenon
  <2>2. j \in 1 .. RATE_MAX /\ ~ (n <= j)
    BY <2>1 DEF RATE_MAX
  <2>3. j \notin Ends
    BY <1>6, <2>2, Zenon
  <2>. QED
    BY <1>2, <2>2, <2>3, Zenon
<1>. QED
  BY <1>7, <1>8, Zenon

(* The rate that rtc_write computes fits in the four bits register A has   *)
(* for it, and is not 0, which would stop the clock.                       *)
THEOREM RateOfFits ==
    ASSUME NEW freq \in Frequencies
    PROVE  RateOf(freq) \in 1 .. RATE_MAX
<1>. DEFINE P(k) == /\ freq \div 2^k \in {0, 1}
                    /\ \A j \in 1 .. k - 1 : freq \div 2^j \notin {0, 1}
            n == CHOOSE k \in 1 .. RATE_MAX : P(k)
<1>1. \E k \in 1 .. RATE_MAX : P(k)
  BY HalvingsEnd
<1>2. n \in 1 .. RATE_MAX
  BY <1>1
<1>3. RateOf(freq) = RATE_MAX - (n - 1)
  BY DEF RateOf
<1>. HIDE DEF n
<1>. QED
  BY <1>2, <1>3 DEF RATE_MAX

(* The exponents 1 to 15 can be read off the powers.                       *)
LEMMA Halved ==
    \A j \in 1 .. 10, h \in 1 .. 15 : 2^j \div 2^h \in {0, 1} <=> j <= h
<1>1. ASSUME NEW pow,
             pow[1] = 2, pow[2] = 4, pow[3] = 8, pow[4] = 16, pow[5] = 32,
             pow[6] = 64, pow[7] = 128, pow[8] = 256, pow[9] = 512, pow[10] = 1024,
             pow[11] = 2048, pow[12] = 4096, pow[13] = 8192, pow[14] = 16384,
             pow[15] = 32768,
             NEW j \in 1 .. 10, NEW h \in 1 .. 15
      PROVE  pow[j] \div pow[h] \in {0, 1} <=> j <= h
  <2>1. \/ j = 1 \/ j = 2 \/ j = 3 \/ j = 4 \/ j = 5
        \/ j = 6 \/ j = 7 \/ j = 8 \/ j = 9 \/ j = 10
    OBVIOUS
  <2>2. \/ h = 1 \/ h = 2 \/ h = 3 \/ h = 4 \/ h = 5 \/ h = 6 \/ h = 7 \/ h = 8
        \/ h = 9 \/ h = 10 \/ h = 11 \/ h = 12 \/ h = 13 \/ h = 14 \/ h = 15
    OBVIOUS
  <2>. QED
    BY <1>1, <2>1, <2>2, SMT
<1>. DEFINE power == [k \in 1 .. 15 |-> 2^k]
<1>2. /\ power[1] = 2 /\ power[2] = 4 /\ power[3] = 8 /\ power[4] = 16
      /\ power[5] = 32 /\ power[6] = 64 /\ power[7] = 128 /\ power[8] = 256
      /\ power[9] = 512 /\ power[10] = 1024 /\ power[11] = 2048 /\ power[12] = 4096
      /\ power[13] = 8192 /\ power[14] = 16384 /\ power[15] = 32768
  BY PowersOfTwo
<1>3. \A k \in 1 .. 15 : power[k] = 2^k
  BY Zenon
<1>4. 1 .. 10 \subseteq 1 .. 15
  OBVIOUS
<1>. HIDE DEF power
<1>5. \A j \in 1 .. 10, h \in 1 .. 15 : power[j] \div power[h] \in {0, 1} <=> j <= h
  BY <1>1, <1>2
<1>. QED
  BY <1>3, <1>4, <1>5, Zenon

(* The clock's 32768 ticks, divided down.                                  *)
LEMMA Complement ==
    ASSUME NEW j \in 1 .. 10
    PROVE  CLOCK \div 2^(15 - j) = 2^j
<1>1. \/ j = 1 \/ j = 2 \/ j = 3 \/ j = 4 \/ j = 5
      \/ j = 6 \/ j = 7 \/ j = 8 \/ j = 9 \/ j = 10
  OBVIOUS
<1>2. /\ 15 - 1 = 14 /\ 15 - 2 = 13 /\ 15 - 3 = 12 /\ 15 - 4 = 11 /\ 15 - 5 = 10
      /\ 15 - 6 = 9 /\ 15 - 7 = 8 /\ 15 - 8 = 7 /\ 15 - 9 = 6 /\ 15 - 10 = 5
  OBVIOUS
<1>3. /\ CLOCK \div 2^14 = 2^1 /\ CLOCK \div 2^13 = 2^2 /\ CLOCK \div 2^12 = 2^3
      /\ CLOCK \div 2^11 = 2^4 /\ CLOCK \div 2^10 = 2^5 /\ CLOCK \div 2^9 = 2^6
      /\ CLOCK \div 2^8 = 2^7 /\ CLOCK \div 2^7 = 2^8 /\ CLOCK \div 2^6 = 2^9
      /\ CLOCK \div 2^5 = 2^10
  BY PowersOfTwo DEF CLOCK
<1>. QED
  BY <1>1, <1>2, <1>3, Zenon

(* A valid frequency takes exactly the halvings its exponent says, and the *)
(* rate it gives is the one at which the clock ticks that often.           *)
LEMMA ValidRate ==
    ASSUME NEW freq \in Frequencies, Valid(freq)
    PROVE  Hertz(RateOf(freq)) = freq
<1>1. PICK n \in 1 .. RATE_MAX :
        /\ freq \div 2^n \in {0, 1}
        /\ \A j \in 1 .. n - 1 : freq \div 2^j \notin {0, 1}
        /\ RateOf(freq) = RATE_MAX - (n - 1)
  BY HalvingsEnd, Zenon DEF RateOf
<1>2. PICK k \in 1 .. 10 : freq = 2^k
  BY DEF Valid
<1>3. n \in 1 .. 15 /\ k \in 1 .. 15
  BY <1>1, <1>2 DEF RATE_MAX
<1>4. k <= n
  BY <1>1, <1>2, <1>3, Halved, Zenon
<1>5. ~ (k < n)
  <2>. SUFFICES ASSUME k < n PROVE FALSE
    OBVIOUS
  <2>1. k \in 1 .. n - 1 /\ k <= k
    BY <1>2, <1>3
  <2>. QED
    BY <1>1, <1>2, <1>3, <2>1, Halved, Zenon
<1>6. RateOf(freq) - 1 = 15 - k
  BY <1>1, <1>3, <1>4, <1>5 DEF RATE_MAX
<1>7. CLOCK \div 2^(15 - k) = 2^k
  BY Complement
<1>. QED
  BY <1>2, <1>6, <1>7, Zenon DEF Hertz

-----------------------------------------------------------------------------
LEMMA InitRtcInv == Init => RtcInv
<1>. SUFFICES ASSUME Init PROVE RtcInv
  OBVIOUS
<1>1. curr_terminal \in Terminals
  BY SizesAssumption DEF Init, Terminals
<1>2. irq8 \in [masked : BOOLEAN, slave : BOOLEAN, master : BOOLEAN] /\ Deliverable
  BY DEF Init, Deliverable
<1>3. pc \in [Terminals -> {"user", "spin", "clear"}] /\ rate \in 1 .. RATE_MAX
  BY DEF Init, RATE_MAX, BASE_RATE
<1>4. rtc_flag = FALSE /\ unused = FALSE /\ clock_armed = TRUE
  BY DEF Init
<1>. QED
  BY <1>1, <1>2, <1>3, <1>4 DEF RtcInv, ClockIsSound, TypeOK, FlagIsAccounted

(* A tick, and the handler: the line is acknowledged at both 8259s and     *)
(* unmasked, register C is read.                                           *)
LEMMA TickRtcInv == RtcInv /\ Tick => RtcInv'
BY DEF RtcInv, ClockIsSound, TypeOK, Deliverable, FlagIsAccounted, Tick, CRead,
   EnableIrq, SendEoi, DisableIrq, Accept

LEMMA WriteRtcInv ==
    ASSUME RtcInv, NEW t \in Terminals, NEW freq \in Frequencies, Write(t, freq)
    PROVE  RtcInv'
<1>1. rate' \in 1 .. RATE_MAX
  BY RateOfFits DEF Write
<1>. QED
  BY <1>1 DEF RtcInv, ClockIsSound, TypeOK, Deliverable, FlagIsAccounted, Write,
     EnableIrq, DisableIrq

LEMMA ReadRtcInv ==
    ASSUME RtcInv, NEW t \in Terminals, CallRead(t) \/ ReadStep(t)
    PROVE  RtcInv'
<1>1. /\ TypeOK /\ clock_armed /\ Deliverable /\ FlagIsAccounted
      /\ UNCHANGED <<curr_terminal, rate, irqVars>>
  BY DEF RtcInv, ClockIsSound, CallRead, ReadStep, LoadFlag, ClearFlag, irqVars
<1>2. CASE CallRead(t)
  BY <1>1, <1>2 DEF RtcInv, ClockIsSound, TypeOK, Deliverable, FlagIsAccounted,
     CallRead, irqVars
<1>3. CASE LoadFlag(t)
  <2>1. /\ pc' = [pc EXCEPT ![t] = "clear"] /\ unused' = FALSE /\ rtc_flag' = rtc_flag
        /\ rate' = rate /\ curr_terminal' = curr_terminal /\ irq8' = irq8
        /\ clock_armed' = clock_armed
    BY <1>3 DEF LoadFlag, irqVars
  <2>2. pc' \in [Terminals -> {"user", "spin", "clear"}] /\ pc'[t] = "clear"
    BY <1>1, <2>1 DEF TypeOK
  <2>. QED
    BY <1>1, <2>1, <2>2 DEF RtcInv, ClockIsSound, TypeOK, Deliverable, FlagIsAccounted
<1>4. CASE ClearFlag(t)
  <2>1. /\ pc' = [pc EXCEPT ![t] = "user"] /\ unused' = unused /\ rtc_flag' = FALSE
        /\ rate' = rate /\ curr_terminal' = curr_terminal /\ irq8' = irq8
        /\ clock_armed' = clock_armed
    BY <1>4 DEF ClearFlag, Lowered, irqVars
  <2>2. pc' \in [Terminals -> {"user", "spin", "clear"}]
    BY <1>1, <2>1 DEF TypeOK
  <2>. QED
    BY <1>1, <2>1, <2>2 DEF RtcInv, ClockIsSound, TypeOK, Deliverable, FlagIsAccounted
<1>. QED
  BY <1>2, <1>3, <1>4 DEF ReadStep

LEMMA NextRtcInv == RtcInv /\ [Next]_vars => RtcInv'
<1>. SUFFICES ASSUME RtcInv, [Next]_vars PROVE RtcInv'
  OBVIOUS
<1>1. curr_terminal \in Terminals
  BY DEF RtcInv, ClockIsSound, TypeOK
<1>2. CASE Tick
  BY <1>2, TickRtcInv
<1>3. CASE Program
  BY <1>1, <1>3, WriteRtcInv, ReadRtcInv DEF Program
<1>4. CASE \E t \in Terminals : Switch(t)
  BY <1>4 DEF RtcInv, ClockIsSound, TypeOK, Deliverable, FlagIsAccounted, Switch, irqVars
<1>5. CASE UNCHANGED vars
  BY <1>5 DEF RtcInv, ClockIsSound, TypeOK, Deliverable, FlagIsAccounted, vars, irqVars
<1>. QED
  BY <1>2, <1>3, <1>4, <1>5 DEF Next

LEMMA AlwaysRtcInv == Spec => []RtcInv
BY InitRtcInv, NextRtcInv, PTL DEF Spec

-----------------------------------------------------------------------------
(* No step of the driver, in any interleaving with ticks and Alt+Fn, leaves *)
(* the clock silent: register C is read after every tick, line 8 is neither *)
(* masked nor unacknowledged, and the rate fits its register.              *)
THEOREM ClockStaysSound == Spec => []ClockIsSound
<1>1. RtcInv => ClockIsSound
  BY DEF RtcInv
<1>. QED
  BY <1>1, AlwaysRtcInv, PTL

(* A tick ends at most one read, unless Alt+Fn comes between a read's look  *)
(* at the flag and its lowering of it.                                     *)
THEOREM TicksEndOneRead == Spec => TicksAreNotShared
<1>1. RtcInv => \A t \in Terminals :
                  LoadFlag(t) => unused \/ \E u \in Terminals : pc[u] = "clear"
  BY DEF RtcInv, FlagIsAccounted, LoadFlag
<1>. QED
  BY <1>1, AlwaysRtcInv, PTL DEF TicksAreNotShared

(* Of the numbers a program may write, the powers of two between 2 and 1024 *)
(* set exactly their own rate.                                             *)
THEOREM ValidFrequenciesGetTheirRate == Spec => ValidFrequenciesAreSet
<1>1. ASSUME NEW t \in Terminals, NEW freq \in Frequencies, Write(t, freq), Valid(freq)
      PROVE  Hertz(rate') = freq
  BY <1>1, ValidRate DEF Write
<1>2. [Next]_vars => [\A t \in Terminals, freq \in Frequencies :
                        Write(t, freq) /\ Valid(freq) => Hertz(rate') = freq]_vars
  BY <1>1
<1>. QED
  BY <1>2, PTL DEF Spec, ValidFrequenciesAreSet
=============================================================================
