----------------------------- MODULE BlinkProofs -----------------------------
(***************************************************************************)
(* The list of blinking characters, for every pool, screen and set of      *)
(* structures: after any history of commands the blocks in use are one     *)
(* list, a tick shows on every cell the blink whose turn it is, and the    *)
(* links and countdowns implement the list of BlinkList.                   *)
(***************************************************************************)
EXTENDS Blink, DataLemmas

-----------------------------------------------------------------------------
(* The list that the links make.                                           *)

(* The blocks of list follow each other by their links, from the head on.  *)
Linked(list) ==
    /\ list \in Seq(Blocks)
    /\ \A k, l \in 1 .. Len(list) : list[k] = list[l] => k = l
    /\ mp1_list_head = IF Len(list) = 0 THEN NULL ELSE list[1]
    /\ \A k \in 1 .. Len(list) :
         blink_array[list[k]].next = IF k = Len(list) THEN NULL ELSE list[k + 1]

LEMMA PoolFacts ==
    /\ POOL \in Nat /\ IsFiniteSet(Blocks) /\ Cardinality(Blocks) = POOL
    /\ NULL \notin Blocks
<1>1. POOL \in Nat
  BY SizesAssumption
<1>2. 1 \in Int /\ POOL \in Int
  BY <1>1
<1>3. IsFiniteSet(1 .. POOL) /\ Cardinality(1 .. POOL) = IF 1 > POOL THEN 0 ELSE POOL - 1 + 1
  BY <1>2, FS_Interval
<1>4. IsFiniteSet(Blocks) /\ Cardinality(Blocks) = POOL
  BY <1>1, <1>3, SizesAssumption DEF Blocks
<1>. QED
  BY <1>1, <1>4, SizesAssumption DEF Blocks

(* The walk of Listed, a definition by recursion, written out.             *)
IsWalk(f) ==
    f = [n \in 1 .. POOL + 1 |->
            IF n = 1 THEN mp1_list_head
            ELSE LET b == f[n - 1] IN IF b = NULL THEN NULL ELSE blink_array[b].next]

Walk == CHOOSE f : IsWalk(f)

(* The walk goes through the blocks that are linked and then stands still. *)
LEMMA WalkIs ==
    ASSUME NEW list, Linked(list)
    PROVE  /\ Len(list) \in 0 .. POOL
           /\ Walk = [n \in 1 .. POOL + 1 |-> IF n <= Len(list) THEN list[n] ELSE NULL]
<1>. DEFINE w == [n \in 1 .. POOL + 1 |-> IF n <= Len(list) THEN list[n] ELSE NULL]
<1>1. /\ list \in Seq(Blocks) /\ Len(list) \in Nat
      /\ \A k \in 1 .. Len(list) : list[k] \in Blocks
  BY LenProperties, ElementOfSeq DEF Linked
<1>2. Len(list) <= POOL /\ POOL \in Nat /\ NULL \notin Blocks
  <2>1. \A k, l \in 1 .. Len(list) : list[k] = list[l] => k = l
    BY DEF Linked
  <2>2. Len(list) <= Cardinality(Blocks)
    BY <1>1, <2>1, PoolFacts, DistinctElements
  <2>. QED
    BY <2>2, PoolFacts
<1>3. ASSUME NEW n \in 1 .. POOL + 1
      PROVE  w[n] = IF n = 1 THEN mp1_list_head
                    ELSE IF w[n - 1] = NULL THEN NULL ELSE blink_array[w[n - 1]].next
  <2>1. CASE n = 1
    BY <1>1, <2>1 DEF Linked
  <2>2. CASE n # 1
    <3>1. n - 1 \in 1 .. POOL + 1
      BY <1>2, <2>2
    <3>2. CASE n <= Len(list)
      <4>1. n - 1 \in 1 .. Len(list) /\ n - 1 # Len(list)
        BY <1>1, <2>2, <3>2
      <4>2. blink_array[list[n - 1]].next = list[n]
        BY <4>1 DEF Linked
      <4>3. w[n] = list[n] /\ w[n - 1] = list[n - 1] /\ w[n - 1] # NULL
        BY <1>1, <1>2, <3>1, <3>2, <4>1
      <4>. QED
        BY <2>2, <4>2, <4>3
    <3>3. CASE n - 1 = Len(list)
      <4>1. n - 1 \in 1 .. Len(list)
        BY <1>1, <2>2, <3>3
      <4>2. blink_array[list[n - 1]].next = NULL
        BY <3>3, <4>1 DEF Linked
      <4>3. w[n] = NULL /\ w[n - 1] = list[n - 1] /\ w[n - 1] # NULL
        BY <1>1, <1>2, <3>1, <3>3, <4>1
      <4>. QED
        BY <2>2, <4>2, <4>3
    <3>4. CASE ~ (n <= Len(list)) /\ n - 1 # Len(list)
      <4>1. ~ (n - 1 <= Len(list))
        BY <1>1, <3>4
      <4>2. w[n] = NULL /\ w[n - 1] = NULL
        BY <3>1, <3>4, <4>1
      <4>. QED
        BY <2>2, <4>2
    <3>. QED
      BY <1>1, <3>2, <3>3, <3>4
  <2>. QED
    BY <2>1, <2>2
<1>. HIDE DEF w
<1>4. DOMAIN w = 1 .. POOL + 1 /\ w = [n \in 1 .. POOL + 1 |-> w[n]]
  BY DEF w
<1>5. IsWalk(w)
  BY <1>3, <1>4 DEF IsWalk
<1>6. ASSUME NEW f, IsWalk(f) PROVE f = w
  <2>1. DOMAIN f = 1 .. POOL + 1 /\ f = [n \in 1 .. POOL + 1 |-> f[n]]
    BY <1>6 DEF IsWalk
  <2>2. \A n \in 1 .. POOL + 1 :
          f[n] = IF n = 1 THEN mp1_list_head
                 ELSE IF f[n - 1] = NULL THEN NULL ELSE blink_array[f[n - 1]].next
    BY <1>6 DEF IsWalk
  <2>. DEFINE S == {n \in Nat : n + 1 \in 1 .. POOL + 1 => f[n + 1] = w[n + 1]}
  <2>3. 0 \in S
    BY <1>2, <1>3, <2>2
  <2>4. ASSUME NEW n \in 0 .. POOL, n \in S, n < POOL PROVE n + 1 \in S
    <3>1. n + 1 \in 1 .. POOL + 1 /\ n + 2 \in 1 .. POOL + 1 /\ (n + 2) - 1 = n + 1 /\ n + 2 # 1
      BY <1>2, <2>4
    <3>2. f[n + 1] = w[n + 1]
      BY <2>4, <3>1
    <3>3. f[n + 2] = w[n + 2]
      BY <1>3, <2>2, <3>1, <3>2
    <3>. QED
      BY <3>3
  <2>. HIDE DEF S
  <2>5. \A n \in 0 .. POOL : n \in S
    BY <1>2, <2>3, <2>4, CountingUp
  <2>6. \A n \in 1 .. POOL + 1 : f[n] = w[n]
    <3>. TAKE n \in 1 .. POOL + 1
    <3>1. n - 1 \in 0 .. POOL /\ (n - 1) + 1 = n
      BY <1>2
    <3>2. n - 1 \in S
      BY <2>5, <3>1
    <3>. QED
      BY <3>1, <3>2 DEF S
  <2>. QED
    BY <1>4, <2>1, <2>6
<1>7. Walk = w
  BY <1>5, <1>6 DEF Walk
<1>. QED
  BY <1>1, <1>2, <1>7 DEF w

LEMMA ListedIsWalked ==
    Listed = [n \in {m \in 1 .. POOL + 1 : Walk[m] # NULL} |-> Walk[n]]
BY Zenon DEF Listed, Walk, IsWalk

(* What the loops go through is what is linked.                            *)
LEMMA ListedIs == \A list : Linked(list) => Listed = list
<1>. SUFFICES ASSUME NEW list, Linked(list) PROVE Listed = list
  OBVIOUS
<1>1. /\ list \in Seq(Blocks) /\ Len(list) \in Nat
      /\ \A k \in 1 .. Len(list) : list[k] \in Blocks
      /\ list = [k \in 1 .. Len(list) |-> list[k]]
  BY LenProperties, ElementOfSeq DEF Linked
<1>2. /\ Len(list) \in 0 .. POOL
      /\ \A n \in 1 .. POOL + 1 : Walk[n] = IF n <= Len(list) THEN list[n] ELSE NULL
  BY WalkIs
<1>3. {m \in 1 .. POOL + 1 : Walk[m] # NULL} = 1 .. Len(list)
  BY <1>1, <1>2, PoolFacts
<1>4. \A n \in 1 .. Len(list) : Walk[n] = list[n]
  BY <1>2, PoolFacts
<1>. QED
  BY <1>1, <1>3, <1>4, ListedIsWalked

-----------------------------------------------------------------------------
(* The inductive invariant: the blocks that are not free are one list, and *)
(* what is listed can be shown.                                            *)
BlinkInv ==
    /\ TypeOK
    /\ Linked(Listed)
    /\ \A b \in Blocks :
         /\ blink_array[b].location # 0 <=> \E k \in 1 .. Len(Listed) : Listed[k] = b
         /\ blink_array[b].location # 0 =>
              /\ blink_array[b].location \in 0 .. SCREEN - 1
              /\ blink_array[b].on_char \in Characters
              /\ blink_array[b].off_char \in Characters

LEMMA BlockFacts ==
    /\ Freed \in Block /\ Freed.location = 0
    /\ \A d \in Block :
         /\ d.location \in {0} \cup Locations
         /\ d.on_char \in Characters \cup {NULL} /\ d.off_char \in Characters \cup {NULL}
         /\ d.on_length \in 0 .. WORD - 1 /\ d.off_length \in 0 .. WORD - 1
         /\ d.countdown \in 0 .. WORD - 1 /\ d.status \in {0, 1}
         /\ d.next \in Blocks \cup {NULL}
BY SizesAssumption DEF Freed, Block

LEMMA InputFacts ==
    ASSUME NEW b \in Inputs
    PROVE  /\ b.location \in Locations /\ b.location # 0
           /\ b.on_char \in Characters /\ b.off_char \in Characters
           /\ b.on_length \in 0 .. WORD - 1 /\ b.off_length \in 0 .. WORD - 1
           /\ \A next \in Blocks \cup {NULL} : Started(b, next) \in Block
<1>1. b.location # 0 /\ b.on_length \in 0 .. WORD - 1 /\ b.off_length \in 0 .. WORD - 1
  BY SizesAssumption
<1>2. b.location \in Locations /\ b.on_char \in Characters /\ b.off_char \in Characters
  BY Zenon DEF Locations, Characters
<1>3. \A next \in Blocks \cup {NULL} : Started(b, next) \in Block
  BY <1>1, <1>2 DEF Started, Block
<1>. QED
  BY <1>1, <1>2, <1>3

(* The links of the list, with the types that follow.                      *)
LEMMA ListFacts ==
    ASSUME BlinkInv
    PROVE  /\ Listed \in Seq(Blocks) /\ Len(Listed) \in 0 .. POOL
           /\ DOMAIN Listed = 1 .. Len(Listed)
           /\ \A k \in 1 .. Len(Listed) : Listed[k] \in Blocks
           /\ \A b : b \in ToSet(Listed) <=> \E k \in 1 .. Len(Listed) : Listed[k] = b
           /\ ToSet(Listed) = Blocks \ Free
<1>1. Listed \in Seq(Blocks)
  BY DEF BlinkInv, Linked
<1>2. Len(Listed) \in 0 .. POOL
  BY WalkIs DEF BlinkInv
<1>3. DOMAIN Listed = 1 .. Len(Listed) /\ \A k \in 1 .. Len(Listed) : Listed[k] \in Blocks
  BY <1>1, LenProperties, ElementOfSeq
<1>4. \A b : b \in ToSet(Listed) <=> \E k \in 1 .. Len(Listed) : Listed[k] = b
  BY <1>1, ElementsOf
<1>5. ToSet(Listed) = Blocks \ Free
  BY <1>3, <1>4 DEF BlinkInv, Free
<1>. QED
  BY <1>1, <1>2, <1>3, <1>4, <1>5

LEMMA ListedFits == BlinkInv => Len(Listed) \in 0 .. POOL
BY ListFacts

(* What the property says is part of the invariant.                        *)
LEMMA InvPool == BlinkInv => PoolIsListed
BY ListFacts DEF BlinkInv, PoolIsListed

LEMMA InitInv == Init => BlinkInv /\ Listed = <<>>
<1>. SUFFICES ASSUME Init PROVE BlinkInv /\ Listed = <<>>
  OBVIOUS
<1>1. TypeOK
  BY BlockFacts, PoolFacts DEF Init, TypeOK, Characters
<1>2. Linked(<<>>)
  <2>1. <<>> \in Seq(Blocks) /\ Len(<<>>) = 0
    OBVIOUS
  <2>2. \A k \in 1 .. Len(<<>>) : FALSE
    BY <2>1
  <2>3. mp1_list_head = NULL
    BY DEF Init
  <2>. QED
    BY <2>1, <2>2, <2>3, Zenon DEF Linked
<1>3. Listed = <<>>
  BY <1>2, ListedIs
<1>4. \A b \in Blocks : blink_array[b].location = 0
  BY BlockFacts DEF Init
<1>. QED
  BY <1>1, <1>2, <1>3, <1>4 DEF BlinkInv

-----------------------------------------------------------------------------
(* The steps.                                                              *)

LEMMA ListedNext == (\A list : Linked(list) => Listed = list)'
BY ListedIs, PTL

LEMMA NowListed ==
    ASSUME NEW l, Linked(l)'
    PROVE  Listed' = l
BY ListedNext

(* A step that touches neither links nor what a block shows, and where.    *)
LEMMA KeepsList ==
    ASSUME BlinkInv, TypeOK', mp1_list_head' = mp1_list_head,
           \A b \in Blocks : /\ blink_array'[b].next = blink_array[b].next
                            /\ blink_array'[b].location = blink_array[b].location
                            /\ blink_array'[b].on_char = blink_array[b].on_char
                            /\ blink_array'[b].off_char = blink_array[b].off_char
    PROVE  BlinkInv' /\ Listed' = Listed
<1>1. PICK list : list = Listed
  OBVIOUS
<1>2. Linked(list)
  BY <1>1 DEF BlinkInv
<1>3. \A k \in 1 .. Len(list) : list[k] \in Blocks
  BY <1>1, ListFacts
<1>4. Linked(list)'
  BY <1>2, <1>3 DEF Linked
<1>5. Listed' = list
  BY <1>4, NowListed
<1>. QED
  BY <1>1, <1>4, <1>5 DEF BlinkInv

(* The block mp1_malloc gives out is a free one.                           *)
LEMMA MallocFinds ==
    ASSUME TypeOK, Free # {}
    PROVE  mp1_malloc \in Blocks /\ blink_array[mp1_malloc].location = 0
<1>1. Free \in SUBSET Nat
  BY DEF Free, Blocks
<1>2. \E b \in Free : \A c \in Free : b <= c
  BY <1>1, LeastNumber
<1>3. mp1_malloc \in Free
  BY <1>2 DEF mp1_malloc
<1>. QED
  BY <1>3 DEF Free

LEMMA AddStep ==
    ASSUME BlinkInv, NEW b \in Inputs, mp1_ioctl_add(b)
    PROVE  /\ BlinkInv'
           /\ Len(Listed) < POOL
           /\ Len(Listed') = Len(Listed) + 1
           /\ Listed'[1] \in Blocks
           /\ blink_array'[Listed'[1]] = Started(b, mp1_list_head)
           /\ \A k \in 1 .. Len(Listed) :
                /\ Listed'[k + 1] = Listed[k]
                /\ blink_array'[Listed[k]] = blink_array[Listed[k]]
<1>. PICK list : list = Listed
  OBVIOUS
<1>. PICK block : block = mp1_malloc
  OBVIOUS
<1>. DEFINE n   == Len(list)
            new == [k \in 1 .. n + 1 |-> IF k = 1 THEN block ELSE list[k - 1]]
<1>1. /\ Free # {} /\ block \in Blocks /\ blink_array[block].location = 0
      /\ blink_array' = [blink_array EXCEPT ![block] = Started(b, mp1_list_head)]
      /\ mp1_list_head' = block
      /\ video' = [video EXCEPT ![b.location] = b.on_char]
      /\ b.location < SCREEN
  BY MallocFinds DEF BlinkInv, mp1_ioctl_add
<1>2. TypeOK /\ Linked(list) /\ mp1_list_head \in Blocks \cup {NULL}
  BY DEF BlinkInv, TypeOK
<1>3. /\ list \in Seq(Blocks) /\ n \in 0 .. POOL /\ POOL \in Nat
      /\ \A k \in 1 .. n : list[k] \in Blocks
  BY ListFacts, PoolFacts
<1>4. \A c \in Blocks : blink_array[c].location # 0 <=> \E k \in 1 .. n : list[k] = c
  BY DEF BlinkInv
<1>5. \A k \in 1 .. n : list[k] # block
  BY <1>1, <1>4
<1>6. /\ \A c \in Blocks \ {block} : blink_array'[c] = blink_array[c]
      /\ blink_array'[block] = Started(b, mp1_list_head)
  BY <1>1, <1>2 DEF TypeOK
<1>7. TypeOK'
  <2>1. Started(b, mp1_list_head) \in Block
    BY <1>2, InputFacts
  <2>2. blink_array' \in [Blocks -> Block]
    BY <1>1, <1>2, <2>1 DEF TypeOK
  <2>3. video' \in [0 .. SCREEN - 1 -> Characters]
    BY <1>1, <1>2, InputFacts DEF TypeOK
  <2>. QED
    BY <1>1, <2>2, <2>3 DEF TypeOK
<1>. HIDE DEF n
<1>8. /\ new \in Seq(Blocks) /\ Len(new) = n + 1 /\ new[1] = block
      /\ \A k \in 1 .. n : new[k + 1] = list[k]
  <2>1. /\ \A k \in 1 .. n + 1 : new[k] \in Blocks
        /\ new[1] = block /\ \A k \in 1 .. n : new[k + 1] = list[k]
    BY <1>1, <1>3
  <2>2. new \in [1 .. n + 1 -> Blocks] /\ n + 1 \in Nat
    BY <1>3, <2>1
  <2>. HIDE DEF new
  <2>. QED
    BY <2>1, <2>2, SeqDef, LenProperties
<1>. HIDE DEF new
<1>9. \A k \in 1 .. n + 1 : k = 1 \/ (k - 1 \in 1 .. n /\ new[k] = list[k - 1])
  <2>. TAKE k \in 1 .. n + 1
  <2>1. CASE k # 1
    <3>1. k - 1 \in 1 .. n /\ (k - 1) + 1 = k
      BY <1>3, <2>1
    <3>. QED
      BY <1>8, <3>1
  <2>. QED
    BY <2>1
<1>10. Linked(new)'
  <2>1. \A k, l \in 1 .. n + 1 : new[k] = new[l] => k = l
    <3>1. \A k, l \in 1 .. n : list[k] = list[l] => k = l
      BY <1>2 DEF Linked, n
    <3>. TAKE k, l \in 1 .. n + 1
    <3>. HAVE new[k] = new[l]
    <3>2. CASE k = 1
      BY <1>5, <1>8, <1>9, <3>2
    <3>3. CASE l = 1
      BY <1>5, <1>8, <1>9, <3>3
    <3>4. CASE k # 1 /\ l # 1
      <4>1. k - 1 \in 1 .. n /\ l - 1 \in 1 .. n /\ list[k - 1] = list[l - 1]
        BY <1>9, <3>4
      <4>2. k - 1 = l - 1
        BY <3>1, <4>1
      <4>. QED
        BY <1>3, <4>2
    <3>. QED
      BY <3>2, <3>3, <3>4
  <2>2. mp1_list_head' = new[1]
    BY <1>1, <1>8
  <2>3. ASSUME NEW k \in 1 .. n + 1
        PROVE  blink_array'[new[k]].next = IF k = n + 1 THEN NULL ELSE new[k + 1]
    <3>1. CASE k = 1
      <4>1. blink_array'[new[k]].next = mp1_list_head
        BY <1>6, <1>8, <3>1 DEF Started
      <4>2. mp1_list_head = IF n = 0 THEN NULL ELSE list[1]
        BY <1>2 DEF Linked, n
      <4>3. n # 0 => new[2] = list[1]
        <5>1. n # 0 => 1 \in 1 .. n /\ 1 + 1 = 2
          BY <1>3
        <5>. QED
          BY <1>8, <5>1
      <4>. QED
        BY <1>3, <3>1, <4>1, <4>2, <4>3
    <3>2. CASE k # 1
      <4>1. k - 1 \in 1 .. n /\ new[k] = list[k - 1]
        BY <1>9, <3>2
      <4>2. blink_array'[new[k]] = blink_array[list[k - 1]]
        BY <1>3, <1>5, <1>6, <4>1
      <4>3. blink_array[list[k - 1]].next = IF k - 1 = n THEN NULL ELSE list[(k - 1) + 1]
        BY <1>2, <4>1 DEF Linked, n
      <4>4. k # n + 1 => k \in 1 .. n /\ (k - 1) + 1 = k
        BY <1>3
      <4>5. k # n + 1 => new[k + 1] = list[k]
        BY <1>8, <4>4
      <4>. QED
        BY <1>3, <4>2, <4>3, <4>4, <4>5
    <3>. QED
      BY <3>1, <3>2
  <2>4. Len(new) # 0
    BY <1>3, <1>8
  <2>. QED
    BY <1>8, <2>1, <2>2, <2>3, <2>4 DEF Linked
<1>11. Listed' = new
  BY <1>10, NowListed
<1>12. \A c : (\E k \in 1 .. Len(new) : new[k] = c) <=> c = block \/ \E k \in 1 .. n : list[k] = c
  <2>1. 1 \in 1 .. n + 1 /\ \A k \in 1 .. n : k + 1 \in 1 .. n + 1
    BY <1>3
  <2>. QED
    BY <1>8, <1>9, <2>1
<1>13. /\ blink_array'[block].location # 0 /\ blink_array'[block].location \in 0 .. SCREEN - 1
       /\ blink_array'[block].on_char \in Characters
       /\ blink_array'[block].off_char \in Characters
  <2>1. b.location \in 0 .. SCREEN - 1
    <3>1. b.location \in Nat /\ SCREEN \in Nat
      BY SizesAssumption
    <3>. QED
      BY <1>1, <3>1
  <2>. QED
    BY <1>6, <2>1, InputFacts DEF Started
<1>14. BlinkInv'
  <2>1. ASSUME NEW c \in Blocks
        PROVE  /\ blink_array'[c].location # 0 <=> \E k \in 1 .. Len(new) : new[k] = c
               /\ blink_array'[c].location # 0 =>
                    /\ blink_array'[c].location \in 0 .. SCREEN - 1
                    /\ blink_array'[c].on_char \in Characters
                    /\ blink_array'[c].off_char \in Characters
    <3>1. CASE c = block
      BY <1>12, <1>13, <3>1
    <3>2. CASE c # block
      BY <1>4, <1>6, <1>12, <3>2 DEF BlinkInv
    <3>. QED
      BY <3>1, <3>2
  <2>. QED
    BY <1>7, <1>10, <1>11, <2>1 DEF BlinkInv
<1>15. n < POOL
  <2>1. (BlinkInv => Len(Listed) \in 0 .. POOL)'
    BY ListedFits, PTL
  <2>. QED
    BY <1>3, <1>8, <1>11, <1>14, <2>1
<1>16. \A k \in 1 .. n : blink_array'[list[k]] = blink_array[list[k]]
  BY <1>3, <1>5, <1>6
<1>. QED
  BY <1>1, <1>6, <1>8, <1>11, <1>14, <1>15, <1>16 DEF n

(* A search ends at the newest block of the location.                      *)
LEMMA SearchFinds ==
    ASSUME BlinkInv, NEW location, Found(location)
    PROVE  \E i \in 1 .. Len(Listed) :
              /\ mp1_find_helper(location) = Listed[i]
              /\ blink_array[Listed[i]].location = location
              /\ \A j \in 1 .. i - 1 : blink_array[Listed[j]].location # location
<1>. DEFINE I == {i \in 1 .. Len(Listed) : blink_array[Listed[i]].location = location}
<1>1. Len(Listed) \in Nat /\ I \in SUBSET Nat /\ I # {}
  BY ListFacts DEF Found
<1>2. \E x \in I : \A y \in I : x <= y
  BY <1>1, LeastNumber
<1>3. Min(I) \in I /\ \A y \in I : Min(I) <= y
  BY <1>2 DEF Min
<1>4. SelectInSeq(Listed, LAMBDA b : blink_array[b].location = location) = Min(I)
  BY <1>1 DEF SelectInSeq
<1>5. mp1_find_helper(location) = Listed[Min(I)]
  BY <1>4 DEF mp1_find_helper, SelectInSeq
<1>6. \A j \in 1 .. Min(I) - 1 : j \in 1 .. Len(Listed) /\ ~ (Min(I) <= j)
  BY <1>1, <1>3
<1>. QED
  BY <1>3, <1>5, <1>6

(* A list of the same kind without its i-th block.                         *)
LEMMA RemoveStep ==
    ASSUME BlinkInv, NEW location, mp1_ioctl_remove(location)
    PROVE  /\ BlinkInv'
           /\ Len(Listed') = Len(Listed) - 1
           /\ \E i \in 1 .. Len(Listed) :
                /\ \A j \in 1 .. i - 1 :
                     blink_array[Listed[j]].location # blink_array[Listed[i]].location
                /\ \A k \in 1 .. Len(Listed) - 1 :
                     LET b == Listed[IF k < i THEN k ELSE k + 1]
                     IN  /\ Listed'[k] = b
                         /\ blink_array'[b] = [blink_array[b] EXCEPT !.next = blink_array'[b].next]
<1>. PICK list : list = Listed
  OBVIOUS
<1>. DEFINE n == Len(list)
<1>1. TypeOK /\ Linked(list) /\ Found(location) /\ video' = video
  BY DEF BlinkInv, mp1_ioctl_remove
<1>2. /\ list \in Seq(Blocks) /\ n \in 0 .. POOL /\ POOL \in Nat
      /\ \A k \in 1 .. n : list[k] \in Blocks
      /\ \A b : b \in ToSet(Listed) <=> \E k \in 1 .. n : list[k] = b
  BY ListFacts, PoolFacts
<1>3. \A k, l \in 1 .. n : list[k] = list[l] => k = l
  BY <1>1 DEF Linked
<1>4. PICK i \in 1 .. n : /\ mp1_find_helper(location) = list[i]
                          /\ blink_array[list[i]].location = location
                          /\ \A j \in 1 .. i - 1 : blink_array[list[j]].location # location
  BY <1>1, SearchFinds
<1>. PICK block : block = list[i]
  OBVIOUS
<1>5. block \in Blocks
  BY <1>2
<1>6. /\ blink_array' = [Unlinked(block) EXCEPT ![block] = Freed]
      /\ mp1_list_head' = IF mp1_list_head = block THEN blink_array[block].next ELSE mp1_list_head
  BY <1>4 DEF mp1_ioctl_remove, mp1_free
<1>7. \A b \in Blocks : blink_array'[b] =
        IF b = block THEN Freed
        ELSE IF (\E k \in 1 .. n : list[k] = b) /\ blink_array[b].next = block
          THEN [blink_array[b] EXCEPT !.next = blink_array[block].next]
          ELSE blink_array[b]
  BY <1>2, <1>5, <1>6 DEF Unlinked
<1>8. DOMAIN blink_array' = Blocks
  BY <1>6 DEF Unlinked
<1>9. blink_array[block].next \in Blocks \cup {NULL}
  BY <1>1, <1>5, BlockFacts DEF TypeOK
<1>10. \A d \in Block, next \in Blocks \cup {NULL} : [d EXCEPT !.next = next] \in Block
  BY DEF Block
<1>11. TypeOK'
  <2>1. \A b \in Blocks : blink_array'[b] \in Block
    <3>. TAKE b \in Blocks
    <3>1. blink_array[b] \in Block
      BY <1>1 DEF TypeOK
    <3>2. [blink_array[b] EXCEPT !.next = blink_array[block].next] \in Block
      BY <1>9, <1>10, <3>1
    <3>. QED
      BY <1>7, <3>1, <3>2, BlockFacts
  <2>2. blink_array' \in [Blocks -> Block]
    <3>1. blink_array' = [b \in Blocks |-> blink_array'[b]]
      BY <1>6 DEF Unlinked
    <3>. QED
      BY <2>1, <3>1
  <2>. QED
    BY <1>1, <1>6, <1>9, <2>2 DEF TypeOK
<1>. DEFINE at(k) == IF k < i THEN k ELSE k + 1
            new   == [k \in 1 .. n - 1 |-> list[at(k)]]
<1>12. /\ new \in Seq(Blocks) /\ Len(new) = n - 1
       /\ \A k \in 1 .. n - 1 : at(k) \in 1 .. n /\ at(k) # i /\ new[k] = list[at(k)]
  <2>1. \A k \in 1 .. n - 1 : at(k) \in 1 .. n /\ at(k) # i /\ new[k] = list[at(k)]
    BY <1>2
  <2>2. new \in [1 .. n - 1 -> Blocks] /\ n - 1 \in Nat
    BY <1>2, <2>1
  <2>. HIDE DEF new
  <2>. QED
    BY <2>1, <2>2, SeqDef, LenProperties
<1>13. \A k \in 1 .. n : blink_array[list[k]].next = IF k = n THEN NULL ELSE list[k + 1]
  BY <1>1 DEF Linked
<1>. HIDE DEF new, n
<1>14. \A k \in 1 .. n : list[k] = block <=> k = i
  BY <1>3
<1>15. \A k \in 1 .. n : blink_array[list[k]].next = block <=> k + 1 = i
  <2>. TAKE k \in 1 .. n
  <2>1. CASE k = n
    <3>1. blink_array[list[k]].next = NULL /\ block # NULL
      BY <1>5, <1>13, <2>1, PoolFacts
    <3>. QED
      BY <1>2, <2>1, <3>1
  <2>2. CASE k # n
    <3>1. k + 1 \in 1 .. n /\ blink_array[list[k]].next = list[k + 1]
      BY <1>2, <1>13, <2>2
    <3>. QED
      BY <1>14, <3>1
  <2>. QED
    BY <2>1, <2>2
<1>16. \A k \in 1 .. n : k # i =>
          blink_array'[list[k]] =
             IF k + 1 = i THEN [blink_array[list[k]] EXCEPT !.next = blink_array[block].next]
                          ELSE blink_array[list[k]]
  BY <1>2, <1>7, <1>14, <1>15
<1>17. \A d \in Block : \A next : [d EXCEPT !.next = next].next = next
  BY DEF Block
<1>18. \A k \in 1 .. n : k # i =>
          blink_array'[list[k]].next = IF k + 1 = i THEN blink_array[block].next
                                       ELSE blink_array[list[k]].next
  <2>. TAKE k \in 1 .. n
  <2>. HAVE k # i
  <2>1. blink_array[list[k]] \in Block
    BY <1>1, <1>2 DEF TypeOK
  <2>2. [blink_array[list[k]] EXCEPT !.next = blink_array[block].next].next = blink_array[block].next
    BY <1>17, <2>1
  <2>. QED
    BY <1>16, <2>2
<1>19. Linked(new)'
  <2>1. \A k, l \in 1 .. n - 1 : new[k] = new[l] => k = l
    <3>1. \A k, l \in 1 .. n - 1 : at(k) = at(l) => k = l
      BY <1>2
    <3>. QED
      BY <1>3, <1>12, <3>1
  <2>2. mp1_list_head' = IF n - 1 = 0 THEN NULL ELSE new[1]
    <3>1. mp1_list_head = list[1] /\ 1 \in 1 .. n
      BY <1>1, <1>2 DEF Linked, n
    <3>2. CASE i = 1
      <4>1. mp1_list_head' = IF 1 = n THEN NULL ELSE list[2]
        BY <1>6, <1>13, <3>1, <3>2
      <4>2. n # 1 => 1 \in 1 .. n - 1 /\ at(1) = 2
        BY <1>2, <3>2
      <4>. QED
        BY <1>2, <1>12, <4>1, <4>2
    <3>3. CASE i # 1
      <4>1. mp1_list_head' = list[1]
        BY <1>6, <1>14, <3>1, <3>3
      <4>2. n # 1 /\ 1 \in 1 .. n - 1 /\ at(1) = 1
        BY <1>2, <3>3
      <4>. QED
        BY <1>12, <4>1, <4>2
    <3>. QED
      BY <3>2, <3>3
  <2>3. ASSUME NEW k \in 1 .. n - 1
        PROVE  blink_array'[new[k]].next = IF k = n - 1 THEN NULL ELSE new[k + 1]
    <3>1. at(k) \in 1 .. n /\ at(k) # i /\ new[k] = list[at(k)]
      BY <1>12
    <3>2. k # n - 1 => k + 1 \in 1 .. n - 1 /\ new[k + 1] = list[at(k + 1)]
      BY <1>2, <1>12
    <3>3. CASE k + 1 = i
      <4>1. at(k) = k /\ at(k + 1) = i + 1
        BY <1>2, <3>3
      <4>2. blink_array'[new[k]].next = blink_array[list[i]].next
        BY <1>18, <3>1, <3>3, <4>1
      <4>3. blink_array[list[i]].next = IF i = n THEN NULL ELSE list[i + 1]
        BY <1>13
      <4>. QED
        BY <1>2, <3>2, <3>3, <4>1, <4>2, <4>3
    <3>4. CASE k + 1 # i
      <4>1. at(k) + 1 # i /\ (k # n - 1 => at(k + 1) = at(k) + 1) /\ (k = n - 1 <=> at(k) = n)
        BY <1>2, <3>4
      <4>2. blink_array'[new[k]].next = blink_array[list[at(k)]].next
        BY <1>18, <3>1, <4>1
      <4>3. blink_array[list[at(k)]].next = IF at(k) = n THEN NULL ELSE list[at(k) + 1]
        BY <1>13, <3>1
      <4>. QED
        BY <3>2, <4>1, <4>2, <4>3
    <3>. QED
      BY <3>3, <3>4
  <2>. QED
    BY <1>12, <2>1, <2>2, <2>3 DEF Linked
<1>20. Listed' = new
  BY <1>19, NowListed
<1>21. \A c : (\E k \in 1 .. n - 1 : new[k] = c) <=> c # block /\ \E k \in 1 .. n : list[k] = c
  <2>1. ASSUME NEW k \in 1 .. n, k # i PROVE \E l \in 1 .. n - 1 : at(l) = k
    <3>1. CASE k < i
      <4>1. k \in 1 .. n - 1 /\ at(k) = k
        BY <1>2, <3>1
      <4>. QED
        BY <4>1
    <3>2. CASE ~ (k < i)
      <4>1. k - 1 \in 1 .. n - 1 /\ at(k - 1) = k
        BY <1>2, <2>1, <3>2
      <4>. QED
        BY <4>1
    <3>. QED
      BY <3>1, <3>2
  <2>2. ASSUME NEW c, NEW k \in 1 .. n - 1, new[k] = c
        PROVE  c # block /\ \E l \in 1 .. n : list[l] = c
    BY <1>12, <1>14, <2>2
  <2>3. ASSUME NEW c, c # block, NEW k \in 1 .. n, list[k] = c
        PROVE  \E l \in 1 .. n - 1 : new[l] = c
    <3>1. k # i
      BY <2>3
    <3>2. PICK l \in 1 .. n - 1 : at(l) = k
      BY <2>1, <3>1
    <3>. QED
      BY <1>12, <2>3, <3>2
  <2>. QED
    BY <2>2, <2>3
<1>22. \A b \in Blocks : b # block =>
         blink_array'[b] = [blink_array[b] EXCEPT !.next = blink_array'[b].next]
  <2>1. \A d \in Block : [d EXCEPT !.next = d.next] = d
    BY DEF Block
  <2>2. \A d \in Block : \A next : [d EXCEPT !.next = next] = [d EXCEPT !.next = [d EXCEPT !.next = next].next]
    BY DEF Block
  <2>. QED
    BY <1>1, <1>7, <2>1, <2>2 DEF TypeOK
<1>23. BlinkInv'
  <2>1. \A d \in Block : \A next : /\ [d EXCEPT !.next = next].location = d.location
                               /\ [d EXCEPT !.next = next].on_char = d.on_char
                               /\ [d EXCEPT !.next = next].off_char = d.off_char
    BY DEF Block
  <2>2. ASSUME NEW c \in Blocks
        PROVE  /\ blink_array'[c].location # 0 <=> \E k \in 1 .. Len(new) : new[k] = c
               /\ blink_array'[c].location # 0 =>
                    /\ blink_array'[c].location \in 0 .. SCREEN - 1
                    /\ blink_array'[c].on_char \in Characters
                    /\ blink_array'[c].off_char \in Characters
    <3>1. CASE c = block
      BY <1>7, <1>12, <1>21, <3>1, BlockFacts
    <3>2. CASE c # block
      <4>1. /\ blink_array'[c].location = blink_array[c].location
            /\ blink_array'[c].on_char = blink_array[c].on_char
            /\ blink_array'[c].off_char = blink_array[c].off_char
        <5>1. blink_array[c] \in Block
          BY <1>1 DEF TypeOK
        <5>2. blink_array'[c] = [blink_array[c] EXCEPT !.next = blink_array'[c].next]
          BY <1>22, <3>2
        <5>. DEFINE next == blink_array'[c].next
        <5>3. /\ [blink_array[c] EXCEPT !.next = next].location = blink_array[c].location
              /\ [blink_array[c] EXCEPT !.next = next].on_char = blink_array[c].on_char
              /\ [blink_array[c] EXCEPT !.next = next].off_char = blink_array[c].off_char
          BY <2>1, <5>1
        <5>. QED
          BY <5>2, <5>3
      <4>2. /\ blink_array[c].location # 0 <=> \E k \in 1 .. n : list[k] = c
            /\ blink_array[c].location # 0 =>
                    /\ blink_array[c].location \in 0 .. SCREEN - 1
                    /\ blink_array[c].on_char \in Characters
                    /\ blink_array[c].off_char \in Characters
        BY DEF BlinkInv, n
      <4>. QED
        BY <1>12, <1>21, <3>2, <4>1, <4>2
    <3>. QED
      BY <3>1, <3>2
  <2>. QED
    BY <1>11, <1>19, <1>20, <2>2 DEF BlinkInv
<1>24. ASSUME NEW k \in 1 .. n - 1
       PROVE  LET b == list[at(k)]
              IN  /\ new[k] = b
                  /\ blink_array'[b] = [blink_array[b] EXCEPT !.next = blink_array'[b].next]
  <2>1. at(k) \in 1 .. n /\ at(k) # i /\ new[k] = list[at(k)]
    BY <1>12
  <2>2. list[at(k)] \in Blocks /\ list[at(k)] # block
    BY <1>2, <1>14, <2>1
  <2>. QED
    BY <1>22, <2>1, <2>2
<1>. QED
  BY <1>4, <1>12, <1>20, <1>23, <1>24 DEF n

LEMMA SyncStep ==
    ASSUME BlinkInv, NEW first \in Locations, NEW second \in Locations,
           mp1_ioctl_sync(first, second)
    PROVE  /\ BlinkInv' /\ Listed' = Listed
           /\ \E i, j \in 1 .. Len(Listed) :
                /\ blink_array[Listed[i]].location = second
                /\ \A k \in 1 .. i - 1 : blink_array[Listed[k]].location # second
                /\ blink_array[Listed[j]].location = first
                /\ \A k \in 1 .. j - 1 : blink_array[Listed[k]].location # first
                /\ blink_array' = [blink_array EXCEPT ![Listed[i]] =
                                      SameRhythm(@, blink_array[Listed[j]])]
<1>1. PICK i \in 1 .. Len(Listed) :
         /\ mp1_find_helper(second) = Listed[i]
         /\ blink_array[Listed[i]].location = second
         /\ \A k \in 1 .. i - 1 : blink_array[Listed[k]].location # second
  BY SearchFinds DEF mp1_ioctl_sync
<1>2. PICK j \in 1 .. Len(Listed) :
         /\ mp1_find_helper(first) = Listed[j]
         /\ blink_array[Listed[j]].location = first
         /\ \A k \in 1 .. j - 1 : blink_array[Listed[k]].location # first
  BY SearchFinds DEF mp1_ioctl_sync
<1>. DEFINE to   == Listed[i]
            from == Listed[j]
<1>3. /\ blink_array' = [blink_array EXCEPT ![to] = SameRhythm(@, blink_array[from])]
      /\ video' = [video EXCEPT ![second] = blink_array[to].off_char]
      /\ mp1_list_head' = mp1_list_head
  BY <1>1, <1>2 DEF mp1_ioctl_sync
<1>4. to \in Blocks /\ from \in Blocks
  BY ListFacts
<1>. HIDE DEF to, from
<1>5. TypeOK /\ blink_array[to] \in Block /\ blink_array[from] \in Block
  BY <1>4 DEF BlinkInv, TypeOK
<1>6. /\ SameRhythm(blink_array[to], blink_array[from]) \in Block
      /\ SameRhythm(blink_array[to], blink_array[from]).next = blink_array[to].next
      /\ SameRhythm(blink_array[to], blink_array[from]).location = blink_array[to].location
      /\ SameRhythm(blink_array[to], blink_array[from]).on_char = blink_array[to].on_char
      /\ SameRhythm(blink_array[to], blink_array[from]).off_char = blink_array[to].off_char
  BY <1>5 DEF SameRhythm, Block
<1>7. blink_array[to].off_char \in Characters
  <2>1. blink_array[to].location # 0
    BY <1>4 DEF BlinkInv, to
  <2>. QED
    BY <1>4, <2>1 DEF BlinkInv
<1>8. TypeOK'
  BY <1>3, <1>4, <1>5, <1>6, <1>7 DEF TypeOK
<1>9. \A b \in Blocks : /\ blink_array'[b].next = blink_array[b].next
                        /\ blink_array'[b].location = blink_array[b].location
                        /\ blink_array'[b].on_char = blink_array[b].on_char
                        /\ blink_array'[b].off_char = blink_array[b].off_char
  BY <1>3, <1>4, <1>5, <1>6 DEF TypeOK
<1>10. BlinkInv' /\ Listed' = Listed
  BY <1>3, <1>8, <1>9, KeepsList
<1>. QED
  BY <1>1, <1>2, <1>3, <1>10 DEF to, from

-----------------------------------------------------------------------------
(* The tick.                                                               *)

(* The last block of the first n that writes on the cell.                  *)
IsLast(i, n, cell) ==
    /\ i \in 1 .. n /\ Expires(blink_array[Listed[i]])
    /\ blink_array[Listed[i]].location = cell
    /\ \A j \in i + 1 .. n : ~ (/\ Expires(blink_array[Listed[j]])
                               /\ blink_array[Listed[j]].location = cell)

IsScreens(f) ==
    f = [n \in 0 .. Len(Listed) |->
            IF n = 0 THEN video
            ELSE LET d == blink_array[Listed[n]]
                 IN  IF Expires(d) THEN [f[n - 1] EXCEPT ![d.location] = CharAfter(d)]
                     ELSE f[n - 1]]

Screens == CHOOSE f : IsScreens(f)

LEMMA ListedBlocks ==
    ASSUME BlinkInv, NEW k \in 1 .. Len(Listed)
    PROVE  /\ Listed[k] \in Blocks /\ blink_array[Listed[k]] \in Block
           /\ blink_array[Listed[k]].location \in 0 .. SCREEN - 1
           /\ blink_array[Listed[k]].location # 0
           /\ CharAfter(blink_array[Listed[k]]) \in Characters
<1>1. Listed[k] \in Blocks
  BY ListFacts
<1>2. blink_array[Listed[k]] \in Block
  BY <1>1 DEF BlinkInv, TypeOK
<1>3. blink_array[Listed[k]].location # 0
  BY <1>1 DEF BlinkInv
<1>4. /\ blink_array[Listed[k]].location \in 0 .. SCREEN - 1
      /\ blink_array[Listed[k]].on_char \in Characters
      /\ blink_array[Listed[k]].off_char \in Characters
  BY <1>1, <1>3 DEF BlinkInv
<1>5. CharAfter(blink_array[Listed[k]]) \in Characters
  BY <1>2, <1>4 DEF CharAfter, CharOf, Turned, Block
<1>. QED
  BY <1>1, <1>2, <1>3, <1>4, <1>5

(* What is on the screen after the first n blocks.                         *)
LEMMA PokedIs ==
    ASSUME BlinkInv
    PROVE  /\ Poked(Listed) \in [0 .. SCREEN - 1 -> Characters]
           /\ \A cell \in 0 .. SCREEN - 1 :
                /\ \A i : IsLast(i, Len(Listed), cell) =>
                            Poked(Listed)[cell] = CharAfter(blink_array[Listed[i]])
                /\ (\A i : ~ IsLast(i, Len(Listed), cell)) =>
                            Poked(Listed)[cell] = video[cell]
<1>. DEFINE T == [0 .. SCREEN - 1 -> Characters]
            N == Len(Listed)
            D(n) == blink_array[Listed[n]]
            step == [n \in 1 .. N |-> [g \in T |->
                       IF Expires(D(n)) THEN [g EXCEPT ![D(n).location] = CharAfter(D(n))]
                       ELSE g]]
<1>1. N \in Nat /\ video \in T
  BY ListFacts DEF BlinkInv, TypeOK
<1>2. \A n \in 1 .. N : CharAfter(D(n)) \in Characters /\ D(n).location \in 0 .. SCREEN - 1
  BY ListedBlocks
<1>3. step \in [1 .. N -> [T -> T]]
  <2>. SUFFICES ASSUME NEW n \in 1 .. N, NEW g \in T
                PROVE  [g EXCEPT ![D(n).location] = CharAfter(D(n))] \in T
    OBVIOUS
  <2>1. CharAfter(D(n)) \in Characters
    BY <1>2
  <2>. HIDE DEF D
  <2>. QED
    BY <2>1
<1>4. PICK f \in [0 .. N -> T] : f[0] = video /\ \A n \in 1 .. N : f[n] = step[n][f[n - 1]]
  <2>. HIDE DEF step, T, N
  <2>1. Recursion(N, T, video, step)
    BY <1>1, <1>3, RecursionOn
  <2>. QED
    BY <2>1 DEF Recursion
<1>5. \A n \in 1 .. N :
        f[n] = IF Expires(D(n)) THEN [f[n - 1] EXCEPT ![D(n).location] = CharAfter(D(n))]
               ELSE f[n - 1]
  <2>. TAKE n \in 1 .. N
  <2>1. f[n - 1] \in T
    BY <1>1, <1>4
  <2>. HIDE DEF T, D
  <2>. QED
    BY <1>4, <2>1
<1>6. IsScreens(f)
  <2>1. f = [n \in 0 .. N |-> f[n]]
    BY <1>4
  <2>2. \A n \in 0 .. N :
          f[n] = IF n = 0 THEN video
                 ELSE IF Expires(D(n)) THEN [f[n - 1] EXCEPT ![D(n).location] = CharAfter(D(n))]
                 ELSE f[n - 1]
    <3>. TAKE n \in 0 .. N
    <3>1. n = 0 \/ n \in 1 .. N
      BY <1>1
    <3>. HIDE DEF D
    <3>. QED
      BY <1>4, <1>5, <3>1
  <2>. QED
    BY <2>1, <2>2 DEF IsScreens
<1>. PICK scr : scr = Screens
  OBVIOUS
<1>7. IsScreens(scr)
  BY <1>6 DEF Screens
<1>8. /\ scr[0] = video
      /\ \A n \in 1 .. N :
           scr[n] = IF Expires(D(n)) THEN [scr[n - 1] EXCEPT ![D(n).location] = CharAfter(D(n))]
                    ELSE scr[n - 1]
  <2>1. \A n \in 0 .. N :
          scr[n] = IF n = 0 THEN video
                   ELSE IF Expires(D(n)) THEN [scr[n - 1] EXCEPT ![D(n).location] = CharAfter(D(n))]
                   ELSE scr[n - 1]
    BY <1>7, Zenon DEF IsScreens
  <2>2. 0 \in 0 .. N /\ \A n \in 1 .. N : n \in 0 .. N /\ n # 0
    BY <1>1
  <2>. HIDE DEF D, N
  <2>. QED
    BY <2>1, <2>2
<1>. DEFINE Says(n) == /\ scr[n] \in T
                       /\ \A cell \in 0 .. SCREEN - 1 :
                            /\ \A i : IsLast(i, n, cell) => scr[n][cell] = CharAfter(D(i))
                            /\ (\A i : ~ IsLast(i, n, cell)) => scr[n][cell] = video[cell]
            S == {n \in Nat : Says(n)}
<1>9. 0 \in S
  <2>1. \A i, cell : ~ IsLast(i, 0, cell)
    BY DEF IsLast
  <2>. QED
    BY <1>1, <1>8, <2>1
<1>10. ASSUME NEW n \in 0 .. N, n \in S, n < N PROVE n + 1 \in S
  <2>1. n \in Nat /\ n + 1 \in 1 .. N /\ (n + 1) - 1 = n /\ n + 1 \in Nat
    BY <1>1, <1>10
  <2>2. Says(n)
    BY <1>10
  <2>. DEFINE d == D(n + 1)
  <2>3. CharAfter(d) \in Characters /\ d.location \in 0 .. SCREEN - 1
    BY <1>2, <2>1
  <2>4. scr[n + 1] = IF Expires(d) THEN [scr[n] EXCEPT ![d.location] = CharAfter(d)] ELSE scr[n]
    BY <1>8, <2>1
  <2>. HIDE DEF d
  <2>5. scr[n + 1] \in T
    BY <2>2, <2>3, <2>4
  <2>6. ASSUME NEW cell \in 0 .. SCREEN - 1
        PROVE  /\ \A i : IsLast(i, n + 1, cell) => scr[n + 1][cell] = CharAfter(D(i))
               /\ (\A i : ~ IsLast(i, n + 1, cell)) => scr[n + 1][cell] = video[cell]
    <3>1. CASE Expires(d) /\ d.location = cell
      <4>1. scr[n + 1][cell] = CharAfter(d)
        BY <2>2, <2>4, <3>1
      <4>2. IsLast(n + 1, n + 1, cell)
        BY <2>1, <3>1 DEF IsLast, d
      <4>3. ASSUME NEW i, IsLast(i, n + 1, cell) PROVE i = n + 1
        <5>1. i \in 1 .. n + 1 /\ n + 1 \notin i + 1 .. n + 1
          BY <3>1, <4>3 DEF IsLast, d
        <5>. QED
          BY <2>1, <5>1
      <4>. QED
        BY <4>1, <4>2, <4>3 DEF d
    <3>2. CASE ~ (Expires(d) /\ d.location = cell)
      <4>1. scr[n + 1][cell] = scr[n][cell]
        BY <2>2, <2>3, <2>4, <3>2
      <4>2. ASSUME NEW i PROVE IsLast(i, n + 1, cell) <=> IsLast(i, n, cell)
        <5>1. i \in 1 .. n + 1 <=> i \in 1 .. n \/ i = n + 1
          BY <2>1
        <5>2. i \in 1 .. n => \A j : j \in i + 1 .. n + 1 <=> j \in i + 1 .. n \/ j = n + 1
          BY <2>1
        <5>. QED
          BY <3>2, <5>1, <5>2 DEF IsLast, d
      <4>. QED
        BY <2>2, <4>1, <4>2
    <3>. QED
      BY <3>1, <3>2
  <2>. QED
    BY <2>1, <2>5, <2>6
<1>. HIDE DEF Says, T, N
<1>11. \A n \in 0 .. N : n \in S
  <2>. HIDE DEF S
  <2>. QED
    BY <1>1, <1>9, <1>10, CountingUp
<1>12. Says(N)
  BY <1>1, <1>11
<1>13. Poked(Listed) = scr[N]
  BY Zenon DEF Poked, Screens, IsScreens, N
<1>. QED
  BY <1>12, <1>13 DEF Says, T, N

(* The countdown of a block that does not turn, as a number of ticks.      *)
LEMMA CountingDown ==
    ASSUME NEW d \in Block
    PROVE  /\ CountedDown(d) \in 0 .. WORD - 1
           /\ Ticks(d.countdown) \in Nat
           /\ Expires(d) <=> ~ (Ticks(d.countdown) > 1)
           /\ ~ Expires(d) => Ticks(CountedDown(d)) = Ticks(d.countdown) - 1
<1>. DEFINE c == d.countdown
<1>1. c \in 0 .. WORD - 1 /\ WORD \in Nat \ {0} /\ WORD % 2 = 0
  BY BlockFacts, SizesAssumption
<1>. HIDE DEF c
<1>2. (c - 1) % WORD = IF c = 0 THEN WORD - 1 ELSE c - 1
  <2>1. CASE c = 0
    <3>1. c - 1 = (-1) * WORD + (WORD - 1) /\ WORD - 1 \in 0 .. WORD - 1
      BY <1>1, <2>1
    <3>. QED
      BY <1>1, <2>1, <3>1
  <2>2. CASE c # 0
    <3>1. c - 1 \in 0 .. WORD - 1
      BY <1>1, <2>2
    <3>. QED
      BY <1>1, <2>2, <3>1
  <2>. QED
    BY <2>1, <2>2
<1>3. PICK h \in Nat : WORD = 2 * h /\ WORD \div 2 = h
  <2>1. WORD \div 2 \in Nat /\ WORD = 2 * (WORD \div 2)
    BY <1>1
  <2>. QED
    BY <2>1
<1>4. h >= 1
  BY <1>1, <1>3
<1>5. CountedDown(d) = IF c = 0 THEN WORD - 1 ELSE c - 1
  BY <1>2 DEF CountedDown, c
<1>6. Ticks(d.countdown) = IF c > h THEN 0 ELSE c
  BY <1>3 DEF Ticks, c
<1>7. Expires(d) <=> CountedDown(d) \notin 1 .. h - 1
  BY <1>3 DEF Expires
<1>8. Ticks(CountedDown(d)) = IF CountedDown(d) > h THEN 0 ELSE CountedDown(d)
  BY <1>3 DEF Ticks
<1>. QED
  BY <1>1, <1>3, <1>4, <1>5, <1>6, <1>7, <1>8

LEMMA TaskletStep ==
    ASSUME BlinkInv, mp1_rtc_tasklet
    PROVE  /\ BlinkInv' /\ Listed' = Listed
           /\ video' = Poked(Listed)
           /\ \A k \in 1 .. Len(Listed) :
                LET d == blink_array[Listed[k]]
                IN  blink_array'[Listed[k]] =
                      IF Expires(d) THEN Turned(d) ELSE [d EXCEPT !.countdown = CountedDown(d)]
<1>1. /\ mp1_list_head' = mp1_list_head /\ video' = Poked(Listed)
      /\ blink_array' = [b \in Blocks |->
           LET d == blink_array[b]
           IN  IF b \notin ToSet(Listed) THEN d
               ELSE IF Expires(d) THEN Turned(d) ELSE [d EXCEPT !.countdown = CountedDown(d)]]
  BY Zenon DEF mp1_rtc_tasklet
<1>2. \A b \in Blocks : blink_array[b] \in Block
  BY DEF BlinkInv, TypeOK
<1>3. ASSUME NEW d \in Block
      PROVE  /\ Turned(d) \in Block /\ Turned(d).next = d.next
             /\ Turned(d).location = d.location
             /\ Turned(d).on_char = d.on_char /\ Turned(d).off_char = d.off_char
  <2>. DEFINE left == IF d.status = 1 THEN d.off_length ELSE d.on_length
              turn == 1 - d.status
  <2>1. left \in 0 .. WORD - 1 /\ turn \in {0, 1}
    BY BlockFacts
  <2>2. Turned(d) = [d EXCEPT !.countdown = left, !.status = turn]
    BY DEF Turned
  <2>. HIDE DEF left, turn
  <2>. QED
    BY <1>3, <2>1, <2>2 DEF Block
<1>4. ASSUME NEW d \in Block
      PROVE  LET e == [d EXCEPT !.countdown = CountedDown(d)]
             IN  /\ e \in Block /\ e.next = d.next /\ e.location = d.location
                 /\ e.on_char = d.on_char /\ e.off_char = d.off_char
  <2>1. CountedDown(d) \in 0 .. WORD - 1
    BY <1>4, CountingDown
  <2>. QED
    BY <1>4, <2>1 DEF Block
<1>5. ASSUME NEW b \in Blocks
      PROVE  /\ blink_array'[b] \in Block
             /\ blink_array'[b].next = blink_array[b].next
             /\ blink_array'[b].location = blink_array[b].location
             /\ blink_array'[b].on_char = blink_array[b].on_char
             /\ blink_array'[b].off_char = blink_array[b].off_char
  <2>. DEFINE d == blink_array[b]
  <2>1. d \in Block
    BY <1>2
  <2>2. blink_array'[b] \in {d, Turned(d), [d EXCEPT !.countdown = CountedDown(d)]}
    BY <1>1
  <2>. HIDE DEF d
  <2>3. CASE blink_array'[b] = d
    BY <2>1, <2>3 DEF d
  <2>4. CASE blink_array'[b] = Turned(d)
    BY <1>3, <2>1, <2>4 DEF d
  <2>5. CASE blink_array'[b] = [d EXCEPT !.countdown = CountedDown(d)]
    BY <1>4, <2>1, <2>5 DEF d
  <2>. QED
    BY <2>2, <2>3, <2>4, <2>5
<1>6. blink_array' \in [Blocks -> Block]
  <2>1. blink_array' = [b \in Blocks |-> blink_array'[b]]
    BY <1>1
  <2>. QED
    BY <1>5, <2>1
<1>7. TypeOK'
  BY <1>1, <1>6, PokedIs DEF BlinkInv, TypeOK
<1>8. BlinkInv' /\ Listed' = Listed
  BY <1>1, <1>5, <1>7, KeepsList
<1>9. ASSUME NEW k \in 1 .. Len(Listed)
      PROVE  LET d == blink_array[Listed[k]]
             IN  blink_array'[Listed[k]] =
                   IF Expires(d) THEN Turned(d) ELSE [d EXCEPT !.countdown = CountedDown(d)]
  <2>1. Listed[k] \in Blocks /\ Listed[k] \in ToSet(Listed)
    BY ListFacts
  <2>. QED
    BY <1>1, <2>1
<1>. QED
  BY <1>1, <1>8, <1>9

-----------------------------------------------------------------------------
(* The theorems.                                                           *)

LEMMA NextInv ==
    ASSUME BlinkInv, [Next]_vars
    PROVE  BlinkInv'
<1>1. CASE UNCHANGED vars
  <2>1. (TypeOK' <=> TypeOK) /\ blink_array' = blink_array /\ mp1_list_head' = mp1_list_head
    BY <1>1 DEF TypeOK, vars
  <2>. QED
    BY <2>1, KeepsList DEF BlinkInv
<1>2. ASSUME NEW b \in Inputs, mp1_ioctl_add(b) PROVE BlinkInv'
  BY <1>2, AddStep
<1>3. ASSUME NEW location \in Locations, mp1_ioctl_remove(location) PROVE BlinkInv'
  BY <1>3, RemoveStep
<1>4. ASSUME NEW first \in Locations, NEW second \in Locations, mp1_ioctl_sync(first, second)
      PROVE  BlinkInv'
  BY <1>4, SyncStep
<1>5. CASE mp1_rtc_tasklet
  BY <1>5, TaskletStep
<1>. QED
  BY <1>1, <1>2, <1>3, <1>4, <1>5 DEF Next, mp1_ioctl

LEMMA Invariance == Spec => []BlinkInv
<1>1. Init => BlinkInv
  BY InitInv
<1>2. BlinkInv /\ [Next]_vars => BlinkInv'
  BY NextInv
<1>. QED
  BY <1>1, <1>2, PTL DEF Spec

(* For every pool: after any history of adds, removes, synchronisations    *)
(* and ticks the blocks that are not free are exactly those in the list,   *)
(* and the list has an end (fish.c:160-185, blink.S:105-240).              *)
THEOREM BlocksAreListed == Spec => []PoolIsListed
<1>1. BlinkInv => PoolIsListed
  BY InvPool
<1>. QED
  BY <1>1, Invariance, PTL

(* For every screen and list: after a tick every cell shows the character  *)
(* whose turn it is of the oldest blink that turned there, and is as it    *)
(* was where none turned (blink.S:49-95).                                  *)
THEOREM TicksShowBlinks == Spec => CellsShowTheirBlinks
<1>1. ASSUME BlinkInv, mp1_rtc_tasklet, NEW cell \in DOMAIN video
      PROVE  ShowsItsBlinks(cell)
  <2>. DEFINE N == Len(Listed)
              D(i) == blink_array[Listed[i]]
  <2>1. N \in Nat /\ DOMAIN Listed = 1 .. N /\ cell \in 0 .. SCREEN - 1
    BY <1>1, ListFacts DEF BlinkInv, TypeOK
  <2>2. ASSUME NEW i \in 1 .. N
        PROVE  /\ blink_array'[Listed[i]].status # D(i).status <=> Expires(D(i))
               /\ Expires(D(i)) => CharOf(blink_array'[Listed[i]]) = CharAfter(D(i))
    <3>. DEFINE d == D(i)
    <3>1. d \in Block
      BY <1>1, ListedBlocks
    <3>2. blink_array'[Listed[i]] = IF Expires(d) THEN Turned(d)
                                    ELSE [d EXCEPT !.countdown = CountedDown(d)]
      BY <1>1, TaskletStep
    <3>. HIDE DEF d
    <3>3. Turned(d).status # d.status
      BY <3>1 DEF Turned, Block
    <3>4. [d EXCEPT !.countdown = CountedDown(d)].status = d.status
      BY <3>1 DEF Block
    <3>5. blink_array'[Listed[i]].status # d.status <=> Expires(d)
      BY <3>2, <3>3, <3>4
    <3>6. Expires(d) => CharOf(blink_array'[Listed[i]]) = CharAfter(d)
      BY <3>2 DEF CharAfter
    <3>. QED
      BY <3>5, <3>6 DEF d
  <2>3. \A i : i \in Turning(cell) <=> i \in 1 .. N /\ D(i).location = cell /\ Expires(D(i))
    BY <2>1, <2>2 DEF Turning
  <2>4. video' = Poked(Listed)
    BY <1>1, TaskletStep
  <2>5. CASE Turning(cell) = {}
    <3>1. \A i : ~ IsLast(i, N, cell)
      BY <2>3, <2>5 DEF IsLast
    <3>. QED
      BY <1>1, <2>1, <2>4, <2>5, <3>1, PokedIs DEF ShowsItsBlinks
  <2>6. CASE Turning(cell) # {}
    <3>1. Turning(cell) \in SUBSET (0 .. N)
      BY <2>1, <2>3
    <3>2. PICK i \in Turning(cell) : \A j \in Turning(cell) : j <= i
      BY <2>1, <2>6, <3>1, GreatestNumber
    <3>3. i \in 1 .. N /\ D(i).location = cell /\ Expires(D(i))
      BY <2>3
    <3>4. \A j \in i + 1 .. N : ~ (Expires(D(j)) /\ D(j).location = cell)
      <4>. SUFFICES ASSUME NEW j \in i + 1 .. N, Expires(D(j)), D(j).location = cell PROVE FALSE
        OBVIOUS
      <4>1. j \in 1 .. N /\ ~ (j <= i)
        BY <2>1, <3>3
      <4>. QED
        BY <2>3, <3>2, <4>1
    <3>5. IsLast(i, N, cell)
      BY <3>3, <3>4 DEF IsLast
    <3>6. video'[cell] = CharAfter(D(i))
      BY <1>1, <2>1, <2>4, <3>5, PokedIs
    <3>. QED
      BY <2>2, <2>6, <3>2, <3>3, <3>6 DEF ShowsItsBlinks
  <2>. QED
    BY <2>5, <2>6
<1>2. BlinkInv /\ [Next]_vars =>
        [mp1_rtc_tasklet => \A cell \in DOMAIN video : ShowsItsBlinks(cell)]_vars
  BY <1>1
<1>. QED
  BY <1>2, Invariance, PTL DEF Spec, CellsShowTheirBlinks

-----------------------------------------------------------------------------
(* The refinement.                                                         *)

LEMMA ShownIs ==
    BlinkInv => /\ Len(Shown) = Len(Listed) /\ Len(Shown) \in Nat
                /\ DOMAIN Shown = 1 .. Len(Listed)
                /\ Shown = [k \in 1 .. Len(Listed) |-> Shown[k]]
                /\ Shown \in Seq({Shown[k] : k \in 1 .. Len(Listed)})
                /\ \A k \in 1 .. Len(Listed) : Shown[k] = Shows(blink_array[Listed[k]])
<1>. SUFFICES ASSUME BlinkInv
              PROVE  /\ Len(Shown) = Len(Listed) /\ Len(Shown) \in Nat
                     /\ DOMAIN Shown = 1 .. Len(Listed)
                     /\ Shown = [k \in 1 .. Len(Listed) |-> Shown[k]]
                     /\ Shown \in Seq({Shown[k] : k \in 1 .. Len(Listed)})
                     /\ \A k \in 1 .. Len(Listed) : Shown[k] = Shows(blink_array[Listed[k]])
  OBVIOUS
<1>1. Len(Listed) \in Nat /\ DOMAIN Listed = 1 .. Len(Listed)
  BY ListFacts
<1>2. Shown = [k \in 1 .. Len(Listed) |-> Shows(blink_array[Listed[k]])]
  BY <1>1, Zenon DEF Shown
<1>3. /\ DOMAIN Shown = 1 .. Len(Listed)
      /\ Shown = [k \in 1 .. Len(Listed) |-> Shown[k]]
      /\ \A k \in 1 .. Len(Listed) : Shown[k] = Shows(blink_array[Listed[k]])
  BY <1>2
<1>. DEFINE S == {Shown[k] : k \in 1 .. Len(Listed)}
<1>4. Shown \in [1 .. Len(Listed) -> S]
  BY <1>3
<1>5. Shown \in Seq(S)
  <2>. HIDE DEF S
  <2>. QED
    BY <1>1, <1>4, SeqDef
<1>6. Len(Shown) = Len(Listed)
  <2>. HIDE DEF S
  <2>. QED
    BY <1>1, <1>3, <1>5, LenProperties
<1>. QED
  BY <1>1, <1>3, <1>5, <1>6

LEMMA ShownNext ==
    BlinkInv' => /\ Len(Shown') = Len(Listed') /\ Len(Shown') \in Nat
                 /\ DOMAIN Shown' = 1 .. Len(Listed')
                 /\ Shown' = [k \in 1 .. Len(Listed') |-> Shown'[k]]
                 /\ \A k \in 1 .. Len(Listed') :
                      Shown'[k] = Shows(blink_array'[Listed'[k]])
<1>1. (BlinkInv => /\ Len(Shown) = Len(Listed) /\ Len(Shown) \in Nat
                   /\ DOMAIN Shown = 1 .. Len(Listed)
                   /\ Shown = [k \in 1 .. Len(Listed) |-> Shown[k]]
                   /\ \A k \in 1 .. Len(Listed) :
                        Shown[k] = Shows(blink_array[Listed[k]]))'
  <2>1. (BlinkInv => /\ Len(Shown) = Len(Listed) /\ Len(Shown) \in Nat
                     /\ DOMAIN Shown = 1 .. Len(Listed)
                     /\ Shown = [k \in 1 .. Len(Listed) |-> Shown[k]]
                     /\ Shown \in Seq({Shown[k] : k \in 1 .. Len(Listed)})
                     /\ \A k \in 1 .. Len(Listed) :
                          Shown[k] = Shows(blink_array[Listed[k]]))'
    BY ShownIs, PTL
  <2>. QED
    BY <2>1
<1>2. \A k : (Shows(blink_array[Listed[k]]))' = Shows(blink_array'[Listed'[k]])
  BY DEF Shows, BlinkOf, Ticks
<1>. QED
  BY <1>1, <1>2

(* A new structure is a new blink in front of the others.                  *)
LEMMA AddRefines ==
    ASSUME BlinkInv, NEW b \in Inputs, mp1_ioctl_add(b)
    PROVE  Blinks!Add
<1>. PICK list : list = Shown
  OBVIOUS
<1>. DEFINE n    == Len(Listed)
            x    == Blinks!Newly(BlinkOf(b))
            all  == <<x>> \o list
<1>1. /\ BlinkInv' /\ n < POOL /\ Len(Listed') = n + 1
      /\ blink_array'[Listed'[1]] = Started(b, mp1_list_head)
      /\ \A k \in 1 .. n : /\ Listed'[k + 1] = Listed[k]
                            /\ blink_array'[Listed[k]] = blink_array[Listed[k]]
  BY AddStep
<1>2. /\ Len(list) = n /\ n \in Nat /\ DOMAIN list = 1 .. n
      /\ list \in Seq({list[k] : k \in 1 .. n})
      /\ \A k \in 1 .. n : list[k] = Shows(blink_array[Listed[k]])
  BY ShownIs
<1>3. /\ Shown' = [k \in 1 .. n + 1 |-> Shown'[k]]
      /\ \A k \in 1 .. n + 1 : Shown'[k] = Shows(blink_array'[Listed'[k]])
  BY <1>1, ShownNext
<1>4. Shows(Started(b, mp1_list_head)) = x
  BY DEF Shows, Started, BlinkOf, Blinks!Newly
<1>. HIDE DEF x, n
<1>5. /\ all = [k \in 1 .. n + 1 |-> all[k]]
      /\ all[1] = x /\ \A k \in 1 .. n : all[k + 1] = list[k]
  BY <1>2
<1>6. \A k \in 1 .. n + 1 : Shown'[k] = all[k]
  <2>. TAKE k \in 1 .. n + 1
  <2>1. CASE k = 1
    BY <1>1, <1>2, <1>3, <1>4, <1>5, <2>1, SMTT(20)
  <2>2. CASE k # 1
    <3>1. k - 1 \in 1 .. n /\ (k - 1) + 1 = k
      BY <1>2, <2>2
    <3>2. Shown'[k] = Shows(blink_array[Listed[k - 1]])
      BY <1>1, <1>3, <3>1
    <3>. QED
      BY <1>2, <1>5, <3>1, <3>2
  <2>. QED
    BY <2>1, <2>2
<1>. HIDE DEF all
<1>7. Shown' = all
  BY <1>3, <1>5, <1>6
<1>. QED
  BY <1>1, <1>2, <1>7 DEF Blinks!Add, all, x, n

(* The newest blink of a location is the one a search finds.               *)
LEMMA NewestIs ==
    ASSUME BlinkInv, NEW i \in 1 .. Len(Listed),
           \A j \in 1 .. i - 1 :
             blink_array[Listed[j]].location # blink_array[Listed[i]].location
    PROVE  i \in Blinks!Newest(Shown)
<1>1. /\ Len(Listed) \in Nat /\ DOMAIN Shown = 1 .. Len(Listed)
      /\ \A k \in 1 .. Len(Listed) : Shown[k] = Shows(blink_array[Listed[k]])
  BY ShownIs
<1>2. \A k \in 1 .. Len(Listed) : Shown[k].blink.location = blink_array[Listed[k]].location
  BY <1>1 DEF Shows, BlinkOf
<1>3. \A j \in 1 .. i - 1 : j \in 1 .. Len(Listed)
  BY <1>1
<1>. QED
  BY <1>1, <1>2, <1>3 DEF Blinks!Newest

(* What is unlinked is no longer shown; the others are as they were.       *)
LEMMA RemoveRefines ==
    ASSUME BlinkInv, NEW location, mp1_ioctl_remove(location)
    PROVE  Blinks!Drop
<1>. PICK list : list = Shown
  OBVIOUS
<1>. DEFINE n == Len(Listed)
<1>1. PICK i \in 1 .. n :
        /\ \A j \in 1 .. i - 1 :
             blink_array[Listed[j]].location # blink_array[Listed[i]].location
        /\ \A k \in 1 .. n - 1 :
             LET b == Listed[IF k < i THEN k ELSE k + 1]
             IN  /\ Listed'[k] = b
                 /\ blink_array'[b] = [blink_array[b] EXCEPT !.next = blink_array'[b].next]
  BY RemoveStep
<1>2. BlinkInv' /\ Len(Listed') = n - 1
  BY RemoveStep
<1>3. /\ Len(list) = n /\ n \in Nat /\ DOMAIN list = 1 .. n
      /\ list \in Seq({list[k] : k \in 1 .. n})
      /\ \A k \in 1 .. n : list[k] = Shows(blink_array[Listed[k]])
  BY ShownIs
<1>4. /\ Shown' = [k \in 1 .. n - 1 |-> Shown'[k]]
      /\ \A k \in 1 .. n - 1 : Shown'[k] = Shows(blink_array'[Listed'[k]])
  BY <1>2, ShownNext
<1>5. i \in Blinks!Newest(list)
  BY <1>1, NewestIs
<1>. DEFINE at(k) == IF k < i THEN k ELSE k + 1
            rest  == SubSeq(list, 1, i - 1) \o SubSeq(list, i + 1, Len(list))
<1>6. \A d \in Block : \A next : Shows([d EXCEPT !.next = next]) = Shows(d)
  BY DEF Shows, BlinkOf, Block
<1>7. \A k \in 1 .. n : Listed[k] \in Blocks /\ blink_array[Listed[k]] \in Block
  BY ListedBlocks
<1>. HIDE DEF n
<1>8. \A k \in 1 .. n - 1 : at(k) \in 1 .. n /\ Shown'[k] = list[at(k)]
  <2>. TAKE k \in 1 .. n - 1
  <2>1. at(k) \in 1 .. n
    BY <1>3
  <2>2. /\ Listed'[k] = Listed[at(k)]
        /\ blink_array'[Listed[at(k)]] =
             [blink_array[Listed[at(k)]] EXCEPT !.next = blink_array'[Listed[at(k)]].next]
    BY <1>1
  <2>. HIDE DEF at
  <2>3. Shows(blink_array'[Listed[at(k)]]) = Shows(blink_array[Listed[at(k)]])
    <3>1. PICK next : next = blink_array'[Listed[at(k)]].next
      OBVIOUS
    <3>2. blink_array'[Listed[at(k)]] = [blink_array[Listed[at(k)]] EXCEPT !.next = next]
      BY <2>2, <3>1
    <3>. QED
      BY <1>6, <1>7, <2>1, <3>2
  <2>. QED
    BY <1>3, <1>4, <2>1, <2>2, <2>3
<1>9. /\ rest = [k \in 1 .. n - 1 |-> rest[k]]
      /\ \A k \in 1 .. n - 1 : rest[k] = list[at(k)]
  <2>. DEFINE S == {list[k] : k \in 1 .. n}
  <2>1. \A k \in 1 .. n : list[k] \in S
    OBVIOUS
  <2>. HIDE DEF S
  <2>2. /\ SubSeq(list, 1, i - 1) \in Seq(S) /\ Len(SubSeq(list, 1, i - 1)) = i - 1
        /\ \A k \in 1 .. i - 1 : SubSeq(list, 1, i - 1)[k] = list[k]
    <3>1. \A k \in 1 .. i - 1 : list[k] \in S
      BY <1>3, <2>1
    <3>. QED
      BY <1>3, <3>1, SubSeqProperties
  <2>3. /\ SubSeq(list, i + 1, n) \in Seq(S) /\ Len(SubSeq(list, i + 1, n)) = n - i
        /\ \A k \in 1 .. n - i : SubSeq(list, i + 1, n)[k] = list[i + k]
    <3>1. \A k \in i + 1 .. n : list[k] \in S
      BY <1>3, <2>1
    <3>. QED
      BY <1>3, <3>1, SubSeqProperties
  <2>4. /\ rest \in Seq(S) /\ Len(rest) = n - 1
        /\ \A k \in 1 .. n - 1 :
             rest[k] = IF k <= i - 1 THEN SubSeq(list, 1, i - 1)[k]
                       ELSE SubSeq(list, i + 1, n)[k - (i - 1)]
    <3>. PICK front, back : front = SubSeq(list, 1, i - 1) /\ back = SubSeq(list, i + 1, n)
      OBVIOUS
    <3>1. rest = front \o back
      BY <1>3
    <3>. HIDE DEF rest
    <3>2. /\ front \o back \in Seq(S) /\ Len(front \o back) = Len(front) + Len(back)
          /\ \A k \in 1 .. Len(front) + Len(back) :
               (front \o back)[k] = IF k <= Len(front) THEN front[k] ELSE back[k - Len(front)]
      BY <2>2, <2>3, ConcatProperties
    <3>3. Len(front) = i - 1 /\ Len(back) = n - i /\ (i - 1) + (n - i) = n - 1
      BY <1>3, <2>2, <2>3
    <3>. QED
      BY <3>1, <3>2, <3>3
  <2>. HIDE DEF rest
  <2>5. rest = [k \in 1 .. n - 1 |-> rest[k]]
    BY <2>4, LenProperties
  <2>6. ASSUME NEW k \in 1 .. n - 1 PROVE rest[k] = list[at(k)]
    <3>1. CASE k < i
      BY <1>3, <2>2, <2>4, <3>1
    <3>2. CASE ~ (k < i)
      <4>1. k - (i - 1) \in 1 .. n - i /\ i + (k - (i - 1)) = k + 1
        BY <1>3, <3>2
      <4>. QED
        BY <1>3, <2>3, <2>4, <3>2, <4>1
    <3>. QED
      BY <3>1, <3>2
  <2>. QED
    BY <2>5, <2>6
<1>. HIDE DEF rest, at
<1>10. Shown' = rest
  BY <1>4, <1>8, <1>9
<1>11. rest = Blinks!RemoveAt(list, i)
  BY DEF rest, Blinks!RemoveAt
<1>. QED
  BY <1>5, <1>10, <1>11, Zenon DEF Blinks!Drop

(* The second blink goes on with the first one's rhythm.                   *)
LEMMA SyncRefines ==
    ASSUME BlinkInv, NEW first \in Locations, NEW second \in Locations,
           mp1_ioctl_sync(first, second)
    PROVE  Blinks!Sync
<1>. PICK list : list = Shown
  OBVIOUS
<1>. DEFINE n == Len(Listed)
<1>1. PICK i \in 1 .. n, j \in 1 .. n :
        /\ blink_array[Listed[i]].location = second
        /\ \A k \in 1 .. i - 1 : blink_array[Listed[k]].location # second
        /\ blink_array[Listed[j]].location = first
        /\ \A k \in 1 .. j - 1 : blink_array[Listed[k]].location # first
        /\ blink_array' = [blink_array EXCEPT ![Listed[i]] =
                              SameRhythm(@, blink_array[Listed[j]])]
  BY SyncStep
<1>2. BlinkInv' /\ Listed' = Listed
  BY SyncStep
<1>3. /\ Len(list) = n /\ n \in Nat /\ DOMAIN list = 1 .. n
      /\ list = [k \in 1 .. n |-> list[k]]
      /\ \A k \in 1 .. n : list[k] = Shows(blink_array[Listed[k]])
  BY ShownIs
<1>4. /\ Shown' = [k \in 1 .. n |-> Shown'[k]]
      /\ \A k \in 1 .. n : Shown'[k] = Shows(blink_array'[Listed[k]])
  BY <1>2, ShownNext
<1>5. i \in Blinks!Newest(list) /\ j \in Blinks!Newest(list)
  BY <1>1, NewestIs
<1>6. \A k \in 1 .. n : Listed[k] \in Blocks /\ blink_array[Listed[k]] \in Block
  BY ListedBlocks
<1>7. \A k \in 1 .. n : Listed[k] = Listed[i] => k = i
  BY DEF BlinkInv, Linked
<1>8. DOMAIN blink_array = Blocks
  BY DEF BlinkInv, TypeOK
<1>. HIDE DEF n
<1>9. blink_array'[Listed[i]] = SameRhythm(blink_array[Listed[i]], blink_array[Listed[j]])
  BY <1>1, <1>6, <1>8
<1>10. \A k \in 1 .. n : k # i => blink_array'[Listed[k]] = blink_array[Listed[k]]
  BY <1>1, <1>6, <1>7, <1>8
<1>11. ASSUME NEW to \in Block, NEW from \in Block
       PROVE  Shows(SameRhythm(to, from)) =
                [Shows(from) EXCEPT !.blink =
                   [Shows(to).blink EXCEPT !.on_length  = Shows(from).blink.on_length,
                                           !.off_length = Shows(from).blink.off_length]]
  <2>. DEFINE new == [blink |-> [location |-> to.location, on_char |-> to.on_char,
                                 off_char |-> to.off_char, on_length |-> Ticks(from.on_length),
                                 off_length |-> Ticks(from.off_length)],
                      on |-> from.status = 1, left |-> Ticks(from.countdown)]
  <2>1. Shows(SameRhythm(to, from)) = new
    BY DEF Shows, BlinkOf, SameRhythm, Block
  <2>2. [Shows(from) EXCEPT !.blink =
           [Shows(to).blink EXCEPT !.on_length  = Shows(from).blink.on_length,
                                   !.off_length = Shows(from).blink.off_length]] = new
    <3>. PICK blink : blink = [Shows(to).blink EXCEPT !.on_length  = Shows(from).blink.on_length,
                                                      !.off_length = Shows(from).blink.off_length]
      OBVIOUS
    <3>1. blink = new.blink
      <4>. PICK x, y : x = Ticks(from.on_length) /\ y = Ticks(from.off_length)
        OBVIOUS
      <4>1. Shows(from).blink.on_length = x /\ Shows(from).blink.off_length = y
        BY DEF Shows, BlinkOf
      <4>2. blink = [BlinkOf(to) EXCEPT !.on_length = x, !.off_length = y]
        BY <4>1 DEF Shows
      <4>. DEFINE u == [BlinkOf(to) EXCEPT !.on_length = x, !.off_length = y]
      <4>3. /\ DOMAIN u = {"location", "on_char", "off_char", "on_length", "off_length"}
            /\ u = [f \in DOMAIN u |-> u[f]]
            /\ u.location = to.location /\ u.on_char = to.on_char /\ u.off_char = to.off_char
            /\ u.on_length = x /\ u.off_length = y
        BY DEF BlinkOf
      <4>. HIDE DEF u
      <4>4. u = new.blink
        BY <4>3
      <4>. QED
        BY <4>2, <4>4 DEF u
    <3>. PICK on : on = (from.status = 1)
      OBVIOUS
    <3>2. Shows(from) = [blink |-> BlinkOf(from), on |-> on, left |-> Ticks(from.countdown)]
      BY DEF Shows
    <3>3. new = [blink |-> new.blink, on |-> on, left |-> Ticks(from.countdown)]
      OBVIOUS
    <3>. HIDE DEF new
    <3>4. [Shows(from) EXCEPT !.blink = blink] = new
      BY <3>1, <3>2, <3>3
    <3>. QED
      BY <3>4
  <2>. QED
    BY <2>1, <2>2
<1>12. Shown'[i] = [list[j] EXCEPT !.blink =
                      [list[i].blink EXCEPT !.on_length  = list[j].blink.on_length,
                                            !.off_length = list[j].blink.off_length]]
  <2>1. /\ Shown'[i] = Shows(SameRhythm(blink_array[Listed[i]], blink_array[Listed[j]]))
        /\ list[i] = Shows(blink_array[Listed[i]]) /\ list[j] = Shows(blink_array[Listed[j]])
        /\ blink_array[Listed[i]] \in Block /\ blink_array[Listed[j]] \in Block
    BY <1>3, <1>4, <1>6, <1>9
  <2>. QED
    BY <1>11, <2>1, ZenonT(40)
<1>13. \A k \in 1 .. n : k # i => Shown'[k] = list[k]
  BY <1>3, <1>4, <1>10
<1>14. Shown' = Blinks!Following(list, i, j)
  <2>. PICK x : x = [list[j] EXCEPT !.blink =
                       [list[i].blink EXCEPT !.on_length  = list[j].blink.on_length,
                                             !.off_length = list[j].blink.off_length]]
    OBVIOUS
  <2>1. Blinks!Following(list, i, j) = [list EXCEPT ![i] = x]
    BY DEF Blinks!Following
  <2>2. [list EXCEPT ![i] = x] = [k \in 1 .. n |-> IF k = i THEN x ELSE list[k]]
    BY <1>3
  <2>3. \A k \in 1 .. n : Shown'[k] = IF k = i THEN x ELSE list[k]
    BY <1>12, <1>13
  <2>. QED
    BY <1>4, <2>1, <2>2, <2>3, ZenonT(40)
<1>. QED
  BY <1>5, <1>14 DEF Blinks!Sync

(* Every blink in the list counts down or turns.                           *)
LEMMA TaskletRefines ==
    ASSUME BlinkInv, mp1_rtc_tasklet
    PROVE  Blinks!Tick
<1>. PICK list : list = Shown
  OBVIOUS
<1>. DEFINE n == Len(Listed)
<1>1. /\ BlinkInv' /\ Listed' = Listed
      /\ \A k \in 1 .. n :
           blink_array'[Listed[k]] =
             IF Expires(blink_array[Listed[k]]) THEN Turned(blink_array[Listed[k]])
             ELSE [blink_array[Listed[k]] EXCEPT !.countdown = CountedDown(blink_array[Listed[k]])]
  BY TaskletStep
<1>2. /\ DOMAIN list = 1 .. n
      /\ \A k \in 1 .. n : list[k] = Shows(blink_array[Listed[k]])
  BY ShownIs
<1>3. /\ Shown' = [k \in 1 .. n |-> Shown'[k]]
      /\ \A k \in 1 .. n : Shown'[k] = Shows(blink_array'[Listed[k]])
  BY <1>1, ShownNext
<1>4. \A k \in 1 .. n : blink_array[Listed[k]] \in Block
  BY ListedBlocks
<1>. HIDE DEF n
<1>5. ASSUME NEW d \in Block, Expires(d) PROVE Shows(Turned(d)) = Blinks!Ticked(Shows(d))
  <2>1. ~ (Shows(d).left > 1)
    BY <1>5, CountingDown DEF Shows
  <2>2. Blinks!Ticked(Shows(d)) =
          [blink |-> BlinkOf(d), on |-> ~ (d.status = 1),
           left |-> IF d.status = 1 THEN Ticks(d.off_length) ELSE Ticks(d.on_length)]
    BY <2>1 DEF Blinks!Ticked, Shows, BlinkOf
  <2>3. /\ BlinkOf(Turned(d)) = BlinkOf(d)
        /\ Turned(d).status = 1 - d.status
        /\ Turned(d).countdown = IF d.status = 1 THEN d.off_length ELSE d.on_length
    BY <1>5 DEF Turned, BlinkOf, Block
  <2>4. (1 - d.status = 1) = ~ (d.status = 1)
    BY <1>5, BlockFacts
  <2>. QED
    BY <2>2, <2>3, <2>4 DEF Shows
<1>6. ASSUME NEW d \in Block, ~ Expires(d)
      PROVE  Shows([d EXCEPT !.countdown = CountedDown(d)]) = Blinks!Ticked(Shows(d))
  <2>. PICK c : c = CountedDown(d)
    OBVIOUS
  <2>1. Ticks(d.countdown) > 1 /\ Ticks(c) = Ticks(d.countdown) - 1
    BY <1>6, CountingDown
  <2>2. Blinks!Ticked(Shows(d)) = [Shows(d) EXCEPT !.left = Ticks(d.countdown) - 1]
    BY <2>1 DEF Blinks!Ticked, Shows
  <2>3. Shows([d EXCEPT !.countdown = c]) = [Shows(d) EXCEPT !.left = Ticks(c)]
    BY <1>6 DEF Shows, BlinkOf, Block
  <2>. QED
    BY <2>1, <2>2, <2>3
<1>7. \A k \in 1 .. n : Shown'[k] = Blinks!Ticked(list[k])
  BY <1>1, <1>2, <1>3, <1>4, <1>5, <1>6, ZenonT(40) DEF n
<1>8. Shown' = [k \in DOMAIN list |-> Blinks!Ticked(list[k])]
  BY <1>2, <1>3, <1>7
<1>. QED
  BY <1>8, Zenon DEF Blinks!Tick

(* For every pool, screen and set of structures: the links and the 16 bit  *)
(* countdowns of the blocks implement the list of blinks of BlinkList, in  *)
(* which nothing is linked, allocated or wrapped (blink.S:49-240).         *)
THEOREM BlinksAreAList == Spec => RefinesBlinkList
<1>1. Init => Blinks!Init
  <2>. SUFFICES ASSUME Init PROVE Shown = <<>>
    BY DEF Blinks!Init
  <2>1. BlinkInv /\ Listed = <<>>
    BY InitInv
  <2>2. Shown \in Seq({Shown[k] : k \in 1 .. Len(Listed)}) /\ Len(Shown) = 0
    BY <2>1, ShownIs
  <2>. QED
    BY <2>2, EmptySeq
<1>2. ASSUME BlinkInv, [Next]_vars PROVE [Blinks!Next]_Shown
  <2>1. CASE UNCHANGED vars
    <3>1. BlinkInv' /\ Listed' = Listed /\ blink_array' = blink_array
      <4>1. /\ blink_array' = blink_array /\ mp1_list_head' = mp1_list_head
            /\ TypeOK' <=> TypeOK
        BY <2>1 DEF TypeOK, vars
      <4>. QED
        BY <1>2, <4>1, KeepsList DEF BlinkInv
    <3>. QED
      BY <1>2, <3>1, ShownIs, ShownNext
  <2>2. ASSUME NEW b \in Inputs, mp1_ioctl_add(b) PROVE Blinks!Next
    BY <1>2, <2>2, AddRefines DEF Blinks!Next
  <2>3. ASSUME NEW location \in Locations, mp1_ioctl_remove(location) PROVE Blinks!Next
    BY <1>2, <2>3, RemoveRefines DEF Blinks!Next
  <2>4. ASSUME NEW first \in Locations, NEW second \in Locations, mp1_ioctl_sync(first, second)
        PROVE  Blinks!Next
    BY <1>2, <2>4, SyncRefines DEF Blinks!Next
  <2>5. CASE mp1_rtc_tasklet
    BY <1>2, <2>5, TaskletRefines DEF Blinks!Next
  <2>. QED
    BY <1>2, <2>1, <2>2, <2>3, <2>4, <2>5 DEF Next, mp1_ioctl
<1>. QED
  BY <1>1, <1>2, Invariance, PTL DEF Spec, RefinesBlinkList, Blinks!Spec
=============================================================================
