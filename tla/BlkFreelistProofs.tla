------------------------- MODULE BlkFreelistProofs -------------------------
(***************************************************************************)
(* The theorems about the block free list, for every device size and every *)
(* request size.                                                           *)
(***************************************************************************)
EXTENDS BlkFreelistSpec, BlkFreelistLemmas

(***************************************************************************)
(* The inductive invariant: the list is well formed, and what it covers is *)
(* what nobody holds.  Neither half is inductive without the other:        *)
(* coalescing is only right for blocks that are not on the list already.   *)
(***************************************************************************)
Inv ==
    /\ TypeOK
    /\ Good(freelist)
    /\ \A b \in Int : Covers(freelist, b) <=> b \in All \ held

\* The invariant implies the three properties it was built from.
LEMMA InvImplies ==
    ASSUME Inv
    PROVE  TypeOK /\ Coalesced /\ FreeIsNotHeld
<1>1. TypeOK /\ Coalesced
  BY DEF Inv, Good, Coalesced
<1>2. \A b \in Int : b \in FreeBlocks(freelist) <=> b \in All \ held
  BY FreeBlocksCovers DEF Inv
<1>3. FreeBlocks(freelist) \subseteq Int /\ All \ held \subseteq Int
  BY MaxLbaAssumption DEF FreeBlocks, All
<1>4. QED
  BY <1>1, <1>2, <1>3 DEF FreeIsNotHeld

\* A range that somebody may hold or that is free.
LEMMA RangeFacts ==
    ASSUME NEW lba \in All, NEW n \in 1 .. MaxBlks, NEW S \in SUBSET All,
           Blocks(lba, n) \subseteq S
    PROVE  /\ lba \in Nat /\ n \in Nat \ {0}
           /\ lba + n <= MAX_LBA_NUM
           /\ Blocks(lba, n) \subseteq Int
<1>1. lba \in Nat /\ n \in Nat \ {0}
  BY MaxLbaAssumption, MaxBlksAssumption DEF All
<1>2. lba + n - 1 \in Blocks(lba, n)
  BY <1>1 DEF Blocks
<1>3. lba + n - 1 \in All
  BY <1>2
<1>4. QED
  BY <1>1, <1>3, MaxLbaAssumption DEF All, Blocks

\* The list freelist_init makes is good and covers the whole device.
LEMMA InvInit == Init => Inv
<1> SUFFICES ASSUME Init PROVE Inv
  OBVIOUS
<1> DEFINE e == Ent(0, MAX_LBA_NUM)
<1>1. e \in freelist_ent /\ e.start_lba = 0 /\ End(e) = MAX_LBA_NUM
  BY MaxLbaAssumption, EntIs
<1>2. freelist = <<e>>
  BY DEF Init, freelist_init
<1> HIDE DEF e
<1>3. freelist \in Seq(freelist_ent) /\ Len(freelist) = 1 /\ freelist[1] = e
  BY <1>1, <1>2
<1>4. Good(freelist)
  BY <1>1, <1>3, MaxLbaAssumption DEF Good
<1>5. \A b \in Int : Covers(freelist, b) <=> b \in All \ held
  BY <1>1, <1>3, MaxLbaAssumption DEF Covers, In, All, Init
<1>6. TypeOK
  BY <1>3 DEF Init, TypeOK, None
<1>7. QED
  BY <1>4, <1>5, <1>6 DEF Inv

\* alloc_block during the scan.
LEMMA AllocBlockStep ==
    ASSUME Inv, NEW lba \in All, NEW n \in 1 .. MaxBlks, AllocBlock(lba, n)
    PROVE  Inv' /\ phase' = "scan"
<1> DEFINE r == alloc_block(freelist, lba, n)
<1>1. /\ lba \in Nat /\ n \in Nat \ {0} /\ Blocks(lba, n) \subseteq Int
  BY RangeFacts DEF AllocBlock
<1>2. \A b \in Blocks(lba, n) : Covers(freelist, b)
  BY <1>1 DEF Inv, AllocBlock
<1>3. /\ r.ok /\ Good(r.fl)
      /\ \A b \in Int : Covers(r.fl, b) <=> Covers(freelist, b) /\ b \notin Blocks(lba, n)
  BY <1>1, <1>2, AllocBlockWorks DEF Inv
<1>4. /\ freelist' = r.fl /\ held' = held \cup Blocks(lba, n) /\ phase' = "scan"
      /\ last' = last /\ Blocks(lba, n) \subseteq All
  BY <1>3 DEF AllocBlock
<1> HIDE DEF r
<1>5. Good(freelist') /\ \A b \in Int : Covers(freelist', b) <=> b \in All' \ held'
  BY <1>3, <1>4 DEF Inv, All
<1>6. TypeOK'
  BY <1>4, <1>5, Zenon DEF Inv, TypeOK, All, Good
<1>7. QED
  BY <1>4, <1>5, <1>6 DEF Inv

\* What a successful get_blk returns was free, and nothing lower would fit.
LEMMA GetBlkFacts ==
    ASSUME Inv, NEW n \in 1 .. MaxBlks
    PROVE  LET r == get_blk(freelist, n)
           IN  \/ r.ret = -1 /\ r.fl = freelist
               \/ /\ r.ret \in Nat
                  /\ Good(r.fl)
                  /\ Blocks(r.ret, n) \subseteq All \ held
                  /\ \A b \in Int : Covers(r.fl, b)
                                     <=> Covers(freelist, b) /\ b \notin Blocks(r.ret, n)
                  /\ \A lba \in All : Blocks(lba, n) \subseteq All \ held => r.ret <= lba
<1> DEFINE r == get_blk(freelist, n)
           l == freelist
<1>1. n \in Nat \ {0} /\ Good(l)
  BY MaxBlksAssumption DEF Inv
<1>2. CASE r = [ret |-> -1, fl |-> l]
  BY <1>2
<1>3. ASSUME NEW i \in 1 .. Len(l), IsFirstFit(l, i, n),
             r = [ret |-> l[i].start_lba, fl |-> mark_used_blk(l, i, n)]
      PROVE  /\ r.ret \in Nat
             /\ Good(r.fl)
             /\ Blocks(r.ret, n) \subseteq All \ held
             /\ \A b \in Int : Covers(r.fl, b)
                                <=> Covers(l, b) /\ b \notin Blocks(r.ret, n)
             /\ \A lba \in All : Blocks(lba, n) \subseteq All \ held => r.ret <= lba
  <2>1. r.ret = l[i].start_lba /\ r.fl = mark_used_blk(l, i, n)
    BY <1>3
  <2> HIDE DEF r
  <2>2. /\ l[i] \in freelist_ent /\ l[i].start_lba \in Nat
        /\ l[i].lba_count \in Nat \ {0}
        /\ End(l[i]) = l[i].start_lba + l[i].lba_count
        /\ Len(l) \in Nat
    BY <1>1, GoodFacts, EntFacts DEF End
  <2>3. n <= l[i].lba_count
    BY <1>1, <1>3, <2>2 DEF IsFirstFit
  <2>4. Good(r.fl) /\ \A b \in Int : Covers(r.fl, b)
                                <=> Covers(l, b) /\ b \notin Blocks(r.ret, n)
    BY <1>1, <2>1, <2>3, MarkUsedBlk
  <2>5. Blocks(r.ret, n) \subseteq All \ held
    <3>1. ASSUME NEW b \in Blocks(r.ret, n) PROVE b \in Int /\ In(b, l[i])
      BY <1>1, <2>1, <2>2, <2>3 DEF Blocks, In
    <3>2. QED
      BY <3>1 DEF Inv, Covers
  <2>6. ASSUME NEW lba \in All, Blocks(lba, n) \subseteq All \ held
        PROVE  r.ret <= lba
    <3>1. lba \in Nat /\ Blocks(lba, n) \subseteq Int
      BY <2>6, RangeFacts, Zenon
    <3>2. PICK j \in 1 .. Len(l) : l[j].start_lba <= lba /\ lba + n <= End(l[j])
      <4>1. \A b \in Blocks(lba, n) : Covers(l, b)
        BY <2>6, <3>1 DEF Inv
      <4>2. QED
        BY <1>1, <3>1, <4>1, OneEntry, Zenon
    <3>3. /\ l[j].start_lba \in Nat /\ l[j].lba_count \in Nat \ {0}
          /\ End(l[j]) = l[j].start_lba + l[j].lba_count
      BY <1>1, GoodFacts, EntFacts DEF End
    <3>4. ~(l[j].lba_count < n)
      BY <1>1, <3>1, <3>2, <3>3
    <3>5. i <= j
      BY <1>3, <2>2, <3>4 DEF IsFirstFit
    <3>6. l[i].start_lba <= l[j].start_lba
      <4>1. CASE i = j
        BY <2>2, <4>1
      <4>2. CASE i < j
        <5>1. End(l[i]) < l[j].start_lba /\ l[i].start_lba < End(l[i])
              /\ End(l[i]) \in Nat
          BY <1>1, <4>2, GoodFacts
        <5>2. QED
          BY <2>2, <3>3, <5>1
      <4>3. QED
        BY <3>5, <4>1, <4>2
    <3>7. QED
      BY <2>1, <2>2, <3>1, <3>2, <3>3, <3>6
  <2>7. QED
    BY <2>1, <2>2, <2>4, <2>5, <2>6
<1>4. QED
  BY <1>1, <1>2, <1>3, GetBlkCases

\* get_blk takes what it hands out off the list, and nothing else.
LEMMA GetBlkStep ==
    ASSUME Inv, NEW n \in 1 .. MaxBlks, GetBlk(n)
    PROVE  Inv' /\ phase' = phase
<1> DEFINE r == get_blk(freelist, n)
<1>1. /\ freelist' = r.fl /\ phase' = phase
      /\ held' = IF r.ret = -1 THEN held ELSE held \cup Blocks(r.ret, n)
      /\ last' = [lba |-> r.ret, n |-> n] /\ n \in Nat
  BY MaxBlksAssumption DEF GetBlk
<1>2. \/ r.ret = -1 /\ r.fl = freelist
      \/ /\ r.ret \in Nat /\ Good(r.fl) /\ Blocks(r.ret, n) \subseteq All \ held
         /\ \A b \in Int : Covers(r.fl, b)
                            <=> Covers(freelist, b) /\ b \notin Blocks(r.ret, n)
  BY GetBlkFacts
<1> HIDE DEF r
<1>3. Good(freelist') /\ \A b \in Int : Covers(freelist', b) <=> b \in All' \ held'
  <2>1. CASE r.ret = -1 /\ r.fl = freelist
    BY <1>1, <2>1 DEF Inv, All
  <2>2. CASE /\ r.ret \in Nat /\ Good(r.fl) /\ Blocks(r.ret, n) \subseteq All \ held
             /\ \A b \in Int : Covers(r.fl, b)
                            <=> Covers(freelist, b) /\ b \notin Blocks(r.ret, n)
    <3>1. held' = held \cup Blocks(r.ret, n)
      <4>1. r.ret # -1
        BY <2>2
      <4>2. QED
        BY <1>1, <4>1
    <3>2. QED
      BY <1>1, <2>2, <3>1 DEF Inv, All
  <2>3. QED
    BY <1>2, <2>1, <2>2
<1>4. TypeOK'
  <2>1. held' \in SUBSET All
    BY <1>1, <1>2 DEF Inv, TypeOK
  <2>2. last' \in [lba : Int, n : Nat]
    <3>1. r.ret \in Int
      BY <1>2
    <3>2. QED
      BY <1>1, <3>1
  <2>3. QED
    BY <1>1, <1>3, <2>1, <2>2 DEF Inv, TypeOK, All, Good
<1>5. QED
  BY <1>1, <1>3, <1>4 DEF Inv

\* free_blk gives the range back, or kills the process when no free block
\* lies above it.
LEMMA FreeBlkStep ==
    ASSUME Inv, NEW lba \in All, NEW n \in 1 .. MaxBlks, FreeBlk(lba, n)
    PROVE  /\ Inv'
           /\ phase' = phase \/ (phase' = "dead" /\ \A b \in All \ held : b < lba)
<1> DEFINE r == free_blk(freelist, lba, n)
<1>1. /\ lba \in Nat /\ n \in Nat \ {0} /\ lba + n <= MAX_LBA_NUM
      /\ Blocks(lba, n) \subseteq Int /\ Blocks(lba, n) \subseteq held
  BY RangeFacts, SMTT(30) DEF FreeBlk, Inv, TypeOK
<1>2. \A b \in Blocks(lba, n) : ~Covers(freelist, b)
  BY <1>1 DEF Inv
<1>3. \/ /\ ~r.ok /\ r.fl = freelist
         /\ \A b \in Int : Covers(freelist, b) => b < lba
      \/ /\ r.ok /\ Good(r.fl)
         /\ \A b \in Int : Covers(r.fl, b) <=> Covers(freelist, b) \/ b \in Blocks(lba, n)
  BY <1>1, <1>2, FreeBlkWorks DEF Inv
<1>4. /\ freelist' = r.fl /\ last' = last
      /\ held' = IF r.ok THEN held \ Blocks(lba, n) ELSE held
      /\ phase' = IF r.ok THEN phase ELSE "dead"
  BY DEF FreeBlk
<1> HIDE DEF r
<1>5. CASE ~r.ok /\ r.fl = freelist /\ \A b \in Int : Covers(freelist, b) => b < lba
  <2>1. \A b \in All \ held : b < lba
    BY <1>5, MaxLbaAssumption DEF Inv, All
  <2>2. Inv'
    BY <1>4, <1>5 DEF Inv, TypeOK, All
  <2>3. QED
    BY <1>4, <1>5, <2>1, <2>2
<1>6. CASE /\ r.ok /\ Good(r.fl)
           /\ \A b \in Int : Covers(r.fl, b) <=> Covers(freelist, b) \/ b \in Blocks(lba, n)
  <2>1. Good(freelist') /\ \A b \in Int : Covers(freelist', b) <=> b \in All' \ held'
    BY <1>1, <1>4, <1>6 DEF Inv, TypeOK, All
  <2>2. TypeOK'
    BY <1>4, <1>6, <2>1, Zenon DEF Inv, TypeOK, All, Good
  <2>3. QED
    BY <1>4, <1>6, <2>1, <2>2 DEF Inv
<1>7. QED
  BY <1>3, <1>5, <1>6

\* A restart begins with the list freelist_init makes.
LEMMA RestartStep == Restart => Inv'
  <1> SUFFICES ASSUME Restart PROVE Inv'
    OBVIOUS
  <1> DEFINE e == Ent(0, MAX_LBA_NUM)
  <1>2. e \in freelist_ent /\ e.start_lba = 0 /\ End(e) = MAX_LBA_NUM
    BY MaxLbaAssumption, EntIs
  <1>3. freelist' = <<e>> /\ held' = {}
    BY DEF Restart, freelist_init
  <1> HIDE DEF e
  <1>4. freelist' \in Seq(freelist_ent) /\ Len(freelist') = 1 /\ freelist'[1] = e
    BY <1>2, <1>3
  <1>5. Good(freelist')
    BY <1>2, <1>4, MaxLbaAssumption DEF Good
  <1>6. \A b \in Int : Covers(freelist', b) <=> b \in All' \ held'
    BY <1>2, <1>3, <1>4, MaxLbaAssumption DEF Covers, In, All
  <1>7. TypeOK'
    BY <1>4 DEF Restart, TypeOK, None
  <1>8. QED
    BY <1>5, <1>6, <1>7 DEF Inv

\* Every call keeps the list good and in step with what the callers hold.
LEMMA InvNext == Inv /\ [Next]_vars => Inv'
<1> SUFFICES ASSUME Inv, [Next]_vars PROVE Inv'
  OBVIOUS
<1>1. ASSUME NEW lba \in All, NEW n \in 1 .. MaxBlks, AllocBlock(lba, n) PROVE Inv'
  BY <1>1, AllocBlockStep
<1>2. CASE ScanDone
  BY <1>2 DEF ScanDone, Inv, TypeOK, All
<1>3. ASSUME NEW n \in 1 .. MaxBlks, GetBlk(n) PROVE Inv'
  BY <1>3, GetBlkStep
<1>4. ASSUME NEW lba \in All, NEW n \in 1 .. MaxBlks, FreeBlk(lba, n) PROVE Inv'
  BY <1>4, FreeBlkStep
<1>5. CASE Restart
  BY <1>5, RestartStep
<1>6. CASE UNCHANGED vars
  BY <1>6 DEF vars, Inv, TypeOK, All
<1>7. QED
  BY <1>1, <1>2, <1>3, <1>4, <1>5, <1>6 DEF Next

\* The inductive invariant of the free list and its callers holds.
THEOREM InvHolds == Spec => []Inv
  BY InvInit, InvNext, PTL DEF Spec

----------------------------------------------------------------------------
\* Type correctness of the list, for every device size and request size.
THEOREM TypeCorrect == Spec => []TypeOK
<1>1. Inv => TypeOK
  BY InvImplies
<1>2. QED
  BY <1>1, InvHolds, PTL

\* blk_freelist.c keeps the list sorted, on the device and fully coalesced,
\* for every sequence of alloc_block, get_blk, free_blk and restarts.
THEOREM ListCoalesced == Spec => []Coalesced
<1>1. Inv => Coalesced
  BY InvImplies
<1>2. QED
  BY <1>1, InvHolds, PTL

\* No block is lost and none is handed out twice (get_blk, alloc_block and
\* free_blk together).
THEOREM NoBlockLostOrShared == Spec => []FreeIsNotHeld
<1>1. Inv => FreeIsNotHeld
  BY InvImplies
<1>2. QED
  BY <1>1, InvHolds, PTL

\* get_blk fails only when no run of that many blocks is free.
THEOREM NoFalseFull == Spec => []FitsIffFree
<1>1. ASSUME Inv PROVE FitsIffFree
  <2> SUFFICES ASSUME NEW n \in 1 .. MaxBlks
               PROVE  (\E i \in 1 .. Len(freelist) : freelist[i].lba_count >= n)
                       <=> (\E lba \in All : Blocks(lba, n) \subseteq All \ held)
    BY DEF FitsIffFree
  <2>1. n \in Nat \ {0} /\ Good(freelist)
    BY <1>1, MaxBlksAssumption DEF Inv
  <2>2. ASSUME NEW i \in 1 .. Len(freelist), freelist[i].lba_count >= n
        PROVE  \E lba \in All : Blocks(lba, n) \subseteq All \ held
    <3> DEFINE s == freelist[i].start_lba
               c == freelist[i].lba_count
    <3>1. s \in Nat /\ c \in Nat \ {0} /\ End(freelist[i]) = s + c
      BY <2>1, GoodFacts, EntFacts DEF End
    <3>2. ASSUME NEW b \in Blocks(s, n) PROVE b \in Int /\ In(b, freelist[i])
      BY <2>1, <2>2, <3>1 DEF Blocks, In
    <3>3. Blocks(s, n) \subseteq All \ held
      BY <1>1, <3>2 DEF Inv, Covers
    <3>4. s \in Blocks(s, n)
      BY <2>1, <3>1 DEF Blocks
    <3>5. QED
      BY <3>3, <3>4
  <2>3. ASSUME NEW lba \in All, Blocks(lba, n) \subseteq All \ held
        PROVE  \E i \in 1 .. Len(freelist) : freelist[i].lba_count >= n
    <3>1. lba \in Nat /\ Blocks(lba, n) \subseteq Int
      BY <2>3, RangeFacts
    <3>2. \A b \in Blocks(lba, n) : Covers(freelist, b)
      BY <1>1, <2>3, <3>1 DEF Inv
    <3>3. PICK j \in 1 .. Len(freelist) :
             freelist[j].start_lba <= lba /\ lba + n <= End(freelist[j])
      BY <2>1, <3>1, <3>2, OneEntry
    <3>4. /\ freelist[j].start_lba \in Nat /\ freelist[j].lba_count \in Nat \ {0}
          /\ End(freelist[j]) = freelist[j].start_lba + freelist[j].lba_count
      BY <2>1, GoodFacts, EntFacts DEF End
    <3>5. freelist[j].lba_count >= n
      BY <2>1, <3>1, <3>3, <3>4
    <3>6. QED
      BY <3>5
  <2>4. QED
    BY <2>2, <2>3
<1>2. QED
  BY <1>1, InvHolds, PTL

\* get_blk returns the lowest free range that fits.
THEOREM FirstFitByAddress == Spec => LowestFit
<1>1. ASSUME Inv, NEW n \in 1 .. MaxBlks, GetBlk(n), last'.lba # -1
      PROVE  /\ Blocks(last'.lba, n) \subseteq All \ held
             /\ \A lba \in All : Blocks(lba, n) \subseteq All \ held => last'.lba <= lba
  <2>1. last'.lba = get_blk(freelist, n).ret
    BY <1>1 DEF GetBlk
  <2>2. QED
    BY <1>1, <2>1, GetBlkFacts
<1>2. Inv /\ [Next]_vars =>
        [\A n \in 1 .. MaxBlks :
            GetBlk(n) /\ last'.lba # -1 =>
               /\ Blocks(last'.lba, n) \subseteq All \ held
               /\ \A lba \in All :
                     Blocks(lba, n) \subseteq All \ held => last'.lba <= lba]_vars
  BY <1>1
<1>3. QED
  BY <1>2, InvHolds, PTL DEF Spec, LowestFit

\* The only way to die is free_blk of a range with no free block above it.
THEOREM DeathIsFreeAtTop == Spec => DiesOnlyAtTheTop
<1>1. ASSUME Inv, Next, phase # "dead", phase' = "dead"
      PROVE  \E lba \in All, n \in 1 .. MaxBlks :
                FreeBlk(lba, n) /\ \A b \in All \ held : b < lba
  <2>1. ASSUME NEW lba \in All, NEW n \in 1 .. MaxBlks, AllocBlock(lba, n) PROVE FALSE
    BY <1>1, <2>1, AllocBlockStep
  <2>2. ASSUME NEW n \in 1 .. MaxBlks, GetBlk(n) PROVE FALSE
    BY <1>1, <2>2, GetBlkStep
  <2>3. ~ScanDone /\ ~Restart
    BY <1>1 DEF ScanDone, Restart
  <2>4. PICK lba \in All, n \in 1 .. MaxBlks : FreeBlk(lba, n)
    BY <1>1, <2>1, <2>2, <2>3 DEF Next
  <2>5. \A b \in All \ held : b < lba
    BY <1>1, <2>4, FreeBlkStep
  <2>6. QED
    BY <2>4, <2>5
<1>2. Inv /\ [Next]_vars =>
        [phase # "dead" /\ phase' = "dead" =>
            \E lba \in All, n \in 1 .. MaxBlks :
               FreeBlk(lba, n) /\ \A b \in All \ held : b < lba]_vars
  BY <1>1
<1>3. QED
  BY <1>2, InvHolds, PTL DEF Spec, DiesOnlyAtTheTop

\* The list is exact: the four invariants of the free list together.
THEOREM ListIsExact == Spec => []FreeListExact
<1>1. TypeOK /\ Coalesced /\ FreeIsNotHeld /\ FitsIffFree => FreeListExact
  BY DEF FreeListExact
<1>2. QED
  BY <1>1, TypeCorrect, ListCoalesced, NoBlockLostOrShared, NoFalseFull, PTL
=============================================================================
