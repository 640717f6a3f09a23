--------------------------- MODULE KVStoreLemmas ---------------------------
(***************************************************************************)
(* What the operators of KVStore do, for every device size, key set and    *)
(* bound, when an application has one put in flight.                       *)
(***************************************************************************)
EXTENDS KVStore, TLAPS

\* Most leaves are first-order and go to Zenon; the ones that need arithmetic,
\* records or sequences name the SMT solver.
USE ZenonT(20), SMTT(30)

\* The instances the proofs speak of.  No key is a prefix of another and no
\* version wraps around; one put is in flight; no value ends exactly at the
\* end of a block (numzeros would add a block of zeros that nobody allocated);
\* and a put whose dispatch faulted is not acknowledged by a stray timer.
OneAtATime ==
    /\ Keys # {} /\ Prefix = {} /\ Junk \subseteq Int
    /\ Window = 1
    /\ MaxPuts \in Nat \ {0} /\ VersionMod \in Nat /\ MaxPuts < VersionMod
    /\ MaxTimers \in Nat /\ MaxFaults \in Nat /\ MaxCrashes \in Nat
    /\ FaultTimers = 0
    /\ \A len \in Lens : PaddedBlks(len) = CALC_NUMBLKS(len)

----------------------------------------------------------------------------
(* A device d, seen as records.                                            *)

Size(e) == CALC_NUMBLKS(e.val_len)

Device == [All -> [meta : index_ent \cup {NoMeta}, data : (0 .. MaxPuts) \X Nat]]

IsRec(d, b) == b \in All /\ d[b].meta # NoMeta

Span(d, b) == Blocks(b, Size(d[b].meta))

ReadsOn(d, e, at) ==
    \A j \in 0 .. (Size(e) - 1) :
        /\ at + j \in All
        /\ d[at + j].data = Piece(e, j)
        /\ j > 0 => d[at + j].meta = NoMeta

\* A record that the scan would adopt if it came by.
Intact(d, b) == IsRec(d, b) /\ ReadsOn(d, d[b].meta, b)

\* The scan comes by: no record in front of b claims block b.
Reached(d, b) == \A c \in All : c < b /\ IsRec(d, c) => c + Size(d[c].meta) <= b

\* The record of a key that the scan ends with.
Newest(d, b) ==
    /\ Intact(d, b)
    /\ \A c \in All :
          Intact(d, c) /\ d[c].meta.key = d[b].meta.key =>
             \/ d[c].meta.version < d[b].meta.version
             \/ d[c].meta.version = d[b].meta.version /\ b <= c

\* A record that owns its blocks: they are allocated, and the scan reaches it.
Anchor(d, l, b) ==
    /\ IsRec(d, b) /\ Reached(d, b)
    /\ \A x \in Span(d, b) :
          x \in All /\ ~Covers(l, x) /\ (x # b => d[x].meta = NoMeta)

\* Every block that is not free belongs to such a record.
Owned(d, l) == \A x \in All : ~Covers(l, x) => \E h \in All : Anchor(d, l, h) /\ x \in Span(d, h)

\* p is the number of puts so far.  Two records of a key with the same version
\* are copies of one put.
Sane(d, p) ==
    /\ d \in Device
    /\ \A b \in All : IsRec(d, b) =>
          /\ d[b].meta.lba = b
          /\ d[b].meta.version \in 1 .. p /\ d[b].meta.crc \in 1 .. p
    /\ \A b, c \in All :
          /\ Intact(d, b) /\ Intact(d, c)
          /\ d[b].meta.key = d[c].meta.key /\ d[b].meta.version = d[c].meta.version
          => d[b].meta.crc = d[c].meta.crc

----------------------------------------------------------------------------
(* An index ix.                                                            *)

Ents(ix) == UNION {Range(ix[b]) : b \in DOMAIN ix}

OneEach(ix) ==
    /\ ix \in [Range(Bucket) -> Seq(index_ent)]
    /\ \A b, c \in DOMAIN ix :
        \A i \in 1 .. Len(ix[b]), j \in 1 .. Len(ix[c]) :
            /\ ix[b][i].key = ix[c][j].key => b = c /\ i = j
            /\ Bucket[ix[b][i].key] = b

\* Every entry is the record it points to.
Mirrors(d, ix) == \A e \in Ents(ix) : Intact(d, e.lba) /\ d[e.lba].meta = e
----------------------------------------------------------------------------
(* What the lemmas rely on: the least number principle, for the walks over *)
(* chains and records, and what the functions of blk_freelist.c do to a    *)
(* good list.  BlkFreelistLemmas proves it and KVRefinesProofs puts the    *)
(* two together; as a hypothesis it keeps that module out of the           *)
(* obligations here.                                                       *)

GetBlkOK(l, n) ==
    LET r == get_blk(l, n)
    IN  \/ r.ret = -1 /\ r.fl = l
        \/ /\ r.ret \in Nat /\ r.ret + n <= MAX_LBA_NUM
           /\ Good(r.fl)
           /\ \A b \in Blocks(r.ret, n) : Covers(l, b)
           /\ \A b \in Int : Covers(r.fl, b)
                              <=> Covers(l, b) /\ b \notin Blocks(r.ret, n)
           /\ ~Covers(l, r.ret - 1)

AllocBlockOK(l, lba, n) ==
    (\A b \in Blocks(lba, n) : Covers(l, b)) =>
       /\ alloc_block(l, lba, n).ok
       /\ Good(alloc_block(l, lba, n).fl)
       /\ \A b \in Int : Covers(alloc_block(l, lba, n).fl, b)
                          <=> Covers(l, b) /\ b \notin Blocks(lba, n)

FreeBlkOK(l, lba, n) ==
    lba + n <= MAX_LBA_NUM /\ (\A b \in Blocks(lba, n) : ~Covers(l, b)) =>
       LET r == free_blk(l, lba, n)
       IN  \/ /\ ~r.ok /\ r.fl = l
              /\ \A b \in Int : Covers(l, b) => b < lba
           \/ /\ r.ok /\ Good(r.fl)
              /\ \A b \in Int : Covers(r.fl, b)
                                 <=> Covers(l, b) \/ b \in Blocks(lba, n)

Relied ==
    /\ \A T \in SUBSET Nat : T # {} => \E x \in T : \A y \in T : x <= y
    /\ Good(freelist_init)
    /\ \A b \in Int : Covers(freelist_init, b) <=> b \in All
    /\ \A l : Good(l) =>
          /\ \A b \in Int : b \in FreeBlocks(l) <=> Covers(l, b)
          /\ \A n \in Nat \ {0} :
                /\ GetBlkOK(l, n)
                /\ \A lba \in Nat : AllocBlockOK(l, lba, n) /\ FreeBlkOK(l, lba, n)

\* The facts about the free list the store relies on, one lemma for each: a
\* least element,
LEMMA Least ==
    ASSUME Relied, NEW T \in SUBSET Nat, T # {}
    PROVE  \E x \in T : \A y \in T : x <= y
  BY Zenon DEF Relied

\* the list freelist_init makes,
LEMMA FreelistFacts ==
    ASSUME Relied
    PROVE  /\ Good(freelist_init)
           /\ \A b \in Int : Covers(freelist_init, b) <=> b \in All
  BY Zenon DEF Relied

\* get_blk,
LEMMA GetBlk ==
    ASSUME Relied, NEW l, Good(l), NEW n \in Nat \ {0}
    PROVE  GetBlkOK(l, n)
  BY Zenon DEF Relied

\* alloc_block and free_blk,
LEMMA AllocAndFree ==
    ASSUME Relied, NEW l, Good(l), NEW lba \in Nat, NEW n \in Nat \ {0}
    PROVE  AllocBlockOK(l, lba, n) /\ FreeBlkOK(l, lba, n)
  BY Zenon DEF Relied

\* and the blocks a list covers.
LEMMA FreeAre ==
    ASSUME Relied, NEW l, Good(l)
    PROVE  \A b \in Int : b \in FreeBlocks(l) <=> Covers(l, b)
  BY Zenon DEF Relied

\* A good list is a sequence of entries.
LEMMA GoodIsSeq == ASSUME NEW l, Good(l) PROVE l \in Seq(freelist_ent)
  BY DEF Good

----------------------------------------------------------------------------
(* The folds of KVStore, on the short sequences of one put.  A fold is a   *)
(* recursive function on sets of positions, which is written out here.     *)

\* The sets of positions in sequences of up to three elements.
LEMMA Positions ==
    /\ Max({1}) = 1 /\ Max({1, 2}) = 2 /\ Max({1, 2, 3}) = 3
    /\ {1} \ {1} = {} /\ {1, 2} \ {2} = {1} /\ {1, 2, 3} \ {3} = {1, 2}
    /\ \A s \in SUBSET {1} : s = {} \/ s = {1}
<1>1. Max({1}) = 1 /\ Max({1, 2}) = 2 /\ Max({1, 2, 3}) = 3
  BY SMTT(30) DEF Max
<1>2. {1} \ {1} = {} /\ {1, 2} \ {2} = {1}
  BY SMTT(30)
<1>3. {1, 2, 3} \ {3} = {1, 2}
  BY SMTT(30)
<1>4. \A s \in SUBSET {1} : s = {} \/ s = {1}
  OBVIOUS
<1>5. QED
  BY <1>1, <1>2, <1>3, <1>4

----------------------------------------------------------------------------
(* Arithmetic on blocks and counters, each fact on its own.                *)

\* The blocks of the device.
LEMMA AllIs ==
    /\ \A x : x \in All <=> x \in Int /\ 0 <= x /\ x < MAX_LBA_NUM
    /\ \A x \in All : x \in Nat
    /\ \A x, y \in All : x < y \/ x = y \/ x > y
    /\ 0 \in All
  BY MaxLbaAssumption, SMTT(30) DEF All

\* The blocks of an extent.
LEMMA BlocksIs ==
    ASSUME NEW s \in Int, NEW n \in Nat
    PROVE  /\ \A x : x \in Blocks(s, n) <=> x \in Int /\ s <= x /\ x < s + n
           /\ n # 0 => s \in Blocks(s, n) /\ s + n - 1 \in Blocks(s, n)
  BY SMTT(30) DEF Blocks

\* A range of blocks that ends in front of block r, and one of its blocks.
LEMMA InFront ==
    ASSUME NEW r \in All, NEW s \in Nat, NEW n \in Nat, s + n <= r
    PROVE  /\ s + n <= MAX_LBA_NUM /\ ~(r < s) /\ r \in Nat /\ r \in Int
           /\ \A x \in Int : s <= x /\ x < s + n => x \in All /\ ~(r <= x)
  BY MaxLbaAssumption, SMTT(30) DEF All

\* A block is before the end of an extent or behind it.
LEMMA Apart == ASSUME NEW x \in Int, NEW s \in Int, NEW n \in Int PROVE ~(x < s + n /\ s + n <= x)
  BY SMTT(30)

\* Lengths and versions are integers,
LEMMA NatInt == \A n \in Nat : n \in Int /\ n <= n
  BY SMTT(30)

\* and compared as such:
LEMMA GeqIs == \A a, c \in Nat : a >= c => a > c \/ a = c
  BY SMTT(30)

\* what is above a is above all that a is not below;
LEMMA AboveThat ==
    ASSUME NEW a \in Nat, NEW b \in Nat, NEW c \in Nat, a < b, a > c \/ a = c
    PROVE  b > c
  BY SMTT(30)

\* what is not above a is below its successor,
LEMMA BelowNext == ASSUME NEW a \in Nat, NEW b \in Nat, NEW v, v = a + 1, b <= a PROVE b < v
  BY SMTT(30)

\* which is above a
LEMMA NextAbove == ASSUME NEW a \in Nat, NEW v, v = a + 1 PROVE a < v /\ a # v
  BY SMTT(30)

\* and not reached by anything that is not above a.
LEMMA NotNext == ASSUME NEW a \in Nat, NEW b \in Nat, NEW v, v = a + 1, v <= b, b <= a PROVE FALSE
  BY SMTT(30)

\* Counters that stay below a bound.
LEMMA Counts ==
    ASSUME NEW m \in Nat, NEW a \in 0 .. m
    PROVE  /\ a \in Nat /\ a <= a /\ a + 0 = a /\ a + 1 > a /\ a <= a + 1
           /\ a < m => a + 1 \in 0 .. m
           /\ a > 0 => a \in Nat \ {0} /\ a - 1 \in 0 .. m
           /\ a <= 0 => ~(a > 0)
           /\ 0 \in 0 .. m
  BY SMTT(30)

\* The small numbers a batch of one put deals with.
LEMMA ZeroOne == /\ \A n \in 0 .. 1 : n = 0 \/ n = 1
                 /\ \A n \in 1 .. 3 : n = 1 \/ n = 2 \/ n = 3
                 /\ 1 <= 1 /\ 1 + 1 = 2
  BY SMTT(30)

\* The positions of a sequence that grew by one.
LEMMA LastIn ==
    ASSUME NEW n \in Nat
    PROVE  /\ n + 1 \in 1 .. (n + 1)
           /\ \A j \in 1 .. n : j \in 1 .. (n + 1)
           /\ \A j \in 1 .. (n + 1) : j \in 1 .. n \/ j = n + 1
  BY SMTT(30)

\* A position is a number.
LEMMA RangeNat == ASSUME NEW m, NEW a \in 1 .. m PROVE a \in Nat /\ a <= m
  BY SMTT(30)

\* The version of the next put does not wrap around.
LEMMA NoWrap ==
    ASSUME NEW v \in Nat, NEW p \in Nat, NEW m \in Nat, NEW w \in Nat,
           v <= p, p + 1 \in 0 .. m, m < w
    PROVE  /\ (v + 1) % w = v + 1 /\ v + 1 \in Nat /\ v + 1 <= p + 1
           /\ p + 1 \in 1 .. m /\ p <= p + 1
  BY SMTT(30)

\* A batch of at most one put fits in the window.
LEMMA WindowOne == ASSUME OneAtATime, NEW n, n = 1 \/ n = 0 PROVE n <= Window
<1>1. Window = 1
  BY DEF OneAtATime
<1>2. QED
  BY <1>1, SMTT(30)

\* A record has at least one block.
LEMMA SizePos ==
    ASSUME NEW e, e.val_len \in Nat
    PROVE  Size(e) \in Nat \ {0}
<1>1. LBA_SIZE \in Nat \ {0} /\ META_SZ \in Nat /\ DATA_SZ \in Nat
  BY KVAssumption, SMTT(30) DEF DATA_SZ
<1>2. \A a \in Nat : a \div LBA_SIZE \in Nat
  BY <1>1, SMTT(30)
<1>3. e.val_len > DATA_SZ => (e.val_len - DATA_SZ) + LBA_SIZE - 1 \in Nat
  BY <1>1, SMTT(30)
<1>4. QED
  BY <1>2, <1>3, SMTT(30) DEF Size, CALC_NUMBLKS

\* No put, no blocks.
LEMMA NumBlksNone == NumBlks(<< >>) = 0
<1> DEFINE F(it) == [s \in SUBSET {} |-> IF s = {} THEN 0
                        ELSE it[s \ {Max(s)}] + CALC_NUMBLKS(<< >>[Max(s)].val_len)]
           g == [s \in SUBSET {} |-> 0]
<1>1. g = F(g) /\ \A it : it = F(it) => it[{}] = 0
  OBVIOUS
<1>2. (CHOOSE it : it = F(it))[{}] = 0
  <2> HIDE DEF F, g
  <2> QED BY <1>1
<1>3. DOMAIN << >> = {}
  BY SMTT(30)
<1>4. QED
  BY <1>2, <1>3 DEF NumBlks, InOrder, MapThenFoldSet

\* A batch of one put needs the blocks of that put.
LEMMA NumBlksOne ==
    ASSUME NEW e, Size(e) \in Nat
    PROVE  NumBlks(<< e >>) = Size(e)
<1> DEFINE F(it) == [s \in SUBSET {1} |-> IF s = {} THEN 0
                        ELSE it[s \ {Max(s)}] + CALC_NUMBLKS(<< e >>[Max(s)].val_len)]
           g == [s \in SUBSET {1} |-> IF s = {} THEN 0 ELSE Size(e)]
<1>1. DOMAIN << e >> = {1} /\ << e >>[1] = e
  BY SMTT(30)
<1>2. g = F(g)
  <2>1. ASSUME NEW s \in SUBSET {1} PROVE g[s] = F(g)[s]
    <3>1. CASE s = {}
      BY <3>1
    <3>2. CASE s = {1}
      BY <3>2, <1>1, Positions, SMTT(30) DEF Size
    <3>3. QED
      BY <3>1, <3>2, Positions
  <2>2. QED
    BY <2>1
<1>3. ASSUME NEW it, it = F(it) PROVE it[{1}] = Size(e)
  <2>1. it[{}] = 0 /\ it[{1}] = F(it)[{1}]
    BY <1>3
  <2>2. QED
    BY <2>1, <1>1, Positions, SMTT(30) DEF Size
<1>4. (CHOOSE it : it = F(it))[{1}] = Size(e)
  <2> HIDE DEF F, g
  <2> QED BY <1>2, <1>3
<1>5. QED
  BY <1>1, <1>4 DEF NumBlks, InOrder, MapThenFoldSet

\* The scatter-gather list of a batch of one put is that of the put.
LEMMA SgOne ==
    ASSUME NEW e, NEW s
    PROVE  Sg(<< e >>, s) = << >> \o SgEntries(e, s)
<1> DEFINE Z == [at |-> s, sg |-> << >>]
           Op(a, x) == [at |-> a.at + PaddedBlks(x.val_len), sg |-> a.sg \o SgEntries(x, a.at)]
           F(it) == [t \in SUBSET {1} |-> IF t = {} THEN Z
                        ELSE Op(it[t \ {Max(t)}], << e >>[Max(t)])]
           g == [t \in SUBSET {1} |-> IF t = {} THEN Z ELSE Op(Z, e)]
<1>1. DOMAIN << e >> = {1} /\ << e >>[1] = e
  BY SMTT(30)
<1>2. g = F(g)
  <2> HIDE DEF Op, Z
  <2>1. ASSUME NEW t \in SUBSET {1} PROVE g[t] = F(g)[t]
    <3>1. CASE t = {}
      BY <3>1
    <3>2. CASE t = {1}
      BY <3>2, <1>1, Positions, SMTT(30)
    <3>3. QED
      BY <3>1, <3>2, Positions
  <2>2. QED
    BY <2>1
<1>3. ASSUME NEW it, it = F(it) PROVE it[{1}] = Op(Z, e)
  <2> HIDE DEF Op, Z
  <2>1. it[{}] = Z /\ it[{1}] = F(it)[{1}]
    BY <1>3
  <2>2. QED
    BY <2>1, <1>1, Positions, SMTT(30)
<1>4. (CHOOSE it : it = F(it))[{1}] = Op(Z, e)
  <2> HIDE DEF F, g, Z, Op
  <2> QED BY <1>2, <1>3
<1>5. Sg(<< e >>, s) = (CHOOSE it : it = F(it))[{1}].sg
  BY <1>1 DEF Sg, InOrder, MapThenFoldSet
<1>6. Op(Z, e).sg = << >> \o SgEntries(e, s)
  OBVIOUS
<1>7. QED
  <2> HIDE DEF F, Z, Op
  <2> QED BY <1>4, <1>5, <1>6

Cat3(x, y, z) == ((<< >> \o x) \o y) \o z

\* The stores of three scatter-gather entries.
LEMMA StoresThree ==
    ASSUME NEW a, NEW b, NEW c
    PROVE  AllStores(<< a, b, c >>) = Cat3(a.stores, b.stores, c.stores)
<1> DEFINE q == << a, b, c >>
           Op(x, y) == x \o y.stores
           Z == << >>
           F(it) == [t \in SUBSET {1, 2, 3} |-> IF t = {} THEN Z
                        ELSE Op(it[t \ {Max(t)}], q[Max(t)])]
           h == [t \in SUBSET {1, 2, 3} |->
                    IF t = {} THEN Z
                    ELSE IF t = {1} THEN Op(Z, a)
                    ELSE IF t = {2} THEN Op(Z, b)
                    ELSE IF t = {3} THEN Op(Z, c)
                    ELSE IF t = {1, 2} THEN Op(Op(Z, a), b)
                    ELSE IF t = {1, 3} THEN Op(Op(Z, a), c)
                    ELSE IF t = {2, 3} THEN Op(Op(Z, b), c)
                    ELSE Op(Op(Op(Z, a), b), c)]
<1>1. DOMAIN q = {1, 2, 3} /\ q[1] = a /\ q[2] = b /\ q[3] = c
  BY SMTT(30)
<1>a. Max({2}) = 2 /\ Max({3}) = 3 /\ Max({1, 3}) = 3 /\ Max({2, 3}) = 3
  BY SMTT(30) DEF Max
<1>2. h = F(h)
  <2> HIDE DEF Op, Z, q
  <2>1. ASSUME NEW t \in SUBSET {1, 2, 3} PROVE h[t] = F(h)[t]
    <3>1. CASE t = {}
      BY <3>1
    <3>2. CASE t = {1}
      BY <3>2, <1>1, Positions, SMTT(30)
    <3>3. CASE t = {2}
      BY <3>3, <1>1, <1>a
    <3>4. CASE t = {3}
      BY <3>4, <1>1, <1>a
    <3>5. CASE t = {1, 2}
      <4>1. t \ {Max(t)} = {1} /\ q[Max(t)] = b
        BY <3>5, <1>1, Positions
      <4>2. h[t] = Op(Op(Z, a), b) /\ h[{1}] = Op(Z, a)
        BY <3>5, SMTT(30)
      <4> QED BY <4>1, <4>2, <3>5
    <3>6. CASE t = {1, 3}
      <4>1. t \ {Max(t)} = {1} /\ q[Max(t)] = c
        BY <3>6, <1>1, <1>a, SMTT(30)
      <4>2. h[t] = Op(Op(Z, a), c) /\ h[{1}] = Op(Z, a)
        BY <3>6, SMTT(30)
      <4> QED BY <4>1, <4>2, <3>6
    <3>7. CASE t = {2, 3}
      <4>1. t \ {Max(t)} = {2} /\ q[Max(t)] = c
        BY <3>7, <1>1, <1>a, SMTT(30)
      <4>2. h[t] = Op(Op(Z, b), c) /\ h[{2}] = Op(Z, b)
        BY <3>7, SMTT(30)
      <4> QED BY <4>1, <4>2, <3>7
    <3>8. CASE t = {1, 2, 3}
      <4>1. t \ {Max(t)} = {1, 2} /\ q[Max(t)] = c
        BY <3>8, <1>1, Positions
      <4>2. h[t] = Op(Op(Op(Z, a), b), c) /\ h[{1, 2}] = Op(Op(Z, a), b)
        BY <3>8, SMTT(30)
      <4> QED BY <4>1, <4>2, <3>8
    <3>9. /\ 1 \in t /\ 2 \in t /\ 3 \in t => t = {1, 2, 3}
          /\ 1 \in t /\ 2 \in t /\ 3 \notin t => t = {1, 2}
          /\ 1 \in t /\ 2 \notin t /\ 3 \in t => t = {1, 3}
          /\ 1 \notin t /\ 2 \in t /\ 3 \in t => t = {2, 3}
          /\ 1 \in t /\ 2 \notin t /\ 3 \notin t => t = {1}
          /\ 1 \notin t /\ 2 \in t /\ 3 \notin t => t = {2}
          /\ 1 \notin t /\ 2 \notin t /\ 3 \in t => t = {3}
          /\ 1 \notin t /\ 2 \notin t /\ 3 \notin t => t = {}
      OBVIOUS
    <3>10. QED
      BY <3>1, <3>2, <3>3, <3>4, <3>5, <3>6, <3>7, <3>8, <3>9
  <2>2. QED
    BY <2>1
<1>3. ASSUME NEW it, it = F(it) PROVE it[{1, 2, 3}] = Op(Op(Op(Z, a), b), c)
  <2> HIDE DEF Op, Z, q
  <2>1. /\ it[{}] = Z
        /\ it[{1}] = F(it)[{1}] /\ it[{1, 2}] = F(it)[{1, 2}]
        /\ it[{1, 2, 3}] = F(it)[{1, 2, 3}]
    BY <1>3
  <2>2. it[{1}] = Op(Z, a)
    BY <2>1, <1>1, Positions, SMTT(30)
  <2>3. it[{1, 2}] = Op(Op(Z, a), b)
    BY <2>1, <2>2, <1>1, Positions, SMTT(30)
  <2>4. QED
    BY <2>1, <2>3, <1>1, Positions, SMTT(30)
<1>4. (CHOOSE it : it = F(it))[{1, 2, 3}] = Op(Op(Op(Z, a), b), c)
  <2> HIDE DEF F, h, Z, Op
  <2> QED BY <1>2, <1>3
<1>5. QED
  BY <1>1, <1>4 DEF Cat3, AllStores, InOrder, MapThenFoldSet

----------------------------------------------------------------------------
(* The flush of one put.                                                   *)

\* Record e written to block s on: its metadata, the rest of its first block,
\* and one store for every other block.
StoreAt(e, s, i) ==
    IF i = 1 THEN [blk |-> s, part |-> "meta", v |-> e]
    ELSE IF i = 2 THEN [blk |-> s, part |-> "data", v |-> Piece(e, 0)]
    ELSE [blk |-> s + i - 2, part |-> "both", v |-> Piece(e, i - 2)]

RecordStores(e, s) == [i \in 1 .. (Size(e) + 1) |-> StoreAt(e, s, i)]

\* The list of one put covers exactly the blocks allocated for it: the assert
\* of dummy_dev_writev does not trip.
LEMMA SgFits ==
    ASSUME NEW e, NEW s \in Int, e.val_len \in Nat, PaddedBlks(e.val_len) = Size(e)
    PROVE  Trips(<< e >>, s, Size(e)) = 0
<1>1. Size(e) \in Nat \ {0}
  BY SizePos
<1>2. Sg(<< e >>, s) = << >> \o SgEntries(e, s)
  BY SgOne
<1>3. /\ Len(Sg(<< e >>, s)) = 3
      /\ Sg(<< e >>, s)[1].top = s + 1
      /\ Sg(<< e >>, s)[2].top = s + Size(e)
      /\ Sg(<< e >>, s)[3].top = s + Size(e)
  BY <1>2, SMTT(30) DEF SgEntries, Size
<1>4. ASSUME NEW i \in 1 .. Len(Sg(<< e >>, s))
      PROVE  ~(Sg(<< e >>, s)[i].top > s + Size(e))
  <2>1. i = 1 \/ i = 2 \/ i = 3
    BY <1>3, ZeroOne
  <2>2. ~(s + 1 > s + Size(e)) /\ ~(s + Size(e) > s + Size(e))
    BY <1>1, SMTT(30)
  <2>3. QED
    BY <1>3, <2>1, <2>2
<1>5. QED
  BY <1>4 DEF Trips, FirstWhere

\* Two parts of a scatter list, one behind the other.
LEMMA StoresJoin ==
    ASSUME NEW S, NEW s \in Seq(S), NEW t \in Seq(S)
    PROVE  /\ s \o t \in Seq(S)
           /\ Len(s \o t) = Len(s) + Len(t)
           /\ \A i \in 1 .. (Len(s) + Len(t)) :
                 (s \o t)[i] = IF i <= Len(s) THEN s[i] ELSE t[i - Len(s)]
<1>1. s \o t \in Seq(S) /\ Len(s \o t) = Len(s) + Len(t)
  BY SMTT(30)
<1>2. ASSUME NEW i \in 1 .. (Len(s) + Len(t))
      PROVE  (s \o t)[i] = IF i <= Len(s) THEN s[i] ELSE t[i - Len(s)]
  <2>1. CASE i <= Len(s)
    BY <2>1, SMTT(30)
  <2>2. CASE ~(i <= Len(s))
    BY <2>2, SMTT(30)
  <2>3. QED
    BY <2>1, <2>2
<1>3. QED
  BY <1>1, <1>2

\* The stores of a flush of one put, in order: the metadata, then the blocks.
LEMMA StoresOfOne ==
    ASSUME NEW e, NEW s \in Int, e.val_len \in Nat, PaddedBlks(e.val_len) = Size(e)
    PROVE  StoresOf(<< e >>, s, Size(e)) = RecordStores(e, s)
<1> DEFINE n == Size(e)
           V == {e} \cup {Piece(e, j) : j \in Nat}
           S == [blk : Int, part : {"meta", "data", "both"}, v : V]
           a == << [blk |-> s, part |-> "meta", v |-> e] >>
           b1 == << [blk |-> s, part |-> "data", v |-> Piece(e, 0)] >>
           b2 == [j \in 1 .. (n - 1) |-> [blk |-> s + j, part |-> "both", v |-> Piece(e, j)]]
           c == << >>
           A == [top |-> s + 1, stores |-> a]
           B == [top |-> s + n, stores |-> b1 \o b2]
           C == [top |-> s + n, stores |-> c]
<1>1. n \in Nat \ {0}
  BY SizePos
<1>2. SgEntries(e, s) = << A, B, C >>
  <2>1. [j \in 1 .. (n - n) |-> [blk |-> s + n + j - 1, part |-> "both", v |-> Zero]] = << >>
    BY <1>1, SMTT(30)
  <2>2. QED
    BY <2>1 DEF SgEntries, Size
<1>3. Sg(<< e >>, s) = << A, B, C >>
  <2> HIDE DEF A, B, C
  <2>1. << >> \o << A, B, C >> = << A, B, C >>
    BY SMTT(30)
  <2>2. QED
    BY <1>2, <2>1, SgOne
<1>4. StoresOf(<< e >>, s, n) = Cat3(A.stores, B.stores, C.stores)
  <2>1. Trips(<< e >>, s, n) = 0
    BY SgFits
  <2> HIDE DEF A, B, C, n
  <2>2. StoresOf(<< e >>, s, n) = AllStores(<< A, B, C >>)
    BY <1>3, <2>1 DEF StoresOf
  <2>3. QED
    BY <2>2, StoresThree
<1>5. /\ a \in Seq(S) /\ Len(a) = 1 /\ a[1] = StoreAt(e, s, 1)
      /\ b1 \in Seq(S) /\ Len(b1) = 1 /\ b1[1] = StoreAt(e, s, 2)
  BY SMTT(30) DEF StoreAt
<1>6. /\ b2 \in Seq(S) /\ Len(b2) = n - 1
      /\ \A j \in 1 .. (n - 1) : b2[j] = StoreAt(e, s, j + 2)
  <2>1. ASSUME NEW j \in 1 .. (n - 1)
        PROVE  [blk |-> s + j, part |-> "both", v |-> Piece(e, j)] \in S
    BY <1>1, SMTT(30)
  <2>2. b2 \in Seq(S) /\ Len(b2) = n - 1
    <3> HIDE DEF S
    <3>1. n - 1 \in Nat
      BY <1>1, SMTT(30)
    <3>2. QED
      BY <3>1, <2>1, SMTT(30)
  <2>3. ASSUME NEW j \in 1 .. (n - 1)
        PROVE  b2[j] = StoreAt(e, s, j + 2)
    <3>1. j + 2 # 1 /\ j + 2 # 2 /\ s + (j + 2) - 2 = s + j /\ (j + 2) - 2 = j
      BY <1>1, SMTT(30)
    <3>2. QED
      BY <3>1 DEF StoreAt
  <2>4. QED
    BY <2>2, <2>3
<1>7. /\ A.stores = a /\ B.stores = b1 \o b2 /\ C.stores = c
  OBVIOUS
<1>8. StoresOf(<< e >>, s, n) = a \o (b1 \o b2)
  <2>1. << >> \o a = a
    BY <1>5, SMTT(30)
  <2>2. b1 \o b2 \in Seq(S)
    BY <1>5, <1>6, SMTT(30)
  <2>3. a \o (b1 \o b2) \in Seq(S)
    BY <1>5, <2>2, SMTT(30)
  <2>4. (a \o (b1 \o b2)) \o c = a \o (b1 \o b2)
    BY <2>3, SMTT(30)
  <2>5. QED
    <3> HIDE DEF a, b1, b2, c, A, B, C, n
    <3> QED BY <1>4, <1>7, <2>1, <2>4 DEF Cat3
<1> HIDE DEF a, b1, b2, V, S
<1>9. /\ b1 \o b2 \in Seq(S) /\ Len(b1 \o b2) = n
      /\ \A i \in 1 .. n : (b1 \o b2)[i] = StoreAt(e, s, i + 1)
  <2>0. 1 + (n - 1) = n
    BY <1>1, SMTT(30)
  <2>1. /\ b1 \o b2 \in Seq(S)
        /\ Len(b1 \o b2) = n
        /\ \A i \in 1 .. n : (b1 \o b2)[i] = IF i <= 1 THEN b1[i] ELSE b2[i - 1]
    <3>1. /\ b1 \o b2 \in Seq(S)
          /\ Len(b1 \o b2) = Len(b1) + Len(b2)
          /\ \A i \in 1 .. Len(b1) + Len(b2) :
                (b1 \o b2)[i] = IF i <= Len(b1) THEN b1[i] ELSE b2[i - Len(b1)]
      BY <1>5, <1>6, StoresJoin
    <3>2. QED
      BY <1>5, <1>6, <2>0, <3>1
  <2>2. ASSUME NEW i \in 1 .. n
        PROVE  (b1 \o b2)[i] = StoreAt(e, s, i + 1)
    <3>1. CASE i = 1
      BY <3>1, <2>1, <1>5, ZeroOne
    <3>2. CASE i # 1
      <4>1. i - 1 \in 1 .. (n - 1) /\ (i - 1) + 2 = i + 1 /\ ~(i <= 1)
        BY <3>2, <1>1, SMTT(30)
      <4>2. (b1 \o b2)[i] = b2[i - 1]
        BY <4>1, <2>1
      <4>3. QED
        BY <4>1, <4>2, <1>6
    <3>3. QED
      BY <3>1, <3>2
  <2>3. QED
    BY <2>1, <2>2
<1>10. DEFINE bb == b1 \o b2
<1> HIDE DEF bb
<1>11. /\ a \o bb \in Seq(S) /\ Len(a \o bb) = n + 1
       /\ \A i \in 1 .. (n + 1) : (a \o bb)[i] = StoreAt(e, s, i)
  <2>0. /\ bb \in Seq(S) /\ Len(bb) = n
        /\ \A i \in 1 .. n : bb[i] = StoreAt(e, s, i + 1)
    BY <1>9 DEF bb
  <2>1. /\ a \o bb \in Seq(S)
        /\ Len(a \o bb) = n + 1
        /\ \A i \in 1 .. (n + 1) : (a \o bb)[i] = IF i <= 1 THEN a[i] ELSE bb[i - 1]
    <3>1. /\ a \o bb \in Seq(S)
          /\ Len(a \o bb) = Len(a) + Len(bb)
          /\ \A i \in 1 .. Len(a) + Len(bb) :
                (a \o bb)[i] = IF i <= Len(a) THEN a[i] ELSE bb[i - Len(a)]
      BY <1>5, <2>0, StoresJoin
    <3>2. 1 + n = n + 1
      BY <1>1, SMTT(30)
    <3>3. QED
      BY <1>5, <2>0, <3>1, <3>2
  <2>2. ASSUME NEW i \in 1 .. (n + 1)
        PROVE  (a \o bb)[i] = StoreAt(e, s, i)
    <3>1. CASE i = 1
      BY <3>1, <2>1, <1>5, ZeroOne
    <3>2. CASE i # 1
      <4>1. i - 1 \in 1 .. n /\ (i - 1) + 1 = i /\ ~(i <= 1)
        BY <3>2, <1>1, SMTT(30)
      <4>2. (a \o bb)[i] = bb[i - 1]
        BY <4>1, <2>1
      <4>3. QED
        BY <4>1, <4>2, <2>0
    <3>3. QED
      BY <3>1, <3>2
  <2>3. QED
    BY <2>1, <2>2
<1>12. a \o bb = RecordStores(e, s)
  <2>1. ASSUME NEW i \in 1 .. (n + 1) PROVE StoreAt(e, s, i) \in S
    <3> DEFINE q == a \o bb
    <3>1. q \in Seq(S) /\ i \in 1 .. Len(q) /\ q[i] = StoreAt(e, s, i)
      BY <1>11
    <3> HIDE DEF q
    <3>2. QED
      BY <3>1, SMTT(30)
  <2>2. RecordStores(e, s) \in Seq(S) /\ Len(RecordStores(e, s)) = n + 1
    BY <1>1, <2>1, SMTT(30) DEF RecordStores
  <2>3. \A i \in 1 .. (n + 1) : RecordStores(e, s)[i] = StoreAt(e, s, i)
    BY DEF RecordStores
  <2>4. QED
    BY <1>1, <1>11, <2>2, <2>3, SMTT(30)
<1>13. QED
  BY <1>8, <1>12 DEF bb, n

\* bsys_io_write_flush of a batch of one.
LEMMA FlushOne ==
    ASSUME Relied, NEW e \in index_ent, PaddedBlks(e.val_len) = Size(e), Good(freelist)
    PROVE  LET r == get_blk(freelist, Size(e))
               f == [e EXCEPT !.lba = r.ret]
           IN  flush(<< e >>) = [ents |-> << f >>, fl |-> r.fl,
                                 stores |-> RecordStores(f, r.ret), tripped |-> FALSE]
<1> DEFINE r == get_blk(freelist, Size(e))
           f == [e EXCEPT !.lba = r.ret]
<1>1. e.val_len \in Nat /\ f.val_len = e.val_len
  BY DEF index_ent
<1>2. Size(e) \in Nat \ {0} /\ Size(f) = Size(e)
  BY <1>1, SizePos DEF Size
<1>3. r.ret \in Int
  BY <1>2, GetBlk, SMTT(30) DEF GetBlkOK
<1>4. NumBlks(<< e >>) = Size(e)
  BY <1>2, NumBlksOne
<1>5. Len(<< e >>) = 1
  OBVIOUS
<1> HIDE DEF r
<1>6. AssignLbas(<< e >>, r.ret) = << f >>
  <2>1. AssignLbas(<< e >>, r.ret)
          = [i \in 1 .. 1 |-> [<< e >>[i] EXCEPT !.lba = r.ret + NumBlks(SubSeq(<< e >>, 1, i - 1))]]
    BY <1>5 DEF AssignLbas
  <2>2. ASSUME NEW i \in 1 .. 1
        PROVE  [<< e >>[i] EXCEPT !.lba = r.ret + NumBlks(SubSeq(<< e >>, 1, i - 1))] = f
    <3>1. i = 1 /\ i - 1 = 0
      BY SMTT(30)
    <3>2. r.ret + NumBlks(SubSeq(<< e >>, 1, i - 1)) = r.ret
      <4>1. SubSeq(<< e >>, 1, i - 1) = << >>
        BY <3>1, SMTT(30)
      <4>2. NumBlks(SubSeq(<< e >>, 1, i - 1)) = 0
        BY <4>1, NumBlksNone
      <4>3. QED
        BY <4>2, <1>3, SMTT(30)
    <3>3. << e >>[i] = e
      BY <3>1
    <3>4. QED
      BY <3>2, <3>3
  <2>3. AssignLbas(<< e >>, r.ret) = [i \in 1 .. 1 |-> f]
    <3> HIDE DEF f
    <3> QED BY <2>1, <2>2
  <2>4. QED
    <3> HIDE DEF f
    <3> QED BY <2>3, SMTT(30)
<1>7. WriteLba(<< e >>, r.ret) = r.ret
  <2>1. SubSeq(<< e >>, 1, Len(<< e >>) - 1) = << >>
    BY SMTT(30)
  <2>2. NumBlks(SubSeq(<< e >>, 1, Len(<< e >>) - 1)) = 0
    BY <2>1, NumBlksNone
  <2>3. QED
    BY <2>2, <1>3, SMTT(30) DEF WriteLba
<1>8. Trips(<< f >>, r.ret, Size(e)) = 0
  BY <1>1, <1>2, <1>3, SgFits
<1>9. StoresOf(<< f >>, r.ret, Size(e)) = RecordStores(f, r.ret)
  BY <1>1, <1>2, <1>3, StoresOfOne
<1>10. flush(<< e >>) = [ents |-> << f >>, fl |-> r.fl,
                         stores |-> RecordStores(f, r.ret), tripped |-> FALSE]
  <2>1. flush(<< e >>)
          = LET ents == AssignLbas(<< e >>, r.ret)
                lba == WriteLba(<< e >>, r.ret)
            IN  [ents |-> ents, fl |-> r.fl, stores |-> StoresOf(ents, lba, Size(e)),
                 tripped |-> Trips(ents, lba, Size(e)) # 0]
    BY <1>4 DEF flush, r
  <2> HIDE DEF f
  <2>2. QED
    BY <2>1, <1>6, <1>7, <1>8, <1>9
<1>11. QED
  BY <1>10 DEF r

\* A copy runs over the end of the device exactly when the record does not
\* fit there.
LEMMA InBoundsOne ==
    ASSUME NEW e, NEW s \in Int, e.val_len \in Nat
    PROVE  InBounds(RecordStores(e, s)) <=> Blocks(s, Size(e)) \subseteq All
<1> DEFINE n == Size(e)
           ss == RecordStores(e, s)
<1>1. n \in Nat \ {0}
  BY SizePos
<1>2. Len(ss) = n + 1 /\ \A i \in 1 .. (n + 1) : ss[i] = StoreAt(e, s, i)
  BY <1>1, SMTT(30) DEF RecordStores
<1>3. \A i \in 1 .. (n + 1) : StoreAt(e, s, i).blk = IF i = 1 THEN s ELSE s + i - 2
  BY <1>1, SMTT(30) DEF StoreAt
<1>4. ASSUME InBounds(ss), NEW x \in Blocks(s, n) PROVE x \in All
  <2>1. x \in Int /\ x - s + 2 \in 1 .. (n + 1) /\ x - s + 2 # 1 /\ s + (x - s + 2) - 2 = x
    BY <1>1, SMTT(30) DEF Blocks
  <2>2. ss[x - s + 2].blk = x
    BY <2>1, <1>2, <1>3
  <2>3. QED
    BY <2>1, <2>2, <1>2, <1>4 DEF InBounds
<1>5. ASSUME Blocks(s, n) \subseteq All PROVE InBounds(ss)
  <2>1. ASSUME NEW i \in 1 .. Len(ss) PROVE ss[i].blk \in All
    <3>1. i \in 1 .. (n + 1)
      BY <1>2
    <3>2. ss[i].blk \in Blocks(s, n)
      BY <3>1, <1>1, <1>2, <1>3, SMTT(30) DEF Blocks
    <3>3. QED
      BY <3>2, <1>5
  <2>2. QED
    BY <2>1 DEF InBounds
<1>6. QED
  BY <1>4, <1>5

----------------------------------------------------------------------------
(* A device with the first q stores of record e, at block s.               *)

Torn(d, e, s, q) ==
    [b \in All |->
        [meta |-> IF b = s /\ q >= 1 THEN e
                  ELSE IF b \in (s + 1) .. (s + q - 2) THEN NoMeta ELSE d[b].meta,
         data |-> IF b \in s .. (s + q - 2) THEN Piece(e, b - s) ELSE d[b].data]]

\* After its first q stores the device is torn at q.
LEMMA ApplyPrefix ==
    ASSUME NEW d, NEW e, NEW s \in Int, e.val_len \in Nat,
           NEW ss, NEW q \in 0 .. (Size(e) + 1),
           Len(ss) = q, \A i \in 1 .. q : ss[i] = StoreAt(e, s, i)
    PROVE  Apply(d, ss) = Torn(d, e, s, q)
<1> DEFINE n == Size(e)
           M(b) == {i \in 1 .. Len(ss) : ss[i].blk = b /\ ss[i].part # "data"}
           D(b) == {i \in 1 .. Len(ss) : ss[i].blk = b /\ ss[i].part # "meta"}
           m(b) == IF M(b) # {} THEN Max(M(b)) ELSE 0
           v(b) == IF D(b) # {} THEN Max(D(b)) ELSE 0
<1>1. n \in Nat \ {0} /\ q \in Nat
  BY SizePos, SMTT(30)
<1>2. \A x \in Int : Max({x}) = x
  BY SMTT(30) DEF Max
<1>3. ASSUME NEW i \in 1 .. q
      PROVE  /\ i = 1 => ss[i] = [blk |-> s, part |-> "meta", v |-> e]
             /\ i = 2 => ss[i] = [blk |-> s, part |-> "data", v |-> Piece(e, 0)]
             /\ i > 2 => ss[i] = [blk |-> s + i - 2, part |-> "both", v |-> Piece(e, i - 2)]
  BY <1>1, SMTT(30) DEF StoreAt
<1>4. ASSUME NEW i \in 1 .. q
      PROVE  /\ ss[i].blk = IF i = 1 THEN s ELSE s + i - 2
             /\ ss[i].part # "data" <=> i # 2
             /\ ss[i].part # "meta" <=> i # 1
  <2>1. CASE i = 1
    BY <2>1, <1>3, SMTT(30)
  <2>2. CASE i = 2
    BY <2>2, <1>3, SMTT(30)
  <2>3. CASE i > 2
    BY <2>3, <1>3, SMTT(30)
  <2>4. QED
    BY <2>1, <2>2, <2>3, <1>1, SMTT(30)
<1>5. ASSUME NEW b \in All
      PROVE  (IF m(b) = 0 THEN d[b].meta
              ELSE IF ss[m(b)].part = "meta" THEN ss[m(b)].v ELSE NoMeta)
             = IF b = s /\ q >= 1 THEN e
               ELSE IF b \in (s + 1) .. (s + q - 2) THEN NoMeta ELSE d[b].meta
  <2>0. b \in Int
    BY SMTT(30) DEF All
  <2>1. CASE b = s /\ q >= 1
    <3>1. M(b) = {1}
      BY <2>1, <1>1, <1>4, SMTT(30)
    <3>2. m(b) = 1
      BY <3>1, <1>2, SMTT(30)
    <3>3. ss[1].part = "meta" /\ ss[1].v = e
      BY <2>1, <1>1, <1>3, SMTT(30)
    <3> HIDE DEF m
    <3>4. QED
      BY <2>1, <3>2, <3>3, SMTT(30)
  <2>2. CASE b \in (s + 1) .. (s + q - 2)
    <3>1. b - s + 2 \in 1 .. q /\ b - s + 2 > 2 /\ s + (b - s + 2) - 2 = b /\ b # s
      BY <2>0, <2>2, <1>1, SMTT(30)
    <3>2. M(b) = {b - s + 2}
      <4>1. ASSUME NEW i \in 1 .. q
            PROVE  (b = IF i = 1 THEN s ELSE s + i - 2) /\ i # 2 <=> i = b - s + 2
        BY <2>0, <3>1, SMTT(30)
      <4>2. QED
        BY <1>4, <3>1, <4>1
    <3>3. m(b) = b - s + 2
      BY <2>0, <3>2, <1>2, SMTT(30)
    <3>4. ss[b - s + 2].part = "both"
      BY <3>1, <1>3, SMTT(30)
    <3> HIDE DEF m
    <3>5. QED
      BY <2>2, <3>1, <3>3, <3>4, SMTT(30)
  <2>3. CASE ~(b = s /\ q >= 1) /\ b \notin (s + 1) .. (s + q - 2)
    <3>1. M(b) = {}
      <4>1. ASSUME NEW i \in 1 .. q, i # 2, b = IF i = 1 THEN s ELSE s + i - 2
            PROVE  FALSE
        BY <4>1, <2>0, <2>3, <1>1, SMTT(30)
      <4>2. QED
        BY <4>1, <1>4
    <3>2. QED
      BY <2>3, <3>1
  <2>4. QED
    BY <2>1, <2>2, <2>3
<1>6. ASSUME NEW b \in All
      PROVE  (IF v(b) = 0 THEN d[b].data ELSE ss[v(b)].v)
             = IF b \in s .. (s + q - 2) THEN Piece(e, b - s) ELSE d[b].data
  <2>0. b \in Int
    BY SMTT(30) DEF All
  <2>1. CASE b \in s .. (s + q - 2)
    <3>1. b - s + 2 \in 1 .. q /\ b - s + 2 >= 2 /\ s + (b - s + 2) - 2 = b
          /\ (b - s + 2) - 2 = b - s
      BY <2>0, <2>1, <1>1, SMTT(30)
    <3>2. D(b) = {b - s + 2}
      <4>1. ASSUME NEW i \in 1 .. q
            PROVE  (b = IF i = 1 THEN s ELSE s + i - 2) /\ i # 1 <=> i = b - s + 2
        BY <2>0, <3>1, SMTT(30)
      <4>2. QED
        BY <1>4, <3>1, <4>1
    <3>3. v(b) = b - s + 2
      BY <2>0, <3>2, <1>2, SMTT(30)
    <3>4. ss[b - s + 2].v = Piece(e, b - s)
      <4>1. CASE b - s + 2 = 2
        <5>1. b - s = 0 /\ 2 \in 1 .. q
          BY <4>1, <3>1, <2>0, SMTT(30)
        <5>2. QED
          BY <4>1, <5>1, <1>3, SMTT(30)
      <4>2. CASE b - s + 2 > 2
        BY <4>2, <3>1, <1>3, SMTT(30)
      <4>3. QED
        BY <4>1, <4>2, <3>1, <2>0, SMTT(30)
    <3> HIDE DEF v
    <3>5. QED
      BY <2>0, <2>1, <3>1, <3>3, <3>4, SMTT(30)
  <2>2. CASE b \notin s .. (s + q - 2)
    <3>1. D(b) = {}
      <4>1. ASSUME NEW i \in 1 .. q, i # 1, b = IF i = 1 THEN s ELSE s + i - 2
            PROVE  FALSE
        BY <4>1, <2>0, <2>2, <1>1, SMTT(30)
      <4>2. QED
        BY <4>1, <1>4
    <3>2. QED
      BY <2>2, <3>1
  <2>3. QED
    BY <2>1, <2>2
<1>7. Apply(d, ss) =
        [b \in All |-> [meta |-> IF m(b) = 0 THEN d[b].meta
                                 ELSE IF ss[m(b)].part = "meta" THEN ss[m(b)].v ELSE NoMeta,
                        data |-> IF v(b) = 0 THEN d[b].data ELSE ss[v(b)].v]]
  BY DEF Apply, LastWhere
<1>8. QED
  <2> HIDE DEF m, v
  <2> QED BY <1>5, <1>6, <1>7 DEF Torn

\* An index entry is not garbage.
LEMMA EntIsMeta ==
    ASSUME NEW e \in index_ent
    PROVE  /\ e # NoMeta
           /\ e.key \in Keys /\ e.lba \in Int /\ e.val_len \in Nat
           /\ e.crc \in 1 .. MaxPuts /\ e.version \in Nat
           /\ Size(e) \in Nat \ {0}
<1>1. /\ e.key \in Keys /\ e.lba \in Int /\ e.val_len \in Nat
      /\ e.crc \in 1 .. MaxPuts /\ e.version \in Nat
  BY DEF index_ent
<1>2. "lba" \in DOMAIN e /\ "lba" \notin DOMAIN NoMeta
  BY DEF index_ent, NoMeta
<1>3. QED
  BY <1>1, <1>2, SizePos

\* What a device holds at one of its blocks.
LEMMA RecFacts ==
    ASSUME NEW d \in Device, NEW b, IsRec(d, b)
    PROVE  /\ b \in All /\ b \in Nat /\ b < MAX_LBA_NUM
           /\ d[b].meta \in index_ent
           /\ Size(d[b].meta) \in Nat \ {0}
           /\ b \in Span(d, b)
           /\ \A x : x \in Span(d, b) <=> x \in Int /\ b <= x /\ x < b + Size(d[b].meta)
<1>1. b \in All /\ b \in Nat /\ b < MAX_LBA_NUM
  BY MaxLbaAssumption, SMTT(30) DEF IsRec, All
<1>2. d[b].meta \in index_ent
  BY <1>1 DEF IsRec, Device
<1>3. Size(d[b].meta) \in Nat \ {0}
  BY <1>2, EntIsMeta
<1>4. QED
  BY <1>1, <1>2, <1>3, SMTT(30) DEF Span, Blocks

\* The blocks of an intact record are on the device; behind the first they
\* hold no metadata.
LEMMA IntactSpan ==
    ASSUME NEW d \in Device, NEW b, Intact(d, b), NEW x \in Span(d, b)
    PROVE  x \in All /\ d[x].data = Piece(d[b].meta, x - b) /\ (x # b => d[x].meta = NoMeta)
<1>1. IsRec(d, b) /\ ReadsOn(d, d[b].meta, b)
  BY DEF Intact
<1>2. b \in Nat /\ Size(d[b].meta) \in Nat \ {0} /\ x \in Int
      /\ b <= x /\ x < b + Size(d[b].meta)
  BY <1>1, RecFacts
<1>3. x - b \in 0 .. (Size(d[b].meta) - 1) /\ b + (x - b) = x /\ (x # b => x - b > 0)
  BY <1>2, SMTT(30)
<1>4. QED
  BY <1>1, <1>3 DEF ReadsOn

\* A record whose blocks hold its pieces, with no metadata inside, is intact.
LEMMA IntactFrom ==
    ASSUME NEW d \in Device, NEW b, IsRec(d, b),
           \A x \in Span(d, b) :
              x \in All /\ d[x].data = Piece(d[b].meta, x - b) /\ (x # b => d[x].meta = NoMeta)
    PROVE  Intact(d, b)
<1>1. b \in Nat /\ Size(d[b].meta) \in Nat \ {0}
      /\ \A x : x \in Span(d, b) <=> x \in Int /\ b <= x /\ x < b + Size(d[b].meta)
  BY RecFacts
<1>2. ASSUME NEW j \in 0 .. (Size(d[b].meta) - 1)
      PROVE  /\ b + j \in All /\ d[b + j].data = Piece(d[b].meta, j)
             /\ j > 0 => d[b + j].meta = NoMeta
  <2>1. b + j \in Span(d, b) /\ (b + j) - b = j /\ (j > 0 => b + j # b)
    BY <1>1, SMTT(30)
  <2>2. QED
    BY <2>1
<1>3. QED
  BY <1>2 DEF Intact, ReadsOn

\* There is room for record e at block s: bsys_io_write_flush got its blocks
\* from get_blk.
Room(d, l, e, s) ==
    /\ d \in Device /\ Good(l) /\ Owned(d, l)
    /\ e \in index_ent /\ s \in Nat /\ s + Size(e) <= MAX_LBA_NUM
    /\ \A x \in Blocks(s, Size(e)) : Covers(l, x)
    /\ ~Covers(l, s - 1)

\* What it means that a put was given room on the device.
LEMMA RoomFacts ==
    ASSUME NEW d, NEW l, NEW e, NEW s, Room(d, l, e, s)
    PROVE  /\ d \in Device /\ e \in index_ent /\ s \in Nat
           /\ Size(e) \in Nat \ {0}
           /\ \A x \in Blocks(s, Size(e)) : x \in All /\ Covers(l, x)
           /\ \A x : x \in Blocks(s, Size(e)) <=> x \in Int /\ s <= x /\ x < s + Size(e)
           /\ s \in Blocks(s, Size(e)) /\ s \in All
<1>1. /\ d \in Device /\ e \in index_ent /\ s \in Nat /\ s + Size(e) <= MAX_LBA_NUM
      /\ Size(e) \in Nat \ {0}
      /\ \A x \in Blocks(s, Size(e)) : Covers(l, x)
  BY EntIsMeta DEF Room
<1>2. \A x : x \in Blocks(s, Size(e)) <=> x \in Int /\ s <= x /\ x < s + Size(e)
  BY <1>1, SMTT(30) DEF Blocks
<1>3. \A x \in Blocks(s, Size(e)) : x \in All
  BY <1>1, <1>2, MaxLbaAssumption, SMTT(30) DEF All
<1>4. s \in Blocks(s, Size(e))
  BY <1>1, <1>2, SMTT(30)
<1>5. QED
  BY <1>1, <1>2, <1>3, <1>4

\* The stores of a record stay in its blocks, and its device is a device.
LEMMA TornFacts ==
    ASSUME NEW d, NEW l, NEW e, NEW s, Room(d, l, e, s), NEW q \in 0 .. (Size(e) + 1)
    PROVE  LET t == Torn(d, e, s, q)
           IN  /\ t \in Device
               /\ \A b \in All :
                     /\ t[b].meta = IF b = s /\ q >= 1 THEN e
                                    ELSE IF b \in (s + 1) .. (s + q - 2) THEN NoMeta
                                    ELSE d[b].meta
                     /\ t[b].data = IF b \in s .. (s + q - 2) THEN Piece(e, b - s)
                                    ELSE d[b].data
                     /\ b \notin Blocks(s, Size(e)) =>
                           t[b].meta = d[b].meta /\ t[b].data = d[b].data
<1> DEFINE t == Torn(d, e, s, q)
<1>1. /\ d \in Device /\ e \in index_ent /\ s \in Nat /\ Size(e) \in Nat \ {0} /\ q \in Nat
      /\ e.crc \in 1 .. MaxPuts
  BY RoomFacts, EntIsMeta, SMTT(30)
<1>2. ASSUME NEW b \in All
      PROVE  /\ t[b].meta = IF b = s /\ q >= 1 THEN e
                            ELSE IF b \in (s + 1) .. (s + q - 2) THEN NoMeta ELSE d[b].meta
             /\ t[b].data = IF b \in s .. (s + q - 2) THEN Piece(e, b - s) ELSE d[b].data
  BY DEF Torn
<1>3. ASSUME NEW b \in All, b \notin Blocks(s, Size(e))
      PROVE  t[b].meta = d[b].meta /\ t[b].data = d[b].data
  <2>1. b \in Int /\ b \notin s .. (s + q - 2) /\ b \notin (s + 1) .. (s + q - 2) /\ b # s
    BY <1>1, <1>3, SMTT(30) DEF Blocks, All
  <2>2. QED
    BY <1>2, <2>1
<1>4. ASSUME NEW b \in All
      PROVE  t[b] \in [meta : index_ent \cup {NoMeta}, data : (0 .. MaxPuts) \X Nat]
  <2>1. d[b].meta \in index_ent \cup {NoMeta} /\ d[b].data \in (0 .. MaxPuts) \X Nat
    BY <1>1 DEF Device
  <2>2. t[b].meta \in index_ent \cup {NoMeta}
    BY <1>1, <1>2, <2>1
  <2>3. b \in s .. (s + q - 2) => Piece(e, b - s) \in (0 .. MaxPuts) \X Nat
    BY <1>1, SMTT(30) DEF Piece
  <2>4. t[b].data \in (0 .. MaxPuts) \X Nat
    BY <1>2, <2>1, <2>3
  <2>5. PICK m, v : t[b] = [meta |-> m, data |-> v]
    BY DEF Torn
  <2> HIDE DEF t
  <2>6. t[b].meta = m /\ t[b].data = v
    BY <2>5, SMTT(30)
  <2>7. QED
    BY <2>2, <2>4, <2>5, <2>6
<1>5. t \in Device
  <2>1. t = [b \in All |-> t[b]]
    BY DEF Torn
  <2> HIDE DEF t
  <2>2. QED
    BY <1>4, <2>1 DEF Device
<1>6. QED
  BY <1>2, <1>3, <1>5

\* The records of a device with part of e on it: those it had, and e itself.
LEMMA TornRecs ==
    ASSUME NEW d, NEW l, NEW e, NEW s, Room(d, l, e, s), NEW q \in 0 .. (Size(e) + 1),
           NEW t, t = Torn(d, e, s, q), NEW b, IsRec(t, b)
    PROVE  \/ b = s /\ t[b].meta = e
           \/ IsRec(d, b) /\ t[b].meta = d[b].meta
  BY TornFacts, SMTT(30) DEF IsRec

\* A write changes no record outside its blocks, and makes none intact but e:
\* a piece belongs to one place in one record.
LEMMA TornIntact ==
    ASSUME NEW d, NEW l, NEW e, NEW s, Room(d, l, e, s), NEW q \in 0 .. (Size(e) + 1),
           NEW t, t = Torn(d, e, s, q), NEW b, Intact(t, b)
    PROVE  \/ b = s /\ t[b].meta = e
           \/ Intact(d, b) /\ t[b].meta = d[b].meta
<1>1. t \in Device /\ d \in Device /\ s \in Nat /\ q \in Nat
  BY TornFacts, RoomFacts, SMTT(30)
<1>2. IsRec(t, b) /\ b \in Nat
  BY <1>1, RecFacts DEF Intact
<1>3. CASE b = s /\ t[b].meta = e
  BY <1>3
<1>4. CASE ~(b = s /\ t[b].meta = e)
  <2>1. IsRec(d, b) /\ t[b].meta = d[b].meta
    BY <1>2, <1>4, TornRecs, SMTT(30)
  <2>2. Span(t, b) = Span(d, b)
    BY <2>1 DEF Span
  <2>3. ASSUME NEW x \in Span(d, b)
        PROVE  /\ x \in All /\ d[x].data = Piece(d[b].meta, x - b)
               /\ x # b => d[x].meta = NoMeta
    <3>1. /\ x \in All /\ t[x].data = Piece(d[b].meta, x - b)
          /\ x # b => t[x].meta = NoMeta
      BY <1>1, <2>1, <2>2, IntactSpan, SMTT(30)
    <3>2. x \in Int
      BY <3>1, SMTT(30) DEF All
    <3>3. CASE x \in s .. (s + q - 2)
      <4>1. Piece(e, x - s) = Piece(d[b].meta, x - b)
        BY <3>1, <3>3, TornFacts, SMTT(30)
      <4>2. x - s = x - b
        BY <4>1 DEF Piece
      <4>3. b = s /\ q >= 1
        BY <4>2, <3>2, <3>3, <1>1, <1>2, SMTT(30)
      <4>4. t[b].meta = e
        BY <4>3, <2>1, TornFacts, SMTT(30) DEF IsRec
      <4>5. QED
        BY <4>3, <4>4, <1>4
    <3>4. CASE x \notin s .. (s + q - 2)
      <4>1. x \notin (s + 1) .. (s + q - 2)
        BY <3>4, <1>1, <3>2, SMTT(30)
      <4>2. t[x].data = d[x].data
        BY <3>1, <3>4, TornFacts, SMTT(30)
      <4>3. ASSUME x # b PROVE d[x].meta = NoMeta
        <5>1. t[x].meta = NoMeta
          BY <3>1, <4>3
        <5>2. e # NoMeta
          BY RoomFacts, EntIsMeta
        <5>3. QED
          BY <3>1, <4>1, <5>1, <5>2, TornFacts, SMTT(30)
      <4>4. QED
        BY <3>1, <4>2, <4>3
    <3>5. QED
      BY <3>3, <3>4
  <2>4. Intact(d, b)
    BY <1>1, <2>1, <2>3, IntactFrom
  <2>5. QED
    BY <2>1, <2>4
<1>5. QED
  BY <1>3, <1>4

\* A record that owns its blocks is out of the way.
LEMMA AnchorFacts ==
    ASSUME NEW d \in Device, NEW l, NEW h, Anchor(d, l, h)
    PROVE  /\ IsRec(d, h) /\ Reached(d, h) /\ h \in Span(d, h) /\ ~Covers(l, h)
           /\ \A x \in Span(d, h) :
                 x \in All /\ ~Covers(l, x) /\ (x # h => d[x].meta = NoMeta)
  BY RecFacts DEF Anchor

\* get_blk returns the first block behind an owned record, or block 0.
LEMMA RoomReached ==
    ASSUME NEW d, NEW l, NEW e, NEW s, Room(d, l, e, s)
    PROVE  Reached(d, s)
<1>1. d \in Device /\ s \in Nat /\ s \in All /\ Covers(l, s)
  BY RoomFacts
<1>2. CASE s = 0
  BY <1>2, SMTT(30) DEF Reached, All
<1>3. CASE s # 0
  <2>1. s - 1 \in All /\ ~Covers(l, s - 1)
    BY <1>1, <1>3, MaxLbaAssumption, SMTT(30) DEF Room, All
  <2>2. PICK h \in All : Anchor(d, l, h) /\ s - 1 \in Span(d, h)
    BY <2>1 DEF Room, Owned
  <2>3. IsRec(d, h) /\ Reached(d, h) /\ s \notin Span(d, h)
    BY <1>1, <2>2, AnchorFacts
  <2>4. /\ h \in Nat /\ Size(d[h].meta) \in Nat
        /\ \A x : x \in Span(d, h) <=> x \in Int /\ h <= x /\ x < h + Size(d[h].meta)
    BY <1>1, <2>3, RecFacts
  <2>5. h + Size(d[h].meta) = s
    BY <1>1, <2>2, <2>3, <2>4, SMTT(30)
  <2>6. ASSUME NEW c \in All, c < s, IsRec(d, c)
        PROVE  c + Size(d[c].meta) <= s
    <3>1. c \in Nat /\ Size(d[c].meta) \in Nat
      BY <1>1, <2>6, RecFacts
    <3>2. CASE c < h
      <4>1. c + Size(d[c].meta) <= h
        BY <2>3, <2>6, <3>2 DEF Reached
      <4>2. QED
        BY <4>1, <3>1, <2>4, <2>5, SMTT(30)
    <3>3. CASE c = h
      BY <3>3, <2>5, <1>1, SMTT(30)
    <3>4. CASE c > h
      <4>1. c \in Span(d, h) /\ c # h
        BY <3>1, <3>4, <2>4, <2>5, <2>6, SMTT(30)
      <4>2. d[c].meta = NoMeta
        BY <4>1, <2>2, <1>1, AnchorFacts
      <4>3. QED
        BY <4>2, <2>6 DEF IsRec
    <3>5. QED
      BY <3>1, <3>2, <3>3, <3>4, <2>4, SMTT(30)
  <2>7. QED
    BY <2>6 DEF Reached
<1>4. QED
  BY <1>2, <1>3

\* The scan still reaches it while it is being written, and every other record
\* that owns its blocks.
LEMMA TornReached ==
    ASSUME NEW d, NEW l, NEW e, NEW s, Room(d, l, e, s), NEW q \in 0 .. (Size(e) + 1),
           NEW t, t = Torn(d, e, s, q)
    PROVE  /\ Reached(t, s)
           /\ \A h : Anchor(d, l, h) => Reached(t, h)
<1>1. d \in Device /\ t \in Device /\ s \in Nat /\ Size(e) \in Nat \ {0}
  BY RoomFacts, TornFacts
<1>2. ASSUME NEW c \in All, IsRec(t, c), c < s
      PROVE  c + Size(t[c].meta) <= s
  <2>1. c # s
    BY <1>1, <1>2, RecFacts, SMTT(30)
  <2>2. IsRec(d, c) /\ t[c].meta = d[c].meta
    BY <1>2, <2>1, TornRecs, SMTT(30)
  <2>3. QED
    BY <1>2, <2>2, RoomReached DEF Reached
<1>3. ASSUME NEW h, Anchor(d, l, h), NEW c \in All, IsRec(t, c), c < h
      PROVE  c + Size(t[c].meta) <= h
  <2>1. IsRec(d, h) /\ Reached(d, h) /\ ~Covers(l, h) /\ h \in Nat
    BY <1>1, <1>3, AnchorFacts, RecFacts
  <2>2. CASE c = s /\ t[c].meta = e
    <3>1. h \notin Blocks(s, Size(e))
      BY <2>1, RoomFacts
    <3>2. QED
      BY <1>1, <1>3, <2>1, <2>2, <3>1, RoomFacts, SMTT(30)
  <2>3. CASE IsRec(d, c) /\ t[c].meta = d[c].meta
    BY <1>3, <2>1, <2>3 DEF Reached
  <2>4. QED
    BY <1>3, <2>2, <2>3, TornRecs, SMTT(30)
<1>4. QED
  BY <1>2, <1>3 DEF Reached

\* A record that owns its blocks is as it was.
LEMMA TornAnchor ==
    ASSUME NEW d, NEW l, NEW e, NEW s, Room(d, l, e, s), NEW q \in 0 .. (Size(e) + 1),
           NEW t, t = Torn(d, e, s, q), NEW h, Anchor(d, l, h)
    PROVE  /\ t[h].meta = d[h].meta /\ IsRec(t, h) /\ Span(t, h) = Span(d, h)
           /\ Intact(d, h) => Intact(t, h)
           /\ \A l2 : (\A x \in All : Covers(l2, x) => Covers(l, x)) => Anchor(t, l2, h)
<1>1. d \in Device /\ t \in Device
  BY RoomFacts, TornFacts
<1>2. /\ IsRec(d, h) /\ h \in Span(d, h)
      /\ \A x \in Span(d, h) :
            x \in All /\ ~Covers(l, x) /\ (x # h => d[x].meta = NoMeta)
  BY <1>1, AnchorFacts
<1>3. ASSUME NEW x \in Span(d, h)
      PROVE  x \in All /\ t[x].meta = d[x].meta /\ t[x].data = d[x].data
  <2>1. x \in All /\ x \notin Blocks(s, Size(e))
    BY <1>2, RoomFacts
  <2>2. QED
    BY <2>1, TornFacts, SMTT(30)
<1>4. t[h].meta = d[h].meta /\ IsRec(t, h) /\ Span(t, h) = Span(d, h)
  BY <1>2, <1>3 DEF IsRec, Span
<1>5. ASSUME Intact(d, h) PROVE Intact(t, h)
  BY <1>1, <1>3, <1>4, <1>5, IntactSpan, IntactFrom, SMTT(30)
<1>6. Reached(t, h)
  BY TornReached
<1>7. ASSUME NEW l2, \A x \in All : Covers(l2, x) => Covers(l, x)
      PROVE  Anchor(t, l2, h)
  BY <1>2, <1>3, <1>4, <1>6, <1>7 DEF Anchor
<1>8. QED
  BY <1>4, <1>5, <1>7

\* Once all stores are done, the record is intact.
LEMMA FullIntact ==
    ASSUME NEW d, NEW l, NEW e, NEW s, Room(d, l, e, s),
           NEW t, t = Torn(d, e, s, Size(e) + 1)
    PROVE  /\ t[s].meta = e /\ Intact(t, s) /\ Span(t, s) = Blocks(s, Size(e))
           /\ \A x \in Blocks(s, Size(e)) : x \in All /\ (x # s => t[x].meta = NoMeta)
<1>1. /\ d \in Device /\ e \in index_ent /\ s \in Nat /\ s \in All /\ Size(e) \in Nat \ {0}
      /\ \A x \in Blocks(s, Size(e)) : x \in All
      /\ \A x : x \in Blocks(s, Size(e)) <=> x \in Int /\ s <= x /\ x < s + Size(e)
  BY RoomFacts
<1>2. Size(e) + 1 \in 0 .. (Size(e) + 1)
  BY <1>1, SMTT(30)
<1>3. t \in Device
  BY <1>2, TornFacts
<1>4. t[s].meta = e
  BY <1>1, <1>2, TornFacts, SMTT(30)
<1>5. IsRec(t, s) /\ Span(t, s) = Blocks(s, Size(e))
  BY <1>1, <1>4, EntIsMeta DEF IsRec, Span
<1>6. ASSUME NEW x \in Blocks(s, Size(e))
      PROVE  x \in All /\ t[x].data = Piece(e, x - s) /\ (x # s => t[x].meta = NoMeta)
  <2>1. /\ x \in All /\ x \in s .. (s + (Size(e) + 1) - 2)
        /\ x # s => x \in (s + 1) .. (s + (Size(e) + 1) - 2)
    BY <1>1, SMTT(30)
  <2>2. QED
    BY <1>2, <2>1, TornFacts, SMTT(30)
<1>7. Intact(t, s)
  BY <1>3, <1>4, <1>5, <1>6, IntactFrom
<1>8. QED
  BY <1>4, <1>5, <1>6, <1>7

\* It owns its blocks, and every other block that is allocated has its owner.
LEMMA FullyWritten ==
    ASSUME NEW d, NEW l, NEW e, NEW s, Room(d, l, e, s),
           NEW t, t = Torn(d, e, s, Size(e) + 1),
           NEW l2, \A x \in All : Covers(l2, x) <=> Covers(l, x) /\ x \notin Blocks(s, Size(e))
    PROVE  Anchor(t, l2, s) /\ Owned(t, l2)
<1>1. s \in All /\ Size(e) \in Nat
  BY RoomFacts
<1>2. Size(e) + 1 \in 0 .. (Size(e) + 1)
  BY <1>1, SMTT(30)
<1>5. IsRec(t, s) /\ Span(t, s) = Blocks(s, Size(e))
  BY FullIntact, SMTT(30) DEF Intact
<1>6. \A x \in Blocks(s, Size(e)) : x \in All /\ (x # s => t[x].meta = NoMeta)
  BY FullIntact, SMTT(30)
<1>8. Anchor(t, l2, s)
  <2>1. Reached(t, s)
    BY <1>2, TornReached
  <2>2. QED
    BY <1>5, <1>6, <2>1 DEF Anchor
<1>9. ASSUME NEW x \in All, ~Covers(l2, x)
      PROVE  \E h \in All : Anchor(t, l2, h) /\ x \in Span(t, h)
  <2>1. CASE x \in Blocks(s, Size(e))
    BY <1>1, <1>5, <1>8, <2>1
  <2>2. CASE x \notin Blocks(s, Size(e))
    <3>1. ~Covers(l, x)
      BY <1>9, <2>2
    <3>2. PICK h \in All : Anchor(d, l, h) /\ x \in Span(d, h)
      BY <3>1 DEF Room, Owned
    <3>3. Anchor(t, l2, h) /\ Span(t, h) = Span(d, h)
      BY <1>2, <3>2, TornAnchor, SMTT(30)
    <3>4. QED
      BY <3>2, <3>3
  <2>3. QED
    BY <2>1, <2>2
<1>10. QED
  BY <1>8, <1>9 DEF Owned

----------------------------------------------------------------------------
(* The newest record of a key.                                             *)

\* What a sane device says of a record on it.
LEMMA SaneFacts ==
    ASSUME NEW d, NEW p, Sane(d, p), NEW b, IsRec(d, b)
    PROVE  /\ d \in Device /\ b \in All /\ b \in Nat
           /\ d[b].meta.lba = b /\ d[b].meta \in index_ent
           /\ d[b].meta.version \in 1 .. p /\ d[b].meta.crc \in 1 .. p
           /\ d[b].meta.version \in Nat
<1>1. d \in Device
  BY DEF Sane
<1>2. b \in All /\ b \in Nat /\ d[b].meta \in index_ent
  BY <1>1, RecFacts
<1>3. d[b].meta.version \in Nat
  BY <1>2, EntIsMeta
<1>4. QED
  BY <1>1, <1>2, <1>3 DEF Sane

\* It exists as soon as the key has an intact record.
LEMMA NewestExists ==
    ASSUME Relied, NEW d, NEW p \in Nat, Sane(d, p), NEW b, Intact(d, b)
    PROVE  \E n \in All : Newest(d, n) /\ d[n].meta.key = d[b].meta.key
<1> DEFINE k == d[b].meta.key
           H == {c \in All : Intact(d, c) /\ d[c].meta.key = k}
           V == {p - d[c].meta.version : c \in H}
<1>1. b \in H
  BY DEF Intact, IsRec
<1>2. \A c \in H : c \in Nat /\ d[c].meta.version \in 1 .. p
  <2>1. \A c \in H : IsRec(d, c)
    BY DEF Intact
  <2>2. QED
    BY <2>1, SaneFacts
<1>3. V \subseteq Nat /\ V # {}
  BY <1>1, <1>2, SMTT(30)
<1>4. PICK m \in V : \A y \in V : m <= y
  <2> HIDE DEF V
  <2> QED BY <1>3, Least
<1> DEFINE W == {c \in H : p - d[c].meta.version = m}
<1>5. W \subseteq Nat /\ W # {}
  BY <1>2, <1>4
<1>6. PICK n \in W : \A y \in W : n <= y
  <2> HIDE DEF W
  <2> QED BY <1>5, Least
<1>7. ASSUME NEW c \in H
      PROVE  \/ d[c].meta.version < d[n].meta.version
             \/ d[c].meta.version = d[n].meta.version /\ n <= c
  <2>1. /\ p - d[n].meta.version = m /\ n \in H
        /\ m <= p - d[c].meta.version
    BY <1>4, <1>6
  <2>2. d[c].meta.version \in 1 .. p /\ d[n].meta.version \in 1 .. p
    BY <1>2, <2>1
  <2>3. CASE p - d[c].meta.version = m
    BY <1>6, <2>1, <2>2, <2>3, SMTT(30)
  <2>4. CASE p - d[c].meta.version # m
    BY <2>1, <2>2, <2>4, SMTT(30)
  <2>5. QED
    BY <2>3, <2>4
<1>8. n \in All /\ Intact(d, n) /\ d[n].meta.key = k
  BY <1>6
<1>9. QED
  BY <1>7, <1>8 DEF Newest

\* A key has one newest record.
LEMMA NewestUnique ==
    ASSUME NEW d, NEW p \in Nat, Sane(d, p), NEW a, NEW b, Newest(d, a), Newest(d, b),
           d[a].meta.key = d[b].meta.key
    PROVE  a = b
<1>1. /\ a \in All /\ b \in All /\ Intact(d, a) /\ Intact(d, b)
      /\ IsRec(d, a) /\ IsRec(d, b)
  BY DEF Newest, Intact, IsRec
<1>2. /\ a \in Nat /\ b \in Nat
      /\ d[a].meta.version \in Nat /\ d[b].meta.version \in Nat
  BY <1>1, SaneFacts, SMTT(30)
<1>3. /\ \/ d[a].meta.version < d[b].meta.version
         \/ d[a].meta.version = d[b].meta.version /\ b <= a
      /\ \/ d[b].meta.version < d[a].meta.version
         \/ d[b].meta.version = d[a].meta.version /\ a <= b
  BY <1>1 DEF Newest
<1>4. QED
  BY <1>2, <1>3, SMTT(30)

\* Durable, of device d.
Dur(d, key) ==
    LET heads == {b \in All : Intact(d, b) /\ d[b].meta.key = key}
        newest(b) == \A c \in heads :
                        \/ d[c].meta.version < d[b].meta.version
                        \/ d[c].meta.version = d[b].meta.version /\ b <= c
    IN  IF heads = {} THEN 0 ELSE d[CHOOSE b \in heads : newest(b)].meta.crc

\* The durable value of a key is that of its newest record, or none.
LEMMA DurIs ==
    ASSUME NEW d, NEW p \in Nat, Sane(d, p), NEW key
    PROVE  /\ (\A b \in All : Intact(d, b) => d[b].meta.key # key) => Dur(d, key) = 0
           /\ \A b : Newest(d, b) /\ d[b].meta.key = key => Dur(d, key) = d[b].meta.crc
<1> DEFINE heads == {b \in All : Intact(d, b) /\ d[b].meta.key = key}
           newest(b) == \A c \in heads :
                           \/ d[c].meta.version < d[b].meta.version
                           \/ d[c].meta.version = d[b].meta.version /\ b <= c
<1>1. ASSUME \A b \in All : Intact(d, b) => d[b].meta.key # key
      PROVE  Dur(d, key) = 0
  BY <1>1 DEF Dur
<1>2. ASSUME NEW b, Newest(d, b), d[b].meta.key = key
      PROVE  Dur(d, key) = d[b].meta.crc
  <2>1. b \in heads /\ newest(b)
    BY <1>2 DEF Newest, Intact, IsRec
  <2>2. ASSUME NEW c \in heads, newest(c) PROVE c = b
    <3>1. Newest(d, c) /\ d[c].meta.key = d[b].meta.key
      BY <1>2, <2>2 DEF Newest
    <3>2. QED
      BY <1>2, <3>1, NewestUnique
  <2>3. (CHOOSE c \in heads : newest(c)) = b
    <3> HIDE DEF heads, newest
    <3> QED BY <2>1, <2>2
  <2>4. Dur(d, key) = d[CHOOSE c \in heads : newest(c)].meta.crc
    BY <2>1 DEF Dur
  <2>5. QED
    BY <2>3, <2>4
<1>3. QED
  BY <1>1, <1>2

\* Record e is of a later put than every other record of its key, copies of it
\* aside.
Later(d, e) ==
    \A b \in All : Intact(d, b) /\ d[b].meta.key = e.key =>
       \/ d[b].meta.version < e.version
       \/ d[b].meta.version = e.version /\ d[b].meta.crc = e.crc

\* The newest record of every key owns its blocks.
Safe(d, l) == \A b \in All : Newest(d, b) => Anchor(d, l, b)

\* A device torn by a flush is still sane.
LEMMA TornSane ==
    ASSUME NEW d, NEW l, NEW e, NEW s, Room(d, l, e, s), NEW q \in 0 .. (Size(e) + 1),
           NEW t, t = Torn(d, e, s, q), NEW p \in Nat, NEW p2 \in Nat,
           Sane(d, p), p <= p2, Later(d, e), e.lba = s,
           e.version \in 1 .. p2, e.crc \in 1 .. p2
    PROVE  Sane(t, p2)
<1>1. t \in Device
  BY TornFacts
<1>2. ASSUME NEW b \in All, IsRec(t, b)
      PROVE  /\ t[b].meta.lba = b
             /\ t[b].meta.version \in 1 .. p2 /\ t[b].meta.crc \in 1 .. p2
  <2>1. CASE b = s /\ t[b].meta = e
    BY <2>1
  <2>2. CASE IsRec(d, b) /\ t[b].meta = d[b].meta
    <3>1. d[b].meta.lba = b /\ d[b].meta.version \in 1 .. p /\ d[b].meta.crc \in 1 .. p
      BY <2>2, SaneFacts
    <3>2. QED
      BY <2>2, <3>1, SMTT(30)
  <2>3. (b = s /\ t[b].meta = e) \/ (IsRec(d, b) /\ t[b].meta = d[b].meta)
    BY <1>2, TornRecs, SMTT(30)
  <2>4. QED
    BY <2>1, <2>2, <2>3
<1>3. ASSUME NEW b \in All, NEW c \in All, Intact(t, b), Intact(t, c),
             t[b].meta.key = t[c].meta.key, t[b].meta.version = t[c].meta.version
      PROVE  t[b].meta.crc = t[c].meta.crc
  <2>1. ASSUME NEW x \in All, Intact(d, x), d[x].meta.key = e.key, d[x].meta.version = e.version
        PROVE  d[x].meta.crc = e.crc
    <3>1. e.version \in Nat
      BY SMTT(30)
    <3>2. ~(e.version < e.version)
      BY <3>1, SMTT(30)
    <3>3. QED
      BY <2>1, <3>2 DEF Later
  <2>2. \/ b = s /\ t[b].meta = e
        \/ Intact(d, b) /\ t[b].meta = d[b].meta
    BY <1>3, TornIntact, SMTT(30)
  <2>3. \/ c = s /\ t[c].meta = e
        \/ Intact(d, c) /\ t[c].meta = d[c].meta
    BY <1>3, TornIntact, SMTT(30)
  <2>4. CASE Intact(d, b) /\ t[b].meta = d[b].meta /\ Intact(d, c) /\ t[c].meta = d[c].meta
    BY <1>3, <2>4, SMTT(30) DEF Sane
  <2>5. CASE t[b].meta = e /\ t[c].meta = e
    BY <2>5
  <2>6. CASE t[b].meta = e /\ Intact(d, c) /\ t[c].meta = d[c].meta
    BY <1>3, <2>1, <2>6
  <2>7. CASE t[c].meta = e /\ Intact(d, b) /\ t[b].meta = d[b].meta
    BY <1>3, <2>1, <2>7
  <2>8. QED
    BY <2>2, <2>3, <2>4, <2>5, <2>6, <2>7
<1>4. QED
  BY <1>1, <1>2, <1>3 DEF Sane

\* No other record becomes the newest of its key: the newest ones own their
\* blocks, so they stay intact.
LEMMA TornNewest ==
    ASSUME Relied, NEW d, NEW l, NEW e, NEW s, Room(d, l, e, s), NEW q \in 0 .. (Size(e) + 1),
           NEW t, t = Torn(d, e, s, q), NEW p \in Nat, Sane(d, p), Safe(d, l),
           NEW b, Newest(t, b)
    PROVE  \/ b = s /\ t[b].meta = e
           \/ Newest(d, b) /\ Anchor(d, l, b) /\ t[b].meta = d[b].meta
<1>1. CASE b = s /\ t[b].meta = e
  BY <1>1
<1>2. CASE ~(b = s /\ t[b].meta = e)
  <2>1. Intact(t, b)
    BY DEF Newest
  <2>2. Intact(d, b) /\ t[b].meta = d[b].meta
    BY <1>2, <2>1, TornIntact, SMTT(30)
  <2>3. PICK n \in All : Newest(d, n) /\ d[n].meta.key = d[b].meta.key
    BY <2>2, NewestExists
  <2>4. Anchor(d, l, n) /\ Intact(d, n)
    BY <2>3 DEF Safe, Newest
  <2>5. Intact(t, n) /\ t[n].meta = d[n].meta
    BY <2>4, TornAnchor
  <2>6. IsRec(d, b) /\ IsRec(d, n) /\ b \in All
    BY <2>2, <2>4 DEF Intact, IsRec
  <2>7. /\ b \in Nat /\ n \in Nat
        /\ d[b].meta.version \in Nat /\ d[n].meta.version \in Nat
    BY <2>6, SaneFacts, SMTT(30)
  <2>8. \/ d[n].meta.version < d[b].meta.version
        \/ d[n].meta.version = d[b].meta.version /\ b <= n
    BY <2>2, <2>3, <2>5 DEF Newest
  <2>9. \/ d[b].meta.version < d[n].meta.version
        \/ d[b].meta.version = d[n].meta.version /\ n <= b
    BY <2>2, <2>3, <2>6 DEF Newest
  <2>10. b = n
    BY <2>7, <2>8, <2>9, SMTT(30)
  <2>11. QED
    BY <2>2, <2>3, <2>4, <2>10
<1>3. QED
  BY <1>1, <1>2

\* What is durable while e is being written: its put, or what was before; and
\* once it is written, its put.
LEMMA TornDur ==
    ASSUME Relied, NEW d, NEW l, NEW e, NEW s, Room(d, l, e, s), NEW q \in 0 .. (Size(e) + 1),
           NEW t, t = Torn(d, e, s, q), NEW p \in Nat, Sane(d, p), Safe(d, l),
           NEW p2 \in Nat, Sane(t, p2), NEW k
    PROVE  \/ Dur(t, k) = Dur(d, k)
           \/ k = e.key /\ Dur(t, k) = e.crc
<1>1. CASE \A b \in All : Intact(t, b) => t[b].meta.key # k
  <2>1. Dur(t, k) = 0
    BY <1>1, DurIs
  <2>2. ASSUME NEW b \in All, Intact(d, b), d[b].meta.key = k PROVE FALSE
    <3>1. PICK n \in All : Newest(d, n) /\ d[n].meta.key = k
      BY <2>2, NewestExists
    <3>2. Anchor(d, l, n) /\ Intact(d, n)
      BY <3>1 DEF Safe, Newest
    <3>3. Intact(t, n) /\ t[n].meta = d[n].meta
      BY <3>2, TornAnchor
    <3>4. QED
      BY <1>1, <3>1, <3>3
  <2>3. Dur(d, k) = 0
    BY <2>2, DurIs
  <2>4. QED
    BY <2>1, <2>3
<1>2. CASE \E b \in All : Intact(t, b) /\ t[b].meta.key = k
  <2>1. PICK n \in All : Newest(t, n) /\ t[n].meta.key = k
    BY <1>2, NewestExists
  <2>2. Dur(t, k) = t[n].meta.crc
    BY <2>1, DurIs
  <2>3. CASE t[n].meta = e
    BY <2>1, <2>2, <2>3
  <2>4. CASE Newest(d, n) /\ t[n].meta = d[n].meta
    <3>1. Dur(d, k) = d[n].meta.crc
      BY <2>1, <2>4, DurIs, SMTT(30)
    <3>2. QED
      BY <2>2, <2>4, <3>1
  <2>5. QED
    BY <2>1, <2>3, <2>4, TornNewest, SMTT(30)
<1>3. QED
  BY <1>1, <1>2

\* A flush that was not torn makes its put durable.
LEMMA FullDur ==
    ASSUME Relied, NEW d, NEW l, NEW e, NEW s, Room(d, l, e, s),
           NEW t, t = Torn(d, e, s, Size(e) + 1), NEW p \in Nat, Sane(d, p), Safe(d, l),
           NEW p2 \in Nat, Sane(t, p2), Later(d, e)
    PROVE  Dur(t, e.key) = e.crc
<1>0. Size(e) + 1 \in 0 .. (Size(e) + 1) /\ e.version \in Nat
  BY RoomFacts, EntIsMeta, SMTT(30)
<1>1. Intact(t, s) /\ t[s].meta = e
  BY FullIntact, SMTT(30)
<1>2. PICK n \in All : Newest(t, n) /\ t[n].meta.key = e.key
  BY <1>1, NewestExists, SMTT(30)
<1>3. Dur(t, e.key) = t[n].meta.crc
  BY <1>2, DurIs
<1>4. CASE t[n].meta = e
  BY <1>3, <1>4
<1>5. CASE Newest(d, n) /\ t[n].meta = d[n].meta
  <2>1. s \in All /\ IsRec(d, n)
    BY <1>5, RoomFacts DEF Newest, Intact
  <2>2. d[n].meta.version \in Nat
    BY <2>1, SaneFacts, SMTT(30)
  <2>3. ~(d[n].meta.version < e.version)
    <3>1. \/ e.version < d[n].meta.version
          \/ e.version = d[n].meta.version
      BY <1>1, <1>2, <1>5, <2>1 DEF Newest
    <3>2. QED
      BY <3>1, <2>2, <1>0, SMTT(30)
  <2>4. d[n].meta.crc = e.crc
    BY <1>2, <1>5, <2>3 DEF Later, Newest
  <2>5. QED
    BY <1>3, <1>5, <2>4
<1>6. QED
  BY <1>0, <1>2, <1>4, <1>5, TornNewest, SMTT(30)

----------------------------------------------------------------------------
(* The index, when no key is a prefix of another.                          *)

\* The walk of a bucket finds the entry of the key, if there is one.
LEMMA LookupIs ==
    ASSUME Relied, Prefix = {}, NEW chain \in Seq(index_ent), NEW key
    PROVE  \/ Lookup(chain, key) = 0 /\ \A i \in 1 .. Len(chain) : chain[i].key # key
           \/ Lookup(chain, key) \in 1 .. Len(chain) /\ chain[Lookup(chain, key)].key = key
<1> DEFINE I == {i \in 1 .. Len(chain) : Matches(chain[i].key, key)}
<1>1. \A i \in 1 .. Len(chain) : Matches(chain[i].key, key) <=> chain[i].key = key
  BY DEF Matches
<1>2. Lookup(chain, key) = IF I # {} THEN Min(I) ELSE 0
  BY DEF Lookup, FirstWhere
<1>3. CASE I = {}
  BY <1>1, <1>2, <1>3
<1>4. CASE I # {}
  <2>1. I \subseteq Nat
    BY SMTT(30)
  <2>2. PICK x \in I : \A y \in I : x <= y
    <3> HIDE DEF I
    <3> QED BY <1>4, <2>1, Least
  <2>3. Min(I) \in I
    <3> HIDE DEF I
    <3> QED BY <2>2 DEF Min
  <2>4. Lookup(chain, key) \in I
    <3> HIDE DEF I
    <3> QED BY <1>2, <1>4, <2>3
  <2>5. QED
    BY <1>1, <2>4
<1>5. QED
  BY <1>3, <1>4

\* Where an entry is, and that it is the only one of its key.
LEMMA EntsFacts ==
    ASSUME NEW ix, OneEach(ix)
    PROVE  /\ DOMAIN ix = Range(Bucket)
           /\ \A k \in Keys : Bucket[k] \in DOMAIN ix /\ ix[Bucket[k]] \in Seq(index_ent)
           /\ \A e : e \in Ents(ix) <=> \E b \in DOMAIN ix : \E i \in 1 .. Len(ix[b]) : e = ix[b][i]
           /\ \A e \in Ents(ix) :
                 /\ e \in index_ent /\ e.key \in Keys
                 /\ \E i \in 1 .. Len(ix[Bucket[e.key]]) : e = ix[Bucket[e.key]][i]
           /\ \A e, f \in Ents(ix) : e.key = f.key => e = f
<1>1. DOMAIN ix = Range(Bucket) /\ \A b \in DOMAIN ix : ix[b] \in Seq(index_ent)
  BY DEF OneEach
<1>2. \A k \in Keys : Bucket[k] \in DOMAIN ix
  BY <1>1, KVAssumption DEF Range
<1>3. \A b \in DOMAIN ix : DOMAIN ix[b] = 1 .. Len(ix[b])
  BY <1>1, SMTT(30)
<1>4. \A e : e \in Ents(ix) <=> \E b \in DOMAIN ix : \E i \in 1 .. Len(ix[b]) : e = ix[b][i]
  BY <1>3, SMTT(30) DEF Ents, Range
<1>5. ASSUME NEW e \in Ents(ix)
      PROVE  /\ e \in index_ent /\ e.key \in Keys
             /\ \E i \in 1 .. Len(ix[Bucket[e.key]]) : e = ix[Bucket[e.key]][i]
  <2>0. PICK b \in DOMAIN ix : \E i \in 1 .. Len(ix[b]) : e = ix[b][i]
    BY <1>4, <1>5
  <2>1. PICK i \in 1 .. Len(ix[b]) : e = ix[b][i]
    BY <2>0
  <2>2. e \in index_ent
    BY <1>1, <2>1, SMTT(30)
  <2>3. Bucket[e.key] = b
    BY <2>1 DEF OneEach
  <2>4. QED
    BY <2>1, <2>2, <2>3, EntIsMeta
<1>6. ASSUME NEW e \in Ents(ix), NEW f \in Ents(ix), e.key = f.key
      PROVE  e = f
  <2>0. PICK b \in DOMAIN ix, c \in DOMAIN ix :
           /\ \E i \in 1 .. Len(ix[b]) : e = ix[b][i]
           /\ \E j \in 1 .. Len(ix[c]) : f = ix[c][j]
    BY <1>4, <1>6, SMTT(30)
  <2>1. PICK i \in 1 .. Len(ix[b]) : e = ix[b][i]
    BY <2>0
  <2>2. PICK j \in 1 .. Len(ix[c]) : f = ix[c][j]
    BY <2>0
  <2>3. b = c /\ i = j
    BY <1>6, <2>1, <2>2, SMTT(30) DEF OneEach
  <2>4. QED
    BY <2>1, <2>2, <2>3
<1>7. QED
  BY <1>1, <1>2, <1>4, <1>5, <1>6

\* key_lookup finds the one entry of a key.
LEMMA KeyLookup ==
    ASSUME Relied, Prefix = {}, NEW ix, OneEach(ix), NEW k \in Keys
    PROVE  \/ key_lookup(ix, k) = {} /\ \A e \in Ents(ix) : e.key # k
           \/ \E e \in Ents(ix) : e.key = k /\ key_lookup(ix, k) = {e}
<1> DEFINE chain == ix[Bucket[k]]
           i == Lookup(chain, k)
<1>1. Bucket[k] \in DOMAIN ix /\ chain \in Seq(index_ent)
  BY EntsFacts
<1>2. key_lookup(ix, k) = IF i = 0 THEN {} ELSE {chain[i]}
  BY DEF key_lookup
<1> HIDE DEF i
<1>3. CASE i = 0 /\ \A j \in 1 .. Len(chain) : chain[j].key # k
  <2>1. ASSUME NEW e \in Ents(ix), e.key = k PROVE FALSE
    <3>1. PICK j \in 1 .. Len(ix[Bucket[e.key]]) : e = ix[Bucket[e.key]][j]
      BY EntsFacts
    <3>2. QED
      BY <2>1, <3>1, <1>3
  <2>2. QED
    BY <1>2, <1>3, <2>1
<1>4. CASE i \in 1 .. Len(chain) /\ chain[i].key = k
  <2>1. chain[i] \in Ents(ix) /\ i # 0
    BY <1>1, <1>4, EntsFacts, SMTT(30)
  <2>2. QED
    BY <1>2, <1>4, <2>1
<1>5. QED
  BY <1>1, <1>3, <1>4, LookupIs DEF i

\* get_version returns the version of the entry, or 0.
LEMMA GetVersion ==
    ASSUME Relied, Prefix = {}, NEW ix, OneEach(ix), NEW k \in Keys
    PROVE  /\ (\A e \in Ents(ix) : e.key # k) => get_version(ix, k) = 0
           /\ \A e \in Ents(ix) : e.key = k => get_version(ix, k) = e.version
           /\ get_version(ix, k) \in Nat
<1>1. CASE key_lookup(ix, k) = {} /\ \A e \in Ents(ix) : e.key # k
  BY <1>1 DEF get_version
<1>2. ASSUME NEW e \in Ents(ix), e.key = k, key_lookup(ix, k) = {e}
      PROVE  /\ get_version(ix, k) = e.version
             /\ \A f \in Ents(ix) : f.key = k => f = e
  BY <1>2, EntsFacts DEF get_version
<1>3. \A e \in Ents(ix) : e.version \in Nat
  BY EntsFacts, EntIsMeta
<1>4. QED
  BY <1>1, <1>2, <1>3, KeyLookup, SMTT(30)

Reindexed(ix, fl, meta) == update_index([ix |-> ix, fl |-> fl, ok |-> TRUE], meta)

\* update_index replaces the entry of the key and frees its blocks, or adds the
\* entry.
LEMMA Reindex ==
    ASSUME Relied, Prefix = {}, NEW ix, OneEach(ix), NEW fl, NEW meta \in index_ent,
           NEW r, r = Reindexed(ix, fl, meta)
    PROVE  /\ OneEach(r.ix)
           /\ \/ /\ \A e \in Ents(ix) : e.key # meta.key
                 /\ Ents(r.ix) = Ents(ix) \cup {meta}
                 /\ r.fl = fl /\ r.ok
              \/ \E old \in Ents(ix) :
                    /\ old.key = meta.key
                    /\ Ents(r.ix) = (Ents(ix) \ {old}) \cup {meta}
                    /\ r.fl = free_blk(fl, old.lba, Size(old)).fl
                    /\ r.ok = free_blk(fl, old.lba, Size(old)).ok
<1> DEFINE k == meta.key
           b == Bucket[k]
           chain == ix[b]
           i == Lookup(chain, k)
           st == [ix |-> ix, fl |-> fl, ok |-> TRUE]
<1>1. k \in Keys /\ b \in DOMAIN ix /\ chain \in Seq(index_ent) /\ DOMAIN ix = Range(Bucket)
      /\ Len(chain) \in Nat
  BY EntIsMeta, EntsFacts, SMTT(30)
<1>2. ix \in [Range(Bucket) -> Seq(index_ent)]
  BY DEF OneEach
<1> HIDE DEF i
<1>3. CASE i = 0 /\ \A j \in 1 .. Len(chain) : chain[j].key # k
  <2> DEFINE ix2 == [ix EXCEPT ![b] = Append(chain, meta)]
  <2>1. r = [st EXCEPT !.ix[b] = Append(chain, meta)]
    BY <1>3 DEF Reindexed, update_index, i
  <2>2. r.ix = ix2 /\ r.fl = fl /\ r.ok
    BY <2>1
  <2>3. /\ Append(chain, meta) \in Seq(index_ent)
        /\ Len(Append(chain, meta)) = Len(chain) + 1
        /\ \A j \in 1 .. Len(chain) : Append(chain, meta)[j] = chain[j]
        /\ Append(chain, meta)[Len(chain) + 1] = meta
    BY <1>1, SMTT(30)
  <2>4. /\ ix2 \in [Range(Bucket) -> Seq(index_ent)] /\ DOMAIN ix2 = DOMAIN ix
        /\ ix2[b] = Append(chain, meta)
        /\ \A c \in DOMAIN ix : c # b => ix2[c] = ix[c]
    BY <1>1, <1>2, <2>3
  <2> HIDE DEF ix2, st
  <2>5. ASSUME NEW c \in DOMAIN ix, NEW j \in 1 .. Len(ix2[c])
        PROVE  \/ j \in 1 .. Len(ix[c]) /\ ix2[c][j] = ix[c][j] /\ ix[c][j].key # k
               \/ c = b /\ j = Len(chain) + 1 /\ ix2[c][j] = meta
    <3>1. CASE c # b
      <4>1. j \in 1 .. Len(ix[c]) /\ ix2[c][j] = ix[c][j]
        BY <2>4, <3>1
      <4>2. Bucket[ix[c][j].key] = c
        BY <4>1 DEF OneEach
      <4>3. QED
        BY <3>1, <4>1, <4>2
    <3>2. CASE c = b
      <4>1. ix2[c] = Append(chain, meta) /\ j \in 1 .. (Len(chain) + 1) /\ ix[c] = chain
        BY <2>3, <2>4, <3>2
      <4>2. CASE j \in 1 .. Len(chain)
        BY <1>3, <2>3, <4>1, <4>2
      <4>3. CASE j = Len(chain) + 1
        BY <2>3, <3>2, <4>1, <4>3
      <4>4. QED
        BY <1>1, <4>1, <4>2, <4>3, LastIn
    <3>3. QED
      BY <3>1, <3>2
  <2>6. OneEach(ix2)
    <3>1. ASSUME NEW c \in DOMAIN ix2, NEW g \in DOMAIN ix2,
                 NEW m \in 1 .. Len(ix2[c]), NEW n \in 1 .. Len(ix2[g])
          PROVE  /\ ix2[c][m].key = ix2[g][n].key => c = g /\ m = n
                 /\ Bucket[ix2[c][m].key] = c
      <4>1. \/ m \in 1 .. Len(ix[c]) /\ ix2[c][m] = ix[c][m] /\ ix[c][m].key # k
            \/ c = b /\ m = Len(chain) + 1 /\ ix2[c][m] = meta
        BY <2>4, <2>5
      <4>2. \/ n \in 1 .. Len(ix[g]) /\ ix2[g][n] = ix[g][n] /\ ix[g][n].key # k
            \/ g = b /\ n = Len(chain) + 1 /\ ix2[g][n] = meta
        BY <2>4, <2>5
      <4>3. CASE m \in 1 .. Len(ix[c]) /\ ix2[c][m] = ix[c][m] /\ ix[c][m].key # k
        <5>1. CASE n \in 1 .. Len(ix[g]) /\ ix2[g][n] = ix[g][n] /\ ix[g][n].key # k
          BY SMTT(30), <2>4, <4>3, <5>1 DEF OneEach
        <5>2. CASE ix2[g][n] = meta
          BY SMTT(30), <2>4, <4>3, <5>2 DEF OneEach
        <5>3. QED
          BY <4>2, <5>1, <5>2
      <4>4. CASE c = b /\ m = Len(chain) + 1 /\ ix2[c][m] = meta
        BY <4>2, <4>4
      <4>5. QED
        BY <4>1, <4>3, <4>4
    <3>2. QED
      BY <2>4, <3>1 DEF OneEach
  <2>7. ASSUME NEW e \in Ents(ix) PROVE e.key # k
    <3>1. PICK j \in 1 .. Len(ix[Bucket[e.key]]) : e = ix[Bucket[e.key]][j]
      BY EntsFacts
    <3>2. QED
      BY <3>1, <1>3
  <2>8. ASSUME NEW e PROVE e \in Ents(ix2) <=> e \in Ents(ix) \cup {meta}
    <3>1. ASSUME e \in Ents(ix2) PROVE e \in Ents(ix) \cup {meta}
      <4>1. PICK c \in DOMAIN ix2 : \E j \in 1 .. Len(ix2[c]) : e = ix2[c][j]
        BY <2>6, <3>1, EntsFacts
      <4>2. PICK j \in 1 .. Len(ix2[c]) : e = ix2[c][j]
        BY <4>1
      <4>3. QED
        BY <2>4, <2>5, <4>2, EntsFacts
    <3>2. ASSUME e \in Ents(ix) PROVE e \in Ents(ix2)
      <4>1. PICK c \in DOMAIN ix : \E j \in 1 .. Len(ix[c]) : e = ix[c][j]
        BY <3>2, EntsFacts
      <4>2. PICK j \in 1 .. Len(ix[c]) : e = ix[c][j]
        BY <4>1
      <4>3. j \in 1 .. Len(ix2[c]) /\ ix2[c][j] = ix[c][j]
        <5>1. CASE c = b
          BY <5>1, <1>1, <2>3, <2>4, <4>2, LastIn
        <5>2. CASE c # b
          BY <5>2, <2>4, <4>2
        <5>3. QED
          BY <5>1, <5>2
      <4>4. QED
        BY <2>4, <2>6, <4>2, <4>3, EntsFacts
    <3>3. meta \in Ents(ix2)
      <4>1. Len(chain) + 1 \in 1 .. Len(ix2[b]) /\ ix2[b][Len(chain) + 1] = meta
        BY <1>1, <2>3, <2>4, LastIn
      <4>2. \A e2 : e2 \in Ents(ix2) <=> \E c \in DOMAIN ix2 : \E j \in 1 .. Len(ix2[c]) : e2 = ix2[c][j]
        BY <2>6, EntsFacts
      <4>3. QED
        BY <1>1, <2>4, <4>1, <4>2
    <3>4. QED
      BY <3>1, <3>2, <3>3
  <2>9. Ents(ix2) = Ents(ix) \cup {meta}
    BY <2>8
  <2>10. QED
    BY <2>2, <2>6, <2>7, <2>9
<1>4. CASE i \in 1 .. Len(chain) /\ chain[i].key = k
  <2> DEFINE old == chain[i]
             ix2 == [ix EXCEPT ![b] = [chain EXCEPT ![i] = meta]]
             fr == free_blk(fl, old.lba, Size(old))
  <2>1. st.ok = TRUE /\ st.ix = ix /\ st.fl = fl /\ i # 0
    BY <1>4, SMTT(30)
  <2>2. r.ix = ix2 /\ r.fl = fr.fl /\ r.ok = fr.ok
    BY <2>1 DEF Reindexed, update_index, i, Size
  <2>3. /\ [chain EXCEPT ![i] = meta] \in Seq(index_ent)
        /\ Len([chain EXCEPT ![i] = meta]) = Len(chain)
        /\ \A j \in 1 .. Len(chain) : [chain EXCEPT ![i] = meta][j] = IF j = i THEN meta ELSE chain[j]
    BY <1>1, <1>4, SMTT(30)
  <2>4. /\ ix2 \in [Range(Bucket) -> Seq(index_ent)] /\ DOMAIN ix2 = DOMAIN ix
        /\ ix2[b] = [chain EXCEPT ![i] = meta]
        /\ \A c \in DOMAIN ix : c # b => ix2[c] = ix[c]
    BY <1>1, <1>2, <2>3
  <2> HIDE DEF ix2, st
  <2>5. ASSUME NEW c \in DOMAIN ix
        PROVE  /\ Len(ix2[c]) = Len(ix[c])
               /\ \A j \in 1 .. Len(ix[c]) :
                     /\ ix2[c][j] = IF c = b /\ j = i THEN meta ELSE ix[c][j]
                     /\ ix2[c][j].key = ix[c][j].key
    BY <1>1, <1>4, <2>3, <2>4
  <2>6. OneEach(ix2)
    <3>1. ASSUME NEW c \in DOMAIN ix2, NEW g \in DOMAIN ix2,
                 NEW m \in 1 .. Len(ix2[c]), NEW n \in 1 .. Len(ix2[g])
          PROVE  /\ ix2[c][m].key = ix2[g][n].key => c = g /\ m = n
                 /\ Bucket[ix2[c][m].key] = c
      <4>1. /\ m \in 1 .. Len(ix[c]) /\ ix2[c][m].key = ix[c][m].key
            /\ n \in 1 .. Len(ix[g]) /\ ix2[g][n].key = ix[g][n].key
        BY <2>4, <2>5
      <4>2. /\ ix[c][m].key = ix[g][n].key => c = g /\ m = n
            /\ Bucket[ix[c][m].key] = c
        BY SMTT(30), <2>4, <4>1 DEF OneEach
      <4>3. QED
        BY <4>1, <4>2
    <3>2. QED
      BY <2>4, <3>1 DEF OneEach
  <2>7. old \in Ents(ix) /\ old.key = k
    BY <1>1, <1>4, EntsFacts
  <2> HIDE DEF old
  <2>8. ASSUME NEW e PROVE e \in Ents(ix2) <=> e \in (Ents(ix) \ {old}) \cup {meta}
    <3>1. ASSUME e \in Ents(ix2) PROVE e \in (Ents(ix) \ {old}) \cup {meta}
      <4>1. PICK c \in DOMAIN ix2 : \E j \in 1 .. Len(ix2[c]) : e = ix2[c][j]
        BY <2>6, <3>1, EntsFacts
      <4>2. PICK j \in 1 .. Len(ix2[c]) : e = ix2[c][j]
        BY <4>1
      <4>3. c \in DOMAIN ix /\ j \in 1 .. Len(ix[c])
        BY <2>4, <2>5, <4>2
      <4>4. CASE c = b /\ j = i
        BY <2>5, <4>2, <4>3, <4>4
      <4>5. CASE ~(c = b /\ j = i)
        <5>1. e = ix[c][j] /\ e \in Ents(ix)
          <6>1. e = ix[c][j]
            BY <2>5, <4>2, <4>3, <4>5
          <6>2. QED
            BY <4>3, <6>1, EntsFacts
        <5>2. e # old
          <6>1. ASSUME e = old PROVE FALSE
            <7>1. ix[c][j].key = ix[b][i].key
              BY <5>1, <6>1 DEF old
            <7>2. QED
              BY SMTT(30), <7>1, <4>3, <4>5, <1>1, <1>4 DEF OneEach
          <6>2. QED
            BY <6>1
        <5>3. QED
          BY <5>1, <5>2
      <4>6. QED
        BY <4>4, <4>5
    <3>2. ASSUME e \in Ents(ix), e # old PROVE e \in Ents(ix2)
      <4>1. PICK c \in DOMAIN ix : \E j \in 1 .. Len(ix[c]) : e = ix[c][j]
        BY <3>2, EntsFacts
      <4>2. PICK j \in 1 .. Len(ix[c]) : e = ix[c][j]
        BY <4>1
      <4>3. j \in 1 .. Len(ix2[c]) /\ ix2[c][j] = ix[c][j]
        BY <3>2, <2>5, <4>2 DEF old
      <4>4. QED
        BY <2>4, <2>6, <4>2, <4>3, EntsFacts
    <3>3. meta \in Ents(ix2)
      <4>1. i \in 1 .. Len(ix2[b]) /\ ix2[b][i] = meta
        BY <1>1, <1>4, <2>5
      <4>2. \A e2 : e2 \in Ents(ix2) <=> \E c \in DOMAIN ix2 : \E j \in 1 .. Len(ix2[c]) : e2 = ix2[c][j]
        BY <2>6, EntsFacts
      <4>3. QED
        BY <1>1, <2>4, <4>1, <4>2
    <3>4. QED
      BY <3>1, <3>2, <3>3
  <2>9. Ents(ix2) = (Ents(ix) \ {old}) \cup {meta}
    BY <2>8
  <2>10. QED
    BY <2>2, <2>6, <2>7, <2>9
<1>5. QED
  BY <1>1, <1>3, <1>4, LookupIs DEF i

\* The callback, on a batch of at most one.
LEMMA IndexBatchIs ==
    ASSUME NEW b
    PROVE  /\ b = << >> => IndexBatch(b) = [ix |-> indx, fl |-> freelist, ok |-> TRUE]
           /\ \A e : b = << e >> => IndexBatch(b) = Reindexed(indx, freelist, e)
<1> DEFINE Z == [ix |-> indx, fl |-> freelist, ok |-> TRUE]
<1>1. ASSUME b = << >> PROVE IndexBatch(b) = Z
  <2> DEFINE F(it) == [s \in SUBSET {} |-> IF s = {} THEN Z
                         ELSE update_index(it[s \ {Max(s)}], b[Max(s)])]
             g == [s \in SUBSET {} |-> Z]
  <2>1. g = F(g) /\ \A it : it = F(it) => it[{}] = Z
    <3> HIDE DEF Z
    <3> QED OBVIOUS
  <2>2. (CHOOSE it : it = F(it))[{}] = Z
    <3> HIDE DEF F, g, Z
    <3> QED BY <2>1
  <2>3. DOMAIN b = {}
    BY <1>1, SMTT(30)
  <2>4. QED
    BY <2>2, <2>3 DEF IndexBatch, InOrder, MapThenFoldSet
<1>2. ASSUME NEW e, b = << e >> PROVE IndexBatch(b) = update_index(Z, e)
  <2> DEFINE F(it) == [s \in SUBSET {1} |-> IF s = {} THEN Z
                         ELSE update_index(it[s \ {Max(s)}], b[Max(s)])]
             g == [s \in SUBSET {1} |-> IF s = {} THEN Z ELSE update_index(Z, e)]
  <2>1. DOMAIN b = {1} /\ b[1] = e
    BY <1>2, SMTT(30)
  <2>2. g = F(g)
    <3> HIDE DEF Z
    <3>1. ASSUME NEW s \in SUBSET {1} PROVE g[s] = F(g)[s]
      <4>1. CASE s = {}
        BY <4>1
      <4>2. CASE s = {1}
        BY <4>2, <2>1, Positions, SMTT(30)
      <4>3. QED
        BY <4>1, <4>2, Positions
    <3>2. QED
      BY <3>1
  <2>3. ASSUME NEW it, it = F(it) PROVE it[{1}] = update_index(Z, e)
    <3> HIDE DEF Z
    <3>1. it[{}] = Z /\ it[{1}] = F(it)[{1}]
      BY <2>3
    <3>2. QED
      BY <3>1, <2>1, Positions, SMTT(30)
  <2>4. (CHOOSE it : it = F(it))[{1}] = update_index(Z, e)
    <3> HIDE DEF F, g, Z
    <3> QED BY <2>2, <2>3
  <2>5. QED
    BY <2>1, <2>4 DEF IndexBatch, InOrder, MapThenFoldSet
<1>3. QED
  BY <1>1, <1>2 DEF Reindexed
=============================================================================
