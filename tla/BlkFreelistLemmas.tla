------------------------- MODULE BlkFreelistLemmas -------------------------
(***************************************************************************)
(* What each function of blk_freelist.c does to a free list that is        *)
(* sorted, coalesced and on the device, for every device size.             *)
(***************************************************************************)
EXTENDS BlkFreelist, WellFoundedInduction, TLAPS

\* Most leaves are first-order and go to Zenon; the ones that need arithmetic,
\* records or sequences name the SMT solver.
USE ZenonT(20), SMTT(30)

\* A non-empty set of natural numbers has a least element: the list walks of
\* blk_freelist.c stop at the first entry that satisfies their test.
LEMMA LeastNat ==
    ASSUME NEW T \in SUBSET Nat, T # {}
    PROVE  \E x \in T : \A y \in T : x <= y
<1> DEFINE R == OpToRel(<, Nat)
<1>1. IsWellFoundedOn(R, Nat)
  BY NatLessThanWellFounded
<1>2. \A x, y \in Nat : x < y => <<x, y>> \in R
  BY DEF OpToRel
<1> HIDE DEF R
<1>3. PICK x \in T : \A y \in T : ~ (<<y, x>> \in R)
  BY <1>1, WFMin
<1>4. ASSUME NEW y \in T PROVE x <= y
  <2>1. x \in Nat /\ y \in Nat
    OBVIOUS
  <2>2. ~(y < x)
    BY <1>2, <1>3, <2>1
  <2>3. QED
    BY <2>1, <2>2, SMTT(30)
<1>5. QED
  BY <1>4

\* What two lists say when one follows the other.
LEMMA Joined ==
    ASSUME NEW S, NEW s \in Seq(S), NEW t \in Seq(S)
    PROVE  /\ s \o t \in Seq(S)
           /\ Len(s \o t) = Len(s) + Len(t)
           /\ \A i \in 1 .. (Len(s) + Len(t)) :
                 (s \o t)[i] = IF i <= Len(s) THEN s[i] ELSE t[i - Len(s)]
<1>1. s \o t \in Seq(S) /\ Len(s \o t) = Len(s) + Len(t)
  BY SMTT(30)
<1>2. ASSUME NEW i \in 1 .. (Len(s) + Len(t))
      PROVE  (s \o t)[i] = IF i <= Len(s) THEN s[i] ELSE t[i - Len(s)]
  <2>1. CASE i <= Len(s)
    BY <2>1, SMTT(30)
  <2>2. CASE ~(i <= Len(s))
    BY <2>2, SMTT(30)
  <2>3. QED
    BY <2>1, <2>2
<1>3. QED
  BY <1>1, <1>2

\* Removing an entry shifts the ones behind it.
LEMMA UnlinkProperties ==
    ASSUME NEW S, NEW l \in Seq(S), NEW i \in 1 .. Len(l)
    PROVE  /\ Unlink(l, i) \in Seq(S)
           /\ Len(Unlink(l, i)) = Len(l) - 1
           /\ \A j \in 1 .. (Len(l) - 1) :
                 Unlink(l, i)[j] = IF j < i THEN l[j] ELSE l[j + 1]
<1> DEFINE a == SubSeq(l, 1, i - 1)
           b == SubSeq(l, i + 1, Len(l))
<1>1. /\ a \in Seq(S)
      /\ Len(a) = i - 1
      /\ \A j \in 1 .. (i - 1) : a[j] = l[j]
  BY SMTT(30)
<1>2. /\ b \in Seq(S)
      /\ Len(b) = Len(l) - i
      /\ \A j \in 1 .. (Len(l) - i) : b[j] = l[i + j]
  BY SMTT(30)
<1> HIDE DEF a, b
<1>3. /\ a \o b \in Seq(S)
      /\ Len(a \o b) = Len(l) - 1
      /\ \A j \in 1 .. (Len(l) - 1) :
            (a \o b)[j] = IF j < i THEN l[j] ELSE l[j + 1]
  <2>1. /\ a \o b \in Seq(S)
        /\ Len(a \o b) = Len(a) + Len(b)
        /\ \A j \in 1 .. (Len(a) + Len(b)) :
              (a \o b)[j] = IF j <= Len(a) THEN a[j] ELSE b[j - Len(a)]
    BY <1>1, <1>2, Joined
  <2>2. QED
    BY <1>1, <1>2, <2>1, SMTT(30)
<1>4. QED
  BY <1>3 DEF Unlink, a, b

\* Inserting an entry shifts the ones from its place on.
LEMMA LinkProperties ==
    ASSUME NEW S, NEW l \in Seq(S), NEW i \in 1 .. (Len(l) + 1), NEW e \in S
    PROVE  /\ Link(l, i, e) \in Seq(S)
           /\ Len(Link(l, i, e)) = Len(l) + 1
           /\ \A j \in 1 .. (Len(l) + 1) :
                 Link(l, i, e)[j] = IF j < i THEN l[j]
                                    ELSE IF j = i THEN e ELSE l[j - 1]
<1> DEFINE a == SubSeq(l, 1, i - 1)
           b == SubSeq(l, i, Len(l))
           c == <<e>>
<1>1. /\ a \in Seq(S)
      /\ Len(a) = i - 1
      /\ \A j \in 1 .. (i - 1) : a[j] = l[j]
  BY SMTT(30)
<1>2. /\ b \in Seq(S)
      /\ Len(b) = Len(l) - i + 1
      /\ \A j \in 1 .. (Len(l) - i + 1) : b[j] = l[i + j - 1]
  BY SMTT(30)
<1>3. c \in Seq(S) /\ Len(c) = 1 /\ c[1] = e
  BY SMTT(30)
<1> HIDE DEF a, b, c
<1>4. /\ a \o c \in Seq(S)
      /\ Len(a \o c) = i
      /\ \A j \in 1 .. i : (a \o c)[j] = IF j < i THEN l[j] ELSE e
  <2>1. /\ a \o c \in Seq(S)
        /\ Len(a \o c) = Len(a) + Len(c)
        /\ \A j \in 1 .. (Len(a) + Len(c)) :
              (a \o c)[j] = IF j <= Len(a) THEN a[j] ELSE c[j - Len(a)]
    BY <1>1, <1>3, Joined
  <2>2. QED
    BY <1>1, <1>3, <2>1, SMTT(30)
<1> DEFINE d == a \o c
<1> HIDE DEF d
<1>5. /\ d \o b \in Seq(S)
      /\ Len(d \o b) = Len(l) + 1
      /\ \A j \in 1 .. (Len(l) + 1) :
            (d \o b)[j] = IF j < i THEN l[j]
                          ELSE IF j = i THEN e ELSE l[j - 1]
  <2>1. /\ d \in Seq(S) /\ Len(d) = i
        /\ \A j \in 1 .. i : d[j] = IF j < i THEN l[j] ELSE e
    BY <1>4 DEF d
  <2>2. /\ d \o b \in Seq(S)
        /\ Len(d \o b) = Len(d) + Len(b)
        /\ \A j \in 1 .. (Len(d) + Len(b)) :
              (d \o b)[j] = IF j <= Len(d) THEN d[j] ELSE b[j - Len(d)]
    BY <1>2, <2>1, Joined
  <2>3. QED
    BY <1>2, <2>1, <2>2, SMTT(30)
<1>6. QED
  BY <1>5 DEF Link, a, b, c, d

----------------------------------------------------------------------------
\* An entry e fits at place i between the entries lo (before) and hi (after).
FitsAfter(l, i, e) == i \in 1 .. Len(l) => End(l[i]) < e.start_lba
FitsBefore(l, i, e) == i \in 1 .. Len(l) => End(e) < l[i].start_lba

\* An entry is not empty, and its numbers are numbers.
LEMMA EntFacts ==
    ASSUME NEW e \in freelist_ent
    PROVE  /\ e.start_lba \in Nat /\ e.lba_count \in Nat \ {0}
           /\ End(e) \in Nat /\ e.start_lba < End(e)
  BY SMTT(30) DEF freelist_ent, End

\* The entry for c blocks from a on.
LEMMA EntIs ==
    ASSUME NEW a \in Nat, NEW c \in Nat \ {0}
    PROVE  /\ Ent(a, c) \in freelist_ent
           /\ Ent(a, c).start_lba = a /\ Ent(a, c).lba_count = c
           /\ End(Ent(a, c)) = a + c
  BY DEF Ent, freelist_ent, End

\* What a good list says of its entries: numbers in range, in order.
LEMMA GoodFacts ==
    ASSUME NEW l, Good(l)
    PROVE  /\ l \in Seq(freelist_ent) /\ Len(l) \in Nat
           /\ \A j \in 1 .. Len(l) :
                 /\ l[j] \in freelist_ent
                 /\ l[j].start_lba \in Nat
                 /\ End(l[j]) \in Nat
                 /\ l[j].start_lba < End(l[j])
                 /\ End(l[j]) <= MAX_LBA_NUM
           /\ \A i, j \in 1 .. Len(l) : i < j => End(l[i]) < l[j].start_lba
<1>1. l \in Seq(freelist_ent) /\ Len(l) \in Nat
  BY SMTT(30) DEF Good
<1>2. \A j \in 1 .. Len(l) : l[j] \in freelist_ent
  BY <1>1, SMTT(30)
<1>3. QED
  BY <1>1, <1>2, EntFacts DEF Good

\* Entries next to each other leave a gap: free_blk would have joined them.
LEMMA Neighbours ==
    ASSUME NEW l, Good(l), NEW i \in 1 .. Len(l)
    PROVE  /\ i - 1 \in 1 .. Len(l) => End(l[i - 1]) < l[i].start_lba
           /\ i + 1 \in 1 .. Len(l) => End(l[i]) < l[i + 1].start_lba
<1>1. /\ Len(l) \in Nat
      /\ \A j, k \in 1 .. Len(l) : j < k => End(l[j]) < l[k].start_lba
  BY GoodFacts
<1>2. i - 1 < i /\ i < i + 1
  BY SMTT(30)
<1>3. QED
  BY <1>1, <1>2

\* A shrunk entry still touches neither neighbour.
LEMMA ShrinkFits ==
    ASSUME NEW l, Good(l), NEW i \in 1 .. Len(l), NEW e \in freelist_ent,
           l[i].start_lba <= e.start_lba, End(e) <= End(l[i])
    PROVE  FitsAfter(l, i - 1, e) /\ FitsBefore(l, i + 1, e) /\ End(e) <= MAX_LBA_NUM
<1>1. /\ Len(l) \in Nat
      /\ l[i].start_lba \in Nat /\ End(l[i]) \in Nat /\ End(l[i]) <= MAX_LBA_NUM
      /\ e.start_lba \in Nat /\ End(e) \in Nat
  BY GoodFacts, EntFacts
<1>2. /\ i - 1 \in 1 .. Len(l) => End(l[i - 1]) \in Nat
      /\ i + 1 \in 1 .. Len(l) => l[i + 1].start_lba \in Nat
  BY GoodFacts
<1>3. FitsAfter(l, i - 1, e)
  BY <1>1, <1>2, Neighbours, SMTT(30) DEF FitsAfter
<1>4. FitsBefore(l, i + 1, e)
  BY <1>1, <1>2, Neighbours, SMTT(30) DEF FitsBefore
<1>5. QED
  BY <1>1, <1>3, <1>4, MaxLbaAssumption, SMTT(30)

\* Taking an entry out keeps the list good and takes out its blocks only.
LEMMA UnlinkGood ==
    ASSUME NEW l, Good(l), NEW i \in 1 .. Len(l)
    PROVE  /\ Good(Unlink(l, i))
           /\ \A b \in Int : Covers(Unlink(l, i), b) <=> Covers(l, b) /\ ~In(b, l[i])
<1> DEFINE u == Unlink(l, i)
<1>1. /\ u \in Seq(freelist_ent)
      /\ Len(u) = Len(l) - 1
      /\ \A j \in 1 .. (Len(l) - 1) : u[j] = IF j < i THEN l[j] ELSE l[j + 1]
  BY UnlinkProperties DEF Good
<1> HIDE DEF u
<1>2. /\ Len(l) \in Nat
      /\ \A j \in 1 .. Len(l) : End(l[j]) <= MAX_LBA_NUM
      /\ \A j, k \in 1 .. Len(l) : j < k => End(l[j]) < l[k].start_lba
  BY GoodFacts
<1>n. Len(l) \in Nat
  BY <1>2
<1>3. Good(u)
  <2>1. ASSUME NEW j \in 1 .. Len(u), NEW k \in 1 .. Len(u), j < k
        PROVE  End(u[j]) < u[k].start_lba
    <3>1. CASE k < i
      <4>1. /\ j \in 1 .. Len(l) /\ u[j] = l[j]
            /\ k \in 1 .. Len(l) /\ u[k] = l[k]
        BY <1>1, <1>n, <2>1, <3>1, SMTT(30)
      <4>2. QED
        BY <1>2, <2>1, <4>1
    <3>2. CASE j < i /\ i <= k
      <4>1. /\ j \in 1 .. Len(l) /\ u[j] = l[j]
            /\ k + 1 \in 1 .. Len(l) /\ u[k] = l[k + 1]
            /\ j < k + 1
        BY <1>1, <1>n, <2>1, <3>2, SMTT(30)
      <4>2. QED
        BY <1>2, <4>1
    <3>3. CASE i <= j
      <4>1. /\ j + 1 \in 1 .. Len(l) /\ u[j] = l[j + 1]
            /\ k + 1 \in 1 .. Len(l) /\ u[k] = l[k + 1]
            /\ j + 1 < k + 1
        BY <1>1, <1>n, <2>1, <3>3, SMTT(30)
      <4>2. QED
        BY <1>2, <4>1
    <3>4. QED
      BY <1>1, <1>2, <2>1, <3>1, <3>2, <3>3, SMTT(30)
  <2>2. \A j \in 1 .. Len(u) : End(u[j]) <= MAX_LBA_NUM
    BY <1>1, <1>2, SMTT(30)
  <2>3. QED
    BY <1>1, <2>1, <2>2 DEF Good
<1>4. ASSUME NEW b \in Int, Covers(u, b)
      PROVE  Covers(l, b) /\ ~In(b, l[i])
  <2>1. PICK j \in 1 .. Len(u) : In(b, u[j])
    BY <1>4 DEF Covers
  <2>2. PICK k \in 1 .. Len(l) : k # i /\ u[j] = l[k]
    BY <1>1, <2>1, SMTT(30)
  <2>3. ~In(b, l[i])
    <3>1. /\ l[i].start_lba \in Nat /\ End(l[i]) \in Nat
          /\ l[k].start_lba \in Nat /\ End(l[k]) \in Nat
          /\ End(l[i]) < l[k].start_lba \/ End(l[k]) < l[i].start_lba
      BY <2>2, GoodFacts, SMTT(30)
    <3>2. QED
      BY <2>1, <2>2, <3>1, SMTT(30) DEF In
  <2>4. QED
    BY <2>1, <2>2, <2>3 DEF Covers
<1>5. ASSUME NEW b \in Int, Covers(l, b), ~In(b, l[i])
      PROVE  Covers(u, b)
  <2>1. PICK k \in 1 .. Len(l) : In(b, l[k])
    BY <1>5 DEF Covers
  <2>2. PICK j \in 1 .. Len(u) : u[j] = l[k]
    <3>1. CASE k < i
      BY <1>1, <2>1, <3>1, SMTT(30)
    <3>2. CASE k > i
      <4>1. k - 1 \in 1 .. Len(u) /\ u[k - 1] = l[k]
        BY <1>1, <3>2, SMTT(30)
      <4>2. QED
        BY <4>1
    <3>3. QED
      BY <1>5, <2>1, <3>1, <3>2, SMTT(30)
  <2>3. QED
    BY <2>1, <2>2 DEF Covers
<1>6. QED
  BY <1>3, <1>4, <1>5 DEF u

\* Putting an entry in where it touches neither neighbour keeps the list good
\* and adds its blocks only.
LEMMA LinkGood ==
    ASSUME NEW l, Good(l), NEW i \in 1 .. (Len(l) + 1), NEW e \in freelist_ent,
           FitsAfter(l, i - 1, e), FitsBefore(l, i, e), End(e) <= MAX_LBA_NUM
    PROVE  /\ Good(Link(l, i, e))
           /\ \A b \in Int : Covers(Link(l, i, e), b) <=> Covers(l, b) \/ In(b, e)
<1> DEFINE u == Link(l, i, e)
<1>1. /\ u \in Seq(freelist_ent)
      /\ Len(u) = Len(l) + 1
      /\ \A j \in 1 .. (Len(l) + 1) : u[j] = IF j < i THEN l[j]
                                              ELSE IF j = i THEN e ELSE l[j - 1]
  BY LinkProperties, SMTT(30) DEF Good
<1> HIDE DEF u
<1>2. /\ Len(l) \in Nat
      /\ \A j \in 1 .. Len(l) :
            /\ l[j].start_lba \in Nat
            /\ End(l[j]) \in Nat
            /\ l[j].start_lba < End(l[j])
            /\ End(l[j]) <= MAX_LBA_NUM
      /\ \A j, k \in 1 .. Len(l) : j < k => End(l[j]) < l[k].start_lba
  BY GoodFacts
<1>n. Len(l) \in Nat
  BY <1>2
<1>3. Good(u)
  <2>1. ASSUME NEW j \in 1 .. Len(l), j < i
        PROVE  End(l[j]) < e.start_lba
    BY <1>2, <2>1, EntFacts, SMTT(30) DEF FitsAfter
  <2>2. ASSUME NEW j \in 1 .. Len(l), j >= i
        PROVE  End(e) < l[j].start_lba
    BY <1>2, <2>2, EntFacts, SMTT(30) DEF FitsBefore
  <2>3. ASSUME NEW j \in 1 .. Len(u), NEW k \in 1 .. Len(u), j < k
        PROVE  End(u[j]) < u[k].start_lba
    <3>1. CASE k < i
      <4>1. /\ j \in 1 .. Len(l) /\ u[j] = l[j]
            /\ k \in 1 .. Len(l) /\ u[k] = l[k]
        BY <1>1, <1>n, <2>3, <3>1, SMTT(30)
      <4>2. QED
        BY <1>2, <2>3, <4>1
    <3>2. CASE k = i
      <4>1. u[k] = e /\ j \in 1 .. Len(l) /\ j < i /\ u[j] = l[j]
        BY <1>1, <1>n, <2>3, <3>2, SMTT(30)
      <4>2. QED
        BY <2>1, <4>1
    <3>3. CASE j < i /\ i < k
      <4>1. /\ j \in 1 .. Len(l) /\ u[j] = l[j]
            /\ k - 1 \in 1 .. Len(l) /\ u[k] = l[k - 1]
            /\ j < k - 1
        BY <1>1, <1>n, <2>3, <3>3, SMTT(30)
      <4>2. QED
        BY <1>2, <4>1
    <3>4. CASE j = i
      <4>1. /\ u[j] = e /\ k - 1 \in 1 .. Len(l) /\ k - 1 >= i
            /\ u[k] = l[k - 1]
        BY <1>1, <1>n, <2>3, <3>4, SMTT(30)
      <4>2. QED
        BY <2>2, <4>1
    <3>5. CASE i < j
      <4>1. /\ j - 1 \in 1 .. Len(l) /\ u[j] = l[j - 1]
            /\ k - 1 \in 1 .. Len(l) /\ u[k] = l[k - 1]
            /\ j - 1 < k - 1
        BY <1>1, <1>n, <2>3, <3>5, SMTT(30)
      <4>2. QED
        BY <1>2, <4>1
    <3>6. QED
      BY <1>1, <1>2, <2>3, <3>1, <3>2, <3>3, <3>4, <3>5, SMTT(30)
  <2>4. ASSUME NEW j \in 1 .. Len(u) PROVE End(u[j]) <= MAX_LBA_NUM
    <3>1. CASE j < i
      BY <1>1, <1>2, <3>1, SMTT(30)
    <3>2. CASE j = i
      BY <1>1, <3>2, SMTT(30)
    <3>3. CASE j > i
      <4>1. j - 1 \in 1 .. Len(l) /\ u[j] = l[j - 1]
        BY <1>1, <1>2, <3>3, SMTT(30)
      <4>2. QED
        BY <1>2, <4>1
    <3>4. QED
      BY <1>1, <3>1, <3>2, <3>3, SMTT(30)
  <2>5. QED
    BY <1>1, <2>3, <2>4 DEF Good
<1>4. ASSUME NEW b \in Int, Covers(u, b)
      PROVE  Covers(l, b) \/ In(b, e)
  <2>1. PICK j \in 1 .. Len(u) : In(b, u[j])
    BY <1>4 DEF Covers
  <2>2. CASE j < i
    <3>1. j \in 1 .. Len(l) /\ u[j] = l[j]
      BY <1>1, <1>2, <2>2, SMTT(30)
    <3>2. QED
      BY <2>1, <3>1 DEF Covers
  <2>3. CASE j = i
    BY <1>1, <2>1, <2>3, SMTT(30)
  <2>4. CASE j > i
    <3>1. j - 1 \in 1 .. Len(l) /\ u[j] = l[j - 1]
      BY <1>1, <1>2, <2>4, SMTT(30)
    <3>2. QED
      BY <2>1, <3>1 DEF Covers
  <2>5. QED
    BY <1>1, <1>2, <2>2, <2>3, <2>4, SMTT(30)
<1>5. ASSUME NEW b \in Int, Covers(l, b) \/ In(b, e)
      PROVE  Covers(u, b)
  <2>1. CASE In(b, e)
    BY <1>1, <1>2, <2>1, SMTT(30) DEF Covers
  <2>2. CASE Covers(l, b)
    <3>1. PICK k \in 1 .. Len(l) : In(b, l[k])
      BY <2>2 DEF Covers
    <3>2. CASE k < i
      BY <1>1, <1>2, <3>1, <3>2, SMTT(30) DEF Covers
    <3>3. CASE k >= i
      <4>1. k + 1 \in 1 .. Len(u) /\ u[k + 1] = l[k]
        BY <1>1, <1>2, <3>3, SMTT(30)
      <4>2. QED
        BY <3>1, <4>1 DEF Covers
    <3>4. QED
      BY <1>2, <3>2, <3>3, SMTT(30)
  <2>3. QED
    BY <1>5, <2>1, <2>2
<1>6. QED
  BY <1>3, <1>4, <1>5 DEF u

\* Rewriting an entry that still touches neither neighbour exchanges its old
\* blocks for its new ones.
LEMMA ReplaceGood ==
    ASSUME NEW l, Good(l), NEW i \in 1 .. Len(l), NEW e \in freelist_ent,
           FitsAfter(l, i - 1, e), FitsBefore(l, i + 1, e), End(e) <= MAX_LBA_NUM
    PROVE  /\ Good([l EXCEPT ![i] = e])
           /\ \A b \in Int : Covers([l EXCEPT ![i] = e], b)
                              <=> (Covers(l, b) /\ ~In(b, l[i])) \/ In(b, e)
<1> DEFINE u == [l EXCEPT ![i] = e]
<1>1. /\ u \in Seq(freelist_ent)
      /\ Len(u) = Len(l)
      /\ \A j \in 1 .. Len(l) : u[j] = IF j = i THEN e ELSE l[j]
  BY SMTT(30) DEF Good
<1> HIDE DEF u
<1>2. /\ Len(l) \in Nat
      /\ \A j \in 1 .. Len(l) :
            /\ l[j].start_lba \in Nat
            /\ End(l[j]) \in Nat
            /\ l[j].start_lba < End(l[j])
            /\ End(l[j]) <= MAX_LBA_NUM
      /\ \A j, k \in 1 .. Len(l) : j < k => End(l[j]) < l[k].start_lba
  BY GoodFacts
<1>n. Len(l) \in Nat
  BY <1>2
<1>3. Good(u)
  <2>1. ASSUME NEW j \in 1 .. Len(l), j < i
        PROVE  End(l[j]) < e.start_lba
    BY <1>2, <2>1, EntFacts, SMTT(30) DEF FitsAfter
  <2>2. ASSUME NEW j \in 1 .. Len(l), j > i
        PROVE  End(e) < l[j].start_lba
    BY <1>2, <2>2, EntFacts, SMTT(30) DEF FitsBefore
  <2>3. ASSUME NEW j \in 1 .. Len(u), NEW k \in 1 .. Len(u), j < k
        PROVE  End(u[j]) < u[k].start_lba
    <3>1. CASE k < i
      <4>1. /\ j \in 1 .. Len(l) /\ u[j] = l[j]
            /\ k \in 1 .. Len(l) /\ u[k] = l[k]
        BY <1>1, <1>n, <2>3, <3>1, SMTT(30)
      <4>2. QED
        BY <1>2, <2>3, <4>1
    <3>2. CASE k = i
      <4>1. u[k] = e /\ j \in 1 .. Len(l) /\ j < i /\ u[j] = l[j]
        BY <1>1, <1>n, <2>3, <3>2, SMTT(30)
      <4>2. QED
        BY <2>1, <4>1
    <3>3. CASE j < i /\ i < k
      <4>1. /\ j \in 1 .. Len(l) /\ u[j] = l[j]
            /\ k \in 1 .. Len(l) /\ u[k] = l[k]
            /\ j < k
        BY <1>1, <1>n, <2>3, <3>3, SMTT(30)
      <4>2. QED
        BY <1>2, <4>1
    <3>4. CASE j = i
      <4>1. u[j] = e /\ k \in 1 .. Len(l) /\ k > i /\ u[k] = l[k]
        BY <1>1, <1>n, <2>3, <3>4, SMTT(30)
      <4>2. QED
        BY <2>2, <4>1
    <3>5. CASE i < j
      <4>1. /\ j \in 1 .. Len(l) /\ u[j] = l[j]
            /\ k \in 1 .. Len(l) /\ u[k] = l[k]
            /\ j < k
        BY <1>1, <1>n, <2>3, <3>5, SMTT(30)
      <4>2. QED
        BY <1>2, <4>1
    <3>6. QED
      BY <1>1, <1>2, <2>3, <3>1, <3>2, <3>3, <3>4, <3>5, SMTT(30)
  <2>4. \A j \in 1 .. Len(u) : End(u[j]) <= MAX_LBA_NUM
    BY <1>1, <1>2
  <2>5. QED
    BY <1>1, <2>3, <2>4 DEF Good
<1>4. ASSUME NEW b \in Int
      PROVE  Covers(u, b) <=> (Covers(l, b) /\ ~In(b, l[i])) \/ In(b, e)
  <2>1. ASSUME NEW j \in 1 .. Len(l), j # i, In(b, l[i]), In(b, l[j]) PROVE FALSE
    <3>1. /\ End(l[i]) \in Nat /\ End(l[j]) \in Nat
          /\ l[i].start_lba \in Nat /\ l[j].start_lba \in Nat
          /\ i < j => End(l[i]) < l[j].start_lba
          /\ j < i => End(l[j]) < l[i].start_lba
      BY GoodFacts
    <3>2. i < j \/ j < i
      BY <2>1, SMTT(30)
    <3>3. QED
      BY <2>1, <3>1, <3>2, SMTT(30) DEF In
  <2>2. QED
    BY <1>1, <1>2, <2>1 DEF Covers
<1>5. QED
  BY <1>3, <1>4 DEF u

----------------------------------------------------------------------------
\* mark_used_blk takes the first n blocks of the entry and nothing else.
LEMMA MarkUsedBlk ==
    ASSUME NEW l, Good(l), NEW i \in 1 .. Len(l),
           NEW n \in Nat \ {0}, n <= l[i].lba_count
    PROVE  /\ Good(mark_used_blk(l, i, n))
           /\ \A b \in Int : Covers(mark_used_blk(l, i, n), b)
                              <=> Covers(l, b) /\ b \notin Blocks(l[i].start_lba, n)
<1> DEFINE e == Ent(l[i].start_lba + n, l[i].lba_count - n)
<1>1. /\ l[i].start_lba \in Nat /\ l[i].lba_count \in Nat \ {0}
      /\ End(l[i]) = l[i].start_lba + l[i].lba_count
  BY GoodFacts, EntFacts DEF End
<1>2. \A b \in Int : In(b, l[i]) => Covers(l, b)
  BY DEF Covers
<1>3. CASE n < l[i].lba_count
  <2>1. /\ e \in freelist_ent
        /\ e.start_lba = l[i].start_lba + n
        /\ End(e) = End(l[i])
    <3> DEFINE a == l[i].start_lba
               c == l[i].lba_count
    <3>1. a \in Nat /\ c \in Nat /\ n < c
      BY <1>1, <1>3
    <3> HIDE DEF a, c
    <3>2. a + n \in Nat /\ c - n \in Nat \ {0} /\ (a + n) + (c - n) = a + c
      BY <3>1, SMTT(30)
    <3>3. LET t == Ent(a + n, c - n)
          IN  t \in freelist_ent /\ t.start_lba = a + n /\ End(t) = a + c
      BY <3>2, EntIs
    <3>4. QED
      BY <1>1, <3>3 DEF a, c
  <2> HIDE DEF e
  <2>2. FitsAfter(l, i - 1, e) /\ FitsBefore(l, i + 1, e) /\ End(e) <= MAX_LBA_NUM
    <3>1. l[i].start_lba <= e.start_lba /\ End(e) <= End(l[i])
      BY <1>1, <2>1, SMTT(30)
    <3>2. QED
      BY <2>1, <3>1, ShrinkFits
  <2>3. /\ Good([l EXCEPT ![i] = e])
        /\ \A b \in Int : Covers([l EXCEPT ![i] = e], b)
                           <=> (Covers(l, b) /\ ~In(b, l[i])) \/ In(b, e)
    BY <2>1, <2>2, ReplaceGood
  <2>4. \A b \in Int : In(b, e) <=> In(b, l[i]) /\ b \notin Blocks(l[i].start_lba, n)
    BY <1>1, <1>3, <2>1, SMTT(30) DEF In, Blocks
  <2>5. \A b \in Int : b \in Blocks(l[i].start_lba, n) => In(b, l[i])
    BY <1>1, <1>3, SMTT(30) DEF In, Blocks
  <2>6. mark_used_blk(l, i, n) = [l EXCEPT ![i] = e]
    BY <1>3 DEF mark_used_blk, e
  <2>7. QED
    BY <1>2, <2>3, <2>4, <2>5, <2>6
<1>4. CASE n = l[i].lba_count
  <2>1. mark_used_blk(l, i, n) = Unlink(l, i)
    BY <1>1, <1>4, SMTT(30) DEF mark_used_blk
  <2>2. \A b \in Int : In(b, l[i]) <=> b \in Blocks(l[i].start_lba, n)
    BY <1>1, <1>4, SMTT(30) DEF In, Blocks
  <2>3. QED
    BY <2>1, <2>2, UnlinkGood, SMTT(30)
<1>5. QED
  BY <1>1, <1>3, <1>4, SMTT(30)

\* get_blk returns -1 and changes nothing when every entry is too small, and
\* takes its blocks from the first large enough entry otherwise.
LEMMA GetBlkCases ==
    ASSUME NEW l, Good(l), NEW n \in Nat \ {0}
    PROVE  \/ /\ \A i \in 1 .. Len(l) : l[i].lba_count < n
              /\ get_blk(l, n) = [ret |-> -1, fl |-> l]
           \/ \E i \in 1 .. Len(l) :
                 /\ IsFirstFit(l, i, n)
                 /\ get_blk(l, n) = [ret |-> l[i].start_lba,
                                     fl |-> mark_used_blk(l, i, n)]
<1>1. Len(l) \in Nat /\ \A i \in 1 .. Len(l) : l[i].lba_count \in Nat
  BY GoodFacts, EntFacts
<1> DEFINE T == {i \in 1 .. Len(l) : l[i].lba_count >= n}
<1>2. CASE T = {}
  <2>1. \A i \in 1 .. Len(l) : l[i].lba_count < n
    BY <1>1, <1>2, SMTT(30)
  <2>2. ~ \E i \in 1 .. Len(l) : IsFirstFit(l, i, n)
    BY <1>2 DEF IsFirstFit
  <2>3. QED
    BY <2>1, <2>2 DEF get_blk
<1>3. CASE T # {}
  <2>1. T \in SUBSET Nat
    BY <1>1, SMTT(30)
  <2>2. PICK x \in T : \A y \in T : x <= y
    <3> HIDE DEF T
    <3>1. QED
      BY <1>3, <2>1, LeastNat
  <2>3. IsFirstFit(l, x, n)
    BY <1>1, <2>2, SMTT(30) DEF IsFirstFit
  <2>4. \E i \in 1 .. Len(l) : IsFirstFit(l, i, n)
    BY <2>3
  <2> DEFINE c == CHOOSE k \in 1 .. Len(l) : IsFirstFit(l, k, n)
  <2>5. c \in 1 .. Len(l) /\ IsFirstFit(l, c, n)
    BY <2>4
  <2>6. get_blk(l, n) = [ret |-> l[c].start_lba, fl |-> mark_used_blk(l, c, n)]
    BY <2>4 DEF get_blk
  <2>7. QED
    BY <2>5, <2>6
<1>4. QED
  BY <1>2, <1>3

\* Contiguous free blocks lie in one entry, because entries do not touch.
LEMMA OneEntry ==
    ASSUME NEW l, Good(l), NEW lba \in Nat, NEW n \in Nat \ {0},
           \A b \in Blocks(lba, n) : Covers(l, b)
    PROVE  \E i \in 1 .. Len(l) : l[i].start_lba <= lba /\ lba + n <= End(l[i])
<1>1. lba \in Blocks(lba, n)
  BY SMTT(30) DEF Blocks
<1>2. PICK i \in 1 .. Len(l) : In(lba, l[i])
  BY <1>1 DEF Covers
<1>3. l[i].start_lba \in Nat /\ End(l[i]) \in Nat
  BY GoodFacts
<1>4. ASSUME End(l[i]) < lba + n PROVE FALSE
  <2>1. End(l[i]) \in Blocks(lba, n)
    BY <1>2, <1>3, <1>4, SMTT(30) DEF In, Blocks
  <2>2. PICK j \in 1 .. Len(l) : In(End(l[i]), l[j])
    BY <2>1 DEF Covers
  <2>3. /\ l[j].start_lba \in Nat /\ End(l[j]) \in Nat
        /\ i < j => End(l[i]) < l[j].start_lba
        /\ j < i => End(l[j]) < l[i].start_lba
        /\ i = j \/ i < j \/ j < i
    BY GoodFacts, SMTT(30)
  <2>4. QED
    BY <1>2, <1>3, <2>2, <2>3, SMTT(30) DEF In
<1>5. QED
  BY <1>2, <1>3, <1>4, SMTT(30) DEF In

\* alloc_block reserves any free range: its walk stops at the entry that holds
\* the range, the assert passes, and the range is all that leaves the list.
LEMMA AllocBlockWorks ==
    ASSUME NEW l, Good(l), NEW lba \in Nat, NEW n \in Nat \ {0},
           \A b \in Blocks(lba, n) : Covers(l, b)
    PROVE  /\ alloc_block(l, lba, n).ok
           /\ Good(alloc_block(l, lba, n).fl)
           /\ \A b \in Int : Covers(alloc_block(l, lba, n).fl, b)
                              <=> Covers(l, b) /\ b \notin Blocks(lba, n)
<1>1. PICK h \in 1 .. Len(l) : l[h].start_lba <= lba /\ lba + n <= End(l[h])
  BY OneEntry
<1>2. \A j \in 1 .. Len(l) : j # h => ~(l[j].start_lba <= lba /\ End(l[j]) > lba)
  <2>1. ASSUME NEW j \in 1 .. Len(l), j # h
        PROVE  ~(l[j].start_lba <= lba /\ End(l[j]) > lba)
    <3>1. /\ l[j].start_lba \in Nat /\ End(l[j]) \in Nat
          /\ l[h].start_lba \in Nat /\ End(l[h]) \in Nat
          /\ End(l[h]) < l[j].start_lba \/ End(l[j]) < l[h].start_lba
      BY <2>1, GoodFacts, SMTT(30)
    <3>2. QED
      BY <1>1, <3>1, SMTT(30)
  <2>2. QED
    BY <2>1
<1>3. /\ Len(l) \in Nat /\ l[h] \in freelist_ent
      /\ l[h].start_lba \in Nat /\ l[h].lba_count \in Nat \ {0}
      /\ End(l[h]) = l[h].start_lba + l[h].lba_count
      /\ End(l[h]) <= MAX_LBA_NUM
  BY GoodFacts, EntFacts DEF End
<1>4. IsHome(l, h, lba)
  <2>1. End(l[h]) > lba
    BY <1>1, <1>3, SMTT(30)
  <2>2. \A j \in 1 .. (h - 1) : j \in 1 .. Len(l) /\ j # h
    BY <1>3, SMTT(30)
  <2>3. QED
    BY <1>1, <1>2, <2>1, <2>2 DEF IsHome
<1>5. \A k \in 1 .. Len(l) : IsHome(l, k, lba) => k = h
  BY <1>1, <1>2, <1>3, SMTT(30) DEF IsHome
<1>6. (CHOOSE k \in 1 .. Len(l) : IsHome(l, k, lba)) = h
  BY <1>4, <1>5
<1>7. l # << >>
  BY <1>3, SMTT(30)
<1>8. \A b \in Int : In(b, l[h]) => Covers(l, b)
  BY DEF Covers
<1> DEFINE r == alloc_block(l, lba, n)
<1>r. r = reserve(l, h, lba, n)
  BY <1>6, <1>7 DEF alloc_block
<1> HIDE DEF r
<1>g. SUFFICES /\ r.ok
               /\ Good(r.fl)
               /\ \A b \in Int : Covers(r.fl, b)
                                  <=> Covers(l, b) /\ b \notin Blocks(lba, n)
  BY DEF r
<1>9. CASE l[h].start_lba = lba
  <2>1. r = Done(mark_used_blk(l, h, n))
    BY <1>1, <1>3, <1>9, <1>r, SMTT(30) DEF reserve
  <2>2. QED
    BY <1>1, <1>3, <1>9, <2>1, MarkUsedBlk, SMTT(30) DEF Done
<1>10. CASE l[h].start_lba < lba /\ End(l[h]) = lba + n
  <2> DEFINE e == Ent(l[h].start_lba, l[h].lba_count - n)
  <2>1. r = Done([l EXCEPT ![h] = e])
    BY <1>1, <1>3, <1>10, <1>r, SMTT(30) DEF reserve
  <2>2. /\ e \in freelist_ent
        /\ e.start_lba = l[h].start_lba
        /\ End(e) = lba
    <3> DEFINE a == l[h].start_lba
               c == l[h].lba_count
    <3>1. a \in Nat /\ c \in Nat /\ a < lba /\ a + c = lba + n
      BY <1>3, <1>10
    <3> HIDE DEF a, c
    <3>2. c - n \in Nat \ {0} /\ a + (c - n) = lba
      BY <3>1, SMTT(30)
    <3>3. LET t == Ent(a, c - n)
          IN  t \in freelist_ent /\ t.start_lba = a /\ End(t) = lba
      BY <3>1, <3>2, EntIs
    <3>4. QED
      BY <3>3 DEF a, c
  <2> HIDE DEF e
  <2>3. FitsAfter(l, h - 1, e) /\ FitsBefore(l, h + 1, e) /\ End(e) <= MAX_LBA_NUM
    <3>1. /\ e \in freelist_ent /\ l[h].start_lba <= e.start_lba
          /\ End(e) <= End(l[h])
      BY <1>1, <1>3, <1>10, <2>2, SMTT(30)
    <3>2. QED
      BY <3>1, ShrinkFits
  <2>4. /\ Good([l EXCEPT ![h] = e])
        /\ \A b \in Int : Covers([l EXCEPT ![h] = e], b)
                           <=> (Covers(l, b) /\ ~In(b, l[h])) \/ In(b, e)
    BY <2>2, <2>3, ReplaceGood
  <2>5. \A b \in Int : /\ In(b, e) <=> In(b, l[h]) /\ b \notin Blocks(lba, n)
                       /\ b \in Blocks(lba, n) => In(b, l[h])
    BY <1>3, <1>10, <2>2, SMTT(30) DEF In, Blocks
  <2>6. QED
    BY <1>8, <2>1, <2>4, <2>5 DEF Done
<1>11. CASE l[h].start_lba < lba /\ lba + n < End(l[h])
  <2> DEFINE e == Ent(l[h].start_lba, lba - l[h].start_lba)
             f == Ent(lba + n, l[h].lba_count - n - (lba - l[h].start_lba))
             m == [l EXCEPT ![h] = e]
  <2>1. r = Done(Link(m, h + 1, f))
    BY <1>1, <1>3, <1>11, <1>r, SMTT(30) DEF reserve
  <2>2. /\ e \in freelist_ent /\ e.start_lba = l[h].start_lba /\ End(e) = lba
        /\ f \in freelist_ent /\ f.start_lba = lba + n /\ End(f) = End(l[h])
    <3> DEFINE a == l[h].start_lba
               c == l[h].lba_count
    <3>1. a \in Nat /\ c \in Nat /\ a < lba /\ lba + n < a + c
      BY <1>3, <1>11
    <3> HIDE DEF a, c
    <3>2. /\ lba - a \in Nat \ {0} /\ a + (lba - a) = lba
          /\ lba + n \in Nat /\ c - n - (lba - a) \in Nat \ {0}
          /\ (lba + n) + (c - n - (lba - a)) = a + c
      BY <3>1, SMTT(30)
    <3>3. /\ Ent(a, lba - a) \in freelist_ent
          /\ Ent(a, lba - a).start_lba = a /\ End(Ent(a, lba - a)) = lba
      BY <3>1, <3>2, EntIs
    <3>4. LET t == Ent(lba + n, c - n - (lba - a))
          IN  t \in freelist_ent /\ t.start_lba = lba + n /\ End(t) = a + c
      BY <3>2, EntIs
    <3>5. QED
      BY <1>3, <3>3, <3>4 DEF a, c
  <2> HIDE DEF e, f
  <2>3. FitsAfter(l, h - 1, e) /\ FitsBefore(l, h + 1, e) /\ End(e) <= MAX_LBA_NUM
    <3>1. /\ e \in freelist_ent /\ l[h].start_lba <= e.start_lba
          /\ End(e) <= End(l[h])
      BY <1>1, <1>3, <1>11, <2>2, SMTT(30)
    <3>2. QED
      BY <3>1, ShrinkFits
  <2>4. /\ Good(m)
        /\ \A b \in Int : Covers(m, b) <=> (Covers(l, b) /\ ~In(b, l[h])) \/ In(b, e)
    BY <2>2, <2>3, ReplaceGood
  <2>5. /\ Len(m) = Len(l) /\ m[h] = e
        /\ h + 1 \in 1 .. Len(l) => m[h + 1] = l[h + 1]
    BY <1>3, GoodFacts, SMTT(30)
  <2> HIDE DEF m
  <2>6. /\ FitsAfter(m, (h + 1) - 1, f) /\ FitsBefore(m, h + 1, f)
        /\ End(f) <= MAX_LBA_NUM
    BY <1>3, <2>2, <2>5, GoodFacts, SMTT(30) DEF FitsAfter, FitsBefore
  <2>7. /\ Good(Link(m, h + 1, f))
        /\ \A b \in Int : Covers(Link(m, h + 1, f), b) <=> Covers(m, b) \/ In(b, f)
    <3>1. h + 1 \in 1 .. (Len(m) + 1)
      BY <1>3, <2>5, GoodFacts, SMTT(30)
    <3>2. QED
      BY <2>2, <2>4, <2>6, <3>1, LinkGood
  <2>8. \A b \in Int :
          /\ In(b, e) \/ In(b, f) <=> In(b, l[h]) /\ b \notin Blocks(lba, n)
          /\ b \in Blocks(lba, n) => In(b, l[h])
    BY <1>3, <1>11, <2>2, SMTT(30) DEF In, Blocks
  <2>9. QED
    BY <1>8, <2>1, <2>4, <2>7, <2>8 DEF Done
<1>12. QED
  BY <1>1, <1>3, <1>9, <1>10, <1>11, SMTT(30)

\* Merging n blocks into the entry that ends where they start.
LEMMA JoinPrev ==
    ASSUME NEW l, Good(l), NEW p \in 1 .. Len(l), p + 1 \in 1 .. Len(l),
           NEW lba \in Nat, NEW n \in Nat \ {0},
           End(l[p]) = lba, lba + n < l[p + 1].start_lba
    PROVE  /\ Good(coalesce_blks(l, p, lba, n))
           /\ \A b \in Int : Covers(coalesce_blks(l, p, lba, n), b)
                              <=> Covers(l, b) \/ b \in Blocks(lba, n)
<1> DEFINE e == Ent(l[p].start_lba, l[p].lba_count + n)
<1>1. /\ l[p].start_lba \in Nat /\ l[p].lba_count \in Nat \ {0}
      /\ l[p].start_lba + l[p].lba_count = lba
      /\ l[p + 1].start_lba \in Nat /\ End(l[p + 1]) \in Nat
      /\ l[p + 1].start_lba < End(l[p + 1]) /\ End(l[p + 1]) <= MAX_LBA_NUM
  BY GoodFacts, EntFacts DEF End
<1>2. coalesce_blks(l, p, lba, n) = [l EXCEPT ![p] = e]
  <2>1. ~(lba < l[p].start_lba)
    BY <1>1, SMTT(30)
  <2>2. QED
    BY <2>1 DEF coalesce_blks
<1>3. e \in freelist_ent /\ e.start_lba = l[p].start_lba /\ End(e) = lba + n
  <2>1. l[p].lba_count + n \in Nat \ {0}
    BY <1>1, SMTT(30)
  <2>2. /\ e \in freelist_ent /\ e.start_lba = l[p].start_lba
        /\ End(e) = l[p].start_lba + (l[p].lba_count + n)
    BY <1>1, <2>1, EntIs
  <2>3. l[p].start_lba + (l[p].lba_count + n) = lba + n
    BY <1>1, SMTT(30)
  <2>4. QED
    BY <2>2, <2>3
<1> HIDE DEF e
<1>4. FitsAfter(l, p - 1, e) /\ FitsBefore(l, p + 1, e) /\ End(e) <= MAX_LBA_NUM
  BY <1>1, <1>3, Neighbours, MaxLbaAssumption, SMTT(30) DEF FitsAfter, FitsBefore
<1>5. /\ Good([l EXCEPT ![p] = e])
      /\ \A b \in Int : Covers([l EXCEPT ![p] = e], b)
                         <=> (Covers(l, b) /\ ~In(b, l[p])) \/ In(b, e)
  BY <1>3, <1>4, ReplaceGood
<1>6. \A b \in Int : /\ In(b, e) <=> In(b, l[p]) \/ b \in Blocks(lba, n)
                     /\ In(b, l[p]) => Covers(l, b)
  BY <1>1, <1>3, SMTT(30) DEF In, Blocks, Covers
<1>7. QED
  BY <1>2, <1>5, <1>6

\* Merging n blocks into the entry that starts where they end.
LEMMA JoinNext ==
    ASSUME NEW l, Good(l), NEW i \in 1 .. Len(l),
           NEW lba \in Nat, NEW n \in Nat \ {0},
           lba + n = l[i].start_lba,
           i - 1 \in 1 .. Len(l) => End(l[i - 1]) < lba
    PROVE  /\ Good(coalesce_blks(l, i, lba, n))
           /\ \A b \in Int : Covers(coalesce_blks(l, i, lba, n), b)
                              <=> Covers(l, b) \/ b \in Blocks(lba, n)
<1> DEFINE e == Ent(lba, l[i].lba_count + n)
<1>1. /\ l[i].start_lba \in Nat /\ l[i].lba_count \in Nat \ {0}
      /\ End(l[i]) = l[i].start_lba + l[i].lba_count
      /\ End(l[i]) <= MAX_LBA_NUM
  BY GoodFacts, EntFacts DEF End
<1>2. coalesce_blks(l, i, lba, n) = [l EXCEPT ![i] = e]
  <2>1. lba < l[i].start_lba
    BY <1>1, SMTT(30)
  <2>2. QED
    BY <2>1 DEF coalesce_blks
<1>3. e \in freelist_ent /\ e.start_lba = lba /\ End(e) = End(l[i])
  <2>1. l[i].lba_count + n \in Nat \ {0}
    BY <1>1, SMTT(30)
  <2>2. /\ e \in freelist_ent /\ e.start_lba = lba
        /\ End(e) = lba + (l[i].lba_count + n)
    BY <2>1, EntIs
  <2>3. lba + (l[i].lba_count + n) = l[i].start_lba + l[i].lba_count
    BY <1>1, SMTT(30)
  <2>4. QED
    BY <1>1, <2>2, <2>3
<1> HIDE DEF e
<1>4. FitsAfter(l, i - 1, e) /\ FitsBefore(l, i + 1, e) /\ End(e) <= MAX_LBA_NUM
  BY <1>1, <1>3, Neighbours DEF FitsAfter, FitsBefore
<1>5. /\ Good([l EXCEPT ![i] = e])
      /\ \A b \in Int : Covers([l EXCEPT ![i] = e], b)
                         <=> (Covers(l, b) /\ ~In(b, l[i])) \/ In(b, e)
  BY <1>3, <1>4, ReplaceGood
<1>6. \A b \in Int : /\ In(b, e) <=> In(b, l[i]) \/ b \in Blocks(lba, n)
                     /\ In(b, l[i]) => Covers(l, b)
  BY <1>1, <1>3, SMTT(30) DEF In, Blocks, Covers
<1>7. QED
  BY <1>2, <1>5, <1>6

\* Double-ended coalescing: n blocks that fill the gap between two entries.
LEMMA JoinBoth ==
    ASSUME NEW l, Good(l), NEW p \in 1 .. Len(l), p + 1 \in 1 .. Len(l),
           NEW lba \in Nat, NEW n \in Nat \ {0},
           End(l[p]) = lba, lba + n = l[p + 1].start_lba
    PROVE  LET m == coalesce_entries(coalesce_blks(l, p, lba, n), p)
           IN  /\ Good(m)
               /\ \A b \in Int : Covers(m, b) <=> Covers(l, b) \/ b \in Blocks(lba, n)
<1> DEFINE q == p + 1
           g == Ent(l[p].start_lba, l[p].lba_count + n + l[q].lba_count)
           u == Unlink(l, q)
           v == [u EXCEPT ![p] = g]
           w == [l EXCEPT ![p] = g]
<1>1. /\ l[p].start_lba \in Nat /\ l[p].lba_count \in Nat \ {0}
      /\ l[q].start_lba \in Nat /\ l[q].lba_count \in Nat \ {0}
      /\ l[p].start_lba + l[p].lba_count = lba
      /\ End(l[q]) = l[q].start_lba + l[q].lba_count
      /\ End(l[q]) <= MAX_LBA_NUM
  BY GoodFacts, EntFacts DEF End
<1>0. l \in Seq(freelist_ent) /\ Len(l) \in Nat /\ q \in 1 .. Len(l)
  BY GoodFacts
<1>2. coalesce_entries(coalesce_blks(l, p, lba, n), p) = Unlink(w, q)
  <2>1. coalesce_blks(l, p, lba, n)
          = [l EXCEPT ![p] = Ent(l[p].start_lba, l[p].lba_count + n)]
    <3>1. ~(lba < l[p].start_lba)
      BY <1>1, SMTT(30)
    <3>2. QED
      BY <3>1 DEF coalesce_blks
  <2> DEFINE m == [l EXCEPT ![p] = Ent(l[p].start_lba, l[p].lba_count + n)]
  <2>2. /\ m[p] = Ent(l[p].start_lba, l[p].lba_count + n) /\ m[q] = l[q]
        /\ [m EXCEPT ![p] = g] = w
    <3>1. p \in DOMAIN l /\ q \in DOMAIN l /\ p # q
      BY <1>0, SMTT(30)
    <3>2. QED
      BY <1>0, <3>1
  <2>3. /\ m[p].start_lba = l[p].start_lba
        /\ m[p].lba_count = l[p].lba_count + n
    BY <2>2, SMTT(30) DEF Ent
  <2> HIDE DEF m, w
  <2>4. coalesce_entries(m, p)
          = Unlink([m EXCEPT ![p] = Ent(m[p].start_lba,
                                        m[p].lba_count + m[q].lba_count)], q)
    BY DEF coalesce_entries
  <2>5. QED
    BY <2>1, <2>2, <2>3, <2>4 DEF m
<1>3. /\ g \in freelist_ent /\ g.start_lba = l[p].start_lba
      /\ End(g) = End(l[q])
  <2>0. l[q].start_lba = lba + n
    OBVIOUS
  <2>1. /\ l[p].lba_count + n + l[q].lba_count \in Nat \ {0}
        /\ l[p].start_lba + (l[p].lba_count + n + l[q].lba_count)
             = l[q].start_lba + l[q].lba_count
    <3> DEFINE a == l[p].start_lba
               c == l[p].lba_count
               d == l[q].lba_count
    <3>1. a \in Nat /\ c \in Nat \ {0} /\ d \in Nat \ {0} /\ a + c = lba
      BY <1>1
    <3> HIDE DEF a, c, d
    <3>2. c + n + d \in Nat \ {0} /\ a + (c + n + d) = (lba + n) + d
      BY <3>1, SMTT(30)
    <3>3. QED
      BY <2>0, <3>2 DEF a, c, d
  <2>2. /\ g \in freelist_ent /\ g.start_lba = l[p].start_lba
        /\ End(g) = l[p].start_lba + (l[p].lba_count + n + l[q].lba_count)
    <3> DEFINE a == l[p].start_lba
               c == l[p].lba_count + n + l[q].lba_count
    <3>1. a \in Nat /\ c \in Nat \ {0}
      BY <1>1, <2>1
    <3> HIDE DEF a, c
    <3>2. /\ Ent(a, c) \in freelist_ent /\ Ent(a, c).start_lba = a
          /\ End(Ent(a, c)) = a + c
      BY <3>1, EntIs
    <3>3. QED
      BY <3>2 DEF a, c
  <2>3. QED
    BY <1>1, <2>1, <2>2
<1> HIDE DEF g
<1>4. /\ Good(u)
      /\ \A b \in Int : Covers(u, b) <=> Covers(l, b) /\ ~In(b, l[q])
  BY UnlinkGood
<1>5. /\ u \in Seq(freelist_ent) /\ Len(u) = Len(l) - 1
      /\ \A j \in 1 .. (Len(l) - 1) : u[j] = IF j < q THEN l[j] ELSE l[j + 1]
  BY <1>0, UnlinkProperties
<1>6. p \in 1 .. Len(u) /\ u[p] = l[p]
  BY <1>0, <1>5, SMTT(30)
<1>7. Unlink(w, q) = v
  <2>1. /\ w \in Seq(freelist_ent) /\ Len(w) = Len(l)
        /\ \A j \in 1 .. Len(l) : w[j] = IF j = p THEN g ELSE l[j]
    BY <1>0, <1>3, SMTT(30)
  <2>2. /\ v \in Seq(freelist_ent) /\ Len(v) = Len(l) - 1
        /\ \A j \in 1 .. (Len(l) - 1) : v[j] = IF j = p THEN g ELSE u[j]
    BY <1>3, <1>5, <1>6, SMTT(30)
  <2> HIDE DEF w, v, u
  <2>3. /\ Unlink(w, q) \in Seq(freelist_ent) /\ Len(Unlink(w, q)) = Len(l) - 1
        /\ \A j \in 1 .. (Len(l) - 1) :
              Unlink(w, q)[j] = IF j < q THEN w[j] ELSE w[j + 1]
    <3>1. q \in 1 .. Len(w)
      BY <1>0, <2>1
    <3>2. QED
      BY <2>1, <3>1, UnlinkProperties
  <2>4. ASSUME NEW j \in 1 .. (Len(l) - 1) PROVE Unlink(w, q)[j] = v[j]
    <3>1. CASE j < q
      <4>1. j \in 1 .. Len(l)
        BY <1>0, SMTT(30)
      <4>2. QED
        BY <1>5, <2>1, <2>2, <2>3, <3>1, <4>1
    <3>2. CASE j >= q
      <4>1. j + 1 \in 1 .. Len(l) /\ j + 1 # p /\ j # p
        BY <1>0, <3>2, SMTT(30)
      <4>3. ~(j < q)
        BY <1>0, <3>2, SMTT(30)
      <4>2. QED
        BY <1>5, <2>1, <2>2, <2>3, <4>1, <4>3
    <3>3. QED
      BY <1>0, <3>1, <3>2, SMTT(30)
  <2>5. QED
    BY <2>2, <2>3, <2>4, SMTT(30)
<1>8. FitsAfter(u, p - 1, g) /\ FitsBefore(u, p + 1, g) /\ End(g) <= MAX_LBA_NUM
  <2>1. FitsAfter(u, p - 1, g)
    BY <1>3, <1>4, <1>6, Neighbours DEF FitsAfter
  <2>2. ASSUME p + 1 \in 1 .. Len(u) PROVE End(g) < u[p + 1].start_lba
    <3>1. u[p + 1] = l[q + 1] /\ q + 1 \in 1 .. Len(l)
      <4> HIDE DEF u, v, w
      <4>1. q \in 1 .. (Len(l) - 1) /\ ~(q < q) /\ q + 1 \in 1 .. Len(l)
        BY <1>0, <1>5, <2>2, SMTT(30)
      <4>2. u[q] = l[q + 1]
        <5> HIDE DEF q
        <5>1. QED
          BY <1>5, <4>1
      <4>3. QED
        BY <4>1, <4>2
    <3>2. End(l[q]) < l[q + 1].start_lba
      <4> HIDE DEF q, u
      <4>1. QED
        BY <1>0, <3>1, Neighbours
    <3>3. QED
      BY <1>3, <3>1, <3>2
  <2>3. QED
    BY <1>1, <1>3, <2>1, <2>2 DEF FitsBefore
<1>9. /\ Good(v)
      /\ \A b \in Int : Covers(v, b) <=> (Covers(u, b) /\ ~In(b, u[p])) \/ In(b, g)
  <2> HIDE DEF u
  <2>1. QED
    BY <1>3, <1>4, <1>6, <1>8, ReplaceGood
<1>10. \A b \in Int :
          /\ In(b, g) <=> In(b, l[p]) \/ In(b, l[q]) \/ b \in Blocks(lba, n)
          /\ In(b, l[p]) \/ In(b, l[q]) => Covers(l, b)
  <2>1. l[q].start_lba = lba + n /\ End(l[p]) = lba
    BY <1>1
  <2> HIDE DEF q
  <2>2. ASSUME NEW b \in Int
        PROVE  In(b, g) <=> In(b, l[p]) \/ In(b, l[q]) \/ b \in Blocks(lba, n)
    <3> DEFINE a == l[p].start_lba
               z == End(l[q])
    <3>1. a \in Nat /\ z \in Nat /\ a < lba /\ lba + n < z
      <4> DEFINE c == l[p].lba_count
                 d == l[q].lba_count
      <4>1. /\ a \in Nat /\ c \in Nat \ {0} /\ a + c = lba
            /\ d \in Nat \ {0} /\ z = (lba + n) + d
        BY <1>1, <2>1
      <4> HIDE DEF a, c, d, z
      <4>2. QED
        BY <4>1, SMTT(30)
    <3>2. In(b, g) <=> a <= b /\ b < z
      BY <1>3 DEF In
    <3>3. In(b, l[p]) <=> a <= b /\ b < lba
      BY <2>1 DEF In
    <3>4. In(b, l[q]) <=> lba + n <= b /\ b < z
      BY <2>1 DEF In
    <3>5. b \in Blocks(lba, n) <=> lba <= b /\ b < lba + n
      BY SMTT(30) DEF Blocks
    <3> HIDE DEF a, z
    <3>6. QED
      BY <3>1, <3>2, <3>3, <3>4, <3>5, SMTT(30)
  <2>3. \A b \in Int : In(b, l[p]) \/ In(b, l[q]) => Covers(l, b)
    BY <1>0 DEF Covers
  <2>4. QED
    BY <2>2, <2>3
<1>11. QED
  <2> HIDE DEF u, v, w
  <2>1. QED
    BY <1>2, <1>4, <1>6, <1>7, <1>9, <1>10

\* free_blk gives back blocks that are not free: it dies when no free entry lies
\* above them, and otherwise merges them with every entry they touch.
LEMMA FreeBlkWorks ==
    ASSUME NEW l, Good(l), NEW lba \in Nat, NEW n \in Nat \ {0},
           lba + n <= MAX_LBA_NUM,
           \A b \in Blocks(lba, n) : ~Covers(l, b)
    PROVE  LET r == free_blk(l, lba, n)
           IN  \/ /\ ~r.ok /\ r.fl = l
                  /\ \A b \in Int : Covers(l, b) => b < lba
               \/ /\ r.ok /\ Good(r.fl)
                  /\ \A b \in Int : Covers(r.fl, b)
                                     <=> Covers(l, b) \/ b \in Blocks(lba, n)
<1> DEFINE r == free_blk(l, lba, n)
<1>1. /\ Len(l) \in Nat
      /\ \A j \in 1 .. Len(l) :
            /\ l[j] \in freelist_ent
            /\ l[j].start_lba \in Nat
            /\ End(l[j]) \in Nat
            /\ l[j].start_lba < End(l[j])
            /\ End(l[j]) <= MAX_LBA_NUM
      /\ \A j, k \in 1 .. Len(l) : j < k => End(l[j]) < l[k].start_lba
  BY GoodFacts
<1>2. ASSUME NEW j \in 1 .. Len(l)
      PROVE  End(l[j]) <= lba \/ lba + n <= l[j].start_lba
  <2>1. ASSUME lba < End(l[j]), l[j].start_lba < lba + n PROVE FALSE
    <3>1. CASE l[j].start_lba <= lba
      BY <1>1, <2>1, <3>1, SMTT(30) DEF Covers, In, Blocks
    <3>2. CASE lba < l[j].start_lba
      <4>1. l[j].start_lba \in Blocks(lba, n) /\ In(l[j].start_lba, l[j])
        BY <1>1, <2>1, <3>2, SMTT(30) DEF In, Blocks
      <4>2. QED
        BY <4>1 DEF Covers
    <3>3. QED
      BY <1>1, <3>1, <3>2, SMTT(30)
  <2>2. QED
    BY <1>1, <2>1, SMTT(30)
<1> DEFINE T == {i \in 1 .. Len(l) : lba < l[i].start_lba}
<1>3. CASE T = {}
  <2>1. ~ \E i \in 1 .. Len(l) : IsAbove(l, i, lba)
    BY <1>3 DEF IsAbove
  <2>2. r = Died(l)
    BY <2>1 DEF free_blk
  <2>3. ASSUME NEW b \in Int, Covers(l, b) PROVE b < lba
    <3>1. PICK j \in 1 .. Len(l) : In(b, l[j])
      BY <2>3 DEF Covers
    <3>2. End(l[j]) <= lba
      BY <1>1, <1>2, <1>3, SMTT(30)
    <3>3. QED
      BY <1>1, <3>1, <3>2, SMTT(30) DEF In
  <2>4. QED
    BY <2>2, <2>3, SMTT(30) DEF Died
<1>4. CASE T # {}
  <2>1. PICK x \in T : \A y \in T : x <= y
    <3>1. T \in SUBSET Nat
      BY <1>1, SMTT(30)
    <3> HIDE DEF T
    <3>2. QED
      BY <1>4, <3>1, LeastNat
  <2>2. x \in 1 .. Len(l) /\ lba + n <= l[x].start_lba
    BY <1>1, <1>2, <2>1, SMTT(30)
  <2>0. Len(l) \in Nat /\ l[x].start_lba \in Nat
    BY <1>1, <2>2
  <2>3. \A j \in 1 .. (x - 1) : End(l[j]) <= lba
    <3>1. ASSUME NEW j \in 1 .. (x - 1) PROVE End(l[j]) <= lba
      <4>1. j \in 1 .. Len(l) /\ j \notin T
        BY <1>1, <2>1, <2>2, SMTT(30)
      <4>2. QED
        BY <1>1, <1>2, <4>1, SMTT(30)
    <3>2. QED
      BY <3>1
  <2>4. IsAbove(l, x, lba)
    BY <1>1, <2>1, <2>2, <2>3, SMTT(30) DEF IsAbove
  <2>5. \A k \in 1 .. Len(l) : IsAbove(l, k, lba) => k = x
    BY <1>1, <2>1, <2>2, <2>4, SMTT(30) DEF IsAbove
  <2>6. (CHOOSE k \in 1 .. Len(l) : IsAbove(l, k, lba)) = x
    BY <2>4, <2>5, <2>2
  <2>7. ~(lba >= MAX_LBA_NUM \/ ~ \E i \in 1 .. Len(l) : IsAbove(l, i, lba))
    BY <2>2, <2>4, MaxLbaAssumption, SMTT(30)
  <2>r. r = give_back(l, x, lba, n)
    BY <2>6, <2>7 DEF free_blk
  <2> HIDE DEF r
  <2>g. SUFFICES /\ r.ok /\ Good(r.fl)
                 /\ \A b \in Int : Covers(r.fl, b)
                                    <=> Covers(l, b) \/ b \in Blocks(lba, n)
    BY DEF r
  <2> DEFINE jp == x > 1 /\ End(l[x - 1]) = lba
             ji == lba + n = l[x].start_lba
  <2>8. /\ ~(x > 1 /\ End(l[x - 1]) = l[x].start_lba)
        /\ x = 1 \/ l[x - 1].start_lba < lba
    <3>1. CASE x > 1
      <4>1. x - 1 \in 1 .. (x - 1) /\ x - 1 \in 1 .. Len(l) /\ x - 1 < x
        BY <1>1, <2>2, <3>1, SMTT(30)
      <4>2. /\ End(l[x - 1]) <= lba /\ End(l[x - 1]) < l[x].start_lba
            /\ l[x - 1].start_lba < End(l[x - 1])
            /\ l[x - 1].start_lba \in Nat /\ End(l[x - 1]) \in Nat
            /\ l[x].start_lba \in Nat
        BY <1>1, <2>2, <2>3, <4>1
      <4>3. QED
        BY <4>2, SMTT(30)
    <3>2. QED
      BY <1>1, <2>2, <3>1, SMTT(30)
  <2>9. CASE ~jp /\ ~ji
    <3> DEFINE e == Ent(lba, n)
    <3>1. r = Done(Link(l, x, e))
      BY <2>8, <2>9, <2>r DEF give_back
    <3>2. e \in freelist_ent /\ e.start_lba = lba /\ End(e) = lba + n
      BY DEF Ent, freelist_ent, End
    <3> HIDE DEF e
    <3>a. FitsAfter(l, x - 1, e)
      <4>1. ASSUME x - 1 \in 1 .. Len(l)
            PROVE  End(l[x - 1]) <= lba /\ End(l[x - 1]) # lba /\ End(l[x - 1]) \in Nat
        BY <1>1, <2>2, <2>3, <2>9, <4>1, SMTT(30)
      <4>2. QED
        BY <3>2, <4>1, SMTT(30) DEF FitsAfter
    <3>3. FitsBefore(l, x, e) /\ End(e) <= MAX_LBA_NUM
      <4>1. lba + n < l[x].start_lba
        BY <2>0, <2>2, <2>9, SMTT(30)
      <4>2. QED
        BY <3>2, <4>1 DEF FitsBefore
    <3>4. /\ Good(Link(l, x, e))
          /\ \A b \in Int : Covers(Link(l, x, e), b) <=> Covers(l, b) \/ In(b, e)
      <4>1. x \in 1 .. (Len(l) + 1)
        BY <1>1, <2>2, SMTT(30)
      <4>2. QED
        BY <3>a, <3>2, <3>3, <4>1, LinkGood
    <3>5. \A b \in Int : In(b, e) <=> b \in Blocks(lba, n)
      BY <3>2, SMTT(30) DEF In, Blocks
    <3>6. QED
      BY <3>1, <3>4, <3>5 DEF Done
  <2>10. CASE jp /\ ~ji
    <3>1. r = Done(coalesce_blks(l, x - 1, lba, n))
      BY <2>10, <2>r DEF give_back
    <3>2. /\ x - 1 \in 1 .. Len(l) /\ (x - 1) + 1 = x
          /\ lba + n < l[x].start_lba
      <4>1. x - 1 \in 1 .. Len(l) /\ (x - 1) + 1 = x
        BY <2>0, <2>2, <2>10, SMTT(30)
      <4>2. lba + n < l[x].start_lba
        BY <2>0, <2>2, <2>10, SMTT(30)
      <4>3. QED
        BY <4>1, <4>2
    <3> DEFINE y == x - 1
    <3>3. /\ y \in 1 .. Len(l) /\ y + 1 \in 1 .. Len(l)
          /\ End(l[y]) = lba /\ lba + n < l[y + 1].start_lba
      BY <2>2, <2>10, <3>2
    <3> HIDE DEF T, y
    <3>4. /\ Good(coalesce_blks(l, y, lba, n))
          /\ \A b \in Int : Covers(coalesce_blks(l, y, lba, n), b)
                             <=> Covers(l, b) \/ b \in Blocks(lba, n)
      BY <3>3, JoinPrev
    <3>5. QED
      BY <3>1, <3>4 DEF Done, y
  <2>11. CASE jp /\ ji
    <3>1. r = Done(coalesce_entries(coalesce_blks(l, x - 1, lba, n), x - 1))
      BY <2>11, <2>r DEF give_back
    <3>2. x - 1 \in 1 .. Len(l) /\ (x - 1) + 1 = x
      BY <2>0, <2>2, <2>11, SMTT(30)
    <3> DEFINE y == x - 1
    <3>3. /\ y \in 1 .. Len(l) /\ y + 1 \in 1 .. Len(l)
          /\ End(l[y]) = lba /\ lba + n = l[y + 1].start_lba
      BY <2>2, <2>11, <3>2
    <3> DEFINE m == coalesce_entries(coalesce_blks(l, y, lba, n), y)
    <3> HIDE DEF T, y
    <3>4. /\ Good(m)
          /\ \A b \in Int : Covers(m, b) <=> Covers(l, b) \/ b \in Blocks(lba, n)
      BY <3>3, JoinBoth
    <3>5. QED
      BY <3>1, <3>4 DEF Done, y
  <2>13. CASE ~jp /\ ji
    <3>1. r = Done(coalesce_blks(l, x, lba, n))
      BY <2>13, <2>r DEF give_back
    <3>2. ASSUME x - 1 \in 1 .. Len(l)
          PROVE  End(l[x - 1]) < lba
      <4>1. End(l[x - 1]) <= lba /\ End(l[x - 1]) # lba /\ End(l[x - 1]) \in Nat
        BY <1>1, <2>2, <2>3, <2>13, <3>2, SMTT(30)
      <4>2. QED
        BY <4>1, SMTT(30)
    <3>3. QED
      BY <2>2, <2>13, <3>1, <3>2, JoinNext DEF Done
  <2>12. QED
    BY <2>9, <2>10, <2>11, <2>13
<1>5. QED
  BY <1>3, <1>4

\* FreeBlocks is Covers, restricted to the device, where a good list lies.
LEMMA FreeBlocksCovers ==
    ASSUME NEW l, Good(l)
    PROVE  \A b \in Int : b \in FreeBlocks(l) <=> Covers(l, b)
<1>1. ASSUME NEW b \in Int, Covers(l, b) PROVE b \in 0 .. (MAX_LBA_NUM - 1)
  <2>1. PICK i \in 1 .. Len(l) : In(b, l[i])
    BY <1>1 DEF Covers
  <2>2. l[i].start_lba \in Nat /\ End(l[i]) \in Nat /\ End(l[i]) <= MAX_LBA_NUM
    BY GoodFacts
  <2>3. QED
    BY <2>1, <2>2, MaxLbaAssumption, SMTT(30) DEF In
<1>2. QED
  BY <1>1 DEF FreeBlocks, Covers, In

\* get_blk returns the start of a free range, and the block in front of it is
\* in use; without such a range it returns -1 and leaves the list alone.
LEMMA GetBlkRange ==
    ASSUME NEW l, Good(l), NEW n \in Nat \ {0}
    PROVE  LET r == get_blk(l, n)
           IN  \/ r.ret = -1 /\ r.fl = l
               \/ /\ r.ret \in Nat /\ r.ret + n <= MAX_LBA_NUM
                  /\ Good(r.fl)
                  /\ \A b \in Blocks(r.ret, n) : Covers(l, b)
                  /\ \A b \in Int : Covers(r.fl, b)
                                     <=> Covers(l, b) /\ b \notin Blocks(r.ret, n)
                  /\ ~Covers(l, r.ret - 1)
<1> DEFINE r == get_blk(l, n)
<1>1. CASE r = [ret |-> -1, fl |-> l]
  BY <1>1, SMTT(30)
<1>2. ASSUME NEW i \in 1 .. Len(l), IsFirstFit(l, i, n),
             r = [ret |-> l[i].start_lba, fl |-> mark_used_blk(l, i, n)]
      PROVE  /\ r.ret \in Nat /\ r.ret + n <= MAX_LBA_NUM
             /\ Good(r.fl)
             /\ \A b \in Blocks(r.ret, n) : Covers(l, b)
             /\ \A b \in Int : Covers(r.fl, b)
                                <=> Covers(l, b) /\ b \notin Blocks(r.ret, n)
             /\ ~Covers(l, r.ret - 1)
  <2>1. r.ret = l[i].start_lba /\ r.fl = mark_used_blk(l, i, n)
    BY <1>2, SMTT(30)
  <2> HIDE DEF r
  <2>2. /\ l[i] \in freelist_ent /\ l[i].start_lba \in Nat
        /\ l[i].lba_count \in Nat \ {0}
        /\ End(l[i]) = l[i].start_lba + l[i].lba_count
        /\ End(l[i]) <= MAX_LBA_NUM
        /\ Len(l) \in Nat
    BY GoodFacts, EntFacts DEF End
  <2>3. n <= l[i].lba_count
    BY <1>2, <2>2 DEF IsFirstFit
  <2>4. Good(r.fl) /\ \A b \in Int : Covers(r.fl, b)
                                <=> Covers(l, b) /\ b \notin Blocks(r.ret, n)
    BY <2>1, <2>3, MarkUsedBlk, SMTT(30)
  <2>5. ASSUME NEW b \in Blocks(r.ret, n) PROVE Covers(l, b)
    <3>1. In(b, l[i])
      BY <2>1, <2>2, <2>3, SMTT(30) DEF Blocks, In
    <3>2. QED
      BY <3>1 DEF Covers
  <2>6. ASSUME NEW j \in 1 .. Len(l), In(r.ret - 1, l[j]) PROVE FALSE
    <3>1. /\ l[j].start_lba \in Nat /\ End(l[j]) \in Nat
          /\ \A k \in 1 .. Len(l) : (k < j => End(l[k]) < l[j].start_lba)
                                  /\ (j < k => End(l[j]) < l[k].start_lba)
      BY GoodFacts
    <3>2. CASE j < i
      BY <2>1, <2>2, <2>6, <3>1, <3>2, SMTT(30) DEF In
    <3>3. CASE j = i
      BY <2>1, <2>2, <2>6, <3>1, <3>3, SMTT(30) DEF In
    <3>4. CASE i < j
      BY <2>1, <2>2, <2>6, <3>1, <3>4, SMTT(30) DEF In
    <3>5. QED
      BY <2>2, <3>2, <3>3, <3>4, SMTT(30)
  <2>7. MAX_LBA_NUM \in Nat
    BY MaxLbaAssumption
  <2>8. r.ret + n <= MAX_LBA_NUM
    BY <2>1, <2>2, <2>3, <2>7, SMTT(30)
  <2>9. QED
    BY <2>1, <2>2, <2>4, <2>5, <2>6, <2>8 DEF Covers
<1>3. QED
  BY <1>1, <1>2, GetBlkCases

\* freelist_init offers the whole device.
LEMMA InitCovers ==
    /\ Good(freelist_init)
    /\ \A b \in Int : Covers(freelist_init, b) <=> b \in 0 .. (MAX_LBA_NUM - 1)
<1> DEFINE e == Ent(0, MAX_LBA_NUM)
<1>1. e \in freelist_ent /\ e.start_lba = 0 /\ End(e) = MAX_LBA_NUM
  BY MaxLbaAssumption, EntIs, SMTT(30)
<1>2. freelist_init = <<e>>
  BY DEF freelist_init
<1> HIDE DEF e
<1>3. /\ freelist_init \in Seq(freelist_ent) /\ Len(freelist_init) = 1
      /\ freelist_init[1] = e
  BY <1>1, <1>2, SMTT(30)
<1>4. Good(freelist_init)
  BY <1>1, <1>3, MaxLbaAssumption, SMTT(30) DEF Good
<1>5. ASSUME NEW b \in Int
      PROVE  Covers(freelist_init, b) <=> b \in 0 .. (MAX_LBA_NUM - 1)
  BY <1>1, <1>3, MaxLbaAssumption, SMTT(30) DEF Covers, In
<1>6. QED
  BY <1>4, <1>5
=============================================================================
