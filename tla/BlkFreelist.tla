---------------------------- MODULE BlkFreelist ----------------------------
(***************************************************************************)
(* The block free list of the key-value store (dp/core/blk_freelist.c).    *)
(*                                                                         *)
(* A free list is the linked list of struct freelist_ent, written as a     *)
(* sequence of [start_lba, lba_count] records in list order.  Every        *)
(* function of the file is an operator from a list to its outcome:         *)
(*   fl : the list the call leaves behind,                                 *)
(*   ok : FALSE when the call kills the process (a failed assert, or a     *)
(*        read through a NULL pointer, which the list walks do not guard). *)
(***************************************************************************)
EXTENDS Integers, Sequences

CONSTANT MAX_LBA_NUM    \* number of blocks of the device

ASSUME MaxLbaAssumption == MAX_LBA_NUM \in Nat \ {0}

\* The blocks lba, ..., lba + n - 1.
Blocks(lba, n) == lba .. (lba + n - 1)

freelist_ent == [start_lba : Nat, lba_count : Nat \ {0}]

Ent(lba, n) == [start_lba |-> lba, lba_count |-> n]

\* First block after an entry.
End(e) == e.start_lba + e.lba_count

Done(l) == [fl |-> l, ok |-> TRUE]
Died(l) == [fl |-> l, ok |-> FALSE]

\* Unlink entry i; link a new entry in front of entry i.
Unlink(l, i) == SubSeq(l, 1, i - 1) \o SubSeq(l, i + 1, Len(l))
Link(l, i, e) == SubSeq(l, 1, i - 1) \o <<e>> \o SubSeq(l, i, Len(l))

----------------------------------------------------------------------------
freelist_init == << Ent(0, MAX_LBA_NUM) >>

\* Take the first n blocks of entry i, which goes away when they are all of it.
mark_used_blk(l, i, n) ==
    IF n < l[i].lba_count
    THEN [l EXCEPT ![i] = Ent(l[i].start_lba + n, l[i].lba_count - n)]
    ELSE Unlink(l, i)

\* Mutant: an entry of exactly n blocks is passed over.
IsLooseFit(l, i, n) ==
    /\ i \in 1 .. Len(l)
    /\ l[i].lba_count > n
    /\ \A j \in 1 .. (i - 1) : l[j].lba_count <= n

\* First fit: every entry in front of i is too small for n blocks.
IsFirstFit(l, i, n) ==
    /\ i \in 1 .. Len(l)
    /\ l[i].lba_count >= n
    /\ \A j \in 1 .. (i - 1) : l[j].lba_count < n

\* ret is -1, and the list unchanged, when no entry is large enough.
get_blk(l, n) ==
    IF \E i \in 1 .. Len(l) : IsFirstFit(l, i, n)
    THEN LET i == CHOOSE k \in 1 .. Len(l) : IsFirstFit(l, k, n)
         IN  [ret |-> l[i].start_lba, fl |-> mark_used_blk(l, i, n)]
    ELSE [ret |-> -1, fl |-> l]

\* The entry alloc_block stops at: the first that holds lba, else the last.
IsHome(l, i, lba) ==
    LET holds(k) == l[k].start_lba <= lba /\ End(l[k]) > lba
    IN  /\ i \in 1 .. Len(l)
        /\ \A j \in 1 .. (i - 1) : ~holds(j)
        /\ holds(i) \/ i = Len(l)

\* Mutant: the assert also refuses the end of the entry.
reserve_StrictAssert(l, i, lba, n) ==
    LET e == l[i]
    IN  CASE End(e) <= lba + n -> Died(l)
          [] e.start_lba = lba /\ End(e) > lba + n -> Done(mark_used_blk(l, i, n))
          [] OTHER ->
               Done(Link([l EXCEPT ![i] = Ent(e.start_lba, lba - e.start_lba)],
                         i + 1,
                         Ent(lba + n, e.lba_count - n - (lba - e.start_lba))))

\* Reserve n blocks from lba on in entry i.  Blocks below that entry pass the
\* assert and leave counts that wrapped: no use of the list means anything
\* after that, and the model ends there too.
reserve(l, i, lba, n) ==
    LET e == l[i]
    IN  CASE End(e) < lba + n \/ lba < e.start_lba -> Died(l)
          [] e.start_lba = lba /\ End(e) >= lba + n ->
               Done(mark_used_blk(l, i, n))
          [] e.start_lba < lba /\ End(e) = lba + n ->
               Done([l EXCEPT ![i] = Ent(e.start_lba, e.lba_count - n)])
          [] OTHER ->
               Done(Link([l EXCEPT ![i] = Ent(e.start_lba, lba - e.start_lba)],
                         i + 1,
                         Ent(lba + n, e.lba_count - n - (lba - e.start_lba))))

\* Reserve blocks that the start-up scan found in use.
alloc_block(l, lba, n) ==
    IF l = << >>
    THEN Died(l)
    ELSE reserve(l, CHOOSE k \in 1 .. Len(l) : IsHome(l, k, lba), lba, n)

\* free_blk's `iter': the first entry that starts above lba.
IsAbove(l, i, lba) ==
    /\ i \in 1 .. Len(l)
    /\ lba < l[i].start_lba
    /\ \A j \in 1 .. (i - 1) : l[j].start_lba <= lba

\* coalesce_blks: entry i grows by n blocks at its end or at its start.
coalesce_blks(l, i, lba, n) ==
    [l EXCEPT ![i] = Ent(IF lba < l[i].start_lba THEN lba ELSE l[i].start_lba,
                         l[i].lba_count + n)]

\* coalesce_entries: entry i takes over the blocks of entry i + 1.
coalesce_entries(l, i) ==
    Unlink([l EXCEPT ![i] = Ent(l[i].start_lba, l[i].lba_count + l[i+1].lba_count)],
           i + 1)

\* Mutant: blocks that join both neighbours are merged into the lower one only.
give_back_OneSided(l, i, lba, n) ==
    CASE i > 1 /\ End(l[i-1]) = lba -> Done(coalesce_blks(l, i - 1, lba, n))
      [] ~(i > 1 /\ End(l[i-1]) = lba) /\ lba + n = l[i].start_lba ->
           Done(coalesce_blks(l, i, lba, n))
      [] OTHER -> Done(Link(l, i, Ent(lba, n)))

\* Give n blocks from lba on back between prev, entry i - 1, and entry i.  The
\* last two cases differ only on a list with touching entries, where the new
\* entry trips the assert of coalesce_entries, or on blocks that are free
\* already (not linked).
give_back(l, i, lba, n) ==
    LET joinsPrev == i > 1 /\ End(l[i-1]) = lba
        joinsIter == lba + n = l[i].start_lba
        touching  == i > 1 /\ End(l[i-1]) = l[i].start_lba
        linked    == i = 1 \/ l[i-1].start_lba < lba
    IN  CASE joinsPrev /\ joinsIter ->
               Done(coalesce_entries(coalesce_blks(l, i - 1, lba, n), i - 1))
          [] joinsPrev /\ ~joinsIter ->
               Done(coalesce_blks(l, i - 1, lba, n))
          [] ~joinsPrev /\ joinsIter ->
               Done(coalesce_blks(l, i, lba, n))
          [] ~joinsPrev /\ ~joinsIter /\ ~touching ->
               Done(IF linked THEN Link(l, i, Ent(lba, n)) ELSE l)
          [] OTHER ->
               IF linked THEN Died(l) ELSE Done(coalesce_entries(l, i - 1))

\* `iter' is read on every path, so a list without an entry above lba is a
\* NULL pointer read.
free_blk(l, lba, n) ==
    IF lba >= MAX_LBA_NUM \/ ~\E i \in 1 .. Len(l) : IsAbove(l, i, lba)
    THEN Died(l)
    ELSE give_back(l, CHOOSE k \in 1 .. Len(l) : IsAbove(l, k, lba), lba, n)

----------------------------------------------------------------------------
\* The blocks a list offers.
FreeBlocks(l) ==
    {b \in 0 .. (MAX_LBA_NUM - 1) :
        \E i \in 1 .. Len(l) : l[i].start_lba <= b /\ b < End(l[i])}

\* A list that is sorted, coalesced and on the device.
Good(l) ==
    /\ l \in Seq(freelist_ent)
    /\ \A i, j \in 1 .. Len(l) : i < j => End(l[i]) < l[j].start_lba
    /\ \A i \in 1 .. Len(l) : End(l[i]) <= MAX_LBA_NUM

\* Block b is in entry e; list l offers block b.
In(b, e) == e.start_lba <= b /\ b < End(e)
Covers(l, b) == \E i \in 1 .. Len(l) : In(b, l[i])
=============================================================================
