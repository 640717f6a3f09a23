-------------------------- MODULE BlkFreelistSpec --------------------------
(***************************************************************************)
(* The free list and its callers.  `held' is what the callers may use: the *)
(* blocks reserved by alloc_block or returned by get_blk and not yet given *)
(* to free_blk.  The callers keep the contract of blk.h: they reserve only *)
(* blocks that are free, before the first get_blk, and free only blocks    *)
(* they hold, in pieces of any size (a batch is allocated as one range and *)
(* its entries are freed one by one).                                      *)
(***************************************************************************)
EXTENDS BlkFreelist

CONSTANT MaxBlks    \* largest range a caller asks for

ASSUME MaxBlksAssumption == MaxBlks \in Nat \ {0}

VARIABLES
    freelist,   \* the list
    held,       \* the blocks in the callers' hands
    phase,      \* "scan" during index_init, "run" after it, "dead"
    last        \* result of the last get_blk: [lba, n], [-1, n] when it failed

vars == <<freelist, held, phase, last>>

All == 0 .. (MAX_LBA_NUM - 1)
None == [lba |-> -1, n |-> 0]

Init ==
    /\ freelist = freelist_init
    /\ held = {}
    /\ phase = "scan"
    /\ last = None

\* init_cb reserves the blocks of a record that it found on the device.
AllocBlock(lba, n) ==
    /\ phase = "scan"
    /\ Blocks(lba, n) \subseteq All \ held
    /\ LET r == alloc_block(freelist, lba, n)
       IN  /\ freelist' = r.fl
           /\ held' = IF r.ok THEN held \cup Blocks(lba, n) ELSE held
           /\ phase' = IF r.ok THEN "scan" ELSE "dead"
    /\ UNCHANGED last

ScanDone ==
    /\ phase = "scan"
    /\ phase' = "run"
    /\ UNCHANGED <<freelist, held, last>>

GetBlk(n) ==
    /\ phase = "run"
    /\ LET r == get_blk(freelist, n)
       IN  /\ freelist' = r.fl
           /\ held' = IF r.ret = -1 THEN held ELSE held \cup Blocks(r.ret, n)
           /\ last' = [lba |-> r.ret, n |-> n]
    /\ UNCHANGED phase

\* update_index frees the old record of a key, during the scan and after it.
FreeBlk(lba, n) ==
    /\ phase # "dead"
    /\ Blocks(lba, n) \subseteq held
    /\ LET r == free_blk(freelist, lba, n)
       IN  /\ freelist' = r.fl
           /\ held' = IF r.ok THEN held \ Blocks(lba, n) ELSE held
           /\ phase' = IF r.ok THEN phase ELSE "dead"
    /\ UNCHANGED last

\* The process stops, for whatever reason, and starts again: blkio_init_cpu.
Restart ==
    /\ freelist' = freelist_init
    /\ held' = {}
    /\ phase' = "scan"
    /\ last' = None

Next ==
    \/ \E lba \in All, n \in 1 .. MaxBlks : AllocBlock(lba, n)
    \/ ScanDone
    \/ \E n \in 1 .. MaxBlks : GetBlk(n)
    \/ \E lba \in All, n \in 1 .. MaxBlks : FreeBlk(lba, n)
    \/ Restart

Spec == Init /\ [][Next]_vars

----------------------------------------------------------------------------
TypeOK ==
    /\ freelist \in Seq(freelist_ent)
    /\ held \in SUBSET All
    /\ phase \in {"scan", "run", "dead"}
    /\ last \in [lba : Int, n : Nat]

\* The list is in ascending order, its entries lie on the device, and between
\* two of them there is at least one block in use: freed neighbours were
\* merged (free_blk's insertion point and its double-ended coalescing).
Coalesced ==
    /\ \A i, j \in 1 .. Len(freelist) :
          i < j => End(freelist[i]) < freelist[j].start_lba
    /\ \A i \in 1 .. Len(freelist) : End(freelist[i]) <= MAX_LBA_NUM

\* No block is lost and none is handed out twice: the blocks on the list are
\* exactly the blocks no caller holds, whatever the order of alloc_block,
\* get_blk and free_blk calls and whatever pieces come back.
FreeIsNotHeld == FreeBlocks(freelist) = All \ held

\* get_blk fails only for want of space: as long as n contiguous blocks are
\* free somewhere, some single entry of the list offers them.
FitsIffFree ==
    \A n \in 1 .. MaxBlks :
        (\E i \in 1 .. Len(freelist) : freelist[i].lba_count >= n)
            <=> (\E lba \in All : Blocks(lba, n) \subseteq All \ held)

\* The list is exact: sorted, coalesced, and just what nobody holds, so that
\* get_blk fails only for want of space.
FreeListExact == TypeOK /\ Coalesced /\ FreeIsNotHeld /\ FitsIffFree

\* get_blk is first fit by address: the range it returns was free, and no
\* range of that length at a lower address was.
LowestFit ==
    [][\A n \in 1 .. MaxBlks :
          GetBlk(n) /\ last'.lba # -1 =>
             /\ Blocks(last'.lba, n) \subseteq All \ held
             /\ \A lba \in All :
                   Blocks(lba, n) \subseteq All \ held => last'.lba <= lba]_vars

\* A caller that keeps the contract can kill the process in one way only:
\* free_blk of blocks above the last free entry.
DiesOnlyAtTheTop ==
    [][phase # "dead" /\ phase' = "dead" =>
          \E lba \in All, n \in 1 .. MaxBlks :
             FreeBlk(lba, n) /\ \A b \in All \ held : b < lba]_vars
=============================================================================
