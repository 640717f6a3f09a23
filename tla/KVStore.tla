------------------------------ MODULE KVStore ------------------------------
(***************************************************************************)
(* The key-value store of one CPU: the batch of puts (dp/core/io.c), the   *)
(* hash index and its recovery scan (dp/core/blk_index.c), the free list   *)
(* (BlkFreelist) and the memory-backed device (dp/core/dummy_dev.c).       *)
(*                                                                         *)
(* A value is named by the number of the put that wrote it; that number    *)
(* also stands for the CRC of the value.  A block of the device is its     *)
(* first META_SZ bytes (`meta': an index entry, or NoMeta when they do not *)
(* start with METAMAGIC) and the rest (`data': a piece of a value).        *)
(***************************************************************************)
EXTENDS BlkFreelist, FiniteSetsExt

CONSTANTS
    Keys,
    Bucket,         \* key -> hashkey(key) % MAX_ENTRIES
    Prefix,         \* {<<k, s>>}: k is a proper prefix of s
    LBA_SIZE, META_SZ,
    Lens,           \* value lengths, in bytes
    MaxReadBlks,    \* MBUF_DATA_LEN / LBA_SIZE
    VersionMod,     \* 2^16
    Junk,           \* what malloc may leave in a new entry's lba
    Window,         \* puts an application has in flight
    FaultTimers,    \* timers that may be pending when a dispatch faults
    MaxPuts, MaxTimers, MaxFaults, MaxCrashes       \* bounds

ASSUME KVAssumption ==
    /\ LBA_SIZE \in Nat /\ META_SZ \in 1 .. (LBA_SIZE - 1)
    /\ Lens \subseteq Nat \ {0}
    /\ Bucket \in [Keys -> Nat]
    /\ \A q \in Prefix : q[1] \in Keys /\ q[2] \in Keys /\ q[1] # q[2]

VARIABLES
    dev,        \* the device: it outlives the process
    indx,       \* the chain of every bucket
    freelist,
    batch,      \* currbatch: entries of puts that are not acknowledged
    timers,     \* write-completion timers that have not fired
    status,     \* "up", "scan" (index_init), "dead" or "fault"
    blks_read,  \* position of the scan
    puts,       \* puts so far
    faults, crashes

vars == <<dev, indx, freelist, batch, timers, status, blks_read, puts, faults, crashes>>

All == 0 .. (MAX_LBA_NUM - 1)
DATA_SZ == LBA_SIZE - META_SZ
CALC_NUMBLKS(b) ==
    IF b > DATA_SZ THEN 1 + ((b - DATA_SZ) + LBA_SIZE - 1) \div LBA_SIZE ELSE 1

index_ent == [key : Keys, lba : Int, val_len : Nat, crc : 1 .. MaxPuts, version : Nat]
Extent(e) == Blocks(e.lba, CALC_NUMBLKS(e.val_len))

NoMeta == [key |-> "none"]
Zero == <<0, 0>>
Piece(e, j) == <<e.crc, j>>

----------------------------------------------------------------------------
\* The place of the first, or of the last, element of s that passes the test; 0
\* if none does.
FirstWhere(s, Test(_)) ==
    LET I == {i \in 1 .. Len(s) : Test(s[i])} IN IF I # {} THEN Min(I) ELSE 0

LastWhere(s, Test(_)) ==
    LET I == {i \in 1 .. Len(s) : Test(s[i])} IN IF I # {} THEN Max(I) ELSE 0

\* op over the elements of s, from the first to the last.
InOrder(op(_, _), base, s) ==
    MapThenFoldSet(LAMBDA x, acc : op(acc, x), base, LAMBDA i : s[i], Max, DOMAIN s)

----------------------------------------------------------------------------
(* The index: dp/core/blk_index.c.                                         *)

\* strncmp(stored, key, strlen(key)) = 0
Matches(stored, key) == stored = key \/ <<key, stored>> \in Prefix

\* The place of the first entry of the chain that matches, 0 if none does.
Lookup(chain, key) ==
    FirstWhere(chain, LAMBDA e : Matches(e.key, key))

\* A set of at most one entry: the empty set is NULL.
key_lookup(ix, key) ==
    LET chain == ix[Bucket[key]]
        i == Lookup(chain, key)
    IN  IF i = 0 THEN {} ELSE {chain[i]}

get_version(ix, key) ==
    IF key_lookup(ix, key) = {} THEN 0
    ELSE (CHOOSE e \in key_lookup(ix, key) : TRUE).version

new_index_ent(ix, key, len, id, lba) ==
    [key |-> key, lba |-> lba, val_len |-> len, crc |-> id,
     version |-> (get_version(ix, key) + 1) % VersionMod]

\* Mutant: the blocks of the old entry are not freed.
update_index_NoFree(st, meta) ==
    LET b == Bucket[meta.key]
        i == Lookup(st.ix[b], meta.key)
    IN  IF i = 0 THEN [st EXCEPT !.ix[b] = Append(@, meta)]
        ELSE [st EXCEPT !.ix[b][i] = meta]

\* st is [ix, fl, ok]: replace the entry that matches and free its blocks, or
\* append to the chain.
update_index(st, meta) ==
    LET b == Bucket[meta.key]
        chain == st.ix[b]
        i == Lookup(chain, meta.key)
        old == chain[i]
        r == free_blk(st.fl, old.lba, CALC_NUMBLKS(old.val_len))
    IN  CASE ~st.ok -> st
          [] st.ok /\ i = 0 -> [st EXCEPT !.ix[b] = Append(chain, meta)]
          [] OTHER -> [ix |-> [st.ix EXCEPT ![b][i] = meta], fl |-> r.fl, ok |-> r.ok]

----------------------------------------------------------------------------
(* Writing a batch: dp/core/io.c and dummy_dev_writev.                     *)

\* The entry that put number id adds to the batch; malloc left p.lba in it.
bsys_io_write(p, id) == new_index_ent(indx, p.key, p.len, id, p.lba)

NumBlks(b) == InOrder(LAMBDA n, e : n + CALC_NUMBLKS(e.val_len), 0, b)

\* The loop that hands the allocated range out to the entries of the batch.
AssignLbas(b, startlba) ==
    [i \in 1 .. Len(b) |->
        [b[i] EXCEPT !.lba = startlba + NumBlks(SubSeq(b, 1, i - 1))]]

\* startlba has moved on to the last entry of the batch when the batch is
\* handed to the device.
WriteLba(b, startlba) == startlba + NumBlks(SubSeq(b, 1, Len(b) - 1))

numzeros(len) ==
    IF len <= DATA_SZ THEN DATA_SZ - len
    ELSE LBA_SIZE - ((len - DATA_SZ) % LBA_SIZE)

\* The blocks filled by the three scatter-gather entries of a put.
PaddedBlks(len) == (META_SZ + len + numzeros(len)) \div LBA_SIZE

\* The scatter-gather entries of e, copied to block s on: the stores of each,
\* and `top', the block behind the bytes written so far.
SgEntries(e, s) ==
    LET n == CALC_NUMBLKS(e.val_len)
        m == PaddedBlks(e.val_len)
        store(blk, part, v) == [blk |-> blk, part |-> part, v |-> v]
    IN  << [top |-> s + 1, stores |-> << store(s, "meta", e) >>],
           [top |-> s + n,
            stores |-> << store(s, "data", Piece(e, 0)) >>
                       \o [j \in 1 .. (n - 1) |-> store(s + j, "both", Piece(e, j))]],
           [top |-> s + m,
            stores |-> [j \in 1 .. (m - n) |-> store(s + n + j - 1, "both", Zero)]] >>

Sg(b, s) ==
    InOrder(LAMBDA a, e : [at |-> a.at + PaddedBlks(e.val_len),
                           sg |-> a.sg \o SgEntries(e, a.at)],
            [at |-> s, sg |-> << >>], b).sg

\* dummy_dev_writev of n blocks at lba, up to the first scatter-gather entry
\* that trips the assert behind its memcpy.
Trips(b, lba, n) ==
    FirstWhere(Sg(b, lba), LAMBDA x : x.top > lba + n)

AllStores(sg) == InOrder(LAMBDA a, x : a \o x.stores, << >>, sg)

StoresOf(b, lba, n) ==
    LET sg == Sg(b, lba)
        t == Trips(b, lba, n)
    IN  AllStores(IF t = 0 THEN sg ELSE SubSeq(sg, 1, t))

\* Each part of a block is what the last store to it left there.
Apply(d, stores) ==
    [b \in All |->
        LET m == LastWhere(stores, LAMBDA x : x.blk = b /\ x.part # "data")
            v == LastWhere(stores, LAMBDA x : x.blk = b /\ x.part # "meta")
        IN  [meta |-> IF m = 0 THEN d[b].meta
                      ELSE IF stores[m].part = "meta" THEN stores[m].v ELSE NoMeta,
             data |-> IF v = 0 THEN d[b].data ELSE stores[v].v]]

\* bsys_io_write_flush: where the batch goes, and what reaches the device.
flush(b) ==
    LET n == NumBlks(b)
        r == get_blk(freelist, n)
        ents == AssignLbas(b, r.ret)
        lba == WriteLba(b, r.ret)
    IN  [ents |-> ents, fl |-> r.fl,
         stores |-> StoresOf(ents, lba, n),
         tripped |-> Trips(ents, lba, n) # 0]

InBounds(stores) == \A i \in 1 .. Len(stores) : stores[i].blk \in All

----------------------------------------------------------------------------
EmptyIndex == [b \in Range(Bucket) |-> << >>]
Blank == [meta |-> NoMeta, data |-> Zero]

\* The process is gone; only the device is left.
Gone(s) ==
    /\ status' = s
    /\ indx' = EmptyIndex
    /\ freelist' = freelist_init
    /\ batch' = << >>
    /\ timers' = 0
    /\ blks_read' = 0

Init ==
    /\ dev = [b \in All |-> Blank]
    /\ indx = EmptyIndex
    /\ freelist = freelist_init
    /\ batch = << >>
    /\ timers = 0
    /\ status = "scan"
    /\ blks_read = 0
    /\ puts = 0 /\ faults = 0 /\ crashes = 0

\* The puts of one bsys_dispatch call, and the batch they leave.
PutSeqs == UNION {[1 .. n -> [key : Keys, len : Lens, lba : Junk]] : n \in 0 .. Window}

Batched(ps) == batch \o [i \in 1 .. Len(ps) |-> bsys_io_write(ps[i], puts + i)]

TakePuts(ps) ==
    /\ status = "up"
    /\ Len(batch) + Len(ps) <= Window
    /\ puts + Len(ps) <= MaxPuts
    /\ puts' = puts + Len(ps)

\* Mutant: no completion timer.
ArmNoTimer == timers' = timers

\* dummy_dev_writev ends by arming the completion timer.
ArmTimer == timers' = timers + 1

\* bsys_dispatch: the batched system calls, then bsys_io_write_flush.  The
\* batch still holds the puts of earlier calls that are not acknowledged.
bsys_dispatch(ps) ==
    /\ TakePuts(ps)
    /\ Batched(ps) # << >> /\ timers < MaxTimers
    /\ LET f == flush(Batched(ps))
       IN  /\ InBounds(f.stores) /\ ~f.tripped
           /\ dev' = Apply(dev, f.stores)
           /\ freelist' = f.fl
           /\ batch' = f.ents
    /\ ArmTimer
    /\ UNCHANGED <<indx, status, blks_read, faults, crashes>>

\* A call without puts has nothing to flush.
DispatchNothing ==
    /\ status = "up" /\ batch = << >>
    /\ UNCHANGED vars

\* The assert of dummy_dev_writev fails.
DispatchTripsAssert(ps) ==
    /\ TakePuts(ps)
    /\ Batched(ps) # << >> /\ timers < MaxTimers
    /\ LET f == flush(Batched(ps))
       IN  /\ InBounds(f.stores) /\ f.tripped
           /\ dev' = Apply(dev, f.stores)
    /\ Gone("dead")
    /\ UNCHANGED <<faults, crashes>>

\* The batch is copied to an address outside the device's mapping: get_blk
\* returned -1, or the range moved past the end.  Undefined from here on.
DispatchOverruns(ps) ==
    /\ TakePuts(ps)
    /\ Batched(ps) # << >> /\ timers < MaxTimers
    /\ ~InBounds(flush(Batched(ps)).stores)
    /\ Gone("fault")
    /\ UNCHANGED <<dev, faults, crashes>>

\* A fault on a descriptor ends bsys_dispatch early: no flush.
DispatchFaults(ps) ==
    /\ TakePuts(ps)
    /\ ps # << >> /\ faults < MaxFaults /\ timers <= FaultTimers
    /\ faults' = faults + 1
    /\ batch' = Batched(ps)
    /\ UNCHANGED <<dev, indx, freelist, timers, status, blks_read, crashes>>

\* The process is killed in dummy_dev_writev, behind some of its stores.
KilledInFlush(ps) ==
    /\ TakePuts(ps)
    /\ Batched(ps) # << >> /\ timers < MaxTimers /\ crashes < MaxCrashes
    /\ LET f == flush(Batched(ps))
       IN  /\ InBounds(f.stores)
           /\ \E k \in 0 .. (Len(f.stores) - 1) : dev' = Apply(dev, SubSeq(f.stores, 1, k))
    /\ Gone("dead")
    /\ crashes' = crashes + 1
    /\ UNCHANGED faults

\* Mutant: the batch is indexed back to front.
IndexBatchReversed(b) ==
    InOrder(update_index, [ix |-> indx, fl |-> freelist, ok |-> TRUE],
            [i \in 1 .. Len(b) |-> b[Len(b) + 1 - i]])

IndexBatch(b) ==
    InOrder(update_index, [ix |-> indx, fl |-> freelist, ok |-> TRUE], b)

\* generic_io_handler: a completion timer fires; every put of the batch goes
\* into the index and is acknowledged, whichever flush the timer belongs to.
io_write_cb ==
    /\ status = "up" /\ timers > 0
    /\ LET st == IndexBatch(batch)
       IN  IF st.ok
           THEN /\ indx' = st.ix
                /\ freelist' = st.fl
                /\ batch' = << >>
                /\ timers' = timers - 1
                /\ UNCHANGED <<status, blks_read>>
           ELSE Gone("dead")
    /\ UNCHANGED <<dev, puts, faults, crashes>>

\* The value of e can be read back from block `at' on.
Reads(e, at) ==
    \A j \in 0 .. (CALC_NUMBLKS(e.val_len) - 1) :
        /\ at + j \in All
        /\ dev[at + j].data = Piece(e, j)
        /\ j > 0 => dev[at + j].meta = NoMeta

\* What bsys_io_read delivers: the number of the put it reads back, 0 for a
\* key that is not in the index, -1 for bytes no single put has written.
bsys_io_read(key) ==
    LET ent == key_lookup(indx, key)
        e == CHOOSE x \in ent : TRUE
    IN  IF ent = {} THEN 0
        ELSE IF Reads(e, e.lba) THEN e.crc ELSE -1

\* A get of a value that does not fit an mbuf fails an assert.
ReadTripsAssert(key) ==
    /\ status = "up"
    /\ \E e \in key_lookup(indx, key) : CALC_NUMBLKS(e.val_len) > MaxReadBlks
    /\ Gone("dead")
    /\ UNCHANGED <<dev, puts, faults, crashes>>

\* Mutant: the scan starts over at the end of the device.
AdvanceRound(n) ==
    /\ blks_read' = (blks_read + n) % MAX_LBA_NUM
    /\ UNCHANGED <<status, batch, timers>>

\* The scan moves on by n blocks, and ends with the device.
Advance(n) ==
    LET more == blks_read + n < MAX_LBA_NUM
    IN  /\ blks_read' = IF more THEN blks_read + n ELSE 0
        /\ status' = IF more THEN "scan" ELSE "up"
        /\ UNCHANGED <<batch, timers>>

\* Mutants: the record's blocks are not reserved, or are reserved before the
\* older record is freed.
AdoptUnreserved(ent) ==
    update_index([ix |-> indx, fl |-> freelist, ok |-> TRUE], ent)

AdoptReserveFirst(ent) ==
    LET al == alloc_block(freelist, ent.lba, CALC_NUMBLKS(ent.val_len))
    IN  update_index([ix |-> indx, fl |-> al.fl, ok |-> al.ok], ent)

\* The record is indexed first, which frees an older one, and reserved then.
Adopt(ent) ==
    LET up == update_index([ix |-> indx, fl |-> freelist, ok |-> TRUE], ent)
        al == alloc_block(up.fl, ent.lba, CALC_NUMBLKS(ent.val_len))
    IN  [ix |-> up.ix, fl |-> al.fl, ok |-> up.ok /\ al.ok]

\* init_cb on block blks_read: one turn of the loop of index_init.
SkipGarbage ==
    /\ status = "scan"
    /\ dev[blks_read].meta = NoMeta
    /\ Advance(1)
    /\ UNCHANGED <<dev, indx, freelist, puts, faults, crashes>>

\* Mutant: the CRC is not checked.
ScanRecordUnchecked(ent) ==
    LET stale == \E old \in key_lookup(indx, ent.key) : old.version >= ent.version
        st == Adopt(ent)
    IN  /\ IF stale THEN UNCHANGED <<indx, freelist>> ELSE indx' = st.ix /\ freelist' = st.fl
        /\ Advance(CALC_NUMBLKS(ent.val_len))

ScanRecord(ent) ==
    LET stale == \E old \in key_lookup(indx, ent.key) : old.version >= ent.version
        blks == CALC_NUMBLKS(ent.val_len)
        st == Adopt(ent)
    IN  \/ /\ stale \/ ~Reads(ent, blks_read)
           /\ Advance(blks)
           /\ UNCHANGED <<indx, freelist>>
        \/ /\ ~stale /\ Reads(ent, blks_read) /\ st.ok
           /\ Advance(blks)
           /\ indx' = st.ix
           /\ freelist' = st.fl
        \/ /\ ~stale /\ Reads(ent, blks_read) /\ ~st.ok
           /\ Gone("dead")

init_cb ==
    \/ SkipGarbage
    \/ /\ status = "scan"
       /\ dev[blks_read].meta # NoMeta
       /\ ScanRecord(dev[blks_read].meta)
       /\ UNCHANGED <<dev, puts, faults, crashes>>

Crash ==
    /\ status \in {"up", "scan"} /\ crashes < MaxCrashes
    /\ crashes' = crashes + 1
    /\ Gone("dead")
    /\ UNCHANGED <<dev, puts, faults>>

\* blkio_init_cpu: freelist_init, then index_init from block 0.
blkio_init_cpu ==
    /\ status = "dead"
    /\ status' = "scan"
    /\ UNCHANGED <<dev, indx, freelist, batch, timers, blks_read, puts, faults, crashes>>

\* Nothing is known of a process that wrote outside the device.
Undefined ==
    /\ status = "fault"
    /\ UNCHANGED vars

Next ==
    \/ \E ps \in PutSeqs :
          \/ bsys_dispatch(ps)
          \/ DispatchTripsAssert(ps)
          \/ DispatchOverruns(ps)
          \/ DispatchFaults(ps)
          \/ KilledInFlush(ps)
    \/ DispatchNothing
    \/ io_write_cb
    \/ \E key \in Keys : ReadTripsAssert(key)
    \/ init_cb
    \/ Crash
    \/ blkio_init_cpu
    \/ Undefined

Spec == Init /\ [][Next]_vars

\* Weak fairness of io_write_cb, because the poll loop runs the timer wheel on
\* every turn, and of init_cb, because index_init is a plain loop.  Their
\* guards are spelled out instead of ENABLED, which is slow to evaluate here:
\* every step of either changes `vars'.
FairSpec ==
    /\ Spec
    /\ <>[](status = "up" /\ timers > 0) => []<><<io_write_cb>>_vars
    /\ <>[](status = "scan") => []<><<init_cb>>_vars

----------------------------------------------------------------------------
Entries == UNION {Range(indx[b]) : b \in DOMAIN indx}

TypeOK ==
    /\ dev \in [All -> [meta : index_ent \cup {NoMeta}, data : (0 .. MaxPuts) \X Nat]]
    /\ indx \in [Range(Bucket) -> Seq(index_ent)]
    /\ freelist \in Seq(freelist_ent)
    /\ batch \in Seq(index_ent) /\ Len(batch) <= Window
    /\ timers \in 0 .. MaxTimers
    /\ status \in {"up", "scan", "dead", "fault"}
    /\ blks_read \in All
    /\ puts \in 0 .. MaxPuts /\ faults \in 0 .. MaxFaults /\ crashes \in 0 .. MaxCrashes

\* No two index entries share a block, and none of their blocks is on the free
\* list: a flush never overwrites an indexed record, and update_index never
\* frees a block twice.
ExtentsDisjoint ==
    /\ \A e, f \in Entries : e # f => Extent(e) \cap Extent(f) = {}
    /\ \A e \in Entries : Extent(e) \cap FreeBlocks(freelist) = {}

\* update_index keeps one entry per key over all chains, in the key's bucket.
OneEntryPerKey ==
    \A b, c \in DOMAIN indx :
        \A i \in 1 .. Len(indx[b]), j \in 1 .. Len(indx[c]) :
            /\ indx[b][i].key = indx[c][j].key => b = c /\ i = j
            /\ Bucket[indx[b][i].key] = b

\* The index and the free list are right about each other: update_index keeps
\* one entry per key, and no block has two owners.
IndexSafe == TypeOK /\ ExtentsDisjoint /\ OneEntryPerKey

\* While the store runs, no put of a key is undone by an earlier one: what a
\* batch or the index holds of a key is followed by the same put or a later
\* one, whichever callback acknowledges the batch and however many puts of the
\* key are in it.
LaterPutWins ==
    [][status = "up" /\ status' = "up" =>
          \A e \in Entries \cup Range(batch) :
             \E f \in Entries' \cup Range(batch') :
                f.key = e.key /\ f.crc >= e.crc]_vars

\* The blocks that are neither free nor indexed nor allocated to a put in
\* flight.
Leaked ==
    All \ (FreeBlocks(freelist) \cup UNION {Extent(e) : e \in Entries \cup Range(batch)})

\* Blocks leak only when a batch is flushed a second time before its callback
\* (its first copy stays allocated), and a restart gives all of them back: no
\* other step of the running store, a put that replaces a record of another
\* size included, loses track of a block.
LeaksAreReflushes ==
    [][status' = "up" => \/ Leaked' = {}
                         \/ status = "up" /\ Leaked' \subseteq Leaked
                         \/ status = "up" /\ batch # << >> /\ batch' # << >>]_vars

\* A restart gets through the scan: neither the assert of alloc_block nor the
\* unguarded list walk of free_blk kills init_cb, whatever stale and torn
\* records the device holds.
ScanNeverDies ==
    [][status = "scan" /\ status' = "dead" => crashes' > crashes]_vars

\* Every put is acknowledged (or lost to a crash): a flush always leaves a
\* timer behind, and its callback empties the batch.
PutsAreAcked == batch # << >> ~> batch = << >>

\* The scan ends.
ScanEnds == status = "scan" ~> status # "scan"

\* "Given key, return LBA mapping" (blk_index.c:191), "issue batched write at
\* the end of processing all sys calls" (syscall.c:125): what the index maps a
\* key to is the record of its acknowledged put.
IndexedIsOnDevice == \A e \in Entries : Reads(e, e.lba)
=============================================================================
