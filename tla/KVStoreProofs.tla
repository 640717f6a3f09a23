--------------------------- MODULE KVStoreProofs ---------------------------
(***************************************************************************)
(* The key-value store with one put in flight is safe, its recovery scan   *)
(* never dies and its blocks leak only through a second flush, for every   *)
(* set of keys, size of the device and bound.                              *)
(*                                                                         *)
(* The inductive invariant is stated over a device d, an index ix, a free  *)
(* list l, a batch bt and a number of puts p, so that one lemma speaks of  *)
(* the states on both sides of a step.                                     *)
(***************************************************************************)
EXTENDS KVStoreLemmas, TLAPS

\* Most leaves are first-order and go to Zenon; the ones that need arithmetic,
\* records or sequences name the SMT solver.
USE ZenonT(20), SMTT(30)

\* A record is the indexed one of its key, an older one, or a copy of the put
\* in flight.
Explained(d, ix, bt, b) ==
    \/ \E e \in Ents(ix) :
          /\ e.key = d[b].meta.key
          /\ d[b].meta.version <= e.version
          /\ d[b].meta.version = e.version => d[b].meta.crc = e.crc
    \/ /\ bt # << >>
       /\ d[b].meta.key = bt[1].key
       /\ d[b].meta.version = bt[1].version
       /\ d[b].meta.crc = bt[1].crc

\* The put in flight is the last put, and its version is the next one of its
\* key.
InFlight(ix, e, p) ==
    /\ e \in index_ent /\ e.val_len \in Lens
    /\ e.crc = p /\ e.version = get_version(ix, e.key) + 1 /\ e.version <= p

\* The record of e is on the device, and owns its blocks.
Flushed(d, l, e) ==
    Intact(d, e.lba) /\ d[e.lba].meta = e /\ Anchor(d, l, e.lba)

\* The store runs.  The index points to intact records that own their blocks,
\* nothing else on the device would be adopted in their place, and a pending
\* timer stands for a put in flight that has been written.
UpOK(d, ix, l, bt, tm, p) ==
    /\ Good(l) /\ Owned(d, l) /\ Safe(d, l)
    /\ OneEach(ix) /\ Mirrors(d, ix)
    /\ \A e \in Ents(ix) : Anchor(d, l, e.lba)
    /\ \A b \in All : Intact(d, b) => Explained(d, ix, bt, b)
    /\ bt # << >> => /\ bt = << bt[1] >> /\ InFlight(ix, bt[1], p)
                     /\ tm > 0 => Flushed(d, l, bt[1])

\* The scan is at block p.  The index holds the newest record of every key
\* among those the scan has come by, the first one of several copies, and
\* exactly the blocks of indexed records are allocated.
ScanOK(d, ix, l, p) ==
    /\ Good(l) /\ OneEach(ix) /\ Mirrors(d, ix)
    /\ \A e, f \in Ents(ix) : e # f => Extent(e) \cap Extent(f) = {}
    /\ \A e \in Ents(ix) : e.lba + Size(e) <= p
    /\ \A x \in All : ~Covers(l, x) <=> \E e \in Ents(ix) : x \in Extent(e)
    /\ \A b \in All : b < p /\ Intact(d, b) /\ Reached(d, b) =>
          \E e \in Ents(ix) :
             /\ e.key = d[b].meta.key
             /\ \/ e.version > d[b].meta.version
                \/ e.version = d[b].meta.version /\ e.lba <= b

\* What a crash leaves: the scan will come by the newest record of every key.
Recoverable(d) == \A b \in All : Newest(d, b) => Reached(d, b)

Inv ==
    /\ TypeOK /\ Sane(dev, puts)
    /\ status = "up" => UpOK(dev, indx, freelist, batch, timers, puts)
    /\ status \in {"scan", "dead"} => batch = << >> /\ timers = 0 /\ Recoverable(dev)
    /\ status = "scan" => ScanOK(dev, indx, freelist, blks_read)
    /\ status \in {"dead", "fault"} =>
          indx = EmptyIndex /\ freelist = freelist_init /\ blks_read = 0
----------------------------------------------------------------------------
(* A flush.                                                                *)

\* The put e0 is flushed to the range r that get_blk returned, and is e then.
\* It is a new put, or the one that is already in the batch.
Flushing(d, ix, l, bt, p, p2, e0, r, e) ==
    /\ p \in Nat /\ p2 \in Nat /\ p <= p2
    /\ Sane(d, p) /\ InFlight(ix, e0, p2)
    /\ bt # << >> => e0 = bt[1]
    /\ r = get_blk(l, Size(e0)) /\ r.ret # -1
    /\ e = [e0 EXCEPT !.lba = r.ret]

\* A put in flight keeps what identifies it when it is given its blocks.
LEMMA InFlightFacts ==
    ASSUME NEW ix, NEW p, NEW e, InFlight(ix, e, p), NEW s \in Int
    PROVE  LET f == [e EXCEPT !.lba = s]
           IN  /\ InFlight(ix, f, p) /\ f.lba = s /\ Size(f) = Size(e)
               /\ f.key = e.key /\ f.crc = e.crc /\ f.version = e.version
               /\ f.val_len = e.val_len
<1> DEFINE f == [e EXCEPT !.lba = s]
<1>1. e \in index_ent
  BY DEF InFlight
<1>2. PICK a \in Keys, b \in Int, c \in Nat, g \in 1 .. MaxPuts, h \in Nat :
         e = [key |-> a, lba |-> b, val_len |-> c, crc |-> g, version |-> h]
  BY <1>1 DEF index_ent
<1>3. f = [key |-> a, lba |-> s, val_len |-> c, crc |-> g, version |-> h]
  BY <1>2, SMTT(30)
<1>4. /\ f \in index_ent /\ f.lba = s /\ f.key = e.key /\ f.crc = e.crc
      /\ f.version = e.version /\ f.val_len = e.val_len
  BY <1>2, <1>3 DEF index_ent
<1>5. QED
  BY <1>4 DEF InFlight, Size

\* There is room at the range, and nothing on the device is newer than the put.
Placed(d, ix, l, p2, e0, r, e) ==
    /\ Room(d, l, e, r.ret) /\ Later(d, e) /\ Good(r.fl)
    /\ e.lba = r.ret /\ InFlight(ix, e, p2) /\ Size(e) = Size(e0)
    /\ e.version \in 1 .. p2 /\ e.crc \in 1 .. p2
    /\ e.key = e0.key /\ e.crc = e0.crc /\ e.version = e0.version
    /\ \A x \in Int : Covers(r.fl, x) <=> Covers(l, x) /\ x \notin Blocks(r.ret, Size(e))

\* get_blk places the put.
LEMMA FlushRoom ==
    ASSUME Relied, Prefix = {}, NEW d, NEW ix, NEW l, NEW bt, NEW tm, NEW p, NEW p2,
           NEW e0, NEW r, NEW e,
           UpOK(d, ix, l, bt, tm, p), Flushing(d, ix, l, bt, p, p2, e0, r, e)
    PROVE  Placed(d, ix, l, p2, e0, r, e)
<1>1. e0 \in index_ent /\ Size(e0) \in Nat \ {0}
  BY EntIsMeta DEF Flushing, InFlight
<1>2. Good(l)
  BY DEF UpOK
<1>3. /\ r.ret \in Nat /\ r.ret + Size(e0) <= MAX_LBA_NUM
      /\ Good(r.fl)
      /\ \A b \in Blocks(r.ret, Size(e0)) : Covers(l, b)
      /\ \A b \in Int : Covers(r.fl, b) <=> Covers(l, b) /\ b \notin Blocks(r.ret, Size(e0))
      /\ ~Covers(l, r.ret - 1)
  BY <1>1, <1>2, GetBlk DEF GetBlkOK, Flushing
<1>4. /\ InFlight(ix, e, p2) /\ e.lba = r.ret /\ Size(e) = Size(e0)
      /\ e.key = e0.key /\ e.crc = e0.crc /\ e.version = e0.version
  BY <1>3, InFlightFacts, SMTT(30) DEF Flushing
<1>5. e \in index_ent /\ e.key \in Keys /\ e.crc \in 1 .. MaxPuts
  BY <1>4, EntIsMeta DEF InFlight
<1>6. Room(d, l, e, r.ret)
  BY <1>3, <1>4, <1>5 DEF Room, UpOK, Flushing, Sane
<1>7. /\ OneEach(ix) /\ get_version(ix, e.key) \in Nat
      /\ \A f \in Ents(ix) : f.key = e.key => get_version(ix, e.key) = f.version
  BY <1>5, GetVersion DEF UpOK
<1>8. e.version = get_version(ix, e.key) + 1 /\ e.version <= p2 /\ e.crc = p2
  BY <1>4 DEF InFlight
<1>9. e.version \in 1 .. p2 /\ e.crc \in 1 .. p2
  BY <1>5, <1>7, <1>8, SMTT(30) DEF Flushing
<1>10. ASSUME NEW b \in All, Intact(d, b), d[b].meta.key = e.key
       PROVE  \/ d[b].meta.version < e.version
              \/ d[b].meta.version = e.version /\ d[b].meta.crc = e.crc
  <2>1. Explained(d, ix, bt, b)
    BY <1>10 DEF UpOK
  <2>2. d[b].meta.version \in Nat
    BY <1>10, SaneFacts DEF Flushing, Intact
  <2>3. CASE \E f \in Ents(ix) : f.key = d[b].meta.key /\ d[b].meta.version <= f.version
    <3>1. d[b].meta.version <= get_version(ix, e.key)
      BY <1>7, <1>10, <2>3
    <3>2. QED
      BY <1>7, <1>8, <2>2, <3>1, BelowNext
  <2>4. CASE /\ bt # << >> /\ d[b].meta.version = bt[1].version /\ d[b].meta.crc = bt[1].crc
    BY <2>4, <1>4 DEF Flushing
  <2>5. QED
    BY <2>1, <2>3, <2>4 DEF Explained
<1>11. Later(d, e)
  BY <1>10 DEF Later
<1>12. QED
  BY <1>3, <1>4, <1>6, <1>9, <1>11 DEF Placed

\* A device t that recovers, with every key as d has it or as the put e has it.
Survives(d, t, p2, e) ==
    /\ Sane(t, p2) /\ Recoverable(t)
    /\ \A k : Dur(t, k) = Dur(d, k) \/ (k = e.key /\ Dur(t, k) = e.crc)

\* A process killed anywhere in the flush leaves such a device.
LEMMA FlushTorn ==
    ASSUME Relied, Prefix = {}, NEW d, NEW ix, NEW l, NEW bt, NEW tm, NEW p, NEW p2,
           NEW e0, NEW r, NEW e,
           UpOK(d, ix, l, bt, tm, p), Flushing(d, ix, l, bt, p, p2, e0, r, e),
           NEW q \in 0 .. (Size(e) + 1), NEW t, t = Torn(d, e, r.ret, q)
    PROVE  Survives(d, t, p2, e)
<1>0. Placed(d, ix, l, p2, e0, r, e)
  BY FlushRoom
<1>1. /\ Room(d, l, e, r.ret) /\ Later(d, e) /\ e.lba = r.ret
      /\ e.version \in 1 .. p2 /\ e.crc \in 1 .. p2
  BY <1>0 DEF Placed
<1>2. p \in Nat /\ p2 \in Nat /\ p <= p2 /\ Sane(d, p) /\ Safe(d, l)
  BY DEF Flushing, UpOK
<1>3. Sane(t, p2)
  BY <1>1, <1>2, TornSane
<1>4. ASSUME NEW b \in All, Newest(t, b) PROVE Reached(t, b)
  BY <1>1, <1>2, <1>4, TornNewest, TornReached, SMTT(30)
<1>5. ASSUME NEW k PROVE Dur(t, k) = Dur(d, k) \/ (k = e.key /\ Dur(t, k) = e.crc)
  BY <1>1, <1>2, <1>3, TornDur, SMTT(30)
<1>6. QED
  BY <1>3, <1>4, <1>5 DEF Survives, Recoverable

Stored(t, ix, tm, p2, r, e) ==
    UpOK(t, ix, r.fl, << e >>, tm + 1, p2) /\ Dur(t, e.key) = e.crc

\* A flush that completes: the put is on the device and owns its blocks, and
\* the records of the index are untouched.
LEMMA FlushDone ==
    ASSUME Relied, Prefix = {}, NEW d, NEW ix, NEW l, NEW bt, NEW tm \in Nat, NEW p, NEW p2,
           NEW e0, NEW r, NEW e,
           UpOK(d, ix, l, bt, tm, p), Flushing(d, ix, l, bt, p, p2, e0, r, e),
           NEW t, t = Torn(d, e, r.ret, Size(e) + 1)
    PROVE  Stored(t, ix, tm, p2, r, e)
<1>0. Placed(d, ix, l, p2, e0, r, e)
  BY FlushRoom
<1>1. /\ Room(d, l, e, r.ret) /\ Later(d, e) /\ e.lba = r.ret /\ Good(r.fl)
      /\ InFlight(ix, e, p2)
      /\ e.key = e0.key /\ e.crc = e0.crc /\ e.version = e0.version
      /\ \A x \in Int : Covers(r.fl, x) <=> Covers(l, x) /\ x \notin Blocks(r.ret, Size(e))
  BY <1>0 DEF Placed
<1>2. p \in Nat /\ p2 \in Nat /\ p <= p2 /\ Sane(d, p) /\ Safe(d, l) /\ Owned(d, l)
  BY DEF Flushing, UpOK
<1>3. Size(e) + 1 \in 0 .. (Size(e) + 1) /\ Sane(t, p2)
  <2>1. Size(e) \in Nat
    BY <1>1, RoomFacts
  <2>2. Size(e) + 1 \in 0 .. (Size(e) + 1)
    BY <2>1, SMTT(30)
  <2>3. QED
    BY <2>2, FlushTorn DEF Survives
<1>4. \A x \in All : Covers(r.fl, x) <=> Covers(l, x) /\ x \notin Blocks(r.ret, Size(e))
  BY <1>1, AllIs
<1>5. \A x \in All : Covers(r.fl, x) => Covers(l, x)
  BY <1>4
<1>6. Anchor(t, r.fl, r.ret) /\ Owned(t, r.fl)
  BY <1>1, <1>4, FullyWritten
<1>7. t[r.ret].meta = e /\ Intact(t, r.ret)
  BY <1>1, FullIntact, SMTT(30)
<1>8. ASSUME NEW h, Anchor(d, l, h)
      PROVE  Anchor(t, r.fl, h) /\ t[h].meta = d[h].meta /\ (Intact(d, h) => Intact(t, h))
  BY <1>1, <1>3, <1>5, <1>8, TornAnchor, SMTT(30)
<1>9. Safe(t, r.fl)
  <2>1. ASSUME NEW b \in All, Newest(t, b) PROVE Anchor(t, r.fl, b)
    <3>1. \/ b = r.ret /\ t[b].meta = e
          \/ Newest(d, b) /\ Anchor(d, l, b) /\ t[b].meta = d[b].meta
      BY <1>1, <1>2, <1>3, <2>1, TornNewest, SMTT(30)
    <3>2. QED
      BY <3>1, <1>6, <1>8
  <2>2. QED
    BY <2>1 DEF Safe
<1>10. OneEach(ix) /\ Mirrors(t, ix) /\ \A f \in Ents(ix) : Anchor(t, r.fl, f.lba)
  BY <1>8 DEF UpOK, Mirrors
<1>11. << e >> # << >> /\ << e >>[1] = e
  OBVIOUS
<1>12. ASSUME NEW b \in All, Intact(t, b) PROVE Explained(t, ix, << e >>, b)
  <2>1. \/ b = r.ret /\ t[b].meta = e
        \/ Intact(d, b) /\ t[b].meta = d[b].meta
    BY <1>1, <1>3, <1>12, TornIntact, SMTT(30)
  <2>2. CASE b = r.ret /\ t[b].meta = e
    BY <2>2, <1>11 DEF Explained
  <2>3. CASE Intact(d, b) /\ t[b].meta = d[b].meta
    <3>1. Explained(d, ix, bt, b)
      BY <2>3 DEF UpOK
    <3>2. bt # << >> => bt[1].key = e.key /\ bt[1].version = e.version /\ bt[1].crc = e.crc
      BY <1>1 DEF Flushing
    <3>3. QED
      BY <2>3, <3>1, <3>2, <1>11 DEF Explained
  <2>4. QED
    BY <2>1, <2>2, <2>3
<1>13. Flushed(t, r.fl, e)
  BY <1>1, <1>6, <1>7 DEF Flushed
<1>14. UpOK(t, ix, r.fl, << e >>, tm + 1, p2)
  BY <1>1, <1>6, <1>9, <1>10, <1>11, <1>12, <1>13 DEF UpOK
<1>15. Dur(t, e.key) = e.crc
  BY <1>1, <1>2, <1>3, FullDur
<1>16. QED
  BY <1>14, <1>15 DEF Stored

----------------------------------------------------------------------------
(* The completion callback.                                                *)

\* Records that own their blocks share none.
LEMMA AnchorsApart ==
    ASSUME NEW d \in Device, NEW l, NEW g, NEW h, g # h, Anchor(d, l, g), Anchor(d, l, h)
    PROVE  Span(d, g) \cap Span(d, h) = {}
<1>1. /\ g \in All /\ h \in All /\ g \in Int /\ h \in Int
      /\ IsRec(d, g) /\ IsRec(d, h) /\ Reached(d, g) /\ Reached(d, h)
      /\ Size(d[g].meta) \in Nat /\ Size(d[h].meta) \in Nat
      /\ \A x : x \in Span(d, g) <=> x \in Int /\ g <= x /\ x < g + Size(d[g].meta)
      /\ \A x : x \in Span(d, h) <=> x \in Int /\ h <= x /\ x < h + Size(d[h].meta)
  BY RecFacts, AnchorFacts
<1>2. g < h => g + Size(d[g].meta) <= h
  BY <1>1 DEF Reached
<1>3. h < g => h + Size(d[h].meta) <= g
  BY <1>1 DEF Reached
<1>4. ASSUME NEW x \in Span(d, g), x \in Span(d, h) PROVE FALSE
  BY <1>1, <1>2, <1>3, <1>4, SMTT(30)
<1>5. QED
  BY <1>4

\* A put that has been written is what its key comes back as.
LEMMA FlushedIsDurable ==
    ASSUME Relied, Prefix = {}, NEW d, NEW ix, NEW l, NEW e, NEW tm, NEW p \in Nat,
           Sane(d, p), UpOK(d, ix, l, << e >>, tm, p), Flushed(d, l, e)
    PROVE  /\ Dur(d, e.key) = e.crc
           /\ \A b : Newest(d, b) /\ d[b].meta.key = e.key => d[b].meta.version = e.version
<1>1. << e >> # << >> /\ << e >>[1] = e
  OBVIOUS
<1>2. InFlight(ix, e, p) /\ OneEach(ix)
  BY <1>1 DEF UpOK
<1>3. e \in index_ent /\ e.key \in Keys /\ e.version \in Nat
  BY <1>2, EntIsMeta DEF InFlight
<1>4. /\ e.version = get_version(ix, e.key) + 1
      /\ get_version(ix, e.key) \in Nat
      /\ \A f \in Ents(ix) : f.key = e.key => get_version(ix, e.key) = f.version
  BY <1>2, <1>3, GetVersion DEF InFlight
<1>5. ASSUME NEW b, Newest(d, b), d[b].meta.key = e.key
      PROVE  d[b].meta.version = e.version /\ d[b].meta.crc = e.crc
  <2>1. Intact(d, b) /\ b \in All /\ d[b].meta.version \in Nat
    BY <1>5, SaneFacts DEF Newest, Intact, IsRec
  <2>2. Explained(d, ix, << e >>, b)
    BY <2>1 DEF UpOK
  <2>3. Intact(d, e.lba) /\ d[e.lba].meta = e /\ e.lba \in All
    BY RecFacts DEF Flushed, Intact, IsRec
  <2>4. e.version <= d[b].meta.version
    BY <1>3, <1>5, <2>1, <2>3, SMTT(30) DEF Newest
  <2>5. ASSUME NEW f \in Ents(ix), f.key = d[b].meta.key, d[b].meta.version <= f.version
        PROVE  FALSE
    <3>1. get_version(ix, e.key) = f.version
      BY <1>4, <1>5, <2>5
    <3>2. QED
      BY <1>4, <2>1, <2>4, <2>5, <3>1, NotNext
  <2>6. QED
    BY <1>1, <2>2, <2>5 DEF Explained
<1>6. PICK n \in All : Newest(d, n) /\ d[n].meta.key = e.key
  BY NewestExists, SMTT(30) DEF Flushed
<1>7. Dur(d, e.key) = d[n].meta.crc
  BY <1>6, DurIs
<1>8. QED
  BY <1>5, <1>6, <1>7

\* Freeing the blocks of one record leaves every other one its own.
LEMMA FreedAnchor ==
    ASSUME NEW d \in Device, NEW l, NEW l2, NEW g, NEW h, g # h,
           Anchor(d, l, g), Anchor(d, l, h),
           \A x \in Int : Covers(l2, x) <=> Covers(l, x) \/ x \in Span(d, g)
    PROVE  Anchor(d, l2, h)
<1>1. Span(d, g) \cap Span(d, h) = {}
  BY AnchorsApart
<1>2. ASSUME NEW x \in Span(d, h) PROVE x \in All /\ ~Covers(l2, x) /\ (x # h => d[x].meta = NoMeta)
  BY <1>1, <1>2, AnchorFacts, SMTT(30) DEF All
<1>3. QED
  BY <1>2 DEF Anchor

\* The put in flight is acknowledged: it replaces the older record of its key,
\* whose blocks are free then.  free_blk may kill the process instead.
LEMMA AckStep ==
    ASSUME Relied, Prefix = {}, NEW d, NEW ix, NEW l, NEW e, NEW tm \in Nat \ {0}, NEW p \in Nat,
           Sane(d, p), UpOK(d, ix, l, << e >>, tm, p),
           NEW st, st = Reindexed(ix, l, e)
    PROVE  st.ok =>
           /\ UpOK(d, st.ix, st.fl, << >>, tm - 1, p)
           /\ e \in Ents(st.ix)
           /\ \A f : f.key # e.key => (f \in Ents(st.ix) <=> f \in Ents(ix))
           /\ \A x \in All : Covers(st.fl, x) \/ ~Covers(l, x)
           /\ \A x \in All : (\E f \in Ents(ix) : x \in Extent(f)) =>
                 Covers(st.fl, x) \/ \E f \in Ents(st.ix) : x \in Extent(f)
<1>1. << e >> # << >> /\ << e >>[1] = e
  OBVIOUS
<1>2. /\ InFlight(ix, e, p) /\ OneEach(ix) /\ Good(l) /\ Owned(d, l) /\ Safe(d, l)
      /\ Mirrors(d, ix) /\ Flushed(d, l, e)
      /\ \A f \in Ents(ix) : Anchor(d, l, f.lba)
      /\ \A b \in All : Intact(d, b) => Explained(d, ix, << e >>, b)
  BY <1>1, SMTT(30) DEF UpOK
<1>3. /\ e \in index_ent /\ e.key \in Keys /\ e.version \in Nat
      /\ d \in Device
  BY <1>2, EntIsMeta DEF InFlight, Sane
<1>4. /\ e.version = get_version(ix, e.key) + 1
      /\ \A f \in Ents(ix) : f.key = e.key => get_version(ix, e.key) = f.version
  BY <1>2, <1>3, GetVersion DEF InFlight
<1>5. /\ OneEach(st.ix)
      /\ \/ /\ \A f \in Ents(ix) : f.key # e.key
            /\ Ents(st.ix) = Ents(ix) \cup {e}
            /\ st.fl = l /\ st.ok
         \/ \E old \in Ents(ix) :
               /\ old.key = e.key
               /\ Ents(st.ix) = (Ents(ix) \ {old}) \cup {e}
               /\ st.fl = free_blk(l, old.lba, Size(old)).fl
               /\ st.ok = free_blk(l, old.lba, Size(old)).ok
  <2>1. e \in index_ent /\ OneEach(ix)
    BY <1>2, <1>3
  <2>2. QED
    BY <2>1, Reindex, SMTT(30)
<1>ok. HAVE st.ok
<1>6. Mirrors(d, st.ix) /\ e \in Ents(st.ix)
  BY <1>2, <1>5 DEF Mirrors, Flushed
<1>7. \A f : f.key # e.key => (f \in Ents(st.ix) <=> f \in Ents(ix))
  BY <1>5
<1>8. << >> = << >>
  OBVIOUS
<1>9. ASSUME NEW b \in All, Intact(d, b) PROVE Explained(d, st.ix, << >>, b)
  <2>1. Explained(d, ix, << e >>, b) /\ d[b].meta.version \in Nat
    BY <1>2, <1>9, SaneFacts, SMTT(30) DEF Intact
  <2>2. CASE d[b].meta.key = e.key
    <3>1. d[b].meta.version <= e.version /\ (d[b].meta.version = e.version => d[b].meta.crc = e.crc)
      <4>1. CASE \E f \in Ents(ix) : f.key = d[b].meta.key /\ d[b].meta.version <= f.version
        <5>1. PICK f \in Ents(ix) : f.key = d[b].meta.key /\ d[b].meta.version <= f.version
          BY <4>1
        <5>2. f.version + 1 = e.version /\ f.version \in Nat
          BY <1>2, <1>4, <2>2, <5>1, EntsFacts, EntIsMeta
        <5>3. QED
          BY <2>1, <5>1, <5>2, SMTT(30)
      <4>2. CASE d[b].meta.version = e.version /\ d[b].meta.crc = e.crc
        BY <4>2, <1>3, SMTT(30)
      <4>3. QED
        BY <2>1, <4>1, <4>2, <1>1 DEF Explained
    <3>2. QED
      BY <1>6, <2>2, <3>1 DEF Explained
  <2>3. CASE d[b].meta.key # e.key
    <3>1. PICK f \in Ents(ix) :
             /\ f.key = d[b].meta.key
             /\ d[b].meta.version <= f.version
             /\ d[b].meta.version = f.version => d[b].meta.crc = f.crc
      BY <1>1, <2>1, <2>3 DEF Explained
    <3>2. f \in Ents(st.ix)
      BY <1>7, <2>3, <3>1
    <3>3. QED
      BY <3>1, <3>2 DEF Explained
  <2>4. QED
    BY <2>2, <2>3
<1>10. CASE Ents(st.ix) = Ents(ix) \cup {e} /\ st.fl = l
  <2>1. \A f \in Ents(st.ix) : Anchor(d, st.fl, f.lba)
    BY <1>2, <1>10 DEF Flushed
  <2>2. UpOK(d, st.ix, st.fl, << >>, tm - 1, p)
    BY <1>2, <1>5, <1>6, <1>9, <1>10, <2>1 DEF UpOK
  <2>3. QED
    BY <1>6, <1>7, <1>10, <2>2
<1>11. CASE \E old \in Ents(ix) :
               /\ old.key = e.key
               /\ Ents(st.ix) = (Ents(ix) \ {old}) \cup {e}
               /\ st.fl = free_blk(l, old.lba, Size(old)).fl
               /\ st.ok = free_blk(l, old.lba, Size(old)).ok
  <2>1. PICK old \in Ents(ix) :
               /\ old.key = e.key
               /\ Ents(st.ix) = (Ents(ix) \ {old}) \cup {e}
               /\ st.fl = free_blk(l, old.lba, Size(old)).fl
               /\ st.ok = free_blk(l, old.lba, Size(old)).ok
    BY <1>11
  <2>2. /\ old \in index_ent /\ old.version \in Nat /\ old.version < e.version
        /\ Size(old) \in Nat \ {0} /\ old.version # e.version
    <3>1. old \in index_ent /\ old.version \in Nat /\ Size(old) \in Nat \ {0}
      BY <1>2, <2>1, EntsFacts, EntIsMeta
    <3>2. e.version = old.version + 1
      BY <1>4, <2>1
    <3>3. QED
      BY <3>1, <3>2, NextAbove
  <2>3. /\ Intact(d, old.lba) /\ d[old.lba].meta = old /\ Anchor(d, l, old.lba)
        /\ Span(d, old.lba) = Blocks(old.lba, Size(old)) /\ Extent(old) = Blocks(old.lba, Size(old))
    BY <1>2, <2>1 DEF Mirrors, Span, Extent, Size
  <2>4. old.lba \in Nat /\ \A x \in Blocks(old.lba, Size(old)) : x \in All /\ ~Covers(l, x)
    <3>1. IsRec(d, old.lba) /\ \A x \in Span(d, old.lba) : x \in All /\ ~Covers(l, x)
      BY <1>3, <2>3, AnchorFacts
    <3>2. QED
      BY <1>3, <2>3, <3>1, RecFacts
  <2>5. old.lba + Size(old) <= MAX_LBA_NUM
    <3>1. old.lba + Size(old) - 1 \in Blocks(old.lba, Size(old))
      BY <2>2, <2>4, BlocksIs, NatInt
    <3>2. old.lba + Size(old) - 1 \in All
      BY <2>4, <3>1
    <3>3. QED
      BY <2>2, <2>4, <3>2, MaxLbaAssumption, SMTT(30) DEF All
  <2>6. /\ Good(st.fl)
        /\ \A x \in Int : Covers(st.fl, x) <=> Covers(l, x) \/ x \in Span(d, old.lba)
    <3>1. FreeBlkOK(l, old.lba, Size(old))
      BY <1>2, <2>2, <2>4, AllocAndFree
    <3>2. free_blk(l, old.lba, Size(old)).ok
      BY <1>ok, <2>1
    <3>3. QED
      BY <2>1, <2>3, <2>4, <2>5, <3>1, <3>2 DEF FreeBlkOK
  <2>7. ASSUME NEW h, h # old.lba, Anchor(d, l, h) PROVE Anchor(d, st.fl, h)
    BY <1>3, <2>3, <2>6, <2>7, FreedAnchor
  <2>8. ASSUME NEW f \in Ents(st.ix) PROVE Anchor(d, st.fl, f.lba)
    <3>1. Anchor(d, l, f.lba) /\ d[f.lba].meta = f
      BY <1>2, <2>1 DEF Mirrors, Flushed
    <3>2. f # old
      BY <2>1, <2>2, <1>3, SMTT(30)
    <3>3. QED
      BY <2>3, <2>7, <3>1, <3>2
  <2>9. ASSUME NEW b \in All, Newest(d, b) PROVE Anchor(d, st.fl, b)
    <3>1. Anchor(d, l, b)
      BY <1>2, <2>9 DEF Safe
    <3>2. b # old.lba
      <4>1. \A c : Newest(d, c) /\ d[c].meta.key = e.key => d[c].meta.version = e.version
        BY <1>2, FlushedIsDurable, SMTT(30)
      <4>2. QED
        BY <2>1, <2>2, <2>3, <2>9, <4>1
    <3>3. QED
      BY <2>7, <3>1, <3>2
  <2>10. ASSUME NEW x \in All, ~Covers(st.fl, x)
         PROVE  \E h \in All : Anchor(d, st.fl, h) /\ x \in Span(d, h)
    <3>1. x \in Int /\ ~Covers(l, x) /\ x \notin Span(d, old.lba)
      BY <2>6, <2>10, AllIs
    <3>2. PICK h \in All : Anchor(d, l, h) /\ x \in Span(d, h)
      BY <1>2, <3>1 DEF Owned
    <3>3. QED
      BY <2>7, <3>1, <3>2
  <2>11. UpOK(d, st.ix, st.fl, << >>, tm - 1, p)
    BY <1>5, <1>6, <1>9, <2>6, <2>8, <2>9, <2>10 DEF UpOK, Owned, Safe
  <2>12. \A x \in All : Covers(st.fl, x) \/ ~Covers(l, x)
    BY <2>6, AllIs
  <2>13. ASSUME NEW x \in All, NEW f \in Ents(ix), x \in Extent(f)
         PROVE  Covers(st.fl, x) \/ \E g \in Ents(st.ix) : x \in Extent(g)
    <3>1. CASE f = old
      BY <2>3, <2>6, <2>13, <3>1, AllIs
    <3>2. CASE f # old
      BY <2>1, <2>13, <3>2
    <3>3. QED
      BY <3>1, <3>2
  <2>14. QED
    BY <1>6, <1>7, <2>11, <2>12, <2>13
<1>12. QED
  BY <1>5, <1>10, <1>11

----------------------------------------------------------------------------
(* The recovery scan.                                                      *)

\* An empty index and the initial free list are where the scan starts.
LEMMA ScanStarts ==
    ASSUME Relied, NEW d \in Device
    PROVE  Ents(EmptyIndex) = {} /\ OneEach(EmptyIndex) /\ ScanOK(d, EmptyIndex, freelist_init, 0)
<1>1. /\ EmptyIndex \in [Range(Bucket) -> Seq(index_ent)]
      /\ \A b \in DOMAIN EmptyIndex : EmptyIndex[b] = << >> /\ Len(EmptyIndex[b]) = 0
  BY SMTT(30) DEF EmptyIndex
<1>2. \A b \in DOMAIN EmptyIndex : 1 .. Len(EmptyIndex[b]) = {}
  BY <1>1, SMTT(30)
<1>3. OneEach(EmptyIndex)
  BY <1>1, <1>2 DEF OneEach
<1>4. \A e : e \notin Ents(EmptyIndex)
  BY <1>2, <1>3, EntsFacts
<1>5. Ents(EmptyIndex) = {}
  BY <1>4
<1>6. Good(freelist_init) /\ \A x \in All : Covers(freelist_init, x)
  BY FreelistFacts, SMTT(30) DEF All
<1>7. \A b \in All : ~(b < 0)
  BY SMTT(30) DEF All
<1>8. QED
  BY <1>3, <1>5, <1>6, <1>7 DEF ScanOK, Mirrors

\* The scan passes over a block without a record, a record that does not read
\* back, or one that is not newer than the indexed one of its key.
LEMMA ScanSkips ==
    ASSUME NEW d, NEW p, Sane(d, p), NEW ix, NEW l, NEW r \in All, ScanOK(d, ix, l, r),
           NEW n \in Nat \ {0},
           \/ ~IsRec(d, r) /\ n = 1
           \/ /\ IsRec(d, r) /\ n = Size(d[r].meta)
              /\ \/ ~Intact(d, r)
                 \/ \E old \in Ents(ix) :
                       old.key = d[r].meta.key /\ old.version >= d[r].meta.version
    PROVE  ScanOK(d, ix, l, r + n)
<1>1. r \in Nat /\ OneEach(ix) /\ Mirrors(d, ix) /\ d \in Device
  BY AllIs DEF ScanOK, Sane
<1>2. ASSUME NEW e \in Ents(ix)
      PROVE  /\ e \in index_ent /\ e.version \in Nat /\ e.lba \in Int /\ Size(e) \in Nat \ {0}
             /\ e.lba + Size(e) <= r
  BY <1>1, EntsFacts, EntIsMeta DEF ScanOK
<1>3. \A e \in Ents(ix) : e.lba + Size(e) <= r + n
  BY <1>1, <1>2, SMTT(30)
<1>4. ASSUME NEW b \in All, b < r + n, Intact(d, b), Reached(d, b)
      PROVE  \E e \in Ents(ix) :
                /\ e.key = d[b].meta.key
                /\ \/ e.version > d[b].meta.version
                   \/ e.version = d[b].meta.version /\ e.lba <= b
  <2>1. CASE b < r
    BY <1>4, <2>1 DEF ScanOK
  <2>2. CASE b = r
    <3>1. d[r].meta.version \in Nat
      BY <1>4, <2>2, SaneFacts DEF Intact
    <3>2. PICK old \in Ents(ix) : old.key = d[r].meta.key /\ old.version >= d[r].meta.version
      BY <1>4, <2>2 DEF Intact
    <3>3. old.lba <= r /\ old.version \in Nat
      BY <1>1, <1>2, SMTT(30)
    <3>4. old.version > d[r].meta.version \/ old.version = d[r].meta.version
      BY <3>1, <3>2, <3>3, GeqIs
    <3>5. QED
      BY <2>2, <3>2, <3>3, <3>4
  <2>3. CASE b > r
    <3>1. b \in Int
      BY AllIs
    <3>2. IsRec(d, r) /\ n = Size(d[r].meta)
      BY <1>1, <1>4, <2>3, <3>1, SMTT(30)
    <3>3. r + Size(d[r].meta) <= b
      BY <1>4, <2>3, <3>2 DEF Reached
    <3>4. QED
      BY <1>1, <1>4, <3>1, <3>2, <3>3, Apart, NatInt
  <2>4. QED
    BY <2>1, <2>2, <2>3, AllIs
<1>5. QED
  BY <1>3, <1>4 DEF ScanOK

\* A record is adopted.  The older one it replaces is in front of it and the
\* block under the scan is free, so that free_blk finds an entry above; and all
\* blocks of the record are free, so that the assert of alloc_block holds.
LEMMA ScanAdopts ==
    ASSUME Relied, Prefix = {}, NEW d, NEW p, Sane(d, p), NEW ix, NEW l, NEW r \in All,
           ScanOK(d, ix, l, r), NEW m, m = d[r].meta, Intact(d, r),
           \A old \in Ents(ix) : old.key = m.key => old.version < m.version,
           NEW up, up = Reindexed(ix, l, m),
           NEW al, al = alloc_block(up.fl, m.lba, Size(m))
    PROVE  up.ok /\ al.ok /\ ScanOK(d, up.ix, al.fl, r + Size(m))
<1>1. /\ r \in Nat /\ r < MAX_LBA_NUM /\ OneEach(ix) /\ Mirrors(d, ix) /\ d \in Device /\ Good(l)
      /\ \A e, f \in Ents(ix) : e # f => Extent(e) \cap Extent(f) = {}
      /\ \A x \in All : ~Covers(l, x) <=> \E e \in Ents(ix) : x \in Extent(e)
  BY AllIs DEF ScanOK, Sane
<1>2. ASSUME NEW e \in Ents(ix)
      PROVE  /\ e \in index_ent /\ e.version \in Nat /\ e.lba \in Nat /\ Size(e) \in Nat \ {0}
             /\ e.lba + Size(e) <= r
             /\ \A x : x \in Extent(e) <=> x \in Int /\ e.lba <= x /\ x < e.lba + Size(e)
  <2>1. e \in index_ent /\ e.version \in Nat /\ e.lba \in Int /\ Size(e) \in Nat \ {0}
    BY <1>1, EntsFacts, EntIsMeta
  <2>2. e.lba \in All
    BY <1>1 DEF Mirrors, Intact, IsRec
  <2>3. e.lba + Size(e) <= r
    BY DEF ScanOK
  <2>4. \A x : x \in Extent(e) <=> x \in Int /\ e.lba <= x /\ x < e.lba + Size(e)
    BY <2>1, BlocksIs DEF Extent, Size
  <2>5. QED
    BY <2>1, <2>2, <2>3, <2>4, AllIs
<1>3. /\ IsRec(d, r) /\ m \in index_ent /\ m.lba = r /\ Size(m) \in Nat \ {0} /\ m.version \in Nat
      /\ Extent(m) = Blocks(r, Size(m))
      /\ \A x : x \in Extent(m) <=> x \in Int /\ r <= x /\ x < r + Size(m)
      /\ \A x \in Extent(m) : x \in All
  <2>1. IsRec(d, r)
    BY DEF Intact
  <2>2. m \in index_ent /\ m.lba = r /\ m.version \in Nat /\ Size(m) \in Nat \ {0}
    BY <2>1, SaneFacts, EntIsMeta
  <2>3. Extent(m) = Blocks(r, Size(m)) /\ Span(d, r) = Blocks(r, Size(m))
    BY <2>2 DEF Extent, Span, Size
  <2>4. \A x \in Extent(m) : x \in All
    <3>1. \A x \in Span(d, r) : x \in All
      BY <1>1, IntactSpan
    <3>2. QED
      BY <2>3, <3>1
  <2>5. \A x : x \in Extent(m) <=> x \in Int /\ r <= x /\ x < r + Size(m)
    <3>1. \A x : x \in Blocks(r, Size(m)) <=> x \in Int /\ r <= x /\ x < r + Size(m)
      BY <1>1, <2>2, BlocksIs, NatInt
    <3>2. QED
      BY <2>3, <3>1
  <2>6. QED
    BY <2>1, <2>2, <2>3, <2>4, <2>5
<1>4. ASSUME NEW x \in Extent(m)
      PROVE  Covers(l, x) /\ \A e \in Ents(ix) : x \notin Extent(e)
  <2>1. x \in All /\ x \in Int /\ r <= x
    BY <1>3
  <2>2. ASSUME NEW e \in Ents(ix), x \in Extent(e) PROVE FALSE
    BY <1>2, <2>1, <2>2, InFront
  <2>3. QED
    BY <1>1, <2>1, <2>2
<1>5. /\ OneEach(up.ix)
      /\ \/ /\ \A e \in Ents(ix) : e.key # m.key
            /\ Ents(up.ix) = Ents(ix) \cup {m}
            /\ up.fl = l /\ up.ok
         \/ \E old \in Ents(ix) :
               /\ old.key = m.key
               /\ Ents(up.ix) = (Ents(ix) \ {old}) \cup {m}
               /\ up.fl = free_blk(l, old.lba, Size(old)).fl
               /\ up.ok = free_blk(l, old.lba, Size(old)).ok
  <2>1. m \in index_ent /\ OneEach(ix)
    BY <1>1, <1>3
  <2>2. QED
    BY <2>1, Reindex, SMTT(30)
<1>6. /\ up.ok /\ Good(up.fl) /\ m \in Ents(up.ix)
      /\ \A e \in Ents(up.ix) : e = m \/ e \in Ents(ix)
      /\ \A e \in Ents(ix) : e \in Ents(up.ix) \/ e.key = m.key
      /\ \A x \in All : Covers(up.fl, x) <=> ~\E e \in Ents(up.ix) : e # m /\ x \in Extent(e)
  <2>1. CASE Ents(up.ix) = Ents(ix) \cup {m} /\ up.fl = l /\ up.ok
    <3>1. \A x \in All : Covers(up.fl, x) <=> ~\E e \in Ents(ix) : x \in Extent(e)
      BY <1>1, <2>1
    <3>2. m \notin Ents(ix)
      BY <1>3, SMTT(30)
    <3>3. \A e : e \in Ents(ix) <=> e \in Ents(up.ix) /\ e # m
      BY <2>1, <3>2
    <3>4. QED
      BY <1>1, <2>1, <3>1, <3>3
  <2>2. CASE \E old \in Ents(ix) :
               /\ old.key = m.key
               /\ Ents(up.ix) = (Ents(ix) \ {old}) \cup {m}
               /\ up.fl = free_blk(l, old.lba, Size(old)).fl
               /\ up.ok = free_blk(l, old.lba, Size(old)).ok
    <3>1. PICK old \in Ents(ix) :
               /\ old.key = m.key
               /\ Ents(up.ix) = (Ents(ix) \ {old}) \cup {m}
               /\ up.fl = free_blk(l, old.lba, Size(old)).fl
               /\ up.ok = free_blk(l, old.lba, Size(old)).ok
      BY <2>2
    <3>2. /\ old.lba \in Nat /\ Size(old) \in Nat \ {0} /\ old.lba + Size(old) <= r
          /\ \A x : x \in Extent(old) <=> x \in Int /\ old.lba <= x /\ x < old.lba + Size(old)
          /\ Extent(old) = Blocks(old.lba, Size(old))
      BY <1>2 DEF Extent, Size
    <3>3. ASSUME NEW x \in Blocks(old.lba, Size(old)) PROVE x \in All /\ ~Covers(l, x)
      <4>1. x \in Extent(old)
        BY <3>2
      <4>2. x \in All
        BY <3>2, <4>1, InFront
      <4>3. QED
        BY <1>1, <4>1, <4>2
    <3>4. old.lba + Size(old) <= MAX_LBA_NUM /\ r \in Int /\ ~(r < old.lba)
      BY <3>2, InFront
    <3>5. r \in Int /\ Covers(l, r) /\ ~(r < old.lba)
      <4>1. r \in Extent(m)
        BY <1>3, <3>4, BlocksIs
      <4>2. QED
        BY <1>4, <3>4, <4>1
    <3>6. /\ up.ok /\ Good(up.fl)
          /\ \A x \in Int : Covers(up.fl, x) <=> Covers(l, x) \/ x \in Extent(old)
      <4> DEFINE fr == free_blk(l, old.lba, Size(old))
      <4>1. \/ \A b \in Int : Covers(l, b) => b < old.lba
            \/ /\ fr.ok /\ Good(fr.fl)
               /\ \A b \in Int : Covers(fr.fl, b) <=> Covers(l, b) \/ b \in Blocks(old.lba, Size(old))
        BY <1>1, <3>2, <3>3, <3>4, AllocAndFree DEF FreeBlkOK
      <4>2. fr.ok \in BOOLEAN
        BY DEF free_blk, give_back, Done, Died
      <4> HIDE DEF fr
      <4>3. fr.ok
        BY <3>5, <4>1, <4>2
      <4>4. QED
        BY <3>1, <3>2, <3>5, <4>1, <4>3 DEF fr
    <3>7. m \notin Ents(ix)
      BY <1>3, SMTT(30)
    <3>8. \A e : e \in Ents(up.ix) /\ e # m <=> e \in Ents(ix) /\ e # old
      BY <3>1, <3>7
    <3>9. ASSUME NEW x \in All
          PROVE  Covers(up.fl, x) <=> ~\E e \in Ents(up.ix) : e # m /\ x \in Extent(e)
      <4>1. x \in Int
        BY AllIs
      <4>2. Covers(up.fl, x) <=> Covers(l, x) \/ x \in Extent(old)
        BY <3>6, <4>1
      <4>3. x \in Extent(old) => \A e \in Ents(ix) : e # old => x \notin Extent(e)
        BY <1>1
      <4>4. QED
        BY <1>1, <3>8, <4>2, <4>3
    <3>10. m \in Ents(up.ix) /\ (\A e \in Ents(up.ix) : e = m \/ e \in Ents(ix))
      BY <3>1
    <3>11. \A e \in Ents(ix) : e \in Ents(up.ix) \/ e.key = m.key
      BY <3>1
    <3>12. QED
      BY <3>6, <3>9, <3>10, <3>11
  <2>3. QED
    BY <1>5, <2>1, <2>2
<1>7. \A x \in Blocks(r, Size(m)) : Covers(up.fl, x)
  BY <1>3, <1>4, <1>6, SMTT(30)
<1>8. /\ al.ok /\ Good(al.fl)
      /\ \A x \in Int : Covers(al.fl, x) <=> Covers(up.fl, x) /\ x \notin Extent(m)
  <2>1. m.lba = r /\ r \in Nat /\ Size(m) \in Nat \ {0} /\ Good(up.fl)
    BY <1>1, <1>3, <1>6
  <2>2. /\ alloc_block(up.fl, r, Size(m)).ok
        /\ Good(alloc_block(up.fl, r, Size(m)).fl)
        /\ \A x \in Int : Covers(alloc_block(up.fl, r, Size(m)).fl, x)
                           <=> Covers(up.fl, x) /\ x \notin Blocks(r, Size(m))
    BY <1>7, <2>1, AllocAndFree DEF AllocBlockOK
  <2>3. QED
    BY <1>3, <2>1, <2>2
<1>9. Mirrors(d, up.ix)
  <2>1. ASSUME NEW e \in Ents(up.ix) PROVE Intact(d, e.lba) /\ d[e.lba].meta = e
    <3>1. CASE e = m
      BY <1>3, <3>1
    <3>2. CASE e \in Ents(ix)
      BY <1>1, <3>2 DEF Mirrors
    <3>3. QED
      BY <1>6, <3>1, <3>2
  <2>2. QED
    BY <2>1 DEF Mirrors
<1>10. \A e, f \in Ents(up.ix) : e # f => Extent(e) \cap Extent(f) = {}
  BY <1>1, <1>4, <1>6
<1>11. \A e \in Ents(up.ix) : e.lba + Size(e) <= r + Size(m)
  BY <1>1, <1>2, <1>3, <1>6, SMTT(30)
<1>12. ASSUME NEW x \in All
       PROVE  ~Covers(al.fl, x) <=> \E e \in Ents(up.ix) : x \in Extent(e)
  <2>1. x \in Int
    BY AllIs
  <2>2. Covers(al.fl, x) <=> Covers(up.fl, x) /\ x \notin Extent(m)
    BY <1>8, <2>1
  <2>3. QED
    BY <1>6, <2>2
<1>13. ASSUME NEW b \in All, b < r + Size(m), Intact(d, b), Reached(d, b)
       PROVE  \E e \in Ents(up.ix) :
                 /\ e.key = d[b].meta.key
                 /\ \/ e.version > d[b].meta.version
                    \/ e.version = d[b].meta.version /\ e.lba <= b
  <2>1. CASE b < r
    <3>1. PICK e \in Ents(ix) :
             /\ e.key = d[b].meta.key
             /\ \/ e.version > d[b].meta.version
                \/ e.version = d[b].meta.version /\ e.lba <= b
      BY <1>13, <2>1 DEF ScanOK
    <3>2. CASE e \in Ents(up.ix)
      BY <3>1, <3>2
    <3>3. CASE e.key = m.key
      <4>1. d[b].meta.version \in Nat
        BY <1>13, SaneFacts DEF Intact
      <4>2. m.version > d[b].meta.version
        <5>1. e.version \in Nat /\ m.version \in Nat /\ e.version < m.version
          BY <1>2, <1>3, <3>3
        <5>2. e.version > d[b].meta.version \/ e.version = d[b].meta.version
          BY <3>1
        <5>3. QED
          BY <4>1, <5>1, <5>2, AboveThat
      <4>3. QED
        BY <1>6, <3>1, <3>3, <4>2
    <3>4. QED
      BY <1>6, <3>2, <3>3
  <2>2. CASE b = r
    <3>1. m.lba <= b
      BY <1>1, <1>3, <2>2, NatInt
    <3>2. QED
      BY <1>6, <2>2, <3>1
  <2>3. CASE b > r
    <3>1. r < b /\ b \in Int /\ r \in Int
      BY <2>3, AllIs, SMTT(30)
    <3>2. r + Size(m) <= b
      BY <1>3, <1>13, <3>1 DEF Reached
    <3>3. QED
      BY <1>3, <1>13, <3>1, <3>2, Apart, NatInt
  <2>4. QED
    BY <2>1, <2>2, <2>3, AllIs
<1>14. QED
  BY <1>5, <1>6, <1>8, <1>9, <1>10, <1>11, <1>12, <1>13 DEF ScanOK

----------------------------------------------------------------------------
(* What the index shows of the device.                                     *)

ViewOf(d, ix, key) ==
    LET ent == key_lookup(ix, key)
        e == CHOOSE x \in ent : TRUE
    IN  IF ent = {} THEN 0 ELSE IF ReadsOn(d, e, e.lba) THEN e.crc ELSE -1

\* A get returns the value of the entry of its key, or nothing.
LEMMA ViewIs ==
    ASSUME Relied, Prefix = {}, NEW d, NEW ix, OneEach(ix), Mirrors(d, ix), NEW k \in Keys
    PROVE  /\ (\A e \in Ents(ix) : e.key # k) => ViewOf(d, ix, k) = 0
           /\ \A e \in Ents(ix) : e.key = k => ViewOf(d, ix, k) = e.crc
<1>1. CASE key_lookup(ix, k) = {} /\ \A e \in Ents(ix) : e.key # k
  BY <1>1 DEF ViewOf
<1>2. CASE \E e \in Ents(ix) : e.key = k /\ key_lookup(ix, k) = {e}
  <2>1. PICK e \in Ents(ix) : e.key = k /\ key_lookup(ix, k) = {e}
    BY <1>2
  <2>2. ReadsOn(d, e, e.lba)
    BY <2>1 DEF Mirrors, Intact
  <2>3. (CHOOSE x \in {e} : TRUE) = e
    OBVIOUS
  <2>4. ViewOf(d, ix, k) = e.crc
    BY <2>1, <2>2, <2>3 DEF ViewOf
  <2>5. \A f \in Ents(ix) : f.key = k => f = e
    BY <2>1, EntsFacts
  <2>6. QED
    BY <2>1, <2>4, <2>5
<1>3. QED
  BY <1>1, <1>2, KeyLookup

\* The scan ends with an index of the newest record of every key: the store is
\* up, and a get returns what is durable.
LEMMA ScanDone ==
    ASSUME Relied, Prefix = {}, NEW d, NEW p \in Nat, Sane(d, p), Recoverable(d), NEW ix, NEW l,
           NEW r \in Int, r >= MAX_LBA_NUM, ScanOK(d, ix, l, r), NEW tm
    PROVE  /\ UpOK(d, ix, l, << >>, tm, p)
           /\ \A k \in Keys : ViewOf(d, ix, k) = Dur(d, k)
           /\ \A x \in All : ~Covers(l, x) => \E e \in Ents(ix) : x \in Extent(e)
<1>1. /\ Good(l) /\ OneEach(ix) /\ Mirrors(d, ix) /\ d \in Device
      /\ \A x \in All : ~Covers(l, x) <=> \E e \in Ents(ix) : x \in Extent(e)
  BY DEF ScanOK, Sane
<1>2. ASSUME NEW n \in All, Newest(d, n)
      PROVE  \E e \in Ents(ix) : e.key = d[n].meta.key /\ e.lba = n /\ e = d[n].meta
  <2>1. Intact(d, n) /\ Reached(d, n)
    BY <1>2 DEF Recoverable, Newest
  <2>2. n < r /\ n \in Int
    BY MaxLbaAssumption, SMTT(30) DEF All
  <2>3. PICK e \in Ents(ix) :
           /\ e.key = d[n].meta.key
           /\ \/ e.version > d[n].meta.version
              \/ e.version = d[n].meta.version /\ e.lba <= n
    BY <2>1, <2>2 DEF ScanOK
  <2>4. Intact(d, e.lba) /\ d[e.lba].meta = e /\ e.lba \in All /\ e.lba \in Int
    BY <1>1, SMTT(30) DEF Mirrors, Intact, IsRec, All
  <2>5. e.version \in Nat /\ d[n].meta.version \in Nat
    BY <2>1, <2>4, SaneFacts, SMTT(30) DEF Intact
  <2>6. \/ e.version < d[n].meta.version
        \/ e.version = d[n].meta.version /\ n <= e.lba
    BY <1>2, <2>3, <2>4 DEF Newest
  <2>7. e.lba = n
    BY <2>2, <2>3, <2>4, <2>5, <2>6, SMTT(30)
  <2>8. QED
    BY <2>3, <2>4, <2>7
<1>3. ASSUME NEW e \in Ents(ix) PROVE Newest(d, e.lba) /\ e.lba \in All
  <2>1. Intact(d, e.lba) /\ d[e.lba].meta = e /\ e.lba \in All
    BY <1>1 DEF Mirrors, Intact, IsRec
  <2>2. PICK n \in All : Newest(d, n) /\ d[n].meta.key = e.key
    BY <2>1, NewestExists, SMTT(30)
  <2>3. PICK f \in Ents(ix) : f.key = d[n].meta.key /\ f.lba = n
    BY <1>2, <2>2
  <2>4. f = e
    BY <1>1, <2>2, <2>3, EntsFacts
  <2>5. QED
    BY <2>1, <2>2, <2>3, <2>4
<1>4. ASSUME NEW e \in Ents(ix) PROVE Anchor(d, l, e.lba) /\ Span(d, e.lba) = Extent(e)
  <2>1. Newest(d, e.lba) /\ e.lba \in All /\ Intact(d, e.lba) /\ d[e.lba].meta = e
    BY <1>1, <1>3 DEF Mirrors
  <2>2. Span(d, e.lba) = Extent(e)
    BY <2>1 DEF Span, Extent, Size
  <2>3. \A x \in Span(d, e.lba) :
           x \in All /\ ~Covers(l, x) /\ (x # e.lba => d[x].meta = NoMeta)
    BY <1>1, <2>1, <2>2, IntactSpan
  <2>4. QED
    BY <2>1, <2>2, <2>3 DEF Anchor, Recoverable, Intact
<1>5. Owned(d, l)
  BY <1>1, <1>3, <1>4 DEF Owned
<1>6. Safe(d, l)
  BY <1>2, <1>4 DEF Safe
<1>7. ASSUME NEW b \in All, Intact(d, b) PROVE Explained(d, ix, << >>, b)
  <2>1. PICK n \in All : Newest(d, n) /\ d[n].meta.key = d[b].meta.key
    BY <1>7, NewestExists
  <2>2. PICK e \in Ents(ix) : e.key = d[n].meta.key /\ e = d[n].meta
    BY <1>2, <2>1
  <2>3. d[b].meta.version \in Nat /\ d[n].meta.version \in Nat /\ Intact(d, n)
    BY <1>7, <2>1, SaneFacts DEF Newest, Intact
  <2>4. d[b].meta.version <= d[n].meta.version
    BY <1>7, <2>1, <2>3, SMTT(30) DEF Newest
  <2>5. d[b].meta.version = d[n].meta.version => d[b].meta.crc = d[n].meta.crc
    BY <1>7, <2>1, <2>3 DEF Sane
  <2>6. QED
    BY <2>1, <2>2, <2>4, <2>5 DEF Explained
<1>8. UpOK(d, ix, l, << >>, tm, p)
  BY <1>1, <1>4, <1>5, <1>6, <1>7 DEF UpOK
<1>9. ASSUME NEW k \in Keys PROVE ViewOf(d, ix, k) = Dur(d, k)
  <2>1. CASE \E e \in Ents(ix) : e.key = k
    <3>1. PICK e \in Ents(ix) : e.key = k
      BY <2>1
    <3>2. Newest(d, e.lba) /\ d[e.lba].meta = e
      BY <1>1, <1>3 DEF Mirrors
    <3>3. Dur(d, k) = e.crc
      BY <3>1, <3>2, DurIs, SMTT(30)
    <3>4. QED
      BY <1>1, <3>1, <3>3, ViewIs, SMTT(30)
  <2>2. CASE \A e \in Ents(ix) : e.key # k
    <3>1. ASSUME NEW b \in All, Intact(d, b), d[b].meta.key = k PROVE FALSE
      BY <1>2, <2>2, <3>1, NewestExists, SMTT(30)
    <3>2. Dur(d, k) = 0
      BY <3>1, DurIs
    <3>3. QED
      BY <1>1, <2>2, <3>2, ViewIs
  <2>3. QED
    BY <2>1, <2>2
<1>10. QED
  BY <1>1, <1>8, <1>9

----------------------------------------------------------------------------
(* The batch of a dispatch.                                                *)

\* The counters in a state of the invariant.
LEMMA InvTypes ==
    ASSUME OneAtATime, Inv
    PROVE  /\ MaxPuts \in Nat /\ puts \in 0 .. MaxPuts /\ puts \in Nat
           /\ MaxTimers \in Nat /\ timers \in 0 .. MaxTimers /\ timers \in Nat
           /\ MaxFaults \in Nat /\ faults \in 0 .. MaxFaults
           /\ MaxCrashes \in Nat /\ crashes \in 0 .. MaxCrashes
           /\ batch \in Seq(index_ent) /\ blks_read \in All
<1>1. MaxPuts \in Nat /\ MaxTimers \in Nat /\ MaxFaults \in Nat /\ MaxCrashes \in Nat
  BY DEF OneAtATime
<1>2. /\ puts \in 0 .. MaxPuts /\ timers \in 0 .. MaxTimers /\ faults \in 0 .. MaxFaults
      /\ crashes \in 0 .. MaxCrashes /\ batch \in Seq(index_ent) /\ blks_read \in All
  BY DEF Inv, TypeOK
<1>3. QED
  BY <1>1, <1>2, Counts

\* With one put in flight a dispatch flushes the batch it finds, or takes one
\* put into an empty batch.
LEMMA BatchedIs ==
    ASSUME Relied, OneAtATime, Inv, status = "up", NEW ps \in PutSeqs, TakePuts(ps)
    PROVE  /\ puts' \in 0 .. MaxPuts /\ puts <= puts'
           /\ \/ ps = << >> /\ Batched(ps) = batch /\ puts' = puts
              \/ /\ ps # << >> /\ batch = << >> /\ puts' = puts + 1
                 /\ \E e \in index_ent : Batched(ps) = << e >> /\ InFlight(indx, e, puts')
<1>1. /\ Window = 1 /\ Prefix = {} /\ MaxPuts \in Nat /\ VersionMod \in Nat
      /\ MaxPuts < VersionMod /\ Junk \subseteq Int
  BY DEF OneAtATime
<1>2. /\ UpOK(dev, indx, freelist, batch, timers, puts) /\ Sane(dev, puts)
      /\ puts \in 0 .. MaxPuts /\ puts \in Nat /\ batch \in Seq(index_ent) /\ Len(batch) \in Nat
  <2>1. puts \in 0 .. MaxPuts /\ puts \in Nat /\ batch \in Seq(index_ent)
    BY InvTypes
  <2>2. Len(batch) \in Nat
    BY <2>1, SMTT(30)
  <2>3. QED
    BY <2>1, <2>2 DEF Inv
<1> DEFINE P == [key : Keys, len : Lens, lba : Junk]
<1>3. PICK n \in 0 .. 1 : ps \in [1 .. n -> P]
  BY <1>1 DEF PutSeqs
<1> HIDE DEF P
<1>4. ps \in Seq(P) /\ Len(ps) = n
  BY <1>3, SMTT(30)
<1>5. puts' = puts + n /\ puts' \in 0 .. MaxPuts /\ Len(batch) + n <= 1
  BY <1>1, <1>2, <1>4, SMTT(30) DEF TakePuts
<1> DEFINE new == [i \in 1 .. Len(ps) |-> bsys_io_write(ps[i], puts + i)]
<1>6. Batched(ps) = batch \o new
  BY DEF Batched
<1>7. CASE n = 0
  <2>1. ps = << >>
    BY <1>4, <1>7, SMTT(30)
  <2>2. new = << >>
    BY <1>4, <1>7, SMTT(30)
  <2>3. batch \o << >> = batch
    BY <1>2, SMTT(30)
  <2>4. puts' = puts /\ puts <= puts'
    BY <1>1, <1>2, <1>5, <1>7, Counts
  <2>5. QED
    BY <1>5, <1>6, <2>1, <2>2, <2>3, <2>4
<1>8. CASE n = 1
  <2> DEFINE e == bsys_io_write(ps[1], puts + 1)
  <2>1. batch = << >> /\ ps # << >>
    <3>1. Len(batch) = 0 /\ Len(ps) # 0
      BY <1>2, <1>4, <1>5, <1>8, SMTT(30)
    <3>2. QED
      BY <1>2, <3>1, SMTT(30)
  <2>2. new = << e >>
    BY <1>4, <1>8, SMTT(30)
  <2>3. << >> \o << e >> = << e >>
    BY SMTT(30)
  <2>4. ps[1].key \in Keys /\ ps[1].len \in Lens /\ ps[1].len \in Nat /\ ps[1].lba \in Int
    <3>1. ps[1] \in P
      BY <1>3, <1>8, SMTT(30)
    <3>2. ps[1].key \in Keys /\ ps[1].len \in Lens /\ ps[1].lba \in Junk
      BY <3>1 DEF P
    <3>3. QED
      BY <1>1, <3>2, KVAssumption
  <2> DEFINE v == get_version(indx, ps[1].key)
  <2>5. v \in Nat /\ v <= puts
    <3>1. OneEach(indx) /\ Mirrors(dev, indx)
      BY <1>2 DEF UpOK
    <3>2. /\ (\A f \in Ents(indx) : f.key # ps[1].key) => v = 0
          /\ \A f \in Ents(indx) : f.key = ps[1].key => v = f.version
          /\ v \in Nat
      BY <1>1, <2>4, <3>1, GetVersion
    <3>3. \A f \in Ents(indx) : f.version \in 1 .. puts
      BY <1>2, <3>1, SaneFacts, SMTT(30) DEF Mirrors, Intact
    <3> HIDE DEF v
    <3>4. CASE \A f \in Ents(indx) : f.key # ps[1].key
      <4>1. v = 0
        BY <3>2, <3>4
      <4>2. QED
        BY <1>2, <4>1, SMTT(30)
    <3>5. ASSUME NEW f \in Ents(indx), f.key = ps[1].key PROVE v <= puts
      BY <3>2, <3>3, <3>5, RangeNat
    <3>6. QED
      BY <3>2, <3>4, <3>5
  <2> HIDE DEF v
  <2>6. /\ (v + 1) % VersionMod = v + 1 /\ v + 1 \in Nat /\ v + 1 <= puts + 1
        /\ puts + 1 \in 1 .. MaxPuts /\ puts <= puts + 1
    BY <1>1, <1>2, <1>5, <1>8, <2>5, NoWrap
  <2>7. e = [key |-> ps[1].key, lba |-> ps[1].lba, val_len |-> ps[1].len, crc |-> puts + 1,
             version |-> v + 1]
    BY <2>6 DEF bsys_io_write, new_index_ent, v
  <2> HIDE DEF e
  <2>8. puts' = puts + 1
    BY <1>5, <1>8
  <2>9. /\ e \in index_ent /\ e.val_len \in Lens /\ e.crc = puts + 1 /\ e.version = v + 1
        /\ e.key = ps[1].key
    BY <2>4, <2>6, <2>7 DEF index_ent
  <2>10. InFlight(indx, e, puts')
    BY <2>6, <2>8, <2>9 DEF InFlight, v
  <2>11. Batched(ps) = << e >>
    BY <1>6, <2>1, <2>2, <2>3
  <2>12. QED
    BY <1>5, <2>1, <2>6, <2>8, <2>9, <2>10, <2>11
<1>9. QED
  BY <1>7, <1>8, ZeroOne

\* What a dispatch with something to flush does: the one put e0 goes to the
\* range r of get_blk as e, by the stores of its record; the assert of
\* dummy_dev_writev holds, and the stores are within the device unless get_blk
\* found no room.
LEMMA DispatchPlan ==
    ASSUME Relied, OneAtATime, Inv, status = "up", NEW ps \in PutSeqs, TakePuts(ps),
           Batched(ps) # << >>
    PROVE  \E e0, r, e :
              /\ Batched(ps) = << e0 >> /\ InFlight(indx, e0, puts')
              /\ batch # << >> => e0 = batch[1] /\ puts' = puts
              /\ r = get_blk(freelist, Size(e0)) /\ e = [e0 EXCEPT !.lba = r.ret]
              /\ flush(Batched(ps)).ents = << e >> /\ flush(Batched(ps)).fl = r.fl
              /\ flush(Batched(ps)).stores = RecordStores(e, r.ret)
              /\ flush(Batched(ps)).tripped = FALSE
              /\ InBounds(RecordStores(e, r.ret)) <=> r.ret # -1
              /\ r.ret # -1 => Flushing(dev, indx, freelist, batch, puts, puts', e0, r, e)
<1>1. /\ puts' \in 0 .. MaxPuts /\ puts <= puts' /\ puts \in Nat /\ puts' \in Nat
      /\ \/ ps = << >> /\ Batched(ps) = batch /\ puts' = puts
         \/ /\ batch = << >>
            /\ \E e \in index_ent : Batched(ps) = << e >> /\ InFlight(indx, e, puts')
  BY BatchedIs, InvTypes, Counts
<1>2. /\ UpOK(dev, indx, freelist, batch, timers, puts) /\ Sane(dev, puts) /\ Good(freelist)
  BY DEF Inv, UpOK
<1>3. PICK e0 : /\ Batched(ps) = << e0 >> /\ InFlight(indx, e0, puts')
                /\ batch # << >> => e0 = batch[1] /\ puts' = puts
  <2>1. CASE Batched(ps) = batch /\ puts' = puts
    <3>1. batch # << >>
      BY <2>1
    <3>2. batch = << batch[1] >> /\ InFlight(indx, batch[1], puts)
      BY <1>2, <3>1 DEF UpOK
    <3>3. QED
      BY <2>1, <3>2
  <2>2. CASE /\ batch = << >>
             /\ \E e \in index_ent : Batched(ps) = << e >> /\ InFlight(indx, e, puts')
    BY <2>2
  <2>3. QED
    BY <1>1, <2>1, <2>2
<1> DEFINE r == get_blk(freelist, Size(e0))
           e == [e0 EXCEPT !.lba = r.ret]
<1>4. e0 \in index_ent /\ Size(e0) \in Nat \ {0} /\ PaddedBlks(e0.val_len) = Size(e0)
  BY <1>3, EntIsMeta DEF InFlight, OneAtATime, Size
<1>5. flush(<< e0 >>) = [ents |-> << e >>, fl |-> r.fl,
                         stores |-> RecordStores(e, r.ret), tripped |-> FALSE]
  BY <1>2, <1>4, FlushOne
<1>6. \/ r.ret = -1
      \/ r.ret \in Nat /\ r.ret + Size(e0) <= MAX_LBA_NUM
  BY <1>2, <1>4, GetBlk DEF GetBlkOK
<1>7. r.ret \in Int
  BY <1>6, SMTT(30)
<1>8. Size(e) = Size(e0) /\ e.val_len \in Nat
  BY <1>3, <1>4, <1>7, InFlightFacts, EntIsMeta, SMTT(30)
<1> HIDE DEF r, e
<1>9. InBounds(RecordStores(e, r.ret)) <=> Blocks(r.ret, Size(e0)) \subseteq All
  BY <1>7, <1>8, InBoundsOne
<1>10. r.ret = -1 => -1 \in Blocks(r.ret, Size(e0)) /\ -1 \notin All
  BY <1>4, SMTT(30) DEF Blocks, All
<1>11. r.ret # -1 => Blocks(r.ret, Size(e0)) \subseteq All
  BY <1>4, <1>6, MaxLbaAssumption, SMTT(30) DEF Blocks, All
<1>12. InBounds(RecordStores(e, r.ret)) <=> r.ret # -1
  BY <1>9, <1>10, <1>11
<1>13. r.ret # -1 => Flushing(dev, indx, freelist, batch, puts, puts', e0, r, e)
  BY <1>1, <1>2, <1>3 DEF Flushing, r, e
<1>14. /\ flush(Batched(ps)).ents = << e >> /\ flush(Batched(ps)).fl = r.fl
       /\ flush(Batched(ps)).stores = RecordStores(e, r.ret)
       /\ flush(Batched(ps)).tripped = FALSE
  BY <1>3, <1>5, SMTT(30)
<1>15. r = get_blk(freelist, Size(e0)) /\ e = [e0 EXCEPT !.lba = r.ret]
  BY DEF r, e
<1>16. QED
  BY <1>3, <1>12, <1>13, <1>14, <1>15

\* The first q stores of a record.
LEMMA StoresTorn ==
    ASSUME NEW d, NEW e, NEW s \in Int, e.val_len \in Nat
    PROVE  /\ Len(RecordStores(e, s)) = Size(e) + 1
           /\ Apply(d, RecordStores(e, s)) = Torn(d, e, s, Size(e) + 1)
           /\ \A q \in 0 .. Size(e) : Apply(d, SubSeq(RecordStores(e, s), 1, q)) = Torn(d, e, s, q)
<1> DEFINE ss == RecordStores(e, s)
<1>1. Size(e) \in Nat \ {0}
  BY SizePos
<1>2. ss = [i \in 1 .. (Size(e) + 1) |-> StoreAt(e, s, i)]
  BY DEF RecordStores
<1>3. /\ ss \in Seq({StoreAt(e, s, i) : i \in 1 .. (Size(e) + 1)}) /\ Len(ss) = Size(e) + 1
      /\ \A i \in 1 .. (Size(e) + 1) : ss[i] = StoreAt(e, s, i)
  BY <1>1, <1>2, SMTT(30)
<1>4. Apply(d, ss) = Torn(d, e, s, Size(e) + 1)
  BY <1>1, <1>3, ApplyPrefix, SMTT(30)
<1>5. ASSUME NEW q \in 0 .. Size(e) PROVE Apply(d, SubSeq(ss, 1, q)) = Torn(d, e, s, q)
  <2> HIDE DEF ss
  <2>1. Len(SubSeq(ss, 1, q)) = q /\ \A i \in 1 .. q : SubSeq(ss, 1, q)[i] = ss[i]
    BY <1>1, <1>3, SMTT(30)
  <2>2. \A i \in 1 .. q : SubSeq(ss, 1, q)[i] = StoreAt(e, s, i)
    BY <1>1, <1>3, <2>1, SMTT(30)
  <2>3. q \in 0 .. (Size(e) + 1)
    BY <1>1, SMTT(30)
  <2>4. QED
    BY <2>1, <2>2, <2>3, ApplyPrefix
<1>6. QED
  BY <1>3, <1>4, <1>5

\* Versions below a bound are below a greater one.
LEMMA SaneMono ==
    ASSUME NEW d, NEW p \in Nat, NEW p2 \in Nat, p <= p2, Sane(d, p)
    PROVE  Sane(d, p2)
  BY SMTT(30) DEF Sane

\* The device of a running store is one the scan rebuilds.
LEMMA UpRecovers ==
    ASSUME NEW d, NEW ix, NEW l, NEW bt, NEW tm, NEW p, UpOK(d, ix, l, bt, tm, p)
    PROVE  Recoverable(d)
  BY DEF UpOK, Safe, Anchor, Recoverable

\* The state behind a step that ends the process, and behind one that leaves
\* the store up.
LEMMA GoneInv ==
    ASSUME Relied, OneAtATime, NEW s \in {"dead", "fault"}, Gone(s), puts' \in 0 .. MaxPuts,
           faults' \in 0 .. MaxFaults, crashes' \in 0 .. MaxCrashes,
           Sane(dev', puts'), s = "dead" => Recoverable(dev')
    PROVE  Inv'
<1>1. dev' \in Device
  BY DEF Sane
<1>2. /\ indx' \in [Range(Bucket) -> Seq(index_ent)]
  BY <1>1, ScanStarts DEF Gone, OneEach
<1>3. freelist' \in Seq(freelist_ent)
  BY FreelistFacts, GoodIsSeq DEF Gone
<1>4. batch' \in Seq(index_ent) /\ Len(batch') <= Window /\ timers' \in 0 .. MaxTimers
  BY SMTT(30) DEF Gone, OneAtATime
<1>5. blks_read' \in All
  BY MaxLbaAssumption, SMTT(30) DEF Gone, All
<1>6. TypeOK'
  BY <1>1, <1>2, <1>3, <1>4, <1>5 DEF TypeOK, Device, Gone
<1>7. QED
  BY <1>6 DEF Inv, Gone

\* The invariant of a store that is up, from its parts.
LEMMA UpInv ==
    ASSUME status' = "up", Sane(dev', puts'),
           UpOK(dev', indx', freelist', batch', timers', puts'),
           batch' \in Seq(index_ent), Len(batch') <= Window, timers' \in 0 .. MaxTimers,
           blks_read' \in All, puts' \in 0 .. MaxPuts,
           faults' \in 0 .. MaxFaults, crashes' \in 0 .. MaxCrashes
    PROVE  Inv'
<1>1. dev' \in Device /\ indx' \in [Range(Bucket) -> Seq(index_ent)]
      /\ freelist' \in Seq(freelist_ent)
  BY GoodIsSeq DEF Sane, UpOK, OneEach
<1>2. TypeOK'
  BY <1>1 DEF TypeOK, Device
<1>3. QED
  BY <1>2 DEF Inv

----------------------------------------------------------------------------
(* The steps of the store: each keeps the invariant, with what the         *)
(* properties need to know of it.                                          *)

\* bsys_dispatch keeps the invariant, and takes one put.
LEMMA DispatchStep ==
    ASSUME Relied, OneAtATime, Inv, NEW ps \in PutSeqs, bsys_dispatch(ps)
    PROVE  /\ Inv'
           /\ \E e \in index_ent :
                 /\ batch' = << e >>
                 /\ batch # << >> => e.key = batch[1].key /\ e.crc = batch[1].crc
                 /\ Dur(dev', e.key) = e.crc
                 /\ \A k : k # e.key => Dur(dev', k) = Dur(dev, k)
                 /\ \A x \in All : Covers(freelist, x) => Covers(freelist', x) \/ x \in Extent(e)
<1>1. /\ status = "up" /\ TakePuts(ps) /\ Batched(ps) # << >> /\ timers < MaxTimers
      /\ InBounds(flush(Batched(ps)).stores)
      /\ dev' = Apply(dev, flush(Batched(ps)).stores)
      /\ freelist' = flush(Batched(ps)).fl
      /\ batch' = flush(Batched(ps)).ents
      /\ timers' = timers + 1
      /\ UNCHANGED <<indx, status, blks_read, faults, crashes>>
  BY DEF bsys_dispatch, TakePuts, ArmTimer
<1>2. PICK e0, r, e :
              /\ Batched(ps) = << e0 >> /\ InFlight(indx, e0, puts')
              /\ batch # << >> => e0 = batch[1] /\ puts' = puts
              /\ r = get_blk(freelist, Size(e0)) /\ e = [e0 EXCEPT !.lba = r.ret]
              /\ flush(Batched(ps)).ents = << e >> /\ flush(Batched(ps)).fl = r.fl
              /\ flush(Batched(ps)).stores = RecordStores(e, r.ret)
              /\ flush(Batched(ps)).tripped = FALSE
              /\ InBounds(RecordStores(e, r.ret)) <=> r.ret # -1
              /\ r.ret # -1 => Flushing(dev, indx, freelist, batch, puts, puts', e0, r, e)
  BY <1>1, DispatchPlan
<1>3. /\ UpOK(dev, indx, freelist, batch, timers, puts) /\ Prefix = {} /\ timers \in Nat
      /\ timers' \in 0 .. MaxTimers
  <2>1. UpOK(dev, indx, freelist, batch, timers, puts) /\ Prefix = {}
    BY <1>1 DEF Inv, OneAtATime
  <2>2. QED
    BY <1>1, <2>1, InvTypes, Counts
<1>4. Flushing(dev, indx, freelist, batch, puts, puts', e0, r, e)
  BY <1>1, <1>2
<1>5. /\ Room(dev, freelist, e, r.ret) /\ InFlight(indx, e, puts') /\ e.lba = r.ret
      /\ e.key = e0.key /\ e.crc = e0.crc
      /\ \A x \in Int : Covers(r.fl, x) <=> Covers(freelist, x) /\ x \notin Blocks(r.ret, Size(e))
  <2>1. Placed(dev, indx, freelist, puts', e0, r, e)
    BY <1>3, <1>4, FlushRoom
  <2>2. QED
    BY <2>1 DEF Placed
<1>6. e \in index_ent /\ e.val_len \in Nat /\ Size(e) \in Nat /\ r.ret \in Int
  BY <1>5, EntIsMeta DEF InFlight
<1>7. dev' = Torn(dev, e, r.ret, Size(e) + 1)
  <2>1. dev' = Apply(dev, RecordStores(e, r.ret))
    BY <1>1, <1>2
  <2>2. QED
    BY <1>6, <2>1, StoresTorn
<1>8. Size(e) + 1 \in 0 .. (Size(e) + 1)
  BY <1>6, SMTT(30)
<1>9. /\ Sane(dev', puts')
      /\ \A k : Dur(dev', k) = Dur(dev, k) \/ (k = e.key /\ Dur(dev', k) = e.crc)
  <2>1. Survives(dev, dev', puts', e)
    BY <1>3, <1>4, <1>7, <1>8, FlushTorn
  <2>2. QED
    BY <2>1 DEF Survives
<1>10. /\ UpOK(dev', indx, r.fl, << e >>, timers + 1, puts')
       /\ Dur(dev', e.key) = e.crc
  <2>1. Stored(dev', indx, timers, puts', r, e)
    BY <1>3, <1>4, <1>7, FlushDone
  <2>2. QED
    BY <2>1 DEF Stored
<1>11. /\ freelist' = r.fl /\ batch' = << e >> /\ batch' \in Seq(index_ent) /\ Len(batch') = 1
  <2>1. freelist' = r.fl /\ batch' = << e >>
    BY <1>1, <1>2
  <2>2. << e >> \in Seq(index_ent) /\ Len(<< e >>) = 1
    BY <1>6, SMTT(30)
  <2>3. QED
    BY <2>1, <2>2
<1>12. puts' \in 0 .. MaxPuts
  BY <1>1, BatchedIs
<1>13. Inv'
  <2>1. UpOK(dev', indx', freelist', batch', timers', puts') /\ Len(batch') <= Window
    BY <1>1, <1>10, <1>11, WindowOne
  <2>2. /\ status' = "up" /\ blks_read' \in All
        /\ faults' \in 0 .. MaxFaults /\ crashes' \in 0 .. MaxCrashes
    BY <1>1 DEF Inv, TypeOK
  <2>3. QED
    BY <1>3, <1>9, <1>11, <1>12, <2>1, <2>2, UpInv
<1>14. ASSUME NEW x \in All, Covers(freelist, x) PROVE Covers(freelist', x) \/ x \in Extent(e)
  <2>1. x \in Int /\ Extent(e) = Blocks(r.ret, Size(e))
    BY <1>5, AllIs DEF Extent, Size
  <2>2. QED
    BY <1>5, <1>11, <1>14, <2>1
<1>15. QED
  BY <1>2, <1>5, <1>6, <1>9, <1>10, <1>11, <1>13, <1>14

\* No dispatch trips the assert of dummy_dev_writev.
LEMMA NoDispatchTrips ==
    ASSUME Relied, OneAtATime, Inv, NEW ps \in PutSeqs, DispatchTripsAssert(ps)
    PROVE  FALSE
<1>1. /\ status = "up" /\ TakePuts(ps) /\ Batched(ps) # << >>
      /\ flush(Batched(ps)).tripped
  BY DEF DispatchTripsAssert, TakePuts
<1>2. flush(Batched(ps)).tripped = FALSE
  BY <1>1, DispatchPlan
<1>3. QED
  BY <1>1, <1>2

\* So does a dispatch that copies to an address outside the device,
LEMMA OverrunStep ==
    ASSUME Relied, OneAtATime, Inv, NEW ps \in PutSeqs, DispatchOverruns(ps)
    PROVE  Inv'
<1>1. /\ status = "up" /\ TakePuts(ps) /\ Gone("fault") /\ UNCHANGED <<dev, faults, crashes>>
  BY DEF DispatchOverruns, TakePuts
<1>2. puts' \in 0 .. MaxPuts /\ puts <= puts' /\ puts \in Nat /\ puts' \in Nat
  BY <1>1, BatchedIs, InvTypes, Counts
<1>3. Sane(dev', puts')
  BY <1>1, <1>2, SaneMono DEF Inv
<1>4. faults' \in 0 .. MaxFaults /\ crashes' \in 0 .. MaxCrashes
  BY <1>1 DEF Inv, TypeOK
<1>5. QED
  BY <1>1, <1>2, <1>3, <1>4, GoneInv

\* one that a fault on a descriptor ends before the flush,
LEMMA FaultStep ==
    ASSUME Relied, OneAtATime, Inv, NEW ps \in PutSeqs, DispatchFaults(ps)
    PROVE  /\ Inv' /\ batch = << >>
           /\ \E e \in index_ent : batch' = << e >>
<1>1. /\ status = "up" /\ TakePuts(ps) /\ ps # << >> /\ faults < MaxFaults /\ timers <= 0
      /\ faults' = faults + 1 /\ batch' = Batched(ps)
      /\ UNCHANGED <<dev, indx, freelist, timers, status, blks_read, crashes>>
  BY DEF DispatchFaults, TakePuts, OneAtATime
<1>2. /\ puts' \in 0 .. MaxPuts /\ puts <= puts' /\ puts \in Nat /\ puts' \in Nat
      /\ batch = << >>
      /\ \E e \in index_ent : Batched(ps) = << e >> /\ InFlight(indx, e, puts')
  BY <1>1, BatchedIs, InvTypes, Counts
<1>3. PICK e \in index_ent : batch' = << e >> /\ InFlight(indx, e, puts')
  BY <1>1, <1>2
<1>4. Sane(dev', puts')
  BY <1>1, <1>2, SaneMono DEF Inv
<1>5. UpOK(dev, indx, freelist, << >>, timers, puts)
  BY <1>1, <1>2 DEF Inv
<1>6. << e >> # << >> /\ << e >>[1] = e /\ << e >> \in Seq(index_ent) /\ Len(<< e >>) = 1
  BY SMTT(30)
<1>7. ~(timers > 0)
  BY <1>1, InvTypes, Counts
<1>8. UpOK(dev, indx, freelist, << e >>, timers, puts')
  BY <1>3, <1>5, <1>6, <1>7 DEF UpOK, Explained
<1>9. /\ UpOK(dev', indx', freelist', batch', timers', puts')
      /\ batch' \in Seq(index_ent) /\ Len(batch') <= Window
  BY <1>1, <1>3, <1>6, <1>8, WindowOne
<1>10. /\ status' = "up" /\ blks_read' \in All /\ timers' \in 0 .. MaxTimers
       /\ faults' \in 0 .. MaxFaults /\ crashes' \in 0 .. MaxCrashes
  BY <1>1, InvTypes, Counts
<1>11. Inv'
  BY <1>2, <1>4, <1>9, <1>10, UpInv
<1>12. QED
  BY <1>2, <1>3, <1>11

\* one in which the process is killed between two stores,
LEMMA KilledStep ==
    ASSUME Relied, OneAtATime, Inv, NEW ps \in PutSeqs, KilledInFlush(ps)
    PROVE  /\ Inv'
           /\ \E e \in index_ent :
                 /\ batch # << >> => e.key = batch[1].key /\ e.crc = batch[1].crc
                 /\ \A k : Dur(dev', k) = Dur(dev, k) \/ (k = e.key /\ Dur(dev', k) = e.crc)
<1>1. /\ status = "up" /\ TakePuts(ps) /\ Batched(ps) # << >> /\ crashes < MaxCrashes
      /\ InBounds(flush(Batched(ps)).stores)
      /\ \E k \in 0 .. (Len(flush(Batched(ps)).stores) - 1) :
            dev' = Apply(dev, SubSeq(flush(Batched(ps)).stores, 1, k))
      /\ Gone("dead") /\ crashes' = crashes + 1 /\ faults' = faults
  BY DEF KilledInFlush, TakePuts
<1>2. PICK e0, r, e :
              /\ Batched(ps) = << e0 >> /\ InFlight(indx, e0, puts')
              /\ batch # << >> => e0 = batch[1] /\ puts' = puts
              /\ r = get_blk(freelist, Size(e0)) /\ e = [e0 EXCEPT !.lba = r.ret]
              /\ flush(Batched(ps)).ents = << e >> /\ flush(Batched(ps)).fl = r.fl
              /\ flush(Batched(ps)).stores = RecordStores(e, r.ret)
              /\ flush(Batched(ps)).tripped = FALSE
              /\ InBounds(RecordStores(e, r.ret)) <=> r.ret # -1
              /\ r.ret # -1 => Flushing(dev, indx, freelist, batch, puts, puts', e0, r, e)
  BY <1>1, DispatchPlan
<1>3. UpOK(dev, indx, freelist, batch, timers, puts) /\ Prefix = {}
  BY <1>1 DEF Inv, OneAtATime
<1>4. Flushing(dev, indx, freelist, batch, puts, puts', e0, r, e)
  BY <1>1, <1>2
<1>5. /\ InFlight(indx, e, puts') /\ e.lba = r.ret /\ e.key = e0.key /\ e.crc = e0.crc
  <2>1. Placed(dev, indx, freelist, puts', e0, r, e)
    BY <1>3, <1>4, FlushRoom
  <2>2. QED
    BY <2>1 DEF Placed
<1>6. e \in index_ent /\ e.val_len \in Nat /\ Size(e) \in Nat /\ r.ret \in Int
  BY <1>5, EntIsMeta DEF InFlight
<1>7. PICK q \in 0 .. (Len(RecordStores(e, r.ret)) - 1) :
         dev' = Apply(dev, SubSeq(RecordStores(e, r.ret), 1, q))
  BY <1>1, <1>2
<1>8. q \in 0 .. Size(e) /\ q \in 0 .. (Size(e) + 1)
  <2>1. Len(RecordStores(e, r.ret)) = Size(e) + 1
    BY <1>6, StoresTorn
  <2>2. QED
    BY <1>6, <2>1, SMTT(30)
<1>9. dev' = Torn(dev, e, r.ret, q)
  BY <1>6, <1>7, <1>8, StoresTorn
<1>10. /\ Sane(dev', puts') /\ Recoverable(dev')
       /\ \A k : Dur(dev', k) = Dur(dev, k) \/ (k = e.key /\ Dur(dev', k) = e.crc)
  <2>1. Survives(dev, dev', puts', e)
    BY <1>3, <1>4, <1>8, <1>9, FlushTorn
  <2>2. QED
    BY <2>1 DEF Survives
<1>11. puts' \in 0 .. MaxPuts
  BY <1>1, BatchedIs
<1>12. faults' \in 0 .. MaxFaults /\ crashes' \in 0 .. MaxCrashes
  BY <1>1, InvTypes, Counts
<1>13. Inv'
  BY <1>1, <1>10, <1>11, <1>12, GoneInv
<1>14. QED
  BY <1>2, <1>5, <1>6, <1>10, <1>13

\* and the completion of the write.
LEMMA CallbackStep ==
    ASSUME Relied, OneAtATime, Inv, io_write_cb
    PROVE  /\ Inv' /\ dev' = dev /\ status = "up"
           /\ \/ Gone("dead")
              \/ /\ status' = "up" /\ batch = << >> /\ batch' = << >>
                 /\ indx' = indx /\ freelist' = freelist
              \/ /\ status' = "up" /\ batch' = << >>
                 /\ \E e \in index_ent :
                       /\ batch = << e >> /\ Dur(dev, e.key) = e.crc
                       /\ e \in Ents(indx')
                       /\ \A f : f.key # e.key => (f \in Ents(indx') <=> f \in Ents(indx))
                       /\ \A x \in All : Covers(freelist', x) \/ ~Covers(freelist, x)
                       /\ \A x \in All : (\E f \in Ents(indx) : x \in Extent(f)) =>
                             Covers(freelist', x) \/ \E f \in Ents(indx') : x \in Extent(f)
<1> DEFINE st == IndexBatch(batch)
<1>1. /\ status = "up" /\ timers > 0
      /\ \/ /\ st.ok /\ indx' = st.ix /\ freelist' = st.fl /\ batch' = << >>
            /\ timers' = timers - 1 /\ UNCHANGED <<status, blks_read>>
         \/ Gone("dead")
      /\ UNCHANGED <<dev, puts, faults, crashes>>
  BY DEF io_write_cb
<1> HIDE DEF st
<1>2. /\ UpOK(dev, indx, freelist, batch, timers, puts) /\ Sane(dev, puts)
      /\ puts \in 0 .. MaxPuts /\ puts \in Nat /\ timers \in 0 .. MaxTimers
      /\ timers \in Nat \ {0} /\ blks_read \in All
      /\ faults \in 0 .. MaxFaults /\ crashes \in 0 .. MaxCrashes
      /\ MaxTimers \in Nat /\ Window = 1 /\ Prefix = {}
  <2>1. Window = 1 /\ Prefix = {}
    BY DEF OneAtATime
  <2>2. UpOK(dev, indx, freelist, batch, timers, puts) /\ Sane(dev, puts)
    BY <1>1 DEF Inv
  <2>3. QED
    BY <1>1, <2>1, <2>2, InvTypes, Counts
<1>3. CASE Gone("dead")
  <2>1. Recoverable(dev') /\ Sane(dev', puts')
    BY <1>1, <1>2, UpRecovers
  <2>2. puts' \in 0 .. MaxPuts /\ faults' \in 0 .. MaxFaults /\ crashes' \in 0 .. MaxCrashes
    BY <1>1, <1>2
  <2>3. Inv'
    BY <1>3, <2>1, <2>2, GoneInv
  <2>4. QED
    BY <1>1, <1>3, <2>3
<1>4. CASE /\ st.ok /\ indx' = st.ix /\ freelist' = st.fl /\ batch' = << >>
           /\ timers' = timers - 1 /\ UNCHANGED <<status, blks_read>>
  <2>1. /\ status' = "up" /\ Sane(dev', puts') /\ timers' \in 0 .. MaxTimers
        /\ blks_read' \in All /\ puts' \in 0 .. MaxPuts
        /\ faults' \in 0 .. MaxFaults /\ crashes' \in 0 .. MaxCrashes
    BY <1>1, <1>2, <1>4, Counts
  <2>2. batch' \in Seq(index_ent) /\ Len(batch') <= Window
    BY <1>2, <1>4, SMTT(30)
  <2>3. CASE batch = << >>
    <3>1. st = [ix |-> indx, fl |-> freelist, ok |-> TRUE]
      BY <2>3, IndexBatchIs DEF st
    <3>2. indx' = indx /\ freelist' = freelist
      BY <1>4, <3>1
    <3>3. UpOK(dev', indx', freelist', batch', timers', puts')
      BY <1>1, <1>2, <1>4, <2>3, <3>2 DEF UpOK
    <3>4. Inv'
      BY <2>1, <2>2, <3>3, UpInv
    <3>5. QED
      BY <1>1, <1>4, <2>1, <2>3, <3>2, <3>4
  <2>4. CASE batch # << >>
    <3> DEFINE e == batch[1]
    <3>1. batch = << e >> /\ InFlight(indx, e, puts) /\ Flushed(dev, freelist, e)
      BY <1>1, <1>2, <2>4 DEF UpOK
    <3> HIDE DEF e
    <3>2. st = Reindexed(indx, freelist, e) /\ e \in index_ent
      BY <3>1, IndexBatchIs DEF st, InFlight
    <3>3. UpOK(dev, indx, freelist, << e >>, timers, puts)
      BY <1>2, <3>1
    <3>4. /\ UpOK(dev, st.ix, st.fl, << >>, timers - 1, puts)
          /\ e \in Ents(st.ix)
          /\ \A f : f.key # e.key => (f \in Ents(st.ix) <=> f \in Ents(indx))
          /\ \A x \in All : Covers(st.fl, x) \/ ~Covers(freelist, x)
          /\ \A x \in All : (\E f \in Ents(indx) : x \in Extent(f)) =>
                Covers(st.fl, x) \/ \E f \in Ents(st.ix) : x \in Extent(f)
      BY <1>2, <1>4, <3>2, <3>3, AckStep
    <3>5. UpOK(dev', indx', freelist', batch', timers', puts')
      BY <1>1, <1>4, <3>4
    <3>6. Inv'
      BY <2>1, <2>2, <3>5, UpInv
    <3>7. Dur(dev, e.key) = e.crc
      BY <1>2, <3>1, <3>3, FlushedIsDurable
    <3>8. QED
      BY <1>1, <1>4, <2>1, <3>1, <3>2, <3>4, <3>6, <3>7
  <2>5. QED
    BY <2>3, <2>4
<1>5. QED
  BY <1>1, <1>3, <1>4

\* A turn of the scan.
LEMMA ScanStep ==
    ASSUME Relied, OneAtATime, Inv, init_cb
    PROVE  /\ Inv' /\ dev' = dev /\ status = "scan" /\ batch = << >> /\ batch' = << >>
           /\ \/ status' = "scan"
              \/ /\ status' = "up"
                 /\ \A k \in Keys : ViewOf(dev, indx', k) = Dur(dev, k)
                 /\ \A x \in All : ~Covers(freelist', x) => \E e \in Ents(indx') : x \in Extent(e)
<1>1. status = "scan" /\ UNCHANGED <<dev, puts, faults, crashes>>
  BY DEF init_cb, SkipGarbage
<1>2. /\ ScanOK(dev, indx, freelist, blks_read) /\ Sane(dev, puts) /\ Recoverable(dev)
      /\ batch = << >> /\ timers = 0 /\ blks_read \in All /\ blks_read \in Nat
      /\ puts \in 0 .. MaxPuts /\ puts \in Nat /\ Prefix = {} /\ Window = 1
      /\ faults \in 0 .. MaxFaults /\ crashes \in 0 .. MaxCrashes /\ MaxTimers \in Nat
      /\ OneEach(indx)
  <2>1. /\ ScanOK(dev, indx, freelist, blks_read) /\ Sane(dev, puts) /\ Recoverable(dev)
        /\ batch = << >> /\ timers = 0
    BY <1>1 DEF Inv
  <2>2. /\ blks_read \in All /\ puts \in 0 .. MaxPuts
        /\ faults \in 0 .. MaxFaults /\ crashes \in 0 .. MaxCrashes
    BY DEF Inv, TypeOK
  <2>3. Prefix = {} /\ Window = 1 /\ MaxTimers \in Nat /\ MaxPuts \in Nat
    BY DEF OneAtATime
  <2>4. blks_read \in Nat /\ puts \in Nat
    BY <2>2, <2>3, SMTT(30) DEF All
  <2>5. OneEach(indx)
    BY <2>1 DEF ScanOK
  <2>6. QED
    BY <2>1, <2>2, <2>3, <2>4, <2>5
<1> DEFINE m == dev[blks_read].meta
<1>3. \E n \in Nat \ {0} : Advance(n) /\ ScanOK(dev, indx', freelist', blks_read + n)
  <2>1. CASE SkipGarbage
    <3>1. ~IsRec(dev, blks_read) /\ Advance(1) /\ UNCHANGED <<indx, freelist>>
      BY <2>1 DEF SkipGarbage, IsRec
    <3>2. ScanOK(dev, indx, freelist, blks_read + 1)
      BY <1>2, <3>1, ScanSkips, SMTT(30)
    <3>3. QED
      BY <3>1, <3>2, SMTT(30)
  <2>2. CASE dev[blks_read].meta # NoMeta /\ ScanRecord(dev[blks_read].meta)
    <3>1. IsRec(dev, blks_read) /\ m \in index_ent /\ m.key \in Keys /\ Size(m) \in Nat \ {0}
      <4>1. IsRec(dev, blks_read)
        BY <1>2, <2>2 DEF IsRec
      <4>2. QED
        BY <1>2, <4>1, SaneFacts, EntIsMeta
    <3>2. Reads(m, blks_read) <=> Intact(dev, blks_read)
      BY <3>1 DEF Reads, Intact, ReadsOn, Size
    <3> DEFINE stale == \E old \in key_lookup(indx, m.key) : old.version >= m.version
               up == Reindexed(indx, freelist, m)
               al == alloc_block(up.fl, m.lba, Size(m))
    <3>3. /\ stale => \E old \in Ents(indx) : old.key = m.key /\ old.version >= m.version
          /\ ~stale => \A old \in Ents(indx) : old.key = m.key => ~(old.version >= m.version)
      <4>1. \/ key_lookup(indx, m.key) = {} /\ \A e \in Ents(indx) : e.key # m.key
            \/ \E e \in Ents(indx) : e.key = m.key /\ key_lookup(indx, m.key) = {e}
        BY <1>2, <3>1, KeyLookup
      <4>2. \A e, f \in Ents(indx) : e.key = f.key => e = f
        BY <1>2, EntsFacts
      <4> HIDE DEF m
      <4>3. QED
        BY <4>1, <4>2
    <3>4. /\ Adopt(m).ix = up.ix /\ Adopt(m).fl = al.fl /\ (Adopt(m).ok <=> up.ok /\ al.ok)
      BY DEF Adopt, Reindexed, Size
    <3>5. CASE (stale \/ ~Reads(m, blks_read)) /\ Advance(Size(m)) /\ UNCHANGED <<indx, freelist>>
      <4>1. \/ ~Intact(dev, blks_read)
            \/ \E old \in Ents(indx) : old.key = m.key /\ old.version >= m.version
        BY <3>2, <3>3, <3>5
      <4>2. ScanOK(dev, indx, freelist, blks_read + Size(m))
        BY <1>2, <3>1, <4>1, ScanSkips
      <4>3. QED
        BY <3>1, <3>5, <4>2
    <3>6. CASE ~stale /\ Reads(m, blks_read)
      <4>1. Intact(dev, blks_read)
        BY <3>2, <3>6
      <4>2. \A old \in Ents(indx) : old.key = m.key => old.version < m.version
        <5>1. ASSUME NEW old \in Ents(indx), old.key = m.key PROVE old.version < m.version
          <6>1. old.version \in Nat /\ m.version \in Nat
            BY <1>2, <3>1, EntsFacts, EntIsMeta
          <6>2. ~(old.version >= m.version)
            BY <3>3, <3>6, <5>1
          <6> HIDE DEF m
          <6>3. QED
            BY <6>1, <6>2, SMTT(30)
        <5>2. QED
          BY <5>1
      <4>3. up.ok /\ al.ok /\ ScanOK(dev, up.ix, al.fl, blks_read + Size(m))
        <5>1. m = dev[blks_read].meta /\ up = Reindexed(indx, freelist, m)
              /\ al = alloc_block(up.fl, m.lba, Size(m))
          OBVIOUS
        <5> HIDE DEF m, up, al
        <5>2. QED
          BY <1>2, <4>1, <4>2, <5>1, ScanAdopts
      <4>4. Advance(Size(m)) /\ indx' = up.ix /\ freelist' = al.fl
        <5>1. Adopt(m).ok
          BY <3>4, <4>3
        <5>2. Advance(Size(m)) /\ indx' = Adopt(m).ix /\ freelist' = Adopt(m).fl
          BY <2>2, <3>6, <5>1 DEF ScanRecord, Size
        <5>3. QED
          BY <3>4, <5>2
      <4>5. QED
        BY <3>1, <4>3, <4>4
    <3>7. \/ (stale \/ ~Reads(m, blks_read)) /\ Advance(Size(m)) /\ UNCHANGED <<indx, freelist>>
          \/ ~stale /\ Reads(m, blks_read)
      BY <2>2 DEF ScanRecord, Size
    <3>8. QED
      BY <3>5, <3>6, <3>7
  <2>3. QED
    BY <2>1, <2>2 DEF init_cb
<1>4. PICK n \in Nat \ {0} : Advance(n) /\ ScanOK(dev, indx', freelist', blks_read + n)
  BY <1>3
<1>5. batch' = << >> /\ timers' = 0 /\ batch' \in Seq(index_ent) /\ Len(batch') <= Window
      /\ timers' \in 0 .. MaxTimers
  BY <1>2, <1>4, SMTT(30) DEF Advance
<1>6. /\ Sane(dev', puts') /\ Recoverable(dev') /\ puts' \in 0 .. MaxPuts
      /\ faults' \in 0 .. MaxFaults /\ crashes' \in 0 .. MaxCrashes
  BY <1>1, <1>2
<1>7. CASE blks_read + n < MAX_LBA_NUM
  <2>1. blks_read' = blks_read + n /\ status' = "scan"
    BY <1>4, <1>7 DEF Advance
  <2>2. blks_read' \in All
    BY <1>2, <1>7, <2>1, MaxLbaAssumption, SMTT(30) DEF All
  <2>3. ScanOK(dev', indx', freelist', blks_read')
    BY <1>1, <1>4, <2>1
  <2>4. dev' \in Device /\ indx' \in [Range(Bucket) -> Seq(index_ent)]
        /\ freelist' \in Seq(freelist_ent)
    BY <1>6, <2>3, GoodIsSeq DEF Sane, ScanOK, OneEach
  <2>5. TypeOK'
    BY <1>5, <1>6, <2>1, <2>2, <2>4 DEF TypeOK, Device
  <2>6. Inv'
    BY <1>5, <1>6, <2>1, <2>3, <2>5 DEF Inv
  <2>7. QED
    BY <1>1, <1>2, <1>5, <2>1, <2>6
<1>8. CASE ~(blks_read + n < MAX_LBA_NUM)
  <2>1. blks_read' = 0 /\ status' = "up"
    BY <1>4, <1>8 DEF Advance
  <2>2. blks_read' \in All
    BY <2>1, MaxLbaAssumption, SMTT(30) DEF All
  <2>3. blks_read + n \in Int /\ blks_read + n >= MAX_LBA_NUM
    BY <1>2, <1>8, MaxLbaAssumption, SMTT(30)
  <2>4. /\ UpOK(dev, indx', freelist', << >>, 0, puts)
        /\ \A k \in Keys : ViewOf(dev, indx', k) = Dur(dev, k)
        /\ \A x \in All : ~Covers(freelist', x) => \E e \in Ents(indx') : x \in Extent(e)
    BY <1>2, <1>4, <2>3, ScanDone
  <2>5. UpOK(dev', indx', freelist', batch', timers', puts')
    BY <1>1, <1>5, <2>4
  <2>6. Inv'
    BY <1>5, <1>6, <2>1, <2>2, <2>5, UpInv
  <2>7. QED
    BY <1>1, <1>2, <1>5, <2>1, <2>4, <2>6
<1>9. QED
  BY <1>7, <1>8

----------------------------------------------------------------------------
(* The invariant.                                                          *)

\* A store that was never used satisfies the invariant.
LEMMA InitInv == ASSUME Relied, OneAtATime, Init PROVE Inv
<1>1. Blank \in [meta : index_ent \cup {NoMeta}, data : (0 .. MaxPuts) \X Nat]
  BY SMTT(30) DEF Blank, Zero, OneAtATime
<1>2. dev \in Device /\ \A b \in All : dev[b].meta = NoMeta
  BY <1>1 DEF Init, Device, Blank
<1>3. \A b : ~IsRec(dev, b)
  BY <1>2 DEF IsRec
<1>4. Sane(dev, puts) /\ Recoverable(dev)
  BY <1>2, <1>3 DEF Sane, Recoverable, Newest, Intact
<1>5. ScanOK(dev, indx, freelist, blks_read) /\ OneEach(indx)
  BY <1>2, ScanStarts DEF Init
<1>6. freelist \in Seq(freelist_ent)
  BY <1>5, GoodIsSeq DEF ScanOK
<1>7. /\ batch \in Seq(index_ent) /\ Len(batch) <= Window /\ timers \in 0 .. MaxTimers
      /\ puts \in 0 .. MaxPuts /\ faults \in 0 .. MaxFaults /\ crashes \in 0 .. MaxCrashes
      /\ blks_read \in All
  <2>1. batch = << >> /\ timers = 0 /\ puts = 0 /\ faults = 0 /\ crashes = 0 /\ blks_read = 0
    BY DEF Init
  <2>2. MaxTimers \in Nat /\ MaxPuts \in Nat /\ MaxFaults \in Nat /\ MaxCrashes \in Nat
    BY DEF OneAtATime
  <2>3. \A m \in Nat : 0 \in 0 .. m
    BY SMTT(30)
  <2>4. << >> \in Seq(index_ent) /\ Len(<< >>) = 0
    BY SMTT(30)
  <2>5. QED
    BY <2>1, <2>2, <2>3, <2>4, AllIs, WindowOne
<1>8. TypeOK
  BY <1>2, <1>5, <1>6, <1>7 DEF Init, TypeOK, OneEach, Device
<1>9. QED
  BY <1>4, <1>5, <1>8 DEF Inv, Init

\* A read that trips an assert ends the process and leaves the device alone.
LEMMA ReadStep ==
    ASSUME Relied, OneAtATime, Inv, NEW key \in Keys, ReadTripsAssert(key)
    PROVE  Inv' /\ Gone("dead") /\ dev' = dev /\ status = "up"
<1>1. status = "up" /\ Gone("dead") /\ UNCHANGED <<dev, puts, faults, crashes>>
  BY DEF ReadTripsAssert
<1>2. /\ Sane(dev', puts') /\ Recoverable(dev') /\ puts' \in 0 .. MaxPuts
      /\ faults' \in 0 .. MaxFaults /\ crashes' \in 0 .. MaxCrashes
  BY <1>1, UpRecovers DEF Inv, TypeOK
<1>3. QED
  BY <1>1, <1>2, GoneInv

\* A crash loses what is in memory and leaves the device alone.
LEMMA CrashStep ==
    ASSUME Relied, OneAtATime, Inv, Crash
    PROVE  Inv' /\ Gone("dead") /\ dev' = dev
<1>1. /\ status \in {"up", "scan"} /\ Gone("dead") /\ UNCHANGED <<dev, puts, faults>>
      /\ crashes < MaxCrashes /\ crashes' = crashes + 1
  BY DEF Crash
<1>2. Recoverable(dev)
  BY <1>1, UpRecovers DEF Inv
<1>3. /\ Sane(dev', puts') /\ Recoverable(dev') /\ puts' \in 0 .. MaxPuts
      /\ faults' \in 0 .. MaxFaults /\ crashes' \in 0 .. MaxCrashes
  <2>1. Sane(dev, puts)
    BY DEF Inv
  <2>2. QED
    BY <1>1, <1>2, <2>1, InvTypes, Counts
<1>4. QED
  BY <1>1, <1>3, GoneInv

\* A restart begins the scan on the device as it was left.
LEMMA RestartStep ==
    ASSUME Relied, OneAtATime, Inv, blkio_init_cpu
    PROVE  Inv'
<1>1. /\ status = "dead" /\ status' = "scan"
      /\ UNCHANGED <<dev, indx, freelist, batch, timers, blks_read, puts, faults, crashes>>
  BY DEF blkio_init_cpu
<1>2. /\ TypeOK /\ Sane(dev, puts) /\ batch = << >> /\ timers = 0 /\ Recoverable(dev)
      /\ indx = EmptyIndex /\ freelist = freelist_init /\ blks_read = 0
  BY <1>1 DEF Inv
<1>3. ScanOK(dev, indx, freelist, blks_read)
  BY <1>2, ScanStarts DEF Sane
<1>4. TypeOK'
  BY <1>1, <1>2 DEF TypeOK
<1>5. QED
  BY <1>1, <1>2, <1>3, <1>4 DEF Inv

\* Nothing changes, nothing is violated.
LEMMA SameInv ==
    ASSUME Inv, UNCHANGED vars
    PROVE  Inv'
<1>1. TypeOK'
  BY DEF Inv, TypeOK, vars
<1>2. QED
  BY <1>1 DEF Inv, vars

\* The actions of Next, with the step of each.
LEMMA NextInv ==
    ASSUME Relied, OneAtATime, Inv, [Next]_vars
    PROVE  Inv'
<1>1. ASSUME NEW ps \in PutSeqs, bsys_dispatch(ps) PROVE Inv'
  BY <1>1, DispatchStep
<1>2. ASSUME NEW ps \in PutSeqs, DispatchTripsAssert(ps) PROVE Inv'
  BY <1>2, NoDispatchTrips
<1>3. ASSUME NEW ps \in PutSeqs, DispatchOverruns(ps) PROVE Inv'
  BY <1>3, OverrunStep
<1>4. ASSUME NEW ps \in PutSeqs, DispatchFaults(ps) PROVE Inv'
  BY <1>4, FaultStep
<1>5. ASSUME NEW ps \in PutSeqs, KilledInFlush(ps) PROVE Inv'
  BY <1>5, KilledStep
<1>6. CASE DispatchNothing
  BY <1>6, SameInv DEF DispatchNothing
<1>7. CASE io_write_cb
  BY <1>7, CallbackStep
<1>8. ASSUME NEW key \in Keys, ReadTripsAssert(key) PROVE Inv'
  BY <1>8, ReadStep
<1>9. CASE init_cb
  BY <1>9, ScanStep
<1>10. CASE Crash
  BY <1>10, CrashStep
<1>11. CASE blkio_init_cpu
  BY <1>11, RestartStep
<1>12. CASE Undefined
  BY <1>12, SameInv DEF Undefined
<1>13. CASE UNCHANGED vars
  BY <1>13, SameInv
<1>14. QED
  BY <1>1, <1>2, <1>3, <1>4, <1>5, <1>6, <1>7, <1>8, <1>9, <1>10, <1>11, <1>12, <1>13
     DEF Next

\* One entry per key, and no block with two owners.
LEMMA InvSafe ==
    ASSUME Relied, OneAtATime, Inv
    PROVE  IndexSafe
<1>1. Entries = Ents(indx)
  BY DEF Entries, Ents
<1>2. CASE status = "up"
  <2>1. /\ UpOK(dev, indx, freelist, batch, timers, puts) /\ dev \in Device
        /\ OneEach(indx) /\ Mirrors(dev, indx) /\ Good(freelist)
        /\ \A e \in Ents(indx) : Anchor(dev, freelist, e.lba)
    BY <1>2 DEF Inv, UpOK, Sane
  <2>2. ASSUME NEW e \in Ents(indx) PROVE Extent(e) = Span(dev, e.lba) /\ dev[e.lba].meta = e
    BY <2>1 DEF Mirrors, Extent, Span, Size
  <2>3. ASSUME NEW e \in Ents(indx), NEW f \in Ents(indx), e # f
        PROVE  Extent(e) \cap Extent(f) = {}
    <3>1. e.lba # f.lba
      BY <2>2, <2>3
    <3>2. QED
      <4>1. Span(dev, e.lba) \cap Span(dev, f.lba) = {}
        BY <2>1, <3>1, AnchorsApart
      <4>2. QED
        BY <2>2, <4>1
  <2>4. ASSUME NEW e \in Ents(indx) PROVE Extent(e) \cap FreeBlocks(freelist) = {}
    <3>1. ASSUME NEW x \in Extent(e) PROVE x \notin FreeBlocks(freelist)
      <4>1. x \in All /\ ~Covers(freelist, x)
        <5>1. \A y \in Span(dev, e.lba) : y \in All /\ ~Covers(freelist, y)
          BY <2>1, AnchorFacts
        <5>2. QED
          BY <2>2, <5>1
      <4>2. QED
        BY <2>1, <4>1, FreeAre, AllIs
    <3>2. QED
      BY <3>1
  <2>5. QED
    BY <1>1, <2>1, <2>3, <2>4 DEF IndexSafe, ExtentsDisjoint, OneEntryPerKey, OneEach, Inv
<1>3. CASE status = "scan"
  <2>1. /\ ScanOK(dev, indx, freelist, blks_read) /\ dev \in Device
        /\ OneEach(indx) /\ Good(freelist) /\ Mirrors(dev, indx)
    BY <1>3 DEF Inv, ScanOK, Sane
  <2>2. ASSUME NEW e \in Ents(indx) PROVE Extent(e) \cap FreeBlocks(freelist) = {}
    <3>1. Extent(e) = Span(dev, e.lba) /\ Intact(dev, e.lba)
      BY <2>1 DEF Mirrors, Extent, Span, Size
    <3>2. ASSUME NEW x \in Extent(e) PROVE x \notin FreeBlocks(freelist)
      <4>1. x \in All
        BY <2>1, <3>1, IntactSpan
      <4>2. ~Covers(freelist, x)
        BY <2>1, <4>1 DEF ScanOK
      <4>3. QED
        BY <2>1, <4>1, <4>2, FreeAre, AllIs
    <3>3. QED
      BY <3>2
  <2>3. QED
    BY <1>1, <2>1, <2>2 DEF IndexSafe, ExtentsDisjoint, OneEntryPerKey, OneEach, Inv, ScanOK
<1>4. CASE status \in {"dead", "fault"}
  <2>1. Ents(indx) = {} /\ OneEach(indx)
    BY <1>4, ScanStarts DEF Inv, Sane
  <2>2. QED
    BY <1>1, <2>1 DEF IndexSafe, ExtentsDisjoint, OneEntryPerKey, OneEach, Inv
<1>5. QED
  BY <1>2, <1>3, <1>4 DEF Inv, TypeOK

\* What ends the scan is a crash.
LEMMA ScanDies ==
    ASSUME Relied, OneAtATime, Inv, [Next]_vars, status = "scan", status' = "dead"
    PROVE  crashes' > crashes
<1>1. CASE init_cb
  BY <1>1, ScanStep
<1>2. CASE Crash
  BY <1>2, InvTypes, Counts DEF Crash
<1>3. CASE UNCHANGED vars
  BY <1>3 DEF vars
<1>4. ASSUME NEW ps \in PutSeqs
      PROVE  ~(bsys_dispatch(ps) \/ DispatchTripsAssert(ps) \/ DispatchOverruns(ps)
                \/ DispatchFaults(ps) \/ KilledInFlush(ps))
  BY DEF bsys_dispatch, DispatchTripsAssert, DispatchOverruns, DispatchFaults,
              KilledInFlush, TakePuts
<1>5. ~(DispatchNothing \/ io_write_cb \/ blkio_init_cpu \/ Undefined)
  BY DEF DispatchNothing, io_write_cb, blkio_init_cpu, Undefined
<1>6. \A key \in Keys : ~ReadTripsAssert(key)
  BY DEF ReadTripsAssert
<1>7. QED
  BY <1>1, <1>2, <1>3, <1>4, <1>5, <1>6 DEF Next

LeakedOn(l, ix, bt) ==
    All \ (FreeBlocks(l) \cup UNION {Extent(e) : e \in Ents(ix) \cup Range(bt)})

\* A leaked block is neither free, nor of an entry, nor of a put in flight.
LEMMA LeakedIs ==
    ASSUME Relied, NEW l, Good(l), NEW ix, NEW bt, NEW x
    PROVE  x \in LeakedOn(l, ix, bt) <=>
              /\ x \in All /\ ~Covers(l, x) /\ \A e \in Ents(ix) : x \notin Extent(e)
              /\ \A e \in Range(bt) : x \notin Extent(e)
<1>1. x \in All => (x \in FreeBlocks(l) <=> Covers(l, x))
  BY FreeAre, SMTT(30) DEF All
<1>2. QED
  BY <1>1 DEF LeakedOn

\* A block of the running store is free, indexed or in flight, unless a batch
\* has been flushed twice; a restart starts without any leak.
LEMMA LeakStep ==
    ASSUME Relied, OneAtATime, Inv, Inv', [Next]_vars, status' = "up"
    PROVE  \/ Leaked' = {}
           \/ status = "up" /\ Leaked' \subseteq Leaked
           \/ status = "up" /\ batch # << >> /\ batch' # << >>
<1> DEFINE L == LeakedOn(freelist, indx, batch)
           M == LeakedOn(freelist', indx', batch')
           OK == \/ M = {}
                 \/ status = "up" /\ M \subseteq L
                 \/ status = "up" /\ batch # << >> /\ batch' # << >>
<1>1. Leaked = L /\ Leaked' = M
  BY DEF Leaked, LeakedOn, Entries, Ents
<1>2. Range(<< >>) = {} /\ \A e : Range(<< e >>) = {e} /\ << e >> # << >>
  BY SMTT(30) DEF Range
<1>3. status = "up" => Good(freelist)
  BY DEF Inv, UpOK
<1>4. Good(freelist')
  BY DEF Inv, UpOK
<1>5. OK
  <2>1. ASSUME NEW ps \in PutSeqs, bsys_dispatch(ps) PROVE OK
    <3>1. status = "up" /\ indx' = indx
      BY <2>1 DEF bsys_dispatch, TakePuts
    <3>2. PICK e \in index_ent :
             /\ batch' = << e >>
             /\ \A x \in All : Covers(freelist, x) => Covers(freelist', x) \/ x \in Extent(e)
      BY <2>1, DispatchStep
    <3>3. CASE batch # << >>
      BY <1>2, <3>1, <3>2, <3>3
    <3>4. CASE batch = << >>
      <4>1. ASSUME NEW x \in M PROVE x \in L
        <5>1. /\ x \in All /\ ~Covers(freelist', x) /\ x \notin Extent(e)
              /\ \A f \in Ents(indx) : x \notin Extent(f)
          BY <1>2, <1>4, <3>1, <3>2, <4>1, LeakedIs
        <5>2. ~Covers(freelist, x)
          BY <3>2, <5>1
        <5>3. QED
          BY <1>2, <1>3, <3>1, <3>4, <5>1, <5>2, LeakedIs
      <4>2. QED
        BY <3>1, <4>1
    <3>5. QED
      BY <3>3, <3>4
  <2>2. ASSUME NEW ps \in PutSeqs, DispatchFaults(ps) PROVE OK
    <3>1. status = "up" /\ indx' = indx /\ freelist' = freelist /\ batch = << >>
      BY <2>2, FaultStep DEF DispatchFaults, TakePuts
    <3>2. ASSUME NEW x \in M PROVE x \in L
      BY <1>2, <1>3, <1>4, <3>1, <3>2, LeakedIs
    <3>3. QED
      BY <3>1, <3>2
  <2>3. CASE io_write_cb
    <3>1. /\ status = "up" /\ batch' = << >>
          /\ \/ Gone("dead")
             \/ batch = << >> /\ indx' = indx /\ freelist' = freelist
             \/ \E e \in index_ent :
                   /\ batch = << e >> /\ e \in Ents(indx')
                   /\ \A x \in All : Covers(freelist', x) \/ ~Covers(freelist, x)
                   /\ \A x \in All : (\E f \in Ents(indx) : x \in Extent(f)) =>
                         Covers(freelist', x) \/ \E f \in Ents(indx') : x \in Extent(f)
      BY <2>3, CallbackStep DEF Gone
    <3>2. CASE Gone("dead")
      BY <3>2 DEF Gone
    <3>3. CASE batch = << >> /\ indx' = indx /\ freelist' = freelist
      BY <3>1, <3>3
    <3>4. ASSUME NEW e \in index_ent,
                 batch = << e >>, e \in Ents(indx'),
                 \A x \in All : Covers(freelist', x) \/ ~Covers(freelist, x),
                 \A x \in All : (\E f \in Ents(indx) : x \in Extent(f)) =>
                         Covers(freelist', x) \/ \E f \in Ents(indx') : x \in Extent(f)
          PROVE  OK
      <4>1. ASSUME NEW x \in M PROVE x \in L
        <5>1. x \in All /\ ~Covers(freelist', x) /\ \A f \in Ents(indx') : x \notin Extent(f)
          BY <1>4, <4>1, LeakedIs
        <5>2. ~Covers(freelist, x) /\ x \notin Extent(e) /\ \A f \in Ents(indx) : x \notin Extent(f)
          BY <3>4, <5>1
        <5>3. QED
          BY <1>2, <1>3, <3>1, <3>4, <5>1, <5>2, LeakedIs
      <4>2. QED
        BY <3>1, <4>1
    <3>5. QED
      BY <3>1, <3>2, <3>3, <3>4
  <2>4. CASE init_cb
    <3>1. \A x \in All : ~Covers(freelist', x) => \E e \in Ents(indx') : x \in Extent(e)
      BY <2>4, ScanStep
    <3>2. ASSUME NEW x \in M PROVE FALSE
      BY <1>4, <3>1, <3>2, LeakedIs
    <3>3. QED
      BY <3>2
  <2>5. CASE DispatchNothing \/ UNCHANGED vars
    <3>1. status = "up" /\ M = L
      BY <2>5 DEF DispatchNothing, vars
    <3>2. QED
      BY <3>1
  <2>6. ASSUME NEW ps \in PutSeqs
        PROVE  ~(DispatchTripsAssert(ps) \/ DispatchOverruns(ps) \/ KilledInFlush(ps))
    BY DEF DispatchTripsAssert, DispatchOverruns, KilledInFlush, Gone
  <2>7. ~(Crash \/ blkio_init_cpu) /\ ~Undefined /\ \A key \in Keys : ~ReadTripsAssert(key)
    BY DEF Crash, blkio_init_cpu, Undefined, ReadTripsAssert, Gone, vars
  <2>8. QED
    BY <2>1, <2>2, <2>3, <2>4, <2>5, <2>6, <2>7 DEF Next
<1>6. QED
  BY <1>1, <1>5
=============================================================================
