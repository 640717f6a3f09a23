-------------------------- MODULE KVRefinesProofs --------------------------
(***************************************************************************)
(* The key-value store with one put in flight implements the durable map   *)
(* of KVAbs, for every set of keys, size of the device and bound.          *)
(***************************************************************************)
EXTENDS KVStoreProofs, KVRefines, BlkFreelistLemmas

\* Most leaves are first-order and go to Zenon; the ones that need arithmetic,
\* records or sequences name the SMT solver.
USE ZenonT(20), SMTT(30)

\* The refinement mapping over a status s, a device d, an index ix and a batch
\* bt, for the states on both sides of a step.
AbsDb(d) == [k \in Keys |-> Dur(d, k)]
AbsView(s, d, ix) == [k \in Keys |-> IF s = "up" THEN ViewOf(d, ix, k) ELSE 0]
AbsPend(bt) == {[key |-> e.key, val |-> e.crc] : e \in Range(bt)}
AbsMode(s) == IF s = "up" THEN "live" ELSE IF s = "fault" THEN "broken" ELSE "down"
Put == [key : Keys, val : 1 .. MaxPuts]

CrcOfNewest(d, H) ==
    IF H = {} THEN 0
    ELSE d[CHOOSE b \in H : \A c \in H :
              \/ d[c].meta.version < d[b].meta.version
              \/ d[c].meta.version = d[b].meta.version /\ b <= c].meta.crc

\* The refinement mapping in terms of the device, the index and the batch,
LEMMA MapIs ==
    /\ db = AbsDb(dev) /\ view = AbsView(status, dev, indx)
    /\ pend = AbsPend(batch) /\ mode = AbsMode(status)
<1>1. ASSUME NEW k PROVE Durable(k) = Dur(dev, k)
  <2> DEFINE H == {b \in All : /\ dev[b].meta # NoMeta /\ dev[b].meta.key = k
                             /\ Reads(dev[b].meta, b)}
             I == {b \in All : Intact(dev, b) /\ dev[b].meta.key = k}
  <2>1. H = I
    BY DEF Intact, IsRec, Reads, ReadsOn, Size
  <2>2. Durable(k) = CrcOfNewest(dev, H)
    BY SMTT(30) DEF Durable, CrcOfNewest
  <2>3. Dur(dev, k) = CrcOfNewest(dev, I)
    BY DEF Dur, CrcOfNewest
  <2>4. QED
    BY <2>1, <2>2, <2>3
<1>2. ASSUME NEW k PROVE bsys_io_read(k) = ViewOf(dev, indx, k)
  <2>1. \A e : Reads(e, e.lba) <=> ReadsOn(dev, e, e.lba)
    BY DEF Reads, ReadsOn, Size
  <2>2. QED
    BY <2>1, SMTT(30) DEF bsys_io_read, ViewOf
<1>3. db = AbsDb(dev)
  BY <1>1 DEF db, AbsDb
<1>4. view = AbsView(status, dev, indx)
  BY <1>2 DEF view, AbsView
<1>5. pend = AbsPend(batch) /\ mode = AbsMode(status)
  BY DEF pend, AbsPend, mode, AbsMode
<1>6. QED
  BY <1>3, <1>4, <1>5

\* and after a step.
LEMMA MapIsPrimed ==
    /\ db' = AbsDb(dev') /\ view' = AbsView(status', dev', indx')
    /\ pend' = AbsPend(batch') /\ mode' = AbsMode(status')
<1>1. ASSUME NEW k PROVE Durable(k)' = Dur(dev', k)
  <2> DEFINE H == {b \in All : /\ dev[b].meta # NoMeta /\ dev[b].meta.key = k
                             /\ Reads(dev[b].meta, b)}'
             I == {b \in All : Intact(dev', b) /\ dev'[b].meta.key = k}
  <2>1. H = I
    BY DEF Intact, IsRec, Reads, ReadsOn, Size
  <2>2. Durable(k)' = CrcOfNewest(dev', H)
    BY SMTT(30) DEF Durable, CrcOfNewest
  <2>3. Dur(dev', k) = CrcOfNewest(dev', I)
    BY DEF Dur, CrcOfNewest
  <2>4. QED
    BY <2>1, <2>2, <2>3
<1>2. ASSUME NEW k PROVE bsys_io_read(k)' = ViewOf(dev', indx', k)
  <2>1. \A e : Reads(e, e.lba)' <=> ReadsOn(dev', e, e.lba)
    BY DEF Reads, ReadsOn, Size
  <2>2. QED
    BY <2>1, SMTT(30) DEF bsys_io_read, ViewOf
<1>3. db' = AbsDb(dev')
  BY <1>1 DEF db, AbsDb
<1>4. view' = AbsView(status', dev', indx')
  BY <1>2 DEF view, AbsView
<1>5. pend' = AbsPend(batch') /\ mode' = AbsMode(status')
  BY DEF pend, AbsPend, mode, AbsMode
<1>6. QED
  BY <1>3, <1>4, <1>5

----------------------------------------------------------------------------
(* The moves of the durable map, in terms of the store.                    *)

\* The put of an entry.
PutOf(e) == [key |-> e.key, val |-> e.crc]

\* The pending puts are those of the batch.
LEMMA PendIs ==
    /\ AbsPend(<< >>) = {}
    /\ \A e : AbsPend(<< e >>) = {PutOf(e)} /\ << e >> # << >>
    /\ \A e \in index_ent : PutOf(e) \in Put
<1>1. Range(<< >>) = {} /\ \A e : Range(<< e >>) = {e} /\ << e >> # << >>
  BY SMTT(30) DEF Range
<1>2. QED
  BY <1>1, SMTT(30) DEF AbsPend, PutOf, Put, index_ent

\* The device takes the put of e in, or nothing.
LEMMA DbWith ==
    ASSUME NEW e \in index_ent,
           \A k : Dur(dev', k) = Dur(dev, k) \/ (k = e.key /\ Dur(dev', k) = e.crc)
    PROVE  /\ db' \in {db, Abs!With(db, PutOf(e))}
           /\ Dur(dev', e.key) = e.crc => db' = Abs!With(db, PutOf(e))
<1>1. e.key \in Keys /\ PutOf(e).key = e.key /\ PutOf(e).val = e.crc
  BY DEF index_ent, PutOf
<1>2. /\ db = [k \in Keys |-> Dur(dev, k)] /\ db' = [k \in Keys |-> Dur(dev', k)]
  BY MapIs, MapIsPrimed DEF AbsDb
<1>3. Abs!With(db, PutOf(e)) = [k \in Keys |-> IF k = e.key THEN e.crc ELSE Dur(dev, k)]
  BY <1>1, <1>2 DEF Abs!With
<1>4. CASE Dur(dev', e.key) = e.crc
  BY <1>2, <1>3, <1>4
<1>5. CASE Dur(dev', e.key) # e.crc
  BY <1>2, <1>5
<1>6. QED
  BY <1>4, <1>5

\* A store that stays up, with the same index, shows the same values.
LEMMA SameView ==
    ASSUME Relied, OneAtATime, Inv, Inv', status = "up", status' = "up", indx' = indx
    PROVE  view' = view
<1>1. /\ OneEach(indx) /\ Mirrors(dev, indx) /\ Mirrors(dev', indx) /\ Prefix = {}
  BY DEF Inv, UpOK, OneAtATime
<1>2. ASSUME NEW k \in Keys PROVE ViewOf(dev', indx, k) = ViewOf(dev, indx, k)
  <2>1. CASE \A e \in Ents(indx) : e.key # k
    BY <1>1, <2>1, ViewIs, SMTT(30)
  <2>2. CASE \E e \in Ents(indx) : e.key = k
    BY <1>1, <2>2, ViewIs, SMTT(30)
  <2>3. QED
    BY <2>1, <2>2
<1>3. QED
  BY <1>2, MapIs, MapIsPrimed DEF AbsView

\* What the durable map sees of a dead store, a live one and one that is gone.
LEMMA ModeIs ==
    /\ status = "up" => mode = "live"
    /\ status \in {"scan", "dead"} => mode = "down"
    /\ status # "up" => view = Abs!Empty
    /\ status' = "up" => mode' = "live"
    /\ status' \in {"scan", "dead"} => mode' = "down"
    /\ status' = "fault" => mode' = "broken"
    /\ status' # "up" => view' = Abs!Empty
    /\ dev' = dev => db' = db
    /\ batch = << >> => pend = {}
    /\ batch' = << >> => pend' = {}
<1>1. status # "up" => view = Abs!Empty
  BY MapIs DEF AbsView, Abs!Empty, Abs!Missing
<1>2. status' # "up" => view' = Abs!Empty
  BY MapIsPrimed DEF AbsView, Abs!Empty, Abs!Missing
<1>3. /\ dev' = dev => db' = db
      /\ batch = << >> => pend = {}
      /\ batch' = << >> => pend' = {}
  BY MapIs, MapIsPrimed, PendIs
<1>4. QED
  BY <1>1, <1>2, <1>3, MapIs, MapIsPrimed DEF AbsMode
----------------------------------------------------------------------------
(* The steps of the store.                                                 *)

Moves == Abs!Next \/ UNCHANGED Abs!absVars

\* A flush makes the put durable, at once or the second time.
LEMMA DispatchMoves ==
    ASSUME Relied, OneAtATime, Inv, NEW ps \in PutSeqs, bsys_dispatch(ps)
    PROVE  Moves
<1>1. status = "up" /\ status' = "up" /\ indx' = indx /\ Inv'
  BY DispatchStep DEF bsys_dispatch, TakePuts
<1>2. PICK e \in index_ent :
         /\ batch' = << e >>
         /\ batch # << >> => e.key = batch[1].key /\ e.crc = batch[1].crc
         /\ Dur(dev', e.key) = e.crc
         /\ \A k : k # e.key => Dur(dev', k) = Dur(dev, k)
  BY DispatchStep
<1>3. db' = Abs!With(db, PutOf(e))
  BY <1>2, DbWith
<1>4. view' = view /\ mode = "live" /\ mode' = mode
  BY <1>1, SameView, ModeIs
<1>5. PutOf(e) \in Put /\ pend' = {PutOf(e)}
  BY <1>2, MapIsPrimed, PendIs
<1>6. CASE batch = << >>
  <2>1. Abs!Submit(PutOf(e))
    BY <1>3, <1>4, <1>5, <1>6, ModeIs DEF Abs!Submit
  <2>2. QED
    BY <1>5, <2>1 DEF Moves, Abs!Next, Put, Abs!Value
<1>7. CASE batch # << >>
  <2>1. batch = << batch[1] >> /\ PutOf(batch[1]) = PutOf(e)
    BY <1>1, <1>2, <1>7 DEF Inv, UpOK, PutOf
  <2>2. pend = {PutOf(e)}
    BY <2>1, MapIs, PendIs
  <2>3. Abs!Persist(PutOf(e))
    BY <1>3, <1>4, <1>5, <2>2 DEF Abs!Persist
  <2>4. QED
    BY <1>5, <2>3 DEF Moves, Abs!Next, Put, Abs!Value
<1>8. QED
  BY <1>6, <1>7

\* A put whose dispatch faults is taken in, and is not durable yet.
LEMMA FaultMoves ==
    ASSUME Relied, OneAtATime, Inv, NEW ps \in PutSeqs, DispatchFaults(ps)
    PROVE  Moves
<1>1. status = "up" /\ status' = "up" /\ indx' = indx /\ dev' = dev /\ Inv' /\ batch = << >>
  BY FaultStep DEF DispatchFaults, TakePuts
<1>2. PICK e \in index_ent : batch' = << e >>
  BY FaultStep
<1>3. view' = view /\ mode = "live" /\ mode' = mode /\ db' = db /\ pend = {}
  BY <1>1, SameView, ModeIs
<1>4. PutOf(e) \in Put /\ pend' = {PutOf(e)}
  BY <1>2, MapIsPrimed, PendIs
<1>5. Abs!Submit(PutOf(e))
  BY <1>3, <1>4 DEF Abs!Submit
<1>6. QED
  BY <1>4, <1>5 DEF Moves, Abs!Next, Put, Abs!Value

\* A dispatch that copies outside the device ends what the map promises.
LEMMA OverrunMoves ==
    ASSUME OneAtATime, Inv, NEW ps \in PutSeqs, DispatchOverruns(ps)
    PROVE  Moves
<1>1. status = "up" /\ status' = "fault" /\ dev' = dev /\ batch' = << >>
  BY DEF DispatchOverruns, TakePuts, Gone
<1>2. Abs!Break
  BY <1>1, ModeIs DEF Abs!Break
<1>3. QED
  BY <1>2 DEF Moves, Abs!Next

\* Some put covers the one in flight, if there is one.
LEMMA PendCovered ==
    ASSUME OneAtATime, Inv, status = "up"
    PROVE  \E p \in Put : pend \subseteq {p}
<1>1. CASE batch = << >>
  <2>1. PICK k \in Keys : TRUE
    BY DEF OneAtATime
  <2>2. [key |-> k, val |-> 1] \in Put
    BY SMTT(30) DEF Put, OneAtATime
  <2>3. QED
    BY <1>1, <2>2, ModeIs
<1>2. CASE batch # << >>
  <2>1. batch = << batch[1] >> /\ batch[1] \in index_ent
    BY <1>2 DEF Inv, UpOK, InFlight
  <2>2. PutOf(batch[1]) \in Put /\ pend = {PutOf(batch[1])}
    BY <2>1, MapIs, PendIs
  <2>3. QED
    BY <2>2
<1>3. QED
  BY <1>1, <1>2

\* A crash of the running store outside a flush.
LEMMA DeathMoves ==
    ASSUME OneAtATime, Inv, status = "up", dev' = dev, Gone("dead")
    PROVE  Moves
<1>1. PICK p \in Put : pend \subseteq {p}
  BY PendCovered
<1>2. status' = "dead" /\ batch' = << >>
  BY DEF Gone
<1>3. Abs!Crash(p)
  BY <1>1, <1>2, ModeIs DEF Abs!Crash
<1>4. QED
  BY <1>1, <1>3 DEF Moves, Abs!Next, Put, Abs!Value

\* A crash between two stores of a flush: the put is durable or never was.
LEMMA KilledMoves ==
    ASSUME Relied, OneAtATime, Inv, NEW ps \in PutSeqs, KilledInFlush(ps)
    PROVE  Moves
<1>1. status = "up" /\ status' = "dead" /\ batch' = << >>
  BY DEF KilledInFlush, TakePuts, Gone
<1>2. PICK e \in index_ent :
         /\ batch # << >> => e.key = batch[1].key /\ e.crc = batch[1].crc
         /\ \A k : Dur(dev', k) = Dur(dev, k) \/ (k = e.key /\ Dur(dev', k) = e.crc)
  BY KilledStep
<1>3. db' \in {db, Abs!With(db, PutOf(e))}
  BY <1>2, DbWith
<1>4. pend \subseteq {PutOf(e)}
  <2>1. CASE batch = << >>
    BY <2>1, ModeIs
  <2>2. CASE batch # << >>
    <3>1. batch = << batch[1] >> /\ PutOf(batch[1]) = PutOf(e)
      BY <1>1, <1>2, <2>2 DEF Inv, UpOK, PutOf
    <3>2. QED
      BY <3>1, MapIs, PendIs
  <2>3. QED
    BY <2>1, <2>2
<1>5. Abs!Crash(PutOf(e))
  BY <1>1, <1>3, <1>4, ModeIs DEF Abs!Crash
<1>6. PutOf(e) \in Put
  BY PendIs
<1>7. QED
  BY <1>5, <1>6 DEF Moves, Abs!Next, Put, Abs!Value

\* A completion acknowledges the put in flight: it is durable, and the next
\* get returns it.
LEMMA CallbackMoves ==
    ASSUME Relied, OneAtATime, Inv, io_write_cb
    PROVE  Moves
<1>1. Inv' /\ dev' = dev /\ status = "up"
  BY CallbackStep
<1>2. CASE Gone("dead")
  BY <1>1, <1>2, DeathMoves
<1>3. CASE status' = "up" /\ batch = << >> /\ batch' = << >> /\ indx' = indx
  <2>1. view' = view /\ mode' = mode /\ db' = db /\ pend' = pend
    BY <1>1, <1>3, SameView, ModeIs
  <2>2. QED
    BY <2>1 DEF Moves, Abs!absVars
<1>4. CASE /\ status' = "up" /\ batch' = << >>
           /\ \E e \in index_ent :
                 /\ batch = << e >> /\ Dur(dev, e.key) = e.crc /\ e \in Ents(indx')
                 /\ \A f : f.key # e.key => (f \in Ents(indx') <=> f \in Ents(indx))
  <2>1. PICK e \in index_ent :
           /\ batch = << e >> /\ Dur(dev, e.key) = e.crc /\ e \in Ents(indx')
           /\ \A f : f.key # e.key => (f \in Ents(indx') <=> f \in Ents(indx))
    BY <1>4
  <2>2. PutOf(e) \in Put /\ pend = {PutOf(e)} /\ pend' = {}
    BY <1>4, <2>1, MapIs, PendIs, ModeIs
  <2>3. mode = "live" /\ mode' = mode /\ db' = db
    BY <1>1, <1>4, ModeIs
  <2>4. e.key \in Keys /\ PutOf(e).key = e.key /\ PutOf(e).val = e.crc
    BY DEF index_ent, PutOf
  <2>5. db[PutOf(e).key] = PutOf(e).val
    BY <2>1, <2>4, MapIs DEF AbsDb
  <2>6. /\ OneEach(indx) /\ Mirrors(dev, indx) /\ OneEach(indx') /\ Mirrors(dev, indx')
        /\ Prefix = {}
    BY <1>1, <1>4 DEF Inv, UpOK, OneAtATime
  <2>7. ASSUME NEW k \in Keys
        PROVE  ViewOf(dev, indx', k) = IF k = e.key THEN e.crc ELSE ViewOf(dev, indx, k)
    <3>1. CASE k = e.key
      BY <2>1, <2>6, <3>1, ViewIs, SMTT(30)
    <3>2. CASE k # e.key
      <4>1. \A f : f.key = k => (f \in Ents(indx') <=> f \in Ents(indx))
        BY <2>1, <3>2
      <4>2. CASE \A f \in Ents(indx) : f.key # k
        BY <2>6, <3>2, <4>1, <4>2, ViewIs, SMTT(30)
      <4>3. CASE \E f \in Ents(indx) : f.key = k
        BY <2>6, <3>2, <4>1, <4>3, ViewIs, SMTT(30)
      <4>4. QED
        BY <4>2, <4>3
    <3>3. QED
      BY <3>1, <3>2
  <2>8. /\ view = [k \in Keys |-> ViewOf(dev, indx, k)]
        /\ view' = [k \in Keys |-> ViewOf(dev, indx', k)]
    BY <1>1, <1>4, MapIs, MapIsPrimed DEF AbsView
  <2>9. view' = Abs!With(view, PutOf(e))
    BY <2>4, <2>7, <2>8 DEF Abs!With
  <2>10. Abs!Ack(PutOf(e))
    BY <2>2, <2>3, <2>5, <2>9 DEF Abs!Ack
  <2>11. QED
    BY <2>2, <2>10 DEF Moves, Abs!Next, Put, Abs!Value
<1>5. QED
  BY <1>2, <1>3, <1>4, CallbackStep

\* The scan is no step of the map until it ends; then a get returns what is
\* durable.
LEMMA ScanMoves ==
    ASSUME Relied, OneAtATime, Inv, init_cb
    PROVE  Moves
<1>1. dev' = dev /\ status = "scan" /\ batch = << >> /\ batch' = << >>
  BY ScanStep
<1>2. CASE status' = "scan"
  <2>1. view' = view /\ mode' = mode /\ db' = db /\ pend' = pend
    BY <1>1, <1>2, ModeIs
  <2>2. QED
    BY <2>1 DEF Moves, Abs!absVars
<1>3. CASE status' = "up" /\ \A k \in Keys : ViewOf(dev, indx', k) = Dur(dev, k)
  <2>1. view' = db
    BY <1>1, <1>3, MapIs, MapIsPrimed DEF AbsView, AbsDb
  <2>2. Abs!Recover
    BY <1>1, <1>3, <2>1, ModeIs DEF Abs!Recover
  <2>3. QED
    BY <2>2 DEF Moves, Abs!Next
<1>4. QED
  BY <1>2, <1>3, ScanStep

\* A process that is not up dies or starts again: the map stays down.
LEMMA DownMoves ==
    ASSUME status \in {"scan", "dead"}, status' \in {"scan", "dead"}, dev' = dev,
           batch = << >>, batch' = << >>
    PROVE  Moves
<1>1. view' = view /\ mode' = mode /\ db' = db /\ pend' = pend
  BY ModeIs
<1>2. QED
  BY <1>1 DEF Moves, Abs!absVars

\* A step that changes nothing stutters.
LEMMA SameMoves ==
    ASSUME UNCHANGED vars
    PROVE  Moves
<1>1. dev' = dev /\ indx' = indx /\ batch' = batch /\ status' = status
  BY DEF vars
<1>2. view' = view /\ mode' = mode /\ db' = db /\ pend' = pend
  BY <1>1, MapIs, MapIsPrimed
<1>3. QED
  BY <1>2 DEF Moves, Abs!absVars

\* Every step of the store is a step of the durable map, or a stutter.
LEMMA NextMoves ==
    ASSUME Relied, OneAtATime, Inv, [Next]_vars
    PROVE  Moves
<1>1. ASSUME NEW ps \in PutSeqs, bsys_dispatch(ps) PROVE Moves
  BY <1>1, DispatchMoves
<1>2. ASSUME NEW ps \in PutSeqs, DispatchTripsAssert(ps) PROVE Moves
  BY <1>2, NoDispatchTrips
<1>3. ASSUME NEW ps \in PutSeqs, DispatchOverruns(ps) PROVE Moves
  BY <1>3, OverrunMoves
<1>4. ASSUME NEW ps \in PutSeqs, DispatchFaults(ps) PROVE Moves
  BY <1>4, FaultMoves
<1>5. ASSUME NEW ps \in PutSeqs, KilledInFlush(ps) PROVE Moves
  BY <1>5, KilledMoves
<1>6. CASE DispatchNothing
  BY <1>6, SameMoves DEF DispatchNothing
<1>7. CASE io_write_cb
  BY <1>7, CallbackMoves
<1>8. ASSUME NEW key \in Keys, ReadTripsAssert(key) PROVE Moves
  BY <1>8, ReadStep, DeathMoves
<1>9. CASE init_cb
  BY <1>9, ScanMoves
<1>10. CASE Crash
  <2>1. Gone("dead") /\ dev' = dev /\ status \in {"up", "scan"} /\ batch' = << >>
        /\ status' = "dead"
    BY <1>10 DEF Crash, Gone
  <2>2. CASE status = "up"
    BY <2>1, <2>2, DeathMoves
  <2>3. CASE status = "scan"
    BY <2>1, <2>3, DownMoves DEF Inv
  <2>4. QED
    BY <2>1, <2>2, <2>3
<1>11. CASE blkio_init_cpu
  <2>1. status = "dead" /\ status' = "scan" /\ dev' = dev /\ batch' = batch
    BY <1>11 DEF blkio_init_cpu
  <2>2. QED
    BY <2>1, DownMoves DEF Inv
<1>12. CASE Undefined
  BY <1>12, SameMoves DEF Undefined
<1>13. CASE UNCHANGED vars
  BY <1>13, SameMoves
<1>14. QED
  BY <1>1, <1>2, <1>3, <1>4, <1>5, <1>6, <1>7, <1>8, <1>9, <1>10, <1>11, <1>12, <1>13
     DEF Next

\* An empty device holds no put.
LEMMA InitMoves ==
    ASSUME Relied, OneAtATime, Init
    PROVE  Abs!Init
<1>1. Sane(dev, puts) /\ puts \in Nat /\ status = "scan" /\ batch = << >>
  BY InitInv DEF Inv, Init
<1>2. \A b \in All : dev[b].meta = NoMeta
  BY DEF Init, Blank
<1>3. \A b \in All : ~Intact(dev, b)
  BY <1>2 DEF Intact, IsRec
<1>4. \A k \in Keys : Dur(dev, k) = 0
  BY <1>1, <1>3, DurIs
<1>5. db = Abs!Empty
  BY <1>4, MapIs DEF AbsDb, Abs!Empty, Abs!Missing
<1>6. QED
  BY <1>1, <1>5, ModeIs DEF Abs!Init

----------------------------------------------------------------------------
(* The theorems.  What the lemmas rely on holds.                           *)

\* The functions of blk_freelist.c do what the store relies on.
LEMMA ReliedHolds == Relied
<1>1. \A T \in SUBSET Nat : T # {} => \E x \in T : \A y \in T : x <= y
  BY LeastNat
<1>2. Good(freelist_init) /\ \A b \in Int : Covers(freelist_init, b) <=> b \in All
  BY InitCovers DEF All
<1>3. ASSUME NEW l, Good(l) PROVE \A b \in Int : b \in FreeBlocks(l) <=> Covers(l, b)
  BY <1>3, FreeBlocksCovers
<1>4. ASSUME NEW l, Good(l), NEW n \in Nat \ {0} PROVE GetBlkOK(l, n)
  BY <1>4, GetBlkRange DEF GetBlkOK
<1>5. ASSUME NEW l, Good(l), NEW n \in Nat \ {0}, NEW lba \in Nat
      PROVE  AllocBlockOK(l, lba, n)
  BY <1>5, AllocBlockWorks DEF AllocBlockOK
<1>6. ASSUME NEW l, Good(l), NEW n \in Nat \ {0}, NEW lba \in Nat
      PROVE  FreeBlkOK(l, lba, n)
  BY <1>6, FreeBlkWorks DEF FreeBlkOK
<1>7. QED
  BY <1>1, <1>2, <1>3, <1>4, <1>5, <1>6 DEF Relied

\* Inv is an invariant of the store.
THEOREM StoreInvariant ==
    ASSUME OneAtATime
    PROVE  Spec => []Inv
<1>1. Init => Inv
  BY ReliedHolds, InitInv
<1>2. Inv /\ [Next]_vars => Inv'
  BY ReliedHolds, NextInv
<1>3. QED
  BY <1>1, <1>2, PTL DEF Spec

\* The index and the free list stay right about each other, on every device
\* and for every sequence of puts, faults, crashes and restarts.
THEOREM IndexIsSafe ==
    ASSUME OneAtATime
    PROVE  Spec => []IndexSafe
<1>1. Inv => IndexSafe
  BY ReliedHolds, InvSafe
<1>2. QED
  BY <1>1, StoreInvariant, PTL

\* Neither the assert of alloc_block nor the list walk of free_blk kills the
\* recovery scan, whatever a crash left on the device.
THEOREM ScanSurvives ==
    ASSUME OneAtATime
    PROVE  Spec => ScanNeverDies
<1>1. Inv /\ [Next]_vars => [status = "scan" /\ status' = "dead" => crashes' > crashes]_vars
  BY ReliedHolds, ScanDies
<1>2. QED
  BY <1>1, StoreInvariant, PTL DEF Spec, ScanNeverDies

\* A block of the running store is free, indexed or in flight, unless a batch
\* has been flushed twice; a restart starts without any leak.
THEOREM LeaksOnlyByReflush ==
    ASSUME OneAtATime
    PROVE  Spec => LeaksAreReflushes
<1>1. Inv /\ Inv' /\ [Next]_vars =>
         [status' = "up" => \/ Leaked' = {}
                            \/ status = "up" /\ Leaked' \subseteq Leaked
                            \/ status = "up" /\ batch # << >> /\ batch' # << >>]_vars
  BY ReliedHolds, LeakStep
<1>2. QED
  BY <1>1, StoreInvariant, PTL DEF Spec, LeaksAreReflushes

\* The store implements the durable map: no crash, fault or second flush
\* loses an acknowledged put or brings back an older one, and a get returns
\* the last put that was acknowledged.
THEOREM StoreIsDurableMap ==
    ASSUME OneAtATime
    PROVE  Spec => ImplementsKV
<1>1. Inv /\ [Next]_vars => [Abs!Next]_(Abs!absVars)
  BY ReliedHolds, NextMoves DEF Moves
<1>2. Init => Abs!Init
  BY ReliedHolds, InitMoves
<1>3. QED
  BY <1>1, <1>2, StoreInvariant, PTL DEF Spec, ImplementsKV, Abs!Spec
=============================================================================
