-------------------------------- MODULE Nic --------------------------------
(* The descriptor rings of the ixgbe and i40e drivers, with the queues of
   ethqueue.h above them and the order in which sys_bpoll and sys_bcall use
   them.  Indices run freely and wrap (16 bits in the code, W here); a ring has
   LEN descriptors, a power of two that divides W.  The hardware takes a
   descriptor at a time, at any moment; a step of its is shown only in the
   phases in which the driver looks at its effect, the others commute.  The
   frame contents, the checksum offload and the flow-group hand-over (Migration)
   are left out. *)
EXTENDS Integers, FiniteSets, Sequences, FiniteSetsExt

CONSTANTS
    W, RW,             \* the ranges of the rings' indices: 2^16
    LEN,               \* descriptors of the transmit ring
    RLEN,              \* descriptors of the receive ring
    RDT_THRESH,
    ETH_RX_MAX_DEPTH,  \* mbufs on the queue above the receive ring
    NMbufs,            \* the mbuf pool, the receive ring's included
    MaxIov             \* scatter-gather entries of a frame

ASSUME NicAssumption ==
    W % LEN = 0 /\ RW % RLEN = 0 /\ 2 * LEN <= W /\ 2 * RLEN <= RW /\ NMbufs > RLEN

Mbufs == 1 .. NMbufs
NULL == 0

VARIABLES
    driver,   \* "ixgbe" or "i40e"
    traffic,  \* bound: who originates, the application ("out") or the network ("in")
    phase,    \* where the dataplane loop is
    free,     \* mbufs in the pool
    cap,      \* txq->cap
    bufs,     \* txq->bufs[0 .. len): frames [m, iov] to be transmitted
    tx,       \* transmit ring: head, tail, tdt (the tail register), hw (the next
              \* descriptor the hardware takes)
    txe,      \* ring_entries[].mbuf of the transmit ring
    txrs,     \* transmit descriptors that ask for the DD status (the last of a frame)
    txdd,     \* transmit descriptors with the DD status
    rx,       \* receive ring: head, tail, hw
    rxe,      \* ring_entries[].mbuf of the receive ring
    rxdd,     \* receive descriptors with the DD status
    rxq,      \* the mbufs polled and not yet processed
    early,    \* sys_bpoll once returned before eth_process_send with frames queued
    panic     \* eth_process_send found a mismatch

vars == <<driver, traffic, phase, free, cap, bufs, tx, txe, txrs, txdd, rx, rxe, rxdd, rxq,
          early, panic>>
txvars == <<cap, bufs, tx, txe, txrs, txdd, early, panic>>
rxvars == <<rx, rxe, rxdd, rxq>>

Dist(from, to) == (to - from) % W
RxDist(from, to) == (to - from) % RW
Used == Dist(tx.head, tx.tail)

\* dev_start: the rings are given to the hardware.  ixgbe's transmit ring begins
\* with a context descriptor (ixgbe_tx_xmit_ctx), which the hardware has not
\* taken.
ixgbe_tx_xmit_ctx(t) == [t EXCEPT !.tail = @ + 1, !.tdt = t.tail + 1]
\* The rings as the drivers' queue set-up leaves them; their lengths are powers of two.
ixgbe_rx_queue_setup == [head |-> 0, tail |-> RLEN - 1, hw |-> 0]
i40e_rx_queue_setup == ixgbe_rx_queue_setup
ixgbe_tx_queue_setup == [head |-> 0, tail |-> 0, hw |-> 0, tdt |-> 0]
i40e_tx_queue_setup == ixgbe_tx_queue_setup
ixgbe_reset_tx_queue == [i \in 0 .. LEN - 1 |-> NULL]
i40e_dev_start == i40e_tx_queue_setup
ixgbe_dev_start == ixgbe_tx_xmit_ctx(ixgbe_tx_queue_setup)
\* The receive ring is filled when the device is started.
ixgbe_alloc_rx_mbufs == [i \in 0 .. RLEN - 1 |-> i + 1]
i40e_alloc_rx_mbufs == ixgbe_alloc_rx_mbufs

Init ==
    /\ driver \in {"ixgbe", "i40e"} /\ traffic \in {"in", "out"}
    /\ phase = "user"
    /\ free = Mbufs \ (1 .. RLEN)
    /\ cap = 0 /\ bufs = <<>>
    /\ tx = IF driver = "ixgbe" THEN ixgbe_dev_start ELSE i40e_dev_start
    /\ txe = ixgbe_reset_tx_queue /\ txrs = {} /\ txdd = {}
    /\ rx = IF driver = "ixgbe" THEN ixgbe_rx_queue_setup ELSE i40e_rx_queue_setup
    /\ rxe = (IF driver = "ixgbe" THEN ixgbe_alloc_rx_mbufs ELSE i40e_alloc_rx_mbufs) /\ rxdd = {}
    /\ rxq = <<>>
    /\ early = FALSE /\ panic = FALSE

----------------------------------------------------------------------------
(* Transmission *)

\* tx_reclaim: descriptors up to the first that is not done.  Only one
\* that carries an mbuf moves the head, with those before it.
Unreclaimed == {i \in 0 .. Used - 1 : txe[(tx.head + i) % LEN] # NULL}
Blocked == {i \in Unreclaimed : (tx.head + i) % LEN \notin txdd}
\* Mutant: what is not done is reclaimed as well.
Reclaimable_All == Unreclaimed
Reclaimable == {i \in Unreclaimed : \A j \in Blocked : i < j}

reclaimed == [tx EXCEPT !.head = IF Reclaimable = {} THEN @
                                 ELSE (@ + Max(Reclaimable) + 1) % W]

tx_reclaim ==
    LET done == {(tx.head + i) % LEN : i \in Reclaimable} IN
    /\ free' = free \cup {txe[d] : d \in done}
    /\ txe' = [d \in DOMAIN txe |-> IF d \in done THEN NULL ELSE txe[d]]
    /\ tx' = reclaimed
ixgbe_tx_reclaim == driver = "ixgbe" /\ tx_reclaim
i40e_tx_reclaim == driver = "i40e" /\ tx_reclaim

\* eth_process_reclaim, at the start of sys_bpoll or sys_bcall.
eth_process_reclaim ==
    /\ phase = "user" /\ ~panic
    /\ phase' = "calls"
    /\ ixgbe_tx_reclaim \/ i40e_tx_reclaim
    /\ cap' = LEN - Dist(tx'.head, tx'.tail)
    /\ UNCHANGED <<driver, traffic, bufs, txrs, txdd, early, panic, rxvars>>

\* eth_send of a frame with n scatter-gather entries; refused, it is freed.
Queue(m, n, fr) ==
    /\ bufs' = Append(bufs, [m |-> m, iov |-> n])
    /\ cap' = cap - (1 + n) /\ free' = fr

eth_send(m, n, fr) ==
    IF 1 + n > cap THEN free' = fr \cup {m} /\ UNCHANGED <<cap, bufs>>
    ELSE Queue(m, n, fr)

\* A batched system call sends a frame.
Send(n) ==
    /\ phase = "calls" /\ traffic = "out" /\ free # {}
    /\ \E m \in {Min(free)} : eth_send(m, n, free \ {m})
    /\ UNCHANGED <<driver, traffic, phase, tx, txe, txrs, txdd, early, panic, rxvars>>

\* sys_bpoll returns at once when a command waits for events to be processed,
\* and when bsys_dispatch fails: nothing is transmitted.
EarlyReturn ==
    /\ phase = "calls"
    /\ phase' = "user"
    /\ early' = (early \/ bufs # <<>>)
    /\ UNCHANGED <<driver, traffic, free, cap, bufs, tx, txe, txrs, txdd, panic, rxvars>>

\* xmit_one's test for n descriptors.
Fits(head, n) == (tx.tail + n - head) % W < LEN
\* The descriptors of a frame: i40e_tx_xmit_one transmits the first part only.
i40e_tx_xmit_one(f) == 1
ixgbe_tx_xmit_one(f) == 1 + f.iov
Descs(f) == IF driver = "ixgbe" THEN ixgbe_tx_xmit_one(f) ELSE i40e_tx_xmit_one(f)

\* tx_xmit_one for the next frame of the batch, when
\* it fits: the mbuf is recorded at its last descriptor.
New(f) == {(tx.tail + i) % LEN : i \in 0 .. Descs(f) - 1}
LastOf(f) == (tx.tail + Descs(f) - 1) % LEN
\* Mutant: it is recorded at the first.
Put_First(f) ==
    /\ txe' = [txe EXCEPT ![tx.tail % LEN] = f.m]
    /\ tx' = [tx EXCEPT !.tail = (@ + Descs(f)) % W]
    /\ txdd' = txdd \ New(f) /\ txrs' = (txrs \ New(f)) \cup {LastOf(f)}
Put(f) ==
    /\ txe' = [txe EXCEPT ![LastOf(f)] = f.m]
    /\ tx' = [tx EXCEPT !.tail = (@ + Descs(f)) % W]
    /\ txdd' = txdd \ New(f) /\ txrs' = (txrs \ New(f)) \cup {LastOf(f)}
XmitOne ==
    /\ phase = "send" /\ bufs # <<>>
    /\ Fits(tx.head, Descs(Head(bufs)))
    /\ Put(Head(bufs))
    /\ bufs' = Tail(bufs)
    /\ UNCHANGED <<driver, traffic, phase, free, cap, early, panic, rxvars>>

\* It does not fit: a reclaim, after which it fits or eth_process_send panics.
XmitReclaim ==
    /\ phase = "send" /\ bufs # <<>>
    /\ ~Fits(tx.head, Descs(Head(bufs)))
    /\ IF Fits(reclaimed.head, Descs(Head(bufs)))
       THEN tx_reclaim /\ UNCHANGED <<phase, panic>>
       ELSE panic' = TRUE /\ phase' = "panic" /\ UNCHANGED <<free, txe, tx>>
    /\ UNCHANGED <<driver, traffic, cap, bufs, txrs, txdd, early, rxvars>>

\* The tail register is written and the loop starts again.
XmitEnd ==
    /\ phase = "send" /\ bufs = <<>>
    /\ phase' = "user"
    /\ tx' = [tx EXCEPT !.tdt = tx.tail]
    /\ UNCHANGED <<driver, traffic, free, cap, bufs, txe, txrs, txdd, early, panic, rxvars>>

\* The hardware takes a descriptor, up to the tail register.
HwTx ==
    /\ phase \in {"user", "send"} /\ tx.hw # tx.tdt
    /\ tx' = [tx EXCEPT !.hw = (@ + 1) % W]
    /\ txdd' = IF tx.hw % LEN \in txrs THEN txdd \cup {tx.hw % LEN} ELSE txdd
    /\ UNCHANGED <<driver, traffic, phase, free, cap, bufs, txe, txrs, early, panic, rxvars>>

----------------------------------------------------------------------------
(* Reception *)

\* The rest of sys_bpoll; sys_bcall goes to eth_process_send.
Poll == /\ phase = "calls" /\ phase' \in {"poll", "send"}
        /\ UNCHANGED <<driver, traffic, free, txvars, rxvars>>

\* The hardware fills a descriptor; the one at the tail is not its own.
HwRx ==
    /\ phase = "poll" /\ traffic = "in" /\ rx.hw # rx.tail
    /\ rx' = [rx EXCEPT !.hw = (@ + 1) % RW]
    /\ rxdd' = rxdd \cup {rx.hw % RLEN}
    /\ UNCHANGED <<driver, traffic, phase, free, txvars, rxe, rxq>>

\* rx_poll, one descriptor: a fresh mbuf takes the place of the one that
\* goes up, unless its checksum is bad or eth_recv refuses it.
Refill(i) ==
    \E b \in {rxe[i]}, n \in {Min(free)} :
        /\ rxe' = [rxe EXCEPT ![i] = n]
        /\ \/ Len(rxq) < ETH_RX_MAX_DEPTH /\ rxq' = Append(rxq, b) /\ free' = free \ {n}
           \/ free' = (free \ {n}) \cup {b} /\ UNCHANGED rxq
RxOne ==
    \E i \in {rx.head % RLEN} :
        /\ phase = "poll" /\ i \in rxdd /\ free # {}
        /\ Refill(i)
        /\ rxdd' = rxdd \ {i}
        /\ rx' = [rx EXCEPT !.head = (@ + 1) % RW]
        /\ UNCHANGED <<driver, traffic, phase, txvars>>
ixgbe_rx_poll == driver = "ixgbe" /\ RxOne
i40e_rx_poll == driver = "i40e" /\ RxOne

\* Mutant: the tail is never written.
Rearm_Never == rx

\* The end of the poll: nothing is ready or there is no mbuf.  The tail moves
\* when enough descriptors were consumed.
Rearm ==
    IF (RLEN - (rx.tail + 1 - rx.head)) % RW >= RDT_THRESH
    THEN [rx EXCEPT !.tail = (rx.head + RLEN - 1) % RW] ELSE rx
RxEnd ==
    /\ phase = "poll" /\ (rx.head % RLEN \notin rxdd \/ free = {})
    /\ phase' = "recv"
    /\ rx' = Rearm
    /\ UNCHANGED <<driver, traffic, free, txvars, rxe, rxdd, rxq>>

\* eth_process_recv: a packet is consumed, or sent back in its own mbuf if there
\* is room for it.
Recv ==
    /\ phase = "recv" /\ rxq # <<>>
    /\ \E m \in {Head(rxq)} : \/ cap >= 1 /\ Queue(m, 0, free)
                              \/ free' = free \cup {m} /\ UNCHANGED <<cap, bufs>>
    /\ rxq' = Tail(rxq)
    /\ UNCHANGED <<driver, traffic, phase, tx, txe, txrs, txdd, rx, rxe, rxdd, early, panic>>
RecvEnd ==
    /\ phase = "recv" /\ rxq = <<>>
    /\ phase' = "send"
    /\ UNCHANGED <<driver, traffic, free, txvars, rxvars>>

----------------------------------------------------------------------------
Loop == eth_process_reclaim \/ Poll \/ XmitOne \/ XmitReclaim \/ XmitEnd
        \/ ixgbe_rx_poll \/ i40e_rx_poll \/ RxEnd \/ Recv \/ RecvEnd
Next == Loop \/ (\E n \in 0 .. MaxIov : Send(n)) \/ EarlyReturn \/ HwTx \/ HwRx

Spec == Init /\ [][Next]_vars

\* The loop runs and the hardware sends.  A batch of system calls is finite:
\* the loop leaves it again and again for sys_bpoll's poll.
Fairness ==
    /\ WF_vars(Loop) /\ SF_vars(HwTx)
    /\ SF_vars(phase = "calls" /\ phase' = "poll" /\ Poll)

FairSpec == Spec /\ Fairness

----------------------------------------------------------------------------
(* Properties *)

\* The type of every variable.
TypeOK ==
    /\ phase \in {"user", "calls", "poll", "recv", "send", "panic"}
    /\ free \subseteq Mbufs
    /\ cap \in 0 .. LEN
    /\ tx \in [head : 0 .. W - 1, tail : 0 .. W - 1, hw : 0 .. W - 1, tdt : 0 .. W - 1]
    /\ rx \in [head : 0 .. RW - 1, tail : 0 .. RW - 1, hw : 0 .. RW - 1]
    /\ txe \in [0 .. LEN - 1 -> 0 .. NMbufs]
    /\ rxe \in [0 .. RLEN - 1 -> Mbufs]
    /\ Len(rxq) <= ETH_RX_MAX_DEPTH

\* Every mbuf is in exactly one place: the pool, a batch, a ring, or the queue
\* of received packets.
Copies(s, m) == Cardinality({i \in DOMAIN s : s[i] = m})
OneOwner ==
    \A m \in Mbufs :
        (IF m \in free THEN 1 ELSE 0) + Copies(rxe, m) + Copies(txe, m)
        + Copies(rxq, m) + Cardinality({i \in DOMAIN bufs : bufs[i].m = m}) = 1

\* The hardware's place in the transmit ring lies between head and tail, and
\* the ring is never full: head = tail means empty.
TxRingBounded ==
    Used < LEN /\ Dist(tx.head, tx.hw) <= Used

\* A descriptor given back has been sent, and nothing that carries an mbuf lies
\* outside of head .. tail.
TxEntriesInRing ==
    \A d \in 0 .. LEN - 1 : txe[d] # NULL =>
        \E i \in 0 .. Used - 1 : d = (tx.head + i) % LEN

\* cap promises no more descriptors than the ring has, the batch counted (the
\* comment of struct eth_tx_queue: "number of available buffers left"), unless
\* sys_bpoll returned early with a batch.
Promised == MapThenSumSet(LAMBDA i : 1 + bufs[i].iov, DOMAIN bufs)
CapIsLeft == phase \in {"calls", "poll", "recv"} => cap + Promised <= LEN - Used
CapIsLeftOnTime == early \/ CapIsLeft

\* eth_process_send finds room for all it accepted, unless the batch took the
\* last descriptor, which xmit_one leaves empty, or sys_bpoll returned early.
PanicOnlyWhenFull == panic => early \/ cap = 0

\* The receive ring: the hardware's packets are the ones from head to its own
\* place, and it never reaches a descriptor whose packet was not taken.
RxRingInOrder ==
    /\ RxDist(rx.head, rx.hw) <= RxDist(rx.head, rx.tail)
    /\ RxDist(rx.head, rx.tail) < RLEN
    /\ rxdd = {(rx.head + i) % RLEN : i \in 0 .. RxDist(rx.head, rx.hw) - 1}

\* The rings of the NIC, the packet buffers in them and the transmit credit.
RingsSafe ==
    /\ TypeOK /\ TxEntriesInRing /\ OneOwner
    /\ TxRingBounded /\ CapIsLeftOnTime /\ PanicOnlyWhenFull
    /\ RxRingInOrder

\* The transmit path gives every mbuf back, unless eth_process_send panics.
TxCompletes ==
    \A m \in Mbufs : (\E i \in DOMAIN txe : txe[i] = m) ~> (m \in free \/ panic)

\* The receive ring does not stay closed to the hardware, unless the pool is
\* empty again and again.
RxReopens == (rx.hw = rx.tail) ~> (rx.hw # rx.tail \/ panic \/ free = {})
=============================================================================
