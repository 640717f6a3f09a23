----------------------------- MODULE NetProofs -----------------------------
(* Proofs about Net: NetSafe holds for any number of CPUs, hosts, mbufs,
   pending packets, table entries and descriptors.  The inductive invariant has
   one part per piece of state, and says of the mbufs that the places that can
   hold one split the pool among them. *)
EXTENDS Net, FiniteSetTheorems, SequenceTheorems, TLAPS

\* Most leaves are first-order and go to Zenon; the ones that need arithmetic,
\* records or sequences name the SMT solver.
USE ZenonT(20), SMTT(30)

----------------------------------------------------------------------------
(* The inductive invariant *)

Entry == [valid : BOOLEAN, static : BOOLEAN, retries : -1 .. ARP_MAX_ATTEMPTS - 1,
          timer : Cpus \cup {NONE}]
Descs == [m : Mbufs \cup {NONE}, req : Addrs \cup {NONE}]
Packet == [addr : Addrs \cup {NONE}, m : Mbufs \cup {NONE}, cpu : Cpus \cup {NONE},
           dispatched : BOOLEAN]

\* The transmit queues: a descriptor without an mbuf is followed by the last of
\* its frame, and no mbuf is queued twice.
TxInv ==
    /\ txq \in [Cpus -> Seq(Descs)]
    /\ \A c \in Cpus : Len(txq[c]) <= TxCap
    /\ \A c \in Cpus : \A i \in 1 .. Len(txq[c]) : txq[c][i].m = NONE =>
          i < Len(txq[c]) /\ txq[c][i + 1].m # NONE
    /\ \A c, d \in Cpus : \A i \in 1 .. Len(txq[c]), j \in 1 .. Len(txq[d]) :
          txq[c][i].m = txq[d][j].m /\ txq[c][i].m # NONE => c = d /\ i = j

\* A static entry is valid and has no timer.
ArpOK(e) == e.static => e.valid /\ e.timer = NONE
ArpInv ==
    /\ arp \in [Addrs -> Entry]
    /\ \A a \in Addrs : ArpOK(arp[a])
    /\ Cardinality(Entries) <= ARP_MAX_ENTRIES

\* The pending packets: a free object holds nothing, no mbuf waits twice.
PendInv ==
    /\ pend \in [Pkts -> Packet]
    /\ \A p \in Pkts : pend[p].m = NONE <=> pend[p] = FreePkt
    /\ \A p \in Pkts : pend[p] # FreePkt => pend[p].addr # NONE /\ pend[p].cpu # NONE
    /\ \A p, q \in Pkts : pend[p].m = pend[q].m /\ pend[p].m # NONE => p = q

\* The calls between the look-up and the queueing of their packet.
CurInv ==
    /\ cur \in [Cpus -> {<<>>} \cup (Addrs \X Mbufs)]
    /\ \A c, d \in Cpus : cur[c] # <<>> /\ cur[d] # <<>> /\ cur[c][2] = cur[d][2] => c = d

Queued == {m \in Mbufs : \E c \in Cpus : \E i \in 1 .. Len(txq[c]) : txq[c][i].m = m}
Parked == {m \in Mbufs : \E p \in Pkts : pend[p].m = m}
Held == {m \in Mbufs : \E c \in Cpus : cur[c] # <<>> /\ cur[c][2] = m}

\* The places split the pool.
Split(F, T, U, L, Q, P, H) ==
    /\ Mbufs = F \cup T \cup U \cup L \cup Q \cup P \cup H
    /\ F \cap (T \cup U \cup L \cup Q \cup P \cup H) = {}
    /\ T \cap (U \cup L \cup Q \cup P \cup H) = {}
    /\ U \cap (L \cup Q \cup P \cup H) = {}
    /\ L \cap (Q \cup P \cup H) = {}
    /\ Q \cap (P \cup H) = {}
    /\ P \cap H = {}

RunInv ==
    /\ runq \in [Cpus -> SUBSET Pkts]
    /\ lock \in BOOLEAN /\ spin \subseteq Cpus /\ asked \subseteq Addrs
    /\ found \in [Cpus -> {"no", "yes", "gone"}]
    /\ removing \in [Cpus -> Addrs \cup {NONE}] /\ dangling \in BOOLEAN

\* An entry that nothing drives is being removed.
Driven(e) == e.static \/ e.timer # NONE
TimerInv == \A a \in Entries : Driven(arp[a]) \/ Removing(a)

\* An entry that is being removed has no packets, dispatched or not.
NoneGoing ==
    dangling \/ \A p \in Pkts : pend[p] # FreePkt => ~Removing(pend[p].addr)

\* An entry that arp_add_pending_pkt found is in the table until it is gone.
FoundInv ==
    \A c \in Cpus : found[c] = "yes" => cur[c] # <<>> /\ cur[c][1] \in Entries

\* What waits has something to wait for.
Waits == PendingHasEntry /\ RunnersLive /\ NoneGoing /\ TimerInv /\ FoundInv

IInv ==
    /\ TxInv /\ ArpInv /\ PendInv /\ CurInv /\ RunInv
    /\ Split(free, tcp, user, lost, Queued, Parked, Held)
    /\ pinned \subseteq Queued /\ Waits

----------------------------------------------------------------------------
(* The transmit queues *)

\* mempool_alloc returns one of the free objects.
LEMMA AnyIn ==
    ASSUME NEW S, S # {}
    PROVE  Any(S) \in S
BY DEF Any

\* eth_send of a frame of one descriptor: its mbuf is queued.
LEMMA SendOne ==
    ASSUME TxInv, NEW c \in Cpus, NEW m \in Mbufs, m \notin Queued,
           NEW a \in Addrs \cup {NONE}, Room(c, 1),
           txq' = [txq EXCEPT ![c] = Append(@, Desc(m, a))]
    PROVE  TxInv' /\ Queued' = Queued \cup {m}
<1> DEFINE q == Append(txq[c], Desc(m, a))
<1>1. NONE \notin Mbufs /\ TxCap \in Nat
  BY NetAssumption
<1>2. txq[c] \in Seq(Descs) /\ Desc(m, a) \in Descs /\ Desc(m, a).m = m
  BY DEF TxInv, Descs, Desc
<1>3. q \in Seq(Descs) /\ Len(q) = Len(txq[c]) + 1 /\ Len(txq[c]) \in Nat
  BY <1>2, SMTT(30)
<1>4. /\ \A i \in 1 .. Len(txq[c]) : q[i] = txq[c][i]
      /\ q[Len(txq[c]) + 1] = Desc(m, a)
  BY <1>2, SMTT(30)
<1>5. txq \in [Cpus -> Seq(Descs)] /\ txq' = [txq EXCEPT ![c] = q]
  BY DEF TxInv
<1> HIDE DEF q
<1>6. /\ txq'[c] = q /\ \A d \in Cpus : d # c => txq'[d] = txq[d]
      /\ txq' \in [Cpus -> Seq(Descs)]
  BY <1>3, <1>5
<1>7. \A d \in Cpus : \A i \in 1 .. Len(txq[d]) : txq[d][i].m # m
  BY DEF Queued
<1>8. \A d \in Cpus : Len(txq'[d]) <= TxCap
  BY <1>3, <1>6 DEF TxInv, Room
<1>9. \A d \in Cpus : \A i \in 1 .. Len(txq'[d]) : txq'[d][i].m = NONE =>
          i < Len(txq'[d]) /\ txq'[d][i + 1].m # NONE
  <2> SUFFICES ASSUME NEW d \in Cpus, NEW i \in 1 .. Len(txq'[d]), txq'[d][i].m = NONE
               PROVE  i < Len(txq'[d]) /\ txq'[d][i + 1].m # NONE
    OBVIOUS
  <2>1. CASE d # c
    BY <2>1, <1>6 DEF TxInv
  <2>2. CASE d = c
    <3>1. i \in 1 .. Len(txq[c]) /\ txq[c][i].m = NONE
      BY <2>2, <1>1, <1>2, <1>3, <1>4, <1>6, SMTT(30)
    <3>2. i < Len(txq[c]) /\ txq[c][i + 1].m # NONE
      BY <3>1 DEF TxInv
    <3> QED
      BY <3>1, <3>2, <2>2, <1>3, <1>4, <1>6, SMTT(30)
  <2> QED
    BY <2>1, <2>2
<1>10. \A d, e \in Cpus : \A i \in 1 .. Len(txq'[d]), j \in 1 .. Len(txq'[e]) :
          txq'[d][i].m = txq'[e][j].m /\ txq'[d][i].m # NONE => d = e /\ i = j
  <2> SUFFICES ASSUME NEW d \in Cpus, NEW e \in Cpus,
                      NEW i \in 1 .. Len(txq'[d]), NEW j \in 1 .. Len(txq'[e]),
                      txq'[d][i].m = txq'[e][j].m, txq'[d][i].m # NONE
               PROVE  d = e /\ i = j
    BY SMTT(30)
  <2>1. \/ i \in 1 .. Len(txq[d]) /\ txq'[d][i] = txq[d][i]
        \/ d = c /\ i = Len(txq[c]) + 1 /\ txq'[d][i].m = m
    BY <1>2, <1>3, <1>4, <1>6, SMTT(30)
  <2>2. \/ j \in 1 .. Len(txq[e]) /\ txq'[e][j] = txq[e][j]
        \/ e = c /\ j = Len(txq[c]) + 1 /\ txq'[e][j].m = m
    BY <1>2, <1>3, <1>4, <1>6, SMTT(30)
  <2> QED
    BY <2>1, <2>2, <1>7, SMTT(30) DEF TxInv
<1>11. Queued' = Queued \cup {m}
  <2>1. \A d \in Cpus : \A i \in 1 .. Len(txq[d]) :
            i \in 1 .. Len(txq'[d]) /\ txq'[d][i] = txq[d][i]
    BY <1>3, <1>4, <1>6, SMTT(30)
  <2>2. Len(q) \in 1 .. Len(txq'[c]) /\ txq'[c][Len(q)].m = m
    BY <1>2, <1>3, <1>4, <1>6, SMTT(30)
  <2>3. \A d \in Cpus : \A i \in 1 .. Len(txq'[d]) :
            \/ i \in 1 .. Len(txq[d]) /\ txq'[d][i] = txq[d][i]
            \/ txq'[d][i].m = m
    BY <1>2, <1>3, <1>4, <1>6, SMTT(30)
  <2> QED
    BY <2>1, <2>2, <2>3, SMTT(30) DEF Queued
<1> QED
  BY <1>6, <1>8, <1>9, <1>10, <1>11 DEF TxInv

\* udp_output's frame: a descriptor for the headers and one for the data.
LEMMA SendTwo ==
    ASSUME TxInv, NEW c \in Cpus, NEW m \in Mbufs, m \notin Queued, Room(c, 2),
           txq' = [txq EXCEPT ![c] = @ \o <<Desc(NONE, NONE), Desc(m, NONE)>>]
    PROVE  TxInv' /\ Queued' = Queued \cup {m}
<1> DEFINE q == txq[c] \o <<Desc(NONE, NONE), Desc(m, NONE)>>
<1>1. NONE \notin Mbufs /\ TxCap \in Nat
  BY NetAssumption
<1>2. /\ txq[c] \in Seq(Descs) /\ Desc(NONE, NONE) \in Descs /\ Desc(m, NONE) \in Descs
      /\ Desc(NONE, NONE).m = NONE /\ Desc(m, NONE).m = m
  BY DEF TxInv, Descs, Desc
<1>3. q \in Seq(Descs) /\ Len(q) = Len(txq[c]) + 2 /\ Len(txq[c]) \in Nat
  BY <1>2, SMTT(30)
<1>4. /\ \A i \in 1 .. Len(txq[c]) : q[i] = txq[c][i]
      /\ q[Len(txq[c]) + 1] = Desc(NONE, NONE)
      /\ q[Len(txq[c]) + 2] = Desc(m, NONE)
  BY <1>2, SMTT(30)
<1>5. txq \in [Cpus -> Seq(Descs)] /\ txq' = [txq EXCEPT ![c] = q]
  BY DEF TxInv
<1> HIDE DEF q
<1>6. /\ txq'[c] = q /\ \A d \in Cpus : d # c => txq'[d] = txq[d]
      /\ txq' \in [Cpus -> Seq(Descs)]
  BY <1>3, <1>5
<1>7. \A d \in Cpus : \A i \in 1 .. Len(txq[d]) : txq[d][i].m # m
  BY DEF Queued
<1>8. \A d \in Cpus : Len(txq'[d]) <= TxCap
  BY <1>3, <1>6 DEF TxInv, Room
<1>9. \A d \in Cpus : \A i \in 1 .. Len(txq'[d]) : txq'[d][i].m = NONE =>
          i < Len(txq'[d]) /\ txq'[d][i + 1].m # NONE
  <2> SUFFICES ASSUME NEW d \in Cpus, NEW i \in 1 .. Len(txq'[d]), txq'[d][i].m = NONE
               PROVE  i < Len(txq'[d]) /\ txq'[d][i + 1].m # NONE
    OBVIOUS
  <2>1. CASE d # c
    BY <2>1, <1>6 DEF TxInv
  <2>2. CASE d = c /\ i \in 1 .. Len(txq[c])
    <3>1. i < Len(txq[c]) /\ txq[c][i + 1].m # NONE
      BY <2>2, <1>4, <1>6, SMTT(30) DEF TxInv
    <3> QED
      BY <3>1, <2>2, <1>3, <1>4, <1>6, SMTT(30)
  <2>3. CASE d = c /\ i = Len(txq[c]) + 1
    BY <2>3, <1>1, <1>2, <1>3, <1>4, <1>6, SMTT(30)
  <2>4. CASE d = c /\ i = Len(txq[c]) + 2
    BY <2>4, <1>1, <1>2, <1>3, <1>4, <1>6
  <2> QED
    BY <2>1, <2>2, <2>3, <2>4, <1>3, <1>6, SMTT(30)
<1>10. \A d, e \in Cpus : \A i \in 1 .. Len(txq'[d]), j \in 1 .. Len(txq'[e]) :
          txq'[d][i].m = txq'[e][j].m /\ txq'[d][i].m # NONE => d = e /\ i = j
  <2> SUFFICES ASSUME NEW d \in Cpus, NEW e \in Cpus,
                      NEW i \in 1 .. Len(txq'[d]), NEW j \in 1 .. Len(txq'[e]),
                      txq'[d][i].m = txq'[e][j].m, txq'[d][i].m # NONE
               PROVE  d = e /\ i = j
    BY SMTT(30)
  <2>1. \/ i \in 1 .. Len(txq[d]) /\ txq'[d][i] = txq[d][i]
        \/ d = c /\ i = Len(txq[c]) + 2 /\ txq'[d][i].m = m
    BY <1>2, <1>3, <1>4, <1>6, SMTT(30)
  <2>2. \/ j \in 1 .. Len(txq[e]) /\ txq'[e][j] = txq[e][j]
        \/ e = c /\ j = Len(txq[c]) + 2 /\ txq'[e][j].m = m
    BY <1>2, <1>3, <1>4, <1>6, SMTT(30)
  <2> QED
    BY <2>1, <2>2, <1>7, SMTT(30) DEF TxInv
<1>11. Queued' = Queued \cup {m}
  <2>1. \A d \in Cpus : \A i \in 1 .. Len(txq[d]) :
            i \in 1 .. Len(txq'[d]) /\ txq'[d][i] = txq[d][i]
    BY <1>3, <1>4, <1>6, SMTT(30)
  <2>2. Len(q) \in 1 .. Len(txq'[c]) /\ txq'[c][Len(q)].m = m
    BY <1>2, <1>3, <1>4, <1>6, SMTT(30)
  <2>3. \A d \in Cpus : \A i \in 1 .. Len(txq'[d]) :
            \/ i \in 1 .. Len(txq[d]) /\ txq'[d][i] = txq[d][i]
            \/ txq'[d][i].m \in {m, NONE}
    BY <1>2, <1>3, <1>4, <1>6, SMTT(30)
  <2> QED
    BY <2>1, <2>2, <2>3, <1>1, SMTT(30) DEF Queued
<1> QED
  BY <1>6, <1>8, <1>9, <1>10, <1>11 DEF TxInv

\* A sequence without its first n elements.
LEMMA Rest ==
    ASSUME NEW S, NEW s \in Seq(S), NEW n \in 1 .. Len(s)
    PROVE  /\ SubSeq(s, n + 1, Len(s)) \in Seq(S)
           /\ Len(SubSeq(s, n + 1, Len(s))) = Len(s) - n
           /\ \A i \in 1 .. Len(SubSeq(s, n + 1, Len(s))) :
                 SubSeq(s, n + 1, Len(s))[i] = s[n + i]
<1> DEFINE q == SubSeq(s, n + 1, Len(s))
<1>1. Len(s) \in Nat /\ n \in Nat /\ n + 1 \in Int /\ Len(s) \in Int
  BY SMTT(30)
<1>2. \A i \in n + 1 .. Len(s) : s[i] \in S
  BY SMTT(30)
<1>3. /\ q \in Seq(S) /\ Len(q) = IF n + 1 <= Len(s) THEN Len(s) - (n + 1) + 1 ELSE 0
      /\ \A i \in 1 .. Len(s) - (n + 1) + 1 : q[i] = s[n + 1 + i - 1]
  BY <1>1, <1>2, SubSeqProperties, SMTT(30)
<1> HIDE DEF q
<1>4. Len(q) = Len(s) - n
  BY <1>1, <1>3, SMTT(30)
<1>5. \A i \in 1 .. Len(q) : i \in Nat /\ n + 1 + i - 1 = n + i
  BY <1>1, <1>4, SMTT(30)
<1>6. \A i \in 1 .. Len(q) : q[i] = s[n + i]
  BY <1>1, <1>3, <1>4, <1>5, SMTT(30)
<1> QED
  BY <1>3, <1>4, <1>6 DEF q

\* The first frame of s ends at n, and q is s without it.
EndsAt(s, n) == s[n].m # NONE /\ \A i \in 1 .. n : i # n => s[i].m = NONE
IsRest(q, s, n) ==
    /\ q \in Seq(Descs) /\ Len(q) = Len(s) - n
    /\ \A i \in 1 .. Len(q) : q[i] = s[n + i]

\* A queue without its first n descriptors, of which the last carries the mbuf.
LEMMA Dropped ==
    ASSUME TxInv, NEW c \in Cpus, NEW n \in 1 .. Len(txq[c]), EndsAt(txq[c], n),
           NEW q, IsRest(q, txq[c], n), txq' = [txq EXCEPT ![c] = q]
    PROVE  TxInv' /\ Queued' = Queued \ {txq[c][n].m}
<1>1. NONE \notin Mbufs /\ TxCap \in Nat
  BY NetAssumption
<1>2. txq[c] \in Seq(Descs) /\ Len(txq[c]) \in Nat /\ n \in Nat /\ n > 0 /\ n <= Len(txq[c])
  BY SMTT(30) DEF TxInv
<1>3. txq[c][n].m # NONE /\ \A i \in 1 .. n : i # n => txq[c][i].m = NONE
  BY DEF EndsAt
<1>4. /\ q \in Seq(Descs) /\ Len(q) = Len(txq[c]) - n
      /\ \A i \in 1 .. Len(q) : q[i] = txq[c][n + i]
  BY DEF IsRest
<1>7. /\ txq'[c] = q /\ \A d \in Cpus : d # c => txq'[d] = txq[d]
      /\ txq' \in [Cpus -> Seq(Descs)]
  BY <1>4 DEF TxInv
<1>9. \A d \in Cpus : Len(txq'[d]) <= TxCap
  BY <1>4, <1>1, <1>2, <1>7, SMTT(30) DEF TxInv
<1>10. \A d \in Cpus : \A i \in 1 .. Len(txq'[d]) : txq'[d][i].m = NONE =>
          i < Len(txq'[d]) /\ txq'[d][i + 1].m # NONE
  <2> SUFFICES ASSUME NEW d \in Cpus, NEW i \in 1 .. Len(txq'[d]), txq'[d][i].m = NONE
               PROVE  i < Len(txq'[d]) /\ txq'[d][i + 1].m # NONE
    OBVIOUS
  <2>1. CASE d # c
    BY <2>1, <1>7 DEF TxInv
  <2>2. CASE d = c
    <3>1. n + i \in 1 .. Len(txq[c]) /\ txq[c][n + i].m = NONE
      BY <1>4, <2>2, <1>2, <1>7, SMTT(30)
    <3>2. n + i < Len(txq[c]) /\ txq[c][n + i + 1].m # NONE
      BY <3>1 DEF TxInv
    <3>3. i < Len(q) /\ q[i + 1] = txq[c][n + (i + 1)] /\ n + (i + 1) = n + i + 1
      <4>1. i \in Nat /\ n \in Nat /\ Len(q) = Len(txq[c]) - n /\ n + i < Len(txq[c])
        BY <1>4, <3>2, <2>2, <1>2, <1>7, SMTT(30)
      <4>2. i + 1 \in 1 .. Len(q)
        BY <4>1, <1>2, SMTT(30)
      <4> QED
        BY <1>4, <4>1, <4>2, SMTT(30)
    <3> QED
      BY <3>2, <3>3, <2>2, <1>7
  <2> QED
    BY <2>1, <2>2
<1>11. \A d \in Cpus : \A i \in 1 .. Len(txq'[d]) :
          \/ d # c /\ i \in 1 .. Len(txq[d]) /\ txq'[d][i] = txq[d][i]
          \/ d = c /\ n + i \in 1 .. Len(txq[d]) /\ txq'[d][i] = txq[d][n + i]
  BY <1>4, <1>2, <1>7, SMTT(30)
<1>12. \A d, e \in Cpus : \A i \in 1 .. Len(txq'[d]), j \in 1 .. Len(txq'[e]) :
          txq'[d][i].m = txq'[e][j].m /\ txq'[d][i].m # NONE => d = e /\ i = j
  <2> SUFFICES ASSUME NEW d \in Cpus, NEW e \in Cpus,
                      NEW i \in 1 .. Len(txq'[d]), NEW j \in 1 .. Len(txq'[e]),
                      txq'[d][i].m = txq'[e][j].m, txq'[d][i].m # NONE
               PROVE  d = e /\ i = j
    BY SMTT(30)
  <2>1. PICK x \in 1 .. Len(txq[d]) : txq'[d][i] = txq[d][x] /\ x = IF d = c THEN n + i ELSE i
    BY <1>11
  <2>2. PICK y \in 1 .. Len(txq[e]) : txq'[e][j] = txq[e][y] /\ y = IF e = c THEN n + j ELSE j
    BY <1>11
  <2>3. d = e /\ x = y
    BY <2>1, <2>2, SMTT(30) DEF TxInv
  <2> QED
    BY <2>1, <2>2, <2>3, SMTT(30)
<1>13. Queued' = Queued \ {txq[c][n].m}
  <2>1. \A d \in Cpus : \A i \in 1 .. Len(txq'[d]) : txq'[d][i].m # txq[c][n].m
    <3> SUFFICES ASSUME NEW d \in Cpus, NEW i \in 1 .. Len(txq'[d])
                 PROVE  txq'[d][i].m # txq[c][n].m
      OBVIOUS
    <3>1. PICK x \in 1 .. Len(txq[d]) : txq'[d][i] = txq[d][x] /\ (d = c => x = n + i)
      BY <1>11
    <3>2. ~(d = c /\ x = n)
      BY <3>1, <1>2, SMTT(30)
    <3> QED
      BY <1>3, <3>1, <3>2, SMTT(30) DEF TxInv
  <2>2. \A d \in Cpus : \A i \in 1 .. Len(txq[d]) :
            \/ d # c /\ i \in 1 .. Len(txq'[d]) /\ txq'[d][i] = txq[d][i]
            \/ d = c /\ i > n /\ i - n \in 1 .. Len(txq'[d]) /\ txq'[d][i - n] = txq[d][i]
            \/ d = c /\ i \in 1 .. n
    BY <1>4, <1>2, <1>7, SMTT(30)
  <2>3. Queued' \subseteq Queued \ {txq[c][n].m}
    <3>1. \A d \in Cpus : \A i \in 1 .. Len(txq'[d]) :
              \E x \in 1 .. Len(txq[d]) : txq'[d][i] = txq[d][x]
      BY <1>11
    <3> SUFFICES ASSUME NEW m \in Queued'
                 PROVE  m \in Queued /\ m # txq[c][n].m
      OBVIOUS
    <3>2. PICK d \in Cpus : \E i \in 1 .. Len(txq'[d]) : txq'[d][i].m = m
      BY DEF Queued
    <3>3. PICK i \in 1 .. Len(txq'[d]) : txq'[d][i].m = m
      BY <3>2
    <3>4. PICK x \in 1 .. Len(txq[d]) : txq'[d][i] = txq[d][x]
      BY <3>1
    <3> QED
      BY <2>1, <3>3, <3>4 DEF Queued
  <2>4. Queued \ {txq[c][n].m} \subseteq Queued'
    <3>1. \A d \in Cpus : \A i \in 1 .. Len(txq[d]) :
              \/ txq[d][i].m \in {NONE, txq[c][n].m}
              \/ \E x \in 1 .. Len(txq'[d]) : txq'[d][x] = txq[d][i]
      BY <1>3, <2>2
    <3> QED
      BY <3>1, <1>1, SMTT(30) DEF Queued
  <2> QED
    BY <2>3, <2>4
<1> QED
  BY <1>7, <1>9, <1>10, <1>12, <1>13 DEF TxInv

\* eth_process_reclaim of the oldest frame: its mbuf leaves the queue.
LEMMA ReclaimOne ==
    ASSUME TxInv, NEW c \in Cpus, txq[c] # <<>>, NEW n,
           n = IF Head(txq[c]).m = NONE THEN 2 ELSE 1,
           txq' = [txq EXCEPT ![c] = SubSeq(@, n + 1, Len(@))]
    PROVE  /\ TxInv' /\ txq[c][n].m \in Queued /\ txq[c][n].req \in Addrs \cup {NONE}
           /\ Queued' = Queued \ {txq[c][n].m}
<1> DEFINE q == SubSeq(txq[c], n + 1, Len(txq[c]))
<1>2. txq[c] \in Seq(Descs) /\ Len(txq[c]) \in Nat \ {0} /\ Head(txq[c]) = txq[c][1]
  BY SMTT(30) DEF TxInv
<1>3. n \in 1 .. Len(txq[c]) /\ n \in 1 .. 2
  BY <1>2, SMTT(30) DEF TxInv
<1>4. EndsAt(txq[c], n)
  BY <1>2, <1>3, SMTT(30) DEF TxInv, EndsAt
<1>5. IsRest(q, txq[c], n)
  BY <1>2, <1>3, Rest, Zenon, SMTT(30) DEF IsRest
<1>6. txq' = [txq EXCEPT ![c] = q]
  OBVIOUS
<1> HIDE DEF q
<1>7. TxInv' /\ Queued' = Queued \ {txq[c][n].m}
  BY <1>3, <1>4, <1>5, <1>6, Dropped, Zenon
<1>8. txq[c][n].m \in Mbufs /\ txq[c][n].req \in Addrs \cup {NONE}
  <2>1. txq[c][n] \in Descs
    BY <1>2, <1>3, SMTT(30)
  <2> QED
    BY <2>1, <1>4 DEF Descs, EndsAt
<1>9. txq[c][n].m \in Queued
  BY <1>3, <1>8 DEF Queued
<1> QED
  BY <1>7, <1>8, <1>9

\* Nothing was queued and nothing reclaimed.
LEMMA TxSame ==
    ASSUME TxInv, UNCHANGED txq
    PROVE  TxInv' /\ Queued' = Queued
BY SMTT(30) DEF TxInv, Queued

\* What eth_send_one leaves: m is queued, or back with fr.
Sent(m, fr) ==
    \/ free' = fr /\ Queued' = Queued \cup {m}
    \/ free' = fr \cup {m} /\ Queued' = Queued

\* eth_send_one, and the release of what it refused.
LEMMA SendOrFreeDoes ==
    ASSUME TxInv, NEW c \in Cpus, NEW m \in Mbufs, m \notin Queued, NEW fr,
           SendOrFree(c, m, fr)
    PROVE  TxInv' /\ Sent(m, fr)
<1>1. CASE Room(c, 1)
  <2>1. txq' = [txq EXCEPT ![c] = Append(@, Desc(m, NONE))] /\ free' = fr
    BY <1>1 DEF SendOrFree
  <2>2. TxInv' /\ Queued' = Queued \cup {m}
    BY <1>1, <2>1, SendOne
  <2> QED
    BY <2>1, <2>2 DEF Sent
<1>2. CASE ~Room(c, 1)
  <2>1. UNCHANGED txq /\ free' = fr \cup {m}
    BY <1>2 DEF SendOrFree
  <2> QED
    BY <2>1, TxSame DEF Sent
<1> QED
  BY <1>1, <1>2

\* What arp_send_pkt leaves: one mbuf of fr is queued, or none; back is free.
Asked(fr, back) ==
    \/ \E r \in fr : free' = (fr \ {r}) \cup back /\ Queued' = Queued \cup {r}
    \/ free' = fr \cup back /\ Queued' = Queued

\* arp_send_pkt.
LEMMA RequestDoes ==
    ASSUME TxInv, NEW c \in Cpus, NEW a \in Addrs, NEW fr, NEW back,
           fr \subseteq Mbufs, fr \cap Queued = {}, Request(c, a, fr, back)
    PROVE  TxInv' /\ Asked(fr, back)
<1>1. CASE fr # {} /\ Room(c, 1)
  <2> DEFINE r == Any(fr)
  <2>1. r \in fr
    BY <1>1, AnyIn
  <2>2. txq' = [txq EXCEPT ![c] = Append(@, Desc(r, a))] /\ free' = (fr \ {r}) \cup back
    BY <1>1 DEF Request
  <2> HIDE DEF r
  <2>3. TxInv' /\ Queued' = Queued \cup {r}
    BY <1>1, <2>1, <2>2, SendOne
  <2> QED
    BY <2>1, <2>2, <2>3 DEF Asked
<1>2. CASE ~(fr # {} /\ Room(c, 1))
  <2>1. UNCHANGED txq /\ free' = fr \cup back
    BY <1>2 DEF Request
  <2> QED
    BY <2>1, TxSame DEF Asked
<1> QED
  BY <1>1, <1>2

----------------------------------------------------------------------------
(* The ARP table *)

\* What all steps but the end of the retries do: no entry goes, none becomes
\* unresolved, and none loses its timer.
TableGrows ==
    /\ Entries \subseteq Entries'
    /\ \A b \in Addrs : arp[b].valid => arp'[b].valid
    /\ \A b \in Entries' : Driven(arp'[b]) \/ (b \in Entries /\ ~Driven(arp[b]))

\* The table holds finitely many entries, so ARP_MAX_ENTRIES can bound them.
LEMMA EntriesFinite == IsFiniteSet(Entries) /\ Cardinality(Entries) \in Nat
<1>1. IsFiniteSet(Addrs) /\ Entries \subseteq Addrs
  BY NetAssumption DEF Entries
<1> QED
  BY <1>1, FS_Subset, FS_CardinalityType

\* The table does not change.
LEMMA ArpSame ==
    ASSUME ArpInv, UNCHANGED arp
    PROVE  ArpInv' /\ TableGrows
BY DEF ArpInv, TableGrows, Entries, ArpOK, Driven

\* An entry is written, one of the pool if it is new.
LEMMA ArpSet ==
    ASSUME ArpInv, NEW a \in Addrs, NEW e \in Entry, e # NoEntry, ArpOK(e), Driven(e),
           Missing(a) => ~PoolEmpty, arp[a].valid => e.valid,
           arp' = [arp EXCEPT ![a] = e]
    PROVE  ArpInv' /\ TableGrows /\ a \in Entries'
<1>1. arp \in [Addrs -> Entry] /\ \A b \in Addrs : ArpOK(arp[b])
  BY DEF ArpInv
<1>2. /\ arp' \in [Addrs -> Entry] /\ arp'[a] = e
      /\ \A b \in Addrs : b # a => arp'[b] = arp[b]
  BY <1>1
<1>3. Entries' = Entries \cup {a}
  BY <1>2 DEF Entries
<1>4. \A b \in Addrs : ArpOK(arp[b])'
  BY <1>1, <1>2 DEF ArpOK
<1>5. Cardinality(Entries') <= ARP_MAX_ENTRIES
  <2>1. CASE a \in Entries
    BY <2>1, <1>3 DEF ArpInv
  <2>2. CASE a \notin Entries
    <3>1. Cardinality(Entries \cup {a}) = Cardinality(Entries) + 1
      BY <2>2, EntriesFinite, FS_AddElement
    <3>2. Cardinality(Entries) < ARP_MAX_ENTRIES
      BY <2>2, EntriesFinite, NetAssumption, SMTT(30) DEF Missing, PoolEmpty, Entries
    <3> QED
      BY <3>1, <3>2, <1>3, EntriesFinite, NetAssumption, SMTT(30)
  <2> QED
    BY <2>1, <2>2
<1> QED
  BY <1>2, <1>3, <1>4, <1>5 DEF ArpInv, TableGrows, ArpOK, Driven

\* The entry goes.
LEMMA ArpClear ==
    ASSUME ArpInv, NEW a \in Addrs, arp' = [arp EXCEPT ![a] = NoEntry]
    PROVE  ArpInv' /\ Entries' = Entries \ {a}
<1>1. arp \in [Addrs -> Entry] /\ \A b \in Addrs : ArpOK(arp[b])
  BY DEF ArpInv
<1>2. NoEntry \in Entry /\ ArpOK(NoEntry)
  BY NetAssumption, SMTT(30) DEF NoEntry, Entry, ArpOK
<1>3. /\ arp' \in [Addrs -> Entry] /\ arp'[a] = NoEntry
      /\ \A b \in Addrs : b # a => arp'[b] = arp[b]
  BY <1>1, <1>2
<1>4. Entries' = Entries \ {a}
  BY <1>3 DEF Entries
<1>5. \A b \in Addrs : ArpOK(arp[b])'
  BY <1>1, <1>2, <1>3 DEF ArpOK
<1>6. Cardinality(Entries') <= Cardinality(Entries) /\ Cardinality(Entries') \in Nat
  BY <1>4, EntriesFinite, FS_Subset, FS_CardinalityType
<1>7. Cardinality(Entries') <= ARP_MAX_ENTRIES
  BY <1>6, EntriesFinite, NetAssumption, SMTT(30) DEF ArpInv
<1> QED
  BY <1>3, <1>4, <1>5, <1>7 DEF ArpInv

\* The entry that arp_lookup creates, with its timer on CPU c.
LEMMA FreshEntry ==
    ASSUME NEW c \in Cpus
    PROVE  /\ [NewEntry EXCEPT !.timer = c] \in Entry
           /\ [NewEntry EXCEPT !.timer = c] # NoEntry
           /\ ArpOK([NewEntry EXCEPT !.timer = c])
           /\ Driven([NewEntry EXCEPT !.timer = c])
<1> DEFINE n == NewEntry
           e == [n EXCEPT !.timer = c]
<1>1. c # NONE /\ ARP_MAX_ATTEMPTS \in Nat \ {0}
  BY NetAssumption
<1>2. NoEntry \in Entry /\ ~NoEntry.valid /\ ~NoEntry.static /\ NoEntry.retries = -1
  BY <1>1, SMTT(30) DEF NoEntry, Entry
<1>3. n \in Entry /\ ~n.static /\ n.retries = 0
  BY <1>1, <1>2, SMTT(30) DEF NewEntry, Entry
<1> HIDE DEF n
<1>4. e \in Entry /\ ~e.static /\ e.retries = 0 /\ e.timer = c
  BY <1>3 DEF Entry
<1> HIDE DEF e
<1>5. e # NoEntry /\ ArpOK(e) /\ Driven(e)
  BY <1>1, <1>2, <1>4, SMTT(30) DEF ArpOK, Driven, Entry
<1> QED
  BY <1>4, <1>5 DEF e, n

\* arp_lookup_mac of an address that is not resolved: the entry is there
\* afterwards, with its timer, and at most one mbuf of fr carries a request.
LEMMA LookupDoes ==
    ASSUME ArpInv, TxInv, NEW c \in Cpus, NEW a \in Addrs, NEW fr, NEW back,
           ~arp[a].valid, Missing(a) => ~PoolEmpty,
           fr \subseteq Mbufs, fr \cap Queued = {}, LookupUnresolved(c, a, fr, back)
    PROVE  /\ ArpInv' /\ TxInv' /\ TableGrows
           /\ a \in Entries' /\ Asked(fr, back)
<1>1. c # NONE
  BY NetAssumption
<1>2. CASE Missing(a)
  <2> DEFINE e == [NewEntry EXCEPT !.timer = c]
  <2>1. NewEntry.timer = NONE
    BY DEF NewEntry, NoEntry
  <2>2. arp' = [arp EXCEPT ![a] = e] /\ Request(c, a, fr, back)
    BY <1>2, <2>1 DEF LookupUnresolved, Missing
  <2>3. e \in Entry /\ e # NoEntry /\ ArpOK(e) /\ Driven(e)
    BY FreshEntry
  <2> HIDE DEF e
  <2> QED
    BY <1>2, <2>2, <2>3, ArpSet, RequestDoes
<1>3. CASE ~Missing(a) /\ arp[a].timer # NONE
  <2>1. UNCHANGED <<arp, txq>> /\ free' = fr \cup back
    BY <1>3 DEF LookupUnresolved, Missing
  <2>2. a \in Entries'
    BY <1>3, <2>1 DEF Entries, Missing
  <2> QED
    BY <2>1, <2>2, ArpSame, TxSame DEF Asked
<1>4. CASE ~Missing(a) /\ arp[a].timer = NONE
  <2> DEFINE e == [arp[a] EXCEPT !.timer = c]
  <2>1. arp' = [arp EXCEPT ![a] = e] /\ Request(c, a, fr, back)
    BY <1>4 DEF LookupUnresolved, Missing
  <2>2. arp[a] \in Entry /\ ArpOK(arp[a]) /\ ~arp[a].static
    BY DEF ArpInv, ArpOK
  <2>3. e \in Entry /\ e.timer = c /\ ~e.static
    BY <2>2 DEF Entry
  <2> HIDE DEF e
  <2>4. e # NoEntry /\ ArpOK(e) /\ Driven(e)
    BY <1>1, <2>3 DEF NoEntry, ArpOK, Driven
  <2> QED
    BY <1>4, <2>1, <2>3, <2>4, ArpSet, RequestDoes
<1> QED
  BY <1>2, <1>3, <1>4

----------------------------------------------------------------------------
(* Pending packets and calls under way *)

\* arp_add_pending_pkt takes an object of the pool.
LEMMA PendAdd ==
    ASSUME PendInv, NEW p \in Pkts, pend[p] = FreePkt, NEW m \in Mbufs, m \notin Parked,
           NEW a \in Addrs, NEW c \in Cpus,
           pend' = [pend EXCEPT ![p] = [addr |-> a, m |-> m, cpu |-> c, dispatched |-> FALSE]]
    PROVE  /\ PendInv' /\ Parked' = Parked \cup {m}
           /\ pend'[p].addr = a /\ ~pend'[p].dispatched
           /\ \A q \in Pkts : q # p => pend'[q] = pend[q]
<1> DEFINE k == [addr |-> a, m |-> m, cpu |-> c, dispatched |-> FALSE]
<1>1. m # NONE /\ a # NONE /\ c # NONE
  BY NetAssumption
<1>2. /\ k \in Packet /\ k.m = m /\ k.addr = a /\ k.cpu = c /\ ~k.dispatched
      /\ FreePkt.m = NONE
  BY DEF Packet, FreePkt
<1>3. pend' = [pend EXCEPT ![p] = k]
  OBVIOUS
<1> HIDE DEF k
<1>4. /\ pend' \in [Pkts -> Packet] /\ pend'[p] = k
      /\ \A q \in Pkts : q # p => pend'[q] = pend[q]
  BY <1>2, <1>3 DEF PendInv
<1>5. \A q \in Pkts : pend[q].m # m
  BY DEF Parked
<1>6. \A q \in Pkts : /\ pend'[q].m = NONE <=> pend'[q] = FreePkt
                      /\ pend'[q] # FreePkt => pend'[q].addr # NONE /\ pend'[q].cpu # NONE
  BY <1>1, <1>2, <1>4 DEF PendInv
<1>7. \A q, r \in Pkts : pend'[q].m = pend'[r].m /\ pend'[q].m # NONE => q = r
  BY <1>2, <1>4, <1>5 DEF PendInv
<1>8. Parked' = Parked \cup {m}
  <2>1. \A q \in Pkts : pend'[q].m = m \/ pend'[q].m = pend[q].m
    BY <1>2, <1>4
  <2>2. \A q \in Pkts : pend[q].m \in {NONE, pend'[q].m}
    BY <1>2, <1>4
  <2>3. pend'[p].m = m
    BY <1>2, <1>4
  <2>4. NONE \notin Mbufs
    BY NetAssumption
  <2> QED
    BY <2>1, <2>2, <2>3, <2>4, SMTT(30) DEF Parked
<1> QED
  BY <1>2, <1>4, <1>6, <1>7, <1>8 DEF PendInv

\* The packets of R are given back to the pool.
LEMMA PendFree ==
    ASSUME PendInv, NEW R, R \subseteq Pkts,
           pend' = [p \in Pkts |-> IF p \in R THEN FreePkt ELSE pend[p]]
    PROVE  /\ PendInv'
           /\ Parked' = Parked \ {pend[p].m : p \in R}
           /\ {pend[p].m : p \in R} \ {NONE} \subseteq Parked
<1>1. NONE \notin Mbufs
  BY NetAssumption
<1>2. FreePkt \in Packet /\ FreePkt.m = NONE
  BY DEF Packet, FreePkt
<1>3. /\ pend \in [Pkts -> Packet] /\ \A p \in Pkts : pend[p].m \in Mbufs \cup {NONE}
  BY DEF PendInv, Packet
<1>4. /\ pend' \in [Pkts -> Packet]
      /\ \A p \in Pkts : pend'[p] = IF p \in R THEN FreePkt ELSE pend[p]
  BY <1>2, <1>3
<1>5. PendInv'
  BY <1>2, <1>4 DEF PendInv
<1>6. Parked' = Parked \ {pend[p].m : p \in R}
  <2>1. ASSUME NEW m \in Parked' PROVE m \in Parked /\ m \notin {pend[p].m : p \in R}
    BY <2>1, <1>1, <1>2, <1>4 DEF Parked, PendInv
  <2>2. ASSUME NEW m \in Parked, m \notin {pend[p].m : p \in R} PROVE m \in Parked'
    BY <2>2, <1>4 DEF Parked
  <2> QED
    BY <2>1, <2>2
<1>7. {pend[p].m : p \in R} \ {NONE} \subseteq Parked
  BY <1>3 DEF Parked
<1> QED
  BY <1>5, <1>6, <1>7

\* The packets of R are marked dispatched, and nothing else changes.
Marked(R) ==
    /\ pend' \in [Pkts -> Packet]
    /\ \A p \in Pkts : /\ pend'[p].addr = pend[p].addr /\ pend'[p].cpu = pend[p].cpu
                       /\ pend'[p].m = pend[p].m
                       /\ pend'[p].dispatched = (pend[p].dispatched \/ p \in R)
                       /\ pend[p] = FreePkt => pend'[p] = FreePkt

\* arp_update_mac marks packets that wait.
LEMMA MarkIs ==
    ASSUME PendInv, NEW R, \A p \in R : p \in Pkts => pend[p] # FreePkt,
           pend' = [p \in Pkts |-> IF p \in R THEN [pend[p] EXCEPT !.dispatched = TRUE]
                                   ELSE pend[p]]
    PROVE  Marked(R)
<1>1. \A p \in Pkts : pend[p] \in Packet
  BY DEF PendInv
<1>2. \A p \in Pkts : /\ pend'[p] \in Packet
                      /\ pend'[p].addr = pend[p].addr /\ pend'[p].cpu = pend[p].cpu
                      /\ pend'[p].m = pend[p].m
                      /\ pend'[p].dispatched = (pend[p].dispatched \/ p \in R)
                      /\ pend[p] = FreePkt => pend'[p] = FreePkt
  <2> TAKE p \in Pkts
  <2>1. CASE p \in R
    <3> DEFINE k == [pend[p] EXCEPT !.dispatched = TRUE]
    <3>1. k \in Packet /\ k.addr = pend[p].addr /\ k.cpu = pend[p].cpu
          /\ k.m = pend[p].m /\ k.dispatched
      BY <1>1 DEF Packet
    <3>2. pend'[p] = k /\ pend[p] # FreePkt
      BY <2>1
    <3> HIDE DEF k
    <3> QED
      BY <3>1, <3>2, <2>1 DEF Packet
  <2>2. CASE p \notin R
    BY <2>2, <1>1 DEF Packet
  <2> QED
    BY <2>1, <2>2
<1>3. pend' \in [Pkts -> Packet]
  BY <1>2
<1> QED
  BY <1>2, <1>3 DEF Marked

\* Marking leaves the packets, and the mbufs they hold, where they are.
LEMMA PendMark ==
    ASSUME PendInv, NEW R, Marked(R)
    PROVE  PendInv' /\ Parked' = Parked
<1>1. FreePkt.m = NONE
  BY DEF FreePkt
<1>2. \A p \in Pkts : pend'[p].m = NONE <=> pend'[p] = FreePkt
  BY <1>1 DEF PendInv, Marked
<1>3. \A p \in Pkts : pend'[p] # FreePkt => pend'[p].addr # NONE /\ pend'[p].cpu # NONE
  BY DEF PendInv, Marked
<1>4. \A p, q \in Pkts : pend'[p].m = pend'[q].m /\ pend'[p].m # NONE => p = q
  BY SMTT(30) DEF PendInv, Marked
<1>5. Parked' = Parked
  BY DEF Parked, Marked
<1> QED
  BY <1>2, <1>3, <1>4, <1>5 DEF PendInv, Marked

\* No pending packet changes.
LEMMA PendSame ==
    ASSUME PendInv, UNCHANGED pend
    PROVE  PendInv' /\ Parked' = Parked
BY DEF PendInv, Parked

\* ip_send_one is between its two steps.
LEMMA CurSet ==
    ASSUME CurInv, NEW c \in Cpus, cur[c] = <<>>, NEW a \in Addrs, NEW m \in Mbufs,
           m \notin Held, cur' = [cur EXCEPT ![c] = <<a, m>>]
    PROVE  CurInv' /\ Held' = Held \cup {m}
<1> DEFINE k == <<a, m>>
<1>1. k \in Addrs \X Mbufs /\ k # <<>> /\ k[2] = m
  OBVIOUS
<1>2. cur' = [cur EXCEPT ![c] = k]
  OBVIOUS
<1> HIDE DEF k
<1>3. /\ cur' \in [Cpus -> {<<>>} \cup (Addrs \X Mbufs)] /\ cur'[c] = k
      /\ \A d \in Cpus : d # c => cur'[d] = cur[d]
  BY <1>1, <1>2, SMTT(30) DEF CurInv
<1>4. \A d \in Cpus : cur[d] # <<>> => cur[d][2] # m
  BY DEF Held
<1> QED
  BY <1>1, <1>3, <1>4, SMTT(30) DEF CurInv, Held

\* ip_send_one has taken its second step.
LEMMA CurClear ==
    ASSUME CurInv, NEW c \in Cpus, cur[c] # <<>>, cur' = [cur EXCEPT ![c] = <<>>]
    PROVE  /\ CurInv' /\ cur[c][1] \in Addrs /\ cur[c][2] \in Held
           /\ Held' = Held \ {cur[c][2]}
<1>1. /\ cur' \in [Cpus -> {<<>>} \cup (Addrs \X Mbufs)] /\ cur'[c] = <<>>
      /\ \A d \in Cpus : d # c => cur'[d] = cur[d]
  BY DEF CurInv
<1>2. cur[c] \in Addrs \X Mbufs
  BY DEF CurInv
<1>3. cur[c][1] \in Addrs /\ cur[c][2] \in Mbufs
  BY <1>2
<1> QED
  BY <1>1, <1>3 DEF CurInv, Held

\* No call starts or ends.
LEMMA CurSame ==
    ASSUME CurInv, UNCHANGED cur
    PROVE  CurInv' /\ Held' = Held
BY DEF CurInv, Held

----------------------------------------------------------------------------
(* The steps *)

Sp == Split(free, tcp, user, lost, Queued, Parked, Held)

\* Packets that wait and packets that were dispatched, when none of them changes
\* and no entry goes.
LEMMA WaitersKept ==
    ASSUME PendInv, RunInv, Waits, TableGrows, UNCHANGED <<pend, runq, removing>>,
           dangling => dangling', FoundInv'
    PROVE  Waits'
<1>1. \A a : Removing(a)' <=> Removing(a)
  BY DEF Removing
<1>2. PendingHasEntry'
  BY <1>1 DEF Waits, PendingHasEntry, TableGrows
<1>3. NoneGoing'
  BY <1>1 DEF Waits, NoneGoing
<1>4. TimerInv'
  BY <1>1 DEF Waits, TimerInv, TableGrows
<1>5. RunnersLive'
  <2> SUFFICES ASSUME ~dangling', NEW c \in Cpus, NEW p \in runq[c]
               PROVE  /\ pend[p] # FreePkt /\ pend[p].dispatched /\ pend[p].cpu = c
                      /\ arp'[pend[p].addr].valid
    BY DEF RunnersLive
  <2>1. /\ pend[p] # FreePkt /\ pend[p].dispatched /\ pend[p].cpu = c
        /\ arp[pend[p].addr].valid
    BY DEF Waits, RunnersLive
  <2>2. p \in Pkts
    BY DEF RunInv
  <2>3. pend[p].addr \in Addrs
    BY <2>1, <2>2 DEF PendInv, Packet
  <2> QED
    BY <2>1, <2>3 DEF TableGrows
<1> QED
  BY <1>2, <1>3, <1>4, <1>5 DEF Waits

\* The same, when no call moves on.
LEMMA WaitersSame ==
    ASSUME PendInv, RunInv, Waits, TableGrows,
           UNCHANGED <<pend, runq, removing, cur, found>>, dangling => dangling'
    PROVE  Waits'
<1>1. FoundInv'
  BY DEF Waits, FoundInv, TableGrows
<1> QED
  BY <1>1, WaitersKept

\* ip_send_one of a fresh mbuf (tcp_output_packet, ip_output_hinted, icmp_echo).
LEMMA OriginateStep ==
    ASSUME IInv, NEW c \in Cpus, NEW d \in Addrs, Originate(c, d)
    PROVE  IInv'
<1> DEFINE m == Any(free)
           a == Route(d)
<1>1. /\ Ready(c) /\ m \in free /\ ip_send_one(c, d, m, free \ {m})
      /\ UNCHANGED <<tcp, user, pinned, pend, runq, found, removing, asked, frames>>
  BY AnyIn DEF Originate
<1>2. a \in Addrs
  BY NetAssumption DEF Route, Addrs
<1>3. /\ TxInv /\ ArpInv /\ PendInv /\ CurInv /\ RunInv /\ Sp /\ pinned \subseteq Queued
      /\ Waits
  BY DEF IInv, Sp
<1> HIDE DEF m
<1>4. m \in Mbufs /\ m \notin Queued /\ m \notin Held /\ free \ {m} \subseteq Mbufs
      /\ (free \ {m}) \cap Queued = {}
  BY <1>1, <1>3 DEF Sp, Split
<1>5. PendInv' /\ Parked' = Parked
  BY <1>1, <1>3, PendSame
<1>6. CASE arp[a].valid
  <2>1. SendOrFree(c, m, free \ {m}) /\ UNCHANGED <<arp, lock, cur, dangling, spin, lost>>
    BY <1>1, <1>6 DEF ip_send_one
  <2>2. TxInv' /\ Sent(m, free \ {m})
    BY <1>3, <1>4, <2>1, SendOrFreeDoes
  <2>3. ArpInv' /\ TableGrows /\ CurInv' /\ Held' = Held
    BY <1>3, <2>1, ArpSame, CurSame
  <2>4. Waits'
    BY <1>1, <1>3, <2>1, <2>3, WaitersSame
  <2>5. Sp' /\ pinned' \subseteq Queued'
    BY <1>1, <1>3, <1>5, <2>1, <2>2, <2>3, SMTT(30) DEF Sp, Split, Sent
  <2>6. RunInv'
    BY <1>1, <1>3, <2>1 DEF RunInv, Removing
  <2> QED
    BY <1>5, <2>2, <2>3, <2>4, <2>5, <2>6 DEF IInv, Sp
<1>7. CASE ~arp[a].valid /\ Missing(a) /\ (lock \/ PoolEmpty)
  <2>1. /\ lost' = lost \cup {m} /\ free' = free \ {m} /\ UNCHANGED <<arp, cur, dangling, txq>>
        /\ \/ spin' = spin \cup {c} /\ UNCHANGED lock
           \/ lock' = TRUE /\ UNCHANGED spin
    BY <1>1, <1>7 DEF ip_send_one
  <2>2. TxInv' /\ Queued' = Queued
    BY <1>3, <2>1, TxSame
  <2>3. ArpInv' /\ TableGrows /\ CurInv' /\ Held' = Held
    BY <1>3, <2>1, ArpSame, CurSame
  <2>4. Waits'
    BY <1>1, <1>3, <2>1, <2>3, WaitersSame
  <2>5. Sp' /\ pinned' \subseteq Queued'
    BY <1>1, <1>3, <1>5, <2>1, <2>2, <2>3, SMTT(30) DEF Sp, Split
  <2>6. RunInv'
    BY <1>1, <1>3, <2>1 DEF RunInv, Removing
  <2> QED
    BY <1>5, <2>2, <2>3, <2>4, <2>5, <2>6 DEF IInv, Sp
<1>8. CASE ~arp[a].valid /\ ~(Missing(a) /\ (lock \/ PoolEmpty))
  <2>1. /\ LookupUnresolved(c, a, free \ {m}, {})
        /\ cur' = [cur EXCEPT ![c] = <<a, m>>] /\ dangling' = Removing(a)
        /\ UNCHANGED <<lock, spin, lost>>
    BY <1>1, <1>8 DEF ip_send_one
  <2>2. ArpInv' /\ TxInv' /\ TableGrows /\ Asked(free \ {m}, {})
    BY <1>2, <1>3, <1>4, <1>8, <2>1, LookupDoes
  <2>3. CurInv' /\ Held' = Held \cup {m}
    BY <1>1, <1>2, <1>3, <1>4, <2>1, CurSet DEF Ready
  <2>4. Waits'
    <3>1. found[c] # "yes" /\ ~dangling
      BY <1>1, <1>3 DEF Ready, Waits, FoundInv
    <3>2. \A x \in Cpus : x # c => cur'[x] = cur[x]
      BY <1>3, <2>1 DEF CurInv
    <3>3. FoundInv'
      BY <1>1, <1>3, <2>2, <3>1, <3>2 DEF Waits, FoundInv, TableGrows
    <3> QED
      BY <1>1, <1>3, <2>2, <3>1, <3>3, WaitersKept
  <2>5. Sp' /\ pinned' \subseteq Queued'
    BY <1>1, <1>3, <1>5, <2>1, <2>2, <2>3, SMTT(30) DEF Sp, Split, Asked
  <2>6. RunInv'
    BY <1>1, <1>3, <2>1 DEF RunInv, Removing
  <2> QED
    BY <1>5, <2>2, <2>3, <2>4, <2>5, <2>6 DEF IInv, Sp
<1> QED
  BY <1>6, <1>7, <1>8

\* arp_add_pending_pkt finds the entry, or loses the mbuf.
LEMMA AddPendingStep ==
    ASSUME IInv, NEW c \in Cpus, AddPending(c)
    PROVE  IInv'
<1> DEFINE a == cur[c][1]
           m == cur[c][2]
<1>1. /\ TxInv /\ ArpInv /\ PendInv /\ CurInv /\ RunInv /\ Sp /\ pinned \subseteq Queued
      /\ Waits
  BY DEF IInv, Sp
<1>2. /\ cur[c] # <<>> /\ found[c] = "no"
      /\ UNCHANGED <<free, txq, tcp, user, pinned, arp, lock, pend, runq, removing,
                     dangling, spin, asked>>
  BY DEF AddPending
<1>3. /\ TxInv' /\ Queued' = Queued /\ ArpInv' /\ TableGrows
      /\ PendInv' /\ Parked' = Parked
  BY <1>1, <1>2, TxSame, ArpSame, PendSame
<1>4. CASE Missing(a)
  <2>1. /\ lost' = lost \cup {m} /\ cur' = [cur EXCEPT ![c] = <<>>] /\ UNCHANGED found
    BY <1>4 DEF AddPending
  <2>2. CurInv' /\ m \in Held /\ Held' = Held \ {m}
    BY <1>1, <1>2, <2>1, CurClear
  <2>3. Waits'
    <3>1. \A x \in Cpus : x # c => cur'[x] = cur[x]
      BY <1>1, <2>1 DEF CurInv
    <3>2. FoundInv'
      BY <1>1, <1>2, <1>3, <2>1, <3>1 DEF Waits, FoundInv, TableGrows
    <3> QED
      BY <1>1, <1>2, <1>3, <3>2, WaitersKept
  <2>4. RunInv'
    BY <1>1, <1>2, <2>1 DEF RunInv
  <2> HIDE DEF a, m
  <2>5. Sp' /\ pinned' \subseteq Queued'
    BY <1>1, <1>2, <1>3, <2>1, <2>2, SMTT(30) DEF Sp, Split
  <2> QED
    BY <1>3, <2>2, <2>3, <2>4, <2>5 DEF IInv, Sp
<1>5. CASE ~Missing(a)
  <2>1. found' = [found EXCEPT ![c] = "yes"] /\ UNCHANGED <<lost, cur>>
    BY <1>5 DEF AddPending
  <2>2. CurInv' /\ Held' = Held
    BY <1>1, <2>1, CurSame
  <2>3. a \in Entries
    BY <1>1, <1>2, <1>5, SMTT(30) DEF CurInv, Entries, Missing
  <2>4. RunInv' /\ \A x \in Cpus : x # c => found'[x] = found[x]
    BY <1>1, <1>2, <2>1 DEF RunInv
  <2>5. FoundInv'
    BY <1>1, <1>2, <1>3, <2>1, <2>3, <2>4 DEF Waits, FoundInv, TableGrows
  <2>6. Waits'
    BY <1>1, <1>2, <1>3, <2>5, WaitersKept
  <2>7. Sp' /\ pinned' \subseteq Queued'
    BY <1>1, <1>2, <1>3, <2>1, <2>2 DEF Sp
  <2> QED
    BY <1>3, <2>2, <2>4, <2>6, <2>7 DEF IInv, Sp
<1> QED
  BY <1>4, <1>5

\* arp_add_pending_pkt queues the packet, or loses it when the pool is empty.
LEMMA LinkPendingStep ==
    ASSUME IInv, NEW c \in Cpus, LinkPending(c)
    PROVE  IInv'
<1> DEFINE a == cur[c][1]
           m == cur[c][2]
           room == {p \in Pkts : pend[p] = FreePkt}
<1>1. /\ TxInv /\ ArpInv /\ PendInv /\ CurInv /\ RunInv /\ Sp /\ pinned \subseteq Queued
      /\ Waits
  BY DEF IInv, Sp
<1>2. /\ cur[c] # <<>> /\ cur' = [cur EXCEPT ![c] = <<>>] /\ ~dangling
      /\ found[c] # "no" /\ found' = [found EXCEPT ![c] = "no"]
      /\ UNCHANGED <<free, txq, tcp, user, pinned, arp, lock, runq, removing, spin, asked>>
  BY DEF LinkPending
<1>3. CurInv' /\ a \in Addrs /\ m \in Held /\ Held' = Held \ {m}
  BY <1>1, <1>2, CurClear
<1>4. TxInv' /\ Queued' = Queued /\ ArpInv' /\ TableGrows
  BY <1>1, <1>2, TxSame, ArpSame
<1>5. FoundInv'
  <2>1. /\ found'[c] = "no"
        /\ \A x \in Cpus : x # c => found'[x] = found[x] /\ cur'[x] = cur[x]
    BY <1>1, <1>2 DEF CurInv, RunInv
  <2> QED
    BY <1>1, <1>4, <2>1 DEF Waits, FoundInv, TableGrows
<1>6. CASE room = {}
  <2>1. lost' = lost \cup {m} /\ UNCHANGED <<pend, dangling>>
    BY <1>6 DEF LinkPending
  <2> HIDE DEF a, m, room
  <2>2. PendInv' /\ Parked' = Parked /\ RunInv'
    BY <1>1, <1>2, <2>1, PendSame DEF RunInv
  <2>3. Waits'
    BY <1>1, <1>2, <1>4, <1>5, <2>1, WaitersKept
  <2>4. Sp' /\ pinned' \subseteq Queued'
    BY <1>1, <1>2, <1>3, <1>4, <2>1, <2>2, SMTT(30) DEF Sp, Split
  <2> QED
    BY <1>3, <1>4, <2>2, <2>3, <2>4 DEF IInv, Sp
<1>7. CASE room # {}
  <2> DEFINE p == Any(room)
  <2>1. /\ pend' = [pend EXCEPT ![p] = [addr |-> a, m |-> m, cpu |-> c, dispatched |-> FALSE]]
        /\ dangling' = (found[c] = "gone" \/ Removing(a)) /\ UNCHANGED lost
    BY <1>7 DEF LinkPending
  <2>2. p \in Pkts /\ pend[p] = FreePkt
    BY <1>7, AnyIn
  <2>3. m \in Mbufs /\ m \notin Parked
    BY <1>1, <1>3 DEF Sp, Split
  <2>4. found[c] \in {"yes", "gone"} /\ (found[c] = "yes" => a \in Entries)
    BY <1>1, <1>2 DEF RunInv, Waits, FoundInv
  <2> HIDE DEF a, m, p, room
  <2>5. /\ PendInv' /\ Parked' = Parked \cup {m} /\ pend'[p].addr = a
        /\ \A q \in Pkts : q # p => pend'[q] = pend[q]
    BY <1>1, <1>3, <2>1, <2>2, <2>3, PendAdd
  <2>6. RunInv'
    BY <1>1, <1>2, <2>1 DEF RunInv, Removing
  <2>7. \A b : Removing(b)' <=> Removing(b)
    BY <1>2 DEF Removing
  <2>8. PendingHasEntry' /\ NoneGoing'
    <3> SUFFICES ASSUME ~dangling', NEW q \in Pkts, pend'[q] # FreePkt
                 PROVE  /\ ~Removing(pend'[q].addr)
                        /\ ~pend'[q].dispatched => pend'[q].addr \in Entries'
      BY <2>7 DEF PendingHasEntry, NoneGoing
    <3>1. CASE q = p
      BY <1>2, <2>1, <2>4, <2>5, <3>1 DEF Entries
    <3>2. CASE q # p
      BY <1>1, <1>2, <1>4, <2>5, <3>2 DEF Waits, PendingHasEntry, NoneGoing, TableGrows
    <3> QED
      BY <3>1, <3>2
  <2>9. RunnersLive'
    BY <1>1, <1>2, <2>2, <2>5, SMTT(30) DEF Waits, RunnersLive, RunInv
  <2>10. TimerInv'
    BY <1>1, <1>4, <2>7 DEF Waits, TimerInv, TableGrows
  <2>11. Sp' /\ pinned' \subseteq Queued'
    BY <1>1, <1>2, <1>3, <1>4, <2>1, <2>3, <2>5, SMTT(30) DEF Sp, Split
  <2> QED
    BY <1>3, <1>4, <1>5, <2>5, <2>6, <2>8, <2>9, <2>10, <2>11 DEF IInv, Sp, Waits
<1> QED
  BY <1>6, <1>7

\* send_pending_pkt, on the CPU that queued the packet.
LEMMA SendPendingStep ==
    ASSUME IInv, NEW c \in Cpus, SendPending(c)
    PROVE  IInv'
<1>1. /\ TxInv /\ ArpInv /\ PendInv /\ CurInv /\ RunInv /\ Sp /\ pinned \subseteq Queued
      /\ Waits
  BY DEF IInv, Sp
<1>2. PICK p \in runq[c] :
         /\ pend[p] # FreePkt /\ runq' = [runq EXCEPT ![c] = @ \ {p}]
         /\ pend' = [pend EXCEPT ![p] = FreePkt] /\ SendOrFree(c, pend[p].m, free)
  BY DEF SendPending
<1>3. /\ UNCHANGED <<tcp, user, pinned, arp, lock, cur, found, removing, dangling, spin, asked, lost>>
      /\ ~dangling
  BY DEF SendPending, Ready
<1> DEFINE m == pend[p].m
<1>4. p \in Pkts /\ pend \in [Pkts -> Packet]
  BY <1>1 DEF RunInv, PendInv
<1>5. m \in Mbufs /\ m \in Parked /\ m \notin Queued /\ m \notin free
  <2>1. m \in Mbufs
    BY <1>1, <1>2, <1>4 DEF PendInv, Packet
  <2>2. m \in Parked
    BY <1>4, <2>1 DEF Parked
  <2> QED
    BY <1>1, <2>1, <2>2 DEF Sp, Split
<1>6. PendInv' /\ Parked' = Parked \ {m}
  <2>1. pend' = [q \in Pkts |-> IF q \in {p} THEN FreePkt ELSE pend[q]]
    BY <1>2, <1>4
  <2>2. PendInv' /\ Parked' = Parked \ {pend[q].m : q \in {p}}
    BY <1>1, <1>4, <2>1, PendFree
  <2> QED
    BY <2>2
<1>7. TxInv' /\ Sent(m, free)
  BY <1>1, <1>2, <1>5, SendOrFreeDoes
<1>8. CurInv' /\ Held' = Held /\ ArpInv' /\ Entries' = Entries
  BY <1>1, <1>3, CurSame, ArpSame DEF Entries
<1>9. /\ RunInv' /\ \A d \in Cpus : runq'[d] \subseteq runq[d]
      /\ p \notin runq'[c] /\ \A q \in Pkts : pend'[q] = IF q = p THEN FreePkt ELSE pend[q]
  BY <1>1, <1>2, <1>3, <1>4 DEF RunInv
<1>10. PendingHasEntry' /\ NoneGoing' /\ TimerInv' /\ FoundInv'
  <2>1. \A b : Removing(b)' <=> Removing(b)
    BY <1>3 DEF Removing
  <2>2. PendingHasEntry' /\ NoneGoing'
    BY <1>1, <1>3, <1>8, <1>9, <2>1 DEF Waits, PendingHasEntry, NoneGoing
  <2>3. TimerInv' /\ FoundInv'
    BY <1>1, <1>3, <1>8, <2>1 DEF Waits, TimerInv, FoundInv
  <2> QED
    BY <2>2, <2>3
<1>11. RunnersLive'
  <2> SUFFICES ASSUME NEW d \in Cpus, NEW q \in runq'[d]
               PROVE  /\ pend'[q] # FreePkt /\ pend'[q].dispatched /\ pend'[q].cpu = d
                      /\ arp'[pend'[q].addr].valid
    BY DEF RunnersLive
  <2>1. q \in runq[d] /\ q \in Pkts
    BY <1>1, <1>9 DEF RunInv
  <2>2. /\ pend[q] # FreePkt /\ pend[q].dispatched /\ pend[q].cpu = d
        /\ arp[pend[q].addr].valid
    BY <1>1, <1>3, <2>1 DEF Waits, RunnersLive
  <2>3. q # p
    BY <1>1, <1>2, <1>3, <1>9, <2>2, SMTT(30) DEF Waits, RunnersLive
  <2> QED
    BY <1>3, <1>9, <2>1, <2>2, <2>3
<1> HIDE DEF m
<1>12. Sp' /\ pinned' \subseteq Queued'
  BY <1>1, <1>3, <1>5, <1>6, <1>7, <1>8, SMTT(30) DEF Sp, Split, Sent
<1> QED
  BY <1>6, <1>7, <1>8, <1>9, <1>10, <1>11, <1>12 DEF IInv, Sp, Waits

\* bsys_udp_send: the datagram is queued with its pages, or everything is given
\* back, but for the mbuf of a CPU that waits for arp_lock.
LEMMA UdpSendStep ==
    ASSUME IInv, NEW c \in Cpus, NEW d \in Addrs, bsys_udp_send(c, d)
    PROVE  IInv'
<1>1. /\ TxInv /\ ArpInv /\ PendInv /\ CurInv /\ RunInv /\ Sp /\ pinned \subseteq Queued
      /\ Waits
  BY DEF IInv, Sp
<1> DEFINE m == Any(free)
<1>2. /\ m \in free /\ ~dangling
      /\ UNCHANGED <<tcp, user, pend, runq, cur, found, removing, asked>>
  BY AnyIn DEF bsys_udp_send, Ready
<1>3. m \in Mbufs /\ m \notin Queued /\ free \ {m} \subseteq Mbufs /\ (free \ {m}) \cap Queued = {}
  BY <1>1, <1>2 DEF Sp, Split
<1>4. PendInv' /\ Parked' = Parked /\ CurInv' /\ Held' = Held
  BY <1>1, <1>2, PendSame, CurSame
<1>5. CASE arp[d].valid
  <2>1. udp_output(c, m) /\ UNCHANGED <<arp, lock, dangling, spin, lost>>
    BY <1>5 DEF bsys_udp_send
  <2> HIDE DEF m
  <2>2. ArpInv' /\ TableGrows /\ RunInv'
    BY <1>1, <1>2, <2>1, ArpSame DEF RunInv
  <2>3. Waits'
    BY <1>1, <1>2, <2>2, WaitersSame
  <2>4. CASE Room(c, 2)
    <3>1. /\ txq' = [txq EXCEPT ![c] = @ \o <<Desc(NONE, NONE), Desc(m, NONE)>>]
          /\ free' = free \ {m} /\ pinned' = pinned \cup {m}
      BY <2>1, <2>4 DEF udp_output
    <3>2. TxInv' /\ Queued' = Queued \cup {m}
      BY <1>1, <1>3, <2>4, <3>1, SendTwo
    <3>3. Sp' /\ pinned' \subseteq Queued'
      BY <1>1, <1>2, <1>4, <2>1, <3>1, <3>2, SMTT(30) DEF Sp, Split
    <3> QED
      BY <1>4, <2>2, <2>3, <3>2, <3>3 DEF IInv, Sp
  <2>5. CASE ~Room(c, 2)
    <3>1. UNCHANGED <<txq, free, pinned>>
      BY <2>1, <2>5 DEF udp_output
    <3>2. TxInv' /\ Queued' = Queued
      BY <1>1, <3>1, TxSame
    <3>3. Sp' /\ pinned' \subseteq Queued'
      BY <1>1, <1>2, <1>4, <2>1, <3>1, <3>2 DEF Sp, Split
    <3> QED
      BY <1>4, <2>2, <2>3, <3>2, <3>3 DEF IInv, Sp
  <2> QED
    BY <2>4, <2>5
<1>6. CASE ~arp[d].valid /\ Missing(d) /\ (lock \/ PoolEmpty)
  <2>1. /\ UNCHANGED <<arp, dangling, txq, pinned>>
        /\ \/ spin' = spin \cup {c} /\ lost' = lost \cup {m} /\ free' = free \ {m} /\ UNCHANGED lock
           \/ lock' = TRUE /\ UNCHANGED <<spin, lost, free>>
    BY <1>6 DEF bsys_udp_send
  <2> HIDE DEF m
  <2>2. ArpInv' /\ TableGrows /\ RunInv' /\ TxInv' /\ Queued' = Queued
    BY <1>1, <1>2, <2>1, ArpSame, TxSame DEF RunInv
  <2>3. Waits'
    BY <1>1, <1>2, <2>2, WaitersSame
  <2>4. Sp' /\ pinned' \subseteq Queued'
    BY <1>1, <1>2, <1>4, <2>1, <2>2, SMTT(30) DEF Sp, Split
  <2> QED
    BY <1>4, <2>2, <2>3, <2>4 DEF IInv, Sp
<1>7. CASE ~arp[d].valid /\ ~(Missing(d) /\ (lock \/ PoolEmpty))
  <2>1. /\ LookupUnresolved(c, d, free \ {m}, {m}) /\ dangling' = Removing(d)
        /\ UNCHANGED <<lock, spin, lost, pinned>>
    BY <1>7 DEF bsys_udp_send
  <2> HIDE DEF m
  <2>2. ArpInv' /\ TxInv' /\ TableGrows /\ Asked(free \ {m}, {m})
    BY <1>1, <1>3, <1>7, <2>1, LookupDoes
  <2>3. Waits'
    BY <1>1, <1>2, <2>2, WaitersSame
  <2>5. RunInv'
    BY <1>1, <1>2, <2>1 DEF RunInv, Removing
  <2>4. Sp' /\ pinned' \subseteq Queued'
    BY <1>1, <1>2, <1>4, <2>1, <2>2, SMTT(30) DEF Sp, Split, Asked
  <2> QED
    BY <1>4, <2>2, <2>3, <2>4, <2>5 DEF IInv, Sp
<1> QED
  BY <1>5, <1>6, <1>7

\* The oldest frame is reclaimed, and the pages of a datagram released.
LEMMA ReclaimStep ==
    ASSUME IInv, NEW c \in Cpus, Reclaim(c)
    PROVE  IInv'
<1>1. /\ TxInv /\ ArpInv /\ PendInv /\ CurInv /\ RunInv /\ Sp /\ pinned \subseteq Queued
      /\ Waits
  BY DEF IInv, Sp
<1> DEFINE n == IF Head(txq[c]).m = NONE THEN 2 ELSE 1
           m == txq[c][n].m
<1>2. /\ txq[c] # <<>> /\ free' = free \cup {m} /\ pinned' = pinned \ {m}
      /\ asked' = asked \cup ({txq[c][n].req} \ {NONE})
      /\ txq' = [txq EXCEPT ![c] = SubSeq(@, n + 1, Len(@))]
      /\ UNCHANGED <<tcp, user, arp, lock, pend, runq, cur, found, removing, dangling, spin, lost>>
  BY DEF Reclaim
<1>3. /\ TxInv' /\ m \in Queued /\ txq[c][n].req \in Addrs \cup {NONE}
      /\ Queued' = Queued \ {m}
  BY <1>1, <1>2, ReclaimOne
<1> HIDE DEF n, m
<1>4. PendInv' /\ Parked' = Parked /\ CurInv' /\ Held' = Held /\ ArpInv' /\ TableGrows
  BY <1>1, <1>2, PendSame, CurSame, ArpSame
<1>5. Waits' /\ RunInv'
  BY <1>1, <1>2, <1>3, <1>4, WaitersSame DEF RunInv
<1>6. Sp' /\ pinned' \subseteq Queued'
  BY <1>1, <1>2, <1>3, <1>4, SMTT(30) DEF Sp, Split
<1> QED
  BY <1>3, <1>4, <1>5, <1>6 DEF IInv, Sp

\* eth_input and ip_input: a received mbuf goes to TCP, to the application, back
\* as an echo, or to the pool.
LEMMA EthInputStep ==
    ASSUME IInv, NEW c \in Cpus, eth_input(c)
    PROVE  IInv'
<1>1. /\ TxInv /\ ArpInv /\ PendInv /\ CurInv /\ RunInv /\ Sp /\ pinned \subseteq Queued
      /\ Waits
  BY DEF IInv, Sp
<1> DEFINE m == Any(free)
<1>2. /\ m \in free /\ (ip_input(c, m) \/ mbuf_free(m))
      /\ UNCHANGED <<pinned, arp, lock, pend, runq, cur, found, removing, dangling, spin, asked, lost>>
  BY AnyIn DEF eth_input
<1> HIDE DEF m
<1>3. PendInv' /\ Parked' = Parked /\ CurInv' /\ Held' = Held /\ ArpInv' /\ TableGrows
  BY <1>1, <1>2, PendSame, CurSame, ArpSame
<1>4. Waits' /\ RunInv'
  BY <1>1, <1>2, <1>3, WaitersSame DEF RunInv
<1>5. CASE mbuf_free(m) \/ tcp_input(m) \/ udp_input(m)
  <2>1. /\ UNCHANGED txq
        /\ \/ UNCHANGED <<free, tcp, user>>
           \/ free' = free \ {m} /\ tcp' = tcp \cup {m} /\ UNCHANGED user
           \/ free' = free \ {m} /\ user' = user \cup {m} /\ UNCHANGED tcp
    BY <1>5 DEF mbuf_free, tcp_input, udp_input
  <2>2. TxInv' /\ Queued' = Queued
    BY <1>1, <2>1, TxSame
  <2>3. Sp' /\ pinned' \subseteq Queued'
    BY <1>1, <1>2, <1>3, <2>1, <2>2, SMTT(30) DEF Sp, Split
  <2> QED
    BY <1>3, <1>4, <2>2, <2>3 DEF IInv, Sp
<1>6. CASE icmp_reflect(c, m)
  <2>1. SendOrFree(c, m, free \ {m}) /\ UNCHANGED <<tcp, user>>
    BY <1>6 DEF icmp_reflect
  <2>2. m \in Mbufs /\ m \notin Queued
    BY <1>1, <1>2 DEF Sp, Split
  <2>3. TxInv' /\ Sent(m, free \ {m})
    BY <1>1, <2>1, <2>2, SendOrFreeDoes
  <2>4. Sp' /\ pinned' \subseteq Queued'
    BY <1>1, <1>2, <1>3, <2>1, <2>3, SMTT(30) DEF Sp, Split, Sent
  <2> QED
    BY <1>3, <1>4, <2>3, <2>4 DEF IInv, Sp
<1> QED
  BY <1>2, <1>5, <1>6 DEF ip_input, icmp_input

\* A received packet is given back by the application or by TCP.
LEMMA RecvDoneStep ==
    ASSUME IInv, NEW m \in Mbufs, RecvDone(m)
    PROVE  IInv'
<1>1. /\ TxInv /\ ArpInv /\ PendInv /\ CurInv /\ RunInv /\ Sp /\ pinned \subseteq Queued
      /\ Waits
  BY DEF IInv, Sp
<1>2. /\ m \in user \cup tcp
      /\ user' = user \ {m} /\ tcp' = tcp \ {m} /\ free' = free \cup {m}
      /\ UNCHANGED <<txq, pinned, arp, lock, pend, runq, cur, found, removing, dangling, spin, asked, lost>>
  BY DEF RecvDone
<1>3. /\ PendInv' /\ Parked' = Parked /\ CurInv' /\ Held' = Held /\ ArpInv' /\ TableGrows
      /\ TxInv' /\ Queued' = Queued
  BY <1>1, <1>2, PendSame, CurSame, ArpSame, TxSame
<1>4. Waits' /\ RunInv'
  BY <1>1, <1>2, <1>3, WaitersSame DEF RunInv
<1>5. Sp' /\ pinned' \subseteq Queued'
  BY <1>1, <1>2, <1>3, SMTT(30) DEF Sp, Split
<1> QED
  BY <1>3, <1>4, <1>5 DEF IInv, Sp

\* The entry that arp_update_mac writes, and the one that asks again.
LEMMA ResolvedEntry ==
    ASSUME NEW c \in Cpus, NEW e,
           e = [valid |-> TRUE, static |-> FALSE, retries |-> 0, timer |-> c]
    PROVE  e \in Entry /\ e # NoEntry /\ ArpOK(e) /\ Driven(e) /\ e.valid
<1>1. c # NONE /\ ARP_MAX_ATTEMPTS \in Nat \ {0}
  BY NetAssumption
<1>2. ~NoEntry.valid
  BY DEF NoEntry
<1>3. e \in Entry /\ e.valid /\ ~e.static /\ e.timer = c
  BY <1>1, SMTT(30) DEF Entry
<1> QED
  BY <1>1, <1>2, <1>3 DEF ArpOK, Driven, Entry

\* A resolved address: its packets are on the runlists of their CPUs.
LEMMA ResolvedDoes ==
    ASSUME ArpInv, PendInv, RunInv, Waits, ~dangling, UNCHANGED <<cur, found, removing>>,
           NEW c \in Cpus, NEW a \in Addrs, Missing(a) => ~PoolEmpty, Resolved(c, a)
    PROVE  /\ ArpInv' /\ PendInv' /\ Parked' = Parked
           /\ Waits' /\ runq' \in [Cpus -> SUBSET Pkts] /\ dangling' \in BOOLEAN
<1> DEFINE e == [valid |-> TRUE, static |-> FALSE, retries |-> 0, timer |-> c]
           R == Waiting(a)
<1>1. arp' = [arp EXCEPT ![a] = e] /\ Dispatch(c, a) /\ dangling' = Removing(a)
  BY DEF Resolved
<1>2. e \in Entry /\ e # NoEntry /\ ArpOK(e) /\ Driven(e) /\ e.valid
  BY ResolvedEntry
<1> HIDE DEF e
<1>3. ArpInv' /\ TableGrows /\ a \in Entries' /\ arp'[a].valid
  <2>1. ArpInv' /\ TableGrows /\ a \in Entries'
    BY <1>1, <1>2, ArpSet
  <2>2. arp'[a] = e
    BY <1>1 DEF ArpInv
  <2> QED
    BY <1>2, <2>1, <2>2
<1>4. \A p \in R : p \in Pkts /\ pend[p].addr = a /\ pend[p] # FreePkt
  BY NetAssumption, SMTT(30) DEF Waiting, FreePkt
<1>5. /\ pend' = [p \in Pkts |-> IF p \in R THEN [pend[p] EXCEPT !.dispatched = TRUE]
                                  ELSE pend[p]]
      /\ runq' = [x \in Cpus |-> runq[x] \cup {p \in R : pend[p].cpu = x}]
  BY <1>1 DEF Dispatch
<1> HIDE DEF R
<1>6. Marked(R)
  BY <1>4, <1>5, MarkIs
<1>7. PendInv' /\ Parked' = Parked
  BY <1>6, PendMark
<1>8. runq' \in [Cpus -> SUBSET Pkts]
  BY <1>4, <1>5 DEF RunInv
<1>9. PendingHasEntry' /\ NoneGoing' /\ TimerInv' /\ FoundInv'
  <2>1. \A b : Removing(b)' <=> Removing(b)
    BY DEF Removing
  <2>2. \A p \in Pkts : pend'[p] # FreePkt =>
            /\ pend[p] # FreePkt /\ pend'[p].addr = pend[p].addr
            /\ ~pend'[p].dispatched => ~pend[p].dispatched
    BY <1>6 DEF Marked
  <2>3. PendingHasEntry' /\ NoneGoing'
    BY <1>3, <2>1, <2>2 DEF Waits, PendingHasEntry, NoneGoing, TableGrows
  <2>4. TimerInv' /\ FoundInv'
    BY <1>3, <2>1 DEF Waits, TimerInv, FoundInv, TableGrows
  <2> QED
    BY <2>3, <2>4
<1>10. RunnersLive'
  <2> SUFFICES ASSUME NEW x \in Cpus, NEW p \in runq'[x]
               PROVE  /\ pend'[p] # FreePkt /\ pend'[p].dispatched /\ pend'[p].cpu = x
                      /\ arp'[pend'[p].addr].valid
    BY DEF RunnersLive
  <2>1. p \in Pkts
    BY <1>8
  <2>2. CASE p \in R /\ pend[p].cpu = x
    <3>1. /\ pend'[p].m = pend[p].m /\ pend'[p].addr = a /\ pend'[p].cpu = x
          /\ pend'[p].dispatched
      BY <1>4, <1>6, <2>1, <2>2 DEF Marked
    <3>2. pend'[p] # FreePkt
      BY <1>4, <1>7, <2>1, <2>2, <3>1 DEF PendInv
    <3> QED
      BY <1>3, <3>1, <3>2
  <2>3. CASE p \in runq[x]
    <3>1. /\ pend[p] # FreePkt /\ pend[p].dispatched /\ pend[p].cpu = x
          /\ arp[pend[p].addr].valid
      BY <2>3 DEF Waits, RunnersLive
    <3>2. pend[p].addr \in Addrs
      BY <2>1, <3>1 DEF PendInv, Packet
    <3>3. /\ pend'[p].m = pend[p].m /\ pend'[p].addr = pend[p].addr
          /\ pend'[p].cpu = pend[p].cpu /\ pend'[p].dispatched
      BY <1>6, <2>1, <3>1 DEF Marked
    <3>4. pend'[p] # FreePkt
      BY <1>7, <2>1, <3>1, <3>3 DEF PendInv
    <3> QED
      BY <1>3, <3>1, <3>2, <3>3, <3>4 DEF TableGrows
  <2> QED
    BY <1>5, <2>2, <2>3
<1>11. dangling' \in BOOLEAN
  BY <1>1 DEF Removing
<1> QED
  BY <1>3, <1>7, <1>8, <1>9, <1>10, <1>11 DEF Waits

\* arp_input: an answer, or a request that is answered in its own mbuf.
LEMMA ArpInputStep ==
    ASSUME IInv, NEW c \in Cpus, NEW a \in Up, NEW op, NEW me \in BOOLEAN,
           ArpInput(c, a, op, me)
    PROVE  IInv'
<1>1. /\ TxInv /\ ArpInv /\ PendInv /\ CurInv /\ RunInv /\ Sp /\ pinned \subseteq Queued
      /\ Waits
  BY DEF IInv, Sp
<1> DEFINE m == Any(free)
<1>2. /\ m \in free /\ arp_update_mac(c, a, me)
      /\ UNCHANGED <<tcp, user, pinned, cur, found, removing>> /\ ~dangling
      /\ asked' \in {asked, asked \ {a}} /\ a \in Addrs
  BY AnyIn, NetAssumption DEF ArpInput, Ready
<1>3. CurInv' /\ Held' = Held
  BY <1>1, <1>2, CurSame
<1>4. /\ ArpInv' /\ PendInv' /\ Parked' = Parked /\ Waits' /\ dangling' \in BOOLEAN
      /\ runq' \in [Cpus -> SUBSET Pkts] /\ lock' \in BOOLEAN /\ spin' \subseteq Cpus
  <2>1. CASE UNCHANGED <<arp, pend, runq, dangling>> /\ lock' \in BOOLEAN /\ spin' \subseteq Cpus
    <3>1. ArpInv' /\ TableGrows /\ PendInv' /\ Parked' = Parked
      BY <1>1, <2>1, ArpSame, PendSame
    <3>2. Waits'
      BY <1>1, <1>2, <2>1, <3>1, WaitersSame
    <3> QED
      BY <1>1, <2>1, <3>1, <3>2 DEF RunInv
  <2>2. CASE Resolved(c, a) /\ (Missing(a) => ~PoolEmpty)
    <3>1. UNCHANGED <<lock, spin>>
      BY <2>2 DEF Resolved
    <3> QED
      BY <1>1, <1>2, <2>2, <3>1, ResolvedDoes DEF RunInv
  <2> QED
    BY <1>1, <1>2, <2>1, <2>2 DEF arp_update_mac, RunInv
<1>5. RunInv'
  BY <1>1, <1>2, <1>4 DEF RunInv
<1>6. m \in Mbufs /\ m \notin Queued
  BY <1>1, <1>2 DEF Sp, Split
<1>7. \/ UNCHANGED txq /\ lost' = lost \cup {m} /\ free' = free \ {m}
      \/ UNCHANGED <<txq, lost, free>>
      \/ SendOrFree(c, m, free \ {m}) /\ UNCHANGED lost
  BY DEF ArpInput, arp_send_response_reuse
<1> HIDE DEF m
<1>8. CASE UNCHANGED txq /\ \/ lost' = lost \cup {m} /\ free' = free \ {m}
                            \/ UNCHANGED <<lost, free>>
  <2>1. TxInv' /\ Queued' = Queued
    BY <1>1, <1>8, TxSame
  <2>2. Sp' /\ pinned' \subseteq Queued'
    BY <1>1, <1>2, <1>3, <1>4, <1>8, <2>1, SMTT(30) DEF Sp, Split
  <2> QED
    BY <1>3, <1>4, <1>5, <2>1, <2>2 DEF IInv, Sp
<1>9. CASE SendOrFree(c, m, free \ {m}) /\ UNCHANGED lost
  <2>1. TxInv' /\ Sent(m, free \ {m})
    BY <1>1, <1>6, <1>9, SendOrFreeDoes
  <2>2. Sp' /\ pinned' \subseteq Queued'
    BY <1>1, <1>2, <1>3, <1>4, <1>9, <2>1, SMTT(30) DEF Sp, Split, Sent
  <2> QED
    BY <1>3, <1>4, <1>5, <2>1, <2>2 DEF IInv, Sp
<1> QED
  BY <1>7, <1>8, <1>9

\* arp_timer_handler asks again, or gives up the packets of the entry.
LEMMA TimerStep ==
    ASSUME IInv, NEW c \in Cpus, NEW a \in Addrs, TimerFires(c, a)
    PROVE  IInv'
<1>1. /\ TxInv /\ ArpInv /\ PendInv /\ CurInv /\ RunInv /\ Sp /\ pinned \subseteq Queued
      /\ Waits
  BY DEF IInv, Sp
<1>2. /\ arp[a].timer = c /\ removing[c] = NONE /\ ~dangling
      /\ UNCHANGED <<tcp, user, pinned, lock, runq, cur, found, spin, asked, lost>>
  BY DEF TimerFires, Ready
<1>3. CurInv' /\ Held' = Held
  BY <1>1, <1>2, CurSame
<1>4. arp[a] # NoEntry /\ arp[a] \in Entry /\ c # NONE /\ ARP_MAX_ATTEMPTS \in Nat \ {0}
  BY <1>1, <1>2, NetAssumption, SMTT(30) DEF ArpInv, NoEntry
<1>5. ArpOK(arp[a]) /\ ~arp[a].static /\ ~Missing(a)
  BY <1>1, <1>2, <1>4 DEF ArpInv, ArpOK, Missing
<1>6. CASE arp[a].retries + 1 >= ARP_MAX_ATTEMPTS
  <2> DEFINE R == {p \in Pkts : pend[p].addr = a}
             e == [arp[a] EXCEPT !.timer = NONE]
  <2>1. /\ arp' = [arp EXCEPT ![a] = e] /\ free' = free \cup {pend[p].m : p \in R}
        /\ pend' = [p \in Pkts |-> IF p \in R THEN FreePkt ELSE pend[p]] /\ UNCHANGED txq
        /\ removing' = [removing EXCEPT ![c] = a]
        /\ dangling' = \E p \in Pkts : pend[p].addr = a /\ pend[p].dispatched
    BY <1>6 DEF TimerFires, Expire
  <2>2. \A p \in R : pend[p] # FreePkt /\ pend[p].m # NONE
    BY <1>1, NetAssumption, SMTT(30) DEF FreePkt, PendInv
  <2>3. /\ e \in Entry /\ ~e.static /\ e.retries = arp[a].retries /\ e.valid = arp[a].valid
    BY <1>4, <1>5, NetAssumption DEF Entry
  <2>4. e.retries # -1
    BY <1>4, <1>6, <2>3, SMTT(30) DEF Entry
  <2>5. e # NoEntry
    BY <2>4 DEF NoEntry
  <2> HIDE DEF e
  <2>6. /\ arp'[a] = e /\ \A b \in Addrs : b # a => arp'[b] = arp[b]
        /\ arp' \in [Addrs -> Entry]
    BY <1>1, <2>1, <2>3 DEF ArpInv
  <2>7. Entries' = Entries
    BY <1>4, <2>5, <2>6 DEF Entries
  <2>8. ArpInv' /\ TxInv' /\ Queued' = Queued
    BY <1>1, <2>1, <2>3, <2>6, <2>7, TxSame DEF ArpInv, ArpOK
  <2>9. PendInv' /\ Parked' = Parked \ {pend[p].m : p \in R}
        /\ {pend[p].m : p \in R} \ {NONE} \subseteq Parked
    BY <1>1, <2>1, PendFree
  <2>10. RunInv'
    BY <1>1, <1>2, <2>1 DEF RunInv
  <2>11. \A b \in Addrs : Removing(b)' <=> Removing(b) \/ b = a
    BY <1>1, <1>2, <2>1, NetAssumption DEF RunInv, Removing
  <2>12. \A p \in Pkts : pend'[p] # FreePkt =>
            pend'[p] = pend[p] /\ pend[p].addr # a /\ pend[p].addr \in Addrs
    BY <1>1, <2>1 DEF PendInv, Packet
  <2>13. PendingHasEntry' /\ NoneGoing'
    BY <1>1, <1>2, <2>7, <2>11, <2>12 DEF Waits, PendingHasEntry, NoneGoing
  <2>14. TimerInv' /\ FoundInv'
    BY <1>1, <1>2, <2>6, <2>7, <2>11 DEF Waits, TimerInv, FoundInv, Entries
  <2>15. RunnersLive'
    <3> SUFFICES ASSUME ~dangling', NEW x \in Cpus, NEW p \in runq[x]
                 PROVE  /\ pend'[p] # FreePkt /\ pend'[p].dispatched /\ pend'[p].cpu = x
                        /\ arp'[pend'[p].addr].valid
      BY <1>2 DEF RunnersLive
    <3>1. p \in Pkts
      BY <1>1 DEF RunInv
    <3>2. /\ pend[p] # FreePkt /\ pend[p].dispatched /\ pend[p].cpu = x
          /\ arp[pend[p].addr].valid
      BY <1>1, <1>2 DEF Waits, RunnersLive
    <3>3. pend[p].addr # a /\ pend[p].addr \in Addrs
      BY <1>1, <2>1, <3>1, <3>2 DEF PendInv, Packet
    <3>4. pend'[p] = pend[p]
      BY <2>1, <3>1, <3>3
    <3> QED
      BY <2>6, <3>2, <3>3, <3>4
  <2> DEFINE M == {pend[p].m : p \in R}
  <2>16. M \subseteq Parked /\ free' = free \cup M /\ Parked' = Parked \ M
    BY <2>1, <2>2, <2>9
  <2> HIDE DEF M
  <2>17. Sp' /\ pinned' \subseteq Queued'
    BY <1>1, <1>2, <1>3, <2>8, <2>16 DEF Sp, Split
  <2> QED
    BY <1>3, <2>8, <2>9, <2>10, <2>13, <2>14, <2>15, <2>17 DEF IInv, Sp, Waits
<1>7. CASE ~(arp[a].retries + 1 >= ARP_MAX_ATTEMPTS)
  <2> DEFINE e == [arp[a] EXCEPT !.retries = @ + 1]
  <2>1. /\ arp' = [arp EXCEPT ![a] = e] /\ Request(c, a, free, {})
        /\ UNCHANGED <<pend, removing, dangling>>
    BY <1>7 DEF TimerFires
  <2>2. /\ e \in Entry /\ e.retries >= 0 /\ e.static = arp[a].static
        /\ e.timer = arp[a].timer /\ e.valid = arp[a].valid
    BY <1>4, <1>7, SMTT(30) DEF Entry
  <2> HIDE DEF e
  <2>3. e # NoEntry /\ ArpOK(e) /\ Driven(e)
    BY <1>2, <1>4, <1>5, <2>2, SMTT(30) DEF ArpOK, Driven, NoEntry
  <2>4. ArpInv' /\ TableGrows
    BY <1>1, <1>5, <2>1, <2>2, <2>3, ArpSet
  <2>5. free \subseteq Mbufs /\ free \cap Queued = {}
    BY <1>1 DEF Sp, Split
  <2>6. TxInv' /\ Asked(free, {})
    BY <1>1, <2>1, <2>5, RequestDoes
  <2>7. PendInv' /\ Parked' = Parked /\ Waits' /\ RunInv'
    BY <1>1, <1>2, <2>1, <2>4, PendSame, WaitersSame DEF RunInv
  <2>8. Sp' /\ pinned' \subseteq Queued'
    BY <1>1, <1>2, <1>3, <2>6, <2>7, SMTT(30) DEF Sp, Split, Asked
  <2> QED
    BY <1>3, <2>4, <2>6, <2>7, <2>8 DEF IInv, Sp
<1> QED
  BY <1>6, <1>7

\* arp_timer_handler removes the entry; a call that found it keeps its pointer.
LEMMA UnlinkStep ==
    ASSUME IInv, NEW c \in Cpus, Unlink(c)
    PROVE  IInv'
<1> DEFINE a == removing[c]
<1>1. /\ TxInv /\ ArpInv /\ PendInv /\ CurInv /\ RunInv /\ Sp /\ pinned \subseteq Queued
      /\ Waits
  BY DEF IInv, Sp
<1>2. /\ a # NONE /\ ~dangling /\ arp' = [arp EXCEPT ![a] = NoEntry]
      /\ found' = [d \in Cpus |-> IF found[d] = "yes" /\ cur[d][1] = a THEN "gone" ELSE found[d]]
      /\ removing' = [removing EXCEPT ![c] = NONE]
      /\ UNCHANGED <<free, txq, tcp, user, pinned, lock, pend, runq, cur, dangling,
                     spin, asked, lost>>
  BY DEF Unlink
<1>3. a \in Addrs /\ Removing(a)
  BY <1>1, <1>2 DEF RunInv, Removing
<1> HIDE DEF a
<1>4. /\ TxInv' /\ Queued' = Queued /\ PendInv' /\ Parked' = Parked /\ CurInv' /\ Held' = Held
  BY <1>1, <1>2, TxSame, PendSame, CurSame
<1>5. ArpInv' /\ Entries' = Entries \ {a}
  BY <1>1, <1>2, <1>3, ArpClear
<1>6. RunInv'
  BY <1>1, <1>2 DEF RunInv
<1>7. \A b \in Addrs : /\ Removing(b)' => Removing(b)
                       /\ Removing(b) /\ b # a => Removing(b)'
  BY <1>1, <1>2, NetAssumption DEF RunInv, Removing, a
<1>8. \A b \in Addrs : b # a => arp'[b] = arp[b]
  BY <1>1, <1>2 DEF ArpInv
<1>9. \A p \in Pkts : pend[p] # FreePkt => pend[p].addr \in Addrs /\ pend[p].addr # a
  BY <1>1, <1>2, <1>3 DEF Waits, NoneGoing, PendInv, Packet
<1>10. PendingHasEntry' /\ NoneGoing'
  BY <1>1, <1>2, <1>5, <1>7, <1>9 DEF Waits, PendingHasEntry, NoneGoing
<1>11. TimerInv'
  BY <1>1, <1>5, <1>7, <1>8 DEF Waits, TimerInv, Entries
<1>12. FoundInv'
  BY <1>1, <1>2, <1>5 DEF Waits, FoundInv
<1>13. RunnersLive'
  BY <1>1, <1>2, <1>8, <1>9 DEF Waits, RunnersLive, RunInv
<1>14. Sp' /\ pinned' \subseteq Queued'
  BY <1>1, <1>2, <1>4 DEF Sp
<1> QED
  BY <1>4, <1>5, <1>6, <1>10, <1>11, <1>12, <1>13, <1>14 DEF IInv, Sp, Waits

----------------------------------------------------------------------------
(* The theorem *)

\* arp_init and the empty queues.
LEMMA InitInv ==
    ASSUME Init
    PROVE  IInv
<1>1. NONE \notin Mbufs /\ NONE \notin Addrs /\ NONE \notin Cpus /\ TxCap \in Nat
      /\ ARP_MAX_ATTEMPTS \in Nat \ {0} /\ IsFiniteSet(Addrs) /\ Static \subseteq Addrs
      /\ ARP_MAX_ENTRIES \in Nat /\ Cardinality(Static) <= ARP_MAX_ENTRIES
  BY NetAssumption
<1>2. TxInv /\ Queued = {}
  <2>1. \A c \in Cpus : txq[c] = <<>> /\ Len(txq[c]) = 0
    BY DEF Init
  <2>2. txq \in [Cpus -> Seq(Descs)]
    BY SMTT(30) DEF Init
  <2> QED
    BY <2>1, <2>2, <1>1, SMTT(30) DEF TxInv, Queued
<1>3. PendInv /\ Parked = {}
  <2>1. FreePkt \in Packet /\ FreePkt.m = NONE
    BY DEF FreePkt, Packet
  <2>2. pend \in [Pkts -> Packet] /\ \A p \in Pkts : pend[p] = FreePkt
    BY <2>1 DEF Init
  <2> QED
    BY <2>1, <2>2, <1>1 DEF PendInv, Parked
<1>4. CurInv /\ Held = {}
  BY DEF Init, CurInv, Held
<1>5. ArpInv /\ TimerInv
  <2> DEFINE e == [NewEntry EXCEPT !.valid = TRUE, !.static = TRUE]
  <2>1. NoEntry \in Entry /\ ~NoEntry.static /\ ~NoEntry.valid /\ NoEntry.timer = NONE
    BY <1>1, SMTT(30) DEF NoEntry, Entry
  <2>2. NewEntry \in Entry /\ NewEntry.timer = NONE
    BY <1>1, <2>1, SMTT(30) DEF NewEntry, Entry
  <2>3. e \in Entry /\ e.valid /\ e.static /\ e.timer = NONE
    BY <2>2 DEF Entry
  <2>4. arp = [a \in Addrs |-> IF a \in Static THEN e ELSE NoEntry]
    BY DEF Init
  <2> HIDE DEF e
  <2>5. arp \in [Addrs -> Entry] /\ \A a \in Addrs : ArpOK(arp[a])
    BY <2>1, <2>3, <2>4 DEF ArpOK
  <2>6. Entries = Static
    BY <1>1, <2>1, <2>3, <2>4 DEF Entries
  <2>7. TimerInv
    BY <1>1, <2>3, <2>4, <2>6 DEF TimerInv, Driven
  <2> QED
    BY <1>1, <2>5, <2>6, <2>7 DEF ArpInv
<1>6. RunInv
  BY DEF Init, RunInv
<1>7. Sp /\ pinned \subseteq Queued
  BY <1>2, <1>3, <1>4 DEF Init, Sp, Split
<1>8. PendingHasEntry /\ RunnersLive /\ NoneGoing /\ FoundInv
  BY DEF Init, PendingHasEntry, RunnersLive, NoneGoing, FoundInv
<1> QED
  BY <1>2, <1>3, <1>4, <1>5, <1>6, <1>7, <1>8 DEF IInv, Sp, Waits

\* Every step keeps the invariant.
LEMMA NextInv ==
    ASSUME IInv, [Next]_vars
    PROVE  IInv'
<1>1. CASE Next
  <2>1. ASSUME NEW c \in Cpus, NEW d \in Addrs,
               \/ tcp_output_packet(c, d) \/ ip_output_hinted(c, d) \/ icmp_echo(c, d)
        PROVE  IInv'
    BY <2>1, OriginateStep DEF tcp_output_packet, ip_output_hinted, icmp_echo
  <2>2. ASSUME NEW c \in Cpus, NEW d \in Addrs, bsys_udp_send(c, d)
        PROVE  IInv'
    BY <2>2, UdpSendStep
  <2>3. ASSUME NEW c \in Cpus,
               AddPending(c) \/ LinkPending(c) \/ SendPending(c) \/ Reclaim(c) \/ Unlink(c)
        PROVE  IInv'
    BY <2>3, AddPendingStep, LinkPendingStep, SendPendingStep, ReclaimStep, UnlinkStep
  <2>4. ASSUME NEW c \in Cpus, NEW a \in Addrs, TimerFires(c, a)
        PROVE  IInv'
    BY <2>4, TimerStep
  <2>5. ASSUME NEW c \in Cpus, NEW a \in Up, NEW op \in {"request", "reply"},
               NEW me \in BOOLEAN, ArpInput(c, a, op, me)
        PROVE  IInv'
    BY <2>5, ArpInputStep
  <2>6. ASSUME NEW c \in Cpus, eth_input(c)
        PROVE  IInv'
    BY <2>6, EthInputStep
  <2>7. ASSUME NEW m \in Mbufs, RecvDone(m)
        PROVE  IInv'
    BY <2>7, RecvDoneStep
  <2> QED
    BY <1>1, <2>1, <2>2, <2>3, <2>4, <2>5, <2>6, <2>7 DEF Next
<1>2. CASE UNCHANGED vars
  <2>1. /\ TxInv /\ ArpInv /\ PendInv /\ CurInv /\ RunInv /\ Sp /\ pinned \subseteq Queued
        /\ Waits
    BY DEF IInv, Sp
  <2>2. UNCHANGED <<free, txq, tcp, user, pinned, arp, lock, pend, runq, cur, found,
                   removing, dangling, spin, asked, lost>>
    BY <1>2 DEF vars
  <2>3. /\ TxInv' /\ Queued' = Queued /\ ArpInv' /\ TableGrows
        /\ PendInv' /\ Parked' = Parked /\ CurInv' /\ Held' = Held
    BY <2>1, <2>2, TxSame, ArpSame, PendSame, CurSame
  <2>4. Waits' /\ RunInv'
    BY <2>1, <2>2, <2>3, WaitersSame DEF RunInv
  <2>5. Sp' /\ pinned' \subseteq Queued'
    BY <2>1, <2>2, <2>3 DEF Sp
  <2> QED
    BY <2>3, <2>4, <2>5 DEF IInv, Sp
<1> QED
  BY <1>1, <1>2

\* The places of the invariant are those of OneOwner.
LEMMA SplitIsOneOwner ==
    ASSUME IInv, NEW m \in Mbufs
    PROVE  \E x : Places(m) = {x}
<1>1. TxInv /\ PendInv /\ CurInv /\ Sp /\ m # NONE
  BY NetAssumption DEF IInv, Sp
<1>2. Places(m) = InSets(m) \cup InTxq(m) \cup InCall(m) \cup InPend(m)
  BY DEF Places
<1>3. \A c \in Cpus : DOMAIN txq[c] = 1 .. Len(txq[c])
  BY <1>1, SMTT(30) DEF TxInv
<1>4. /\ m \in Queued => \E x : InTxq(m) = {x}
      /\ m \notin Queued => InTxq(m) = {}
  <2>1. ASSUME m \in Queued PROVE \E x : InTxq(m) = {x}
    <3>1. PICK c \in Cpus : \E i \in 1 .. Len(txq[c]) : txq[c][i].m = m
      BY <2>1 DEF Queued
    <3>2. PICK i \in 1 .. Len(txq[c]) : txq[c][i].m = m
      BY <3>1
    <3>3. \A d \in Cpus : \A j \in DOMAIN txq[d] : txq[d][j].m = m => d = c /\ j = i
      BY <1>1, <1>3, <3>2, SMTT(30) DEF TxInv
    <3>4. InTxq(m) = {<<"txq", c, i>>}
      BY <1>3, <3>2, <3>3, SMTT(30) DEF InTxq
    <3> QED
      BY <3>4
  <2>2. ASSUME m \notin Queued PROVE InTxq(m) = {}
    BY <1>3, <2>2 DEF Queued, InTxq
  <2> QED
    BY <2>1, <2>2
<1>5. /\ m \in Held => \E x : InCall(m) = {x}
      /\ m \notin Held => InCall(m) = {}
  <2>1. ASSUME m \in Held PROVE \E x : InCall(m) = {x}
    <3>1. PICK c \in Cpus : cur[c] # <<>> /\ cur[c][2] = m
      BY <2>1 DEF Held
    <3>2. InCall(m) = {<<"call", c>>}
      BY <1>1, <3>1 DEF CurInv, InCall
    <3> QED
      BY <3>2
  <2>2. ASSUME m \notin Held PROVE InCall(m) = {}
    BY <2>2 DEF Held, InCall
  <2> QED
    BY <2>1, <2>2
<1>6. /\ m \in Parked => \E x : InPend(m) = {x}
      /\ m \notin Parked => InPend(m) = {}
  <2>1. ASSUME m \in Parked PROVE \E x : InPend(m) = {x}
    <3>1. PICK p \in Pkts : pend[p].m = m
      BY <2>1 DEF Parked
    <3>2. InPend(m) = {<<"pend", p>>}
      BY <1>1, <3>1 DEF PendInv, InPend
    <3> QED
      BY <3>2
  <2>2. ASSUME m \notin Parked PROVE InPend(m) = {}
    BY <2>2 DEF Parked, InPend
  <2> QED
    BY <2>1, <2>2
<1>7. /\ m \in free /\ m \notin tcp /\ m \notin user /\ m \notin lost => InSets(m) = {<<"free">>}
      /\ m \notin free /\ m \in tcp /\ m \notin user /\ m \notin lost => InSets(m) = {<<"tcp">>}
      /\ m \notin free /\ m \notin tcp /\ m \in user /\ m \notin lost => InSets(m) = {<<"user">>}
      /\ m \notin free /\ m \notin tcp /\ m \notin user /\ m \in lost => InSets(m) = {<<"lost">>}
      /\ m \notin free /\ m \notin tcp /\ m \notin user /\ m \notin lost => InSets(m) = {}
  BY DEF InSets
<1>8. \/ (\E x : InSets(m) = {x}) /\ InTxq(m) = {} /\ InCall(m) = {} /\ InPend(m) = {}
      \/ InSets(m) = {} /\ (\E x : InTxq(m) = {x}) /\ InCall(m) = {} /\ InPend(m) = {}
      \/ InSets(m) = {} /\ InTxq(m) = {} /\ (\E x : InCall(m) = {x}) /\ InPend(m) = {}
      \/ InSets(m) = {} /\ InTxq(m) = {} /\ InCall(m) = {} /\ (\E x : InPend(m) = {x})
  BY <1>1, <1>4, <1>5, <1>6, <1>7 DEF Sp, Split
<1> QED
  BY <1>2, <1>8

\* The invariant implies the property that the run checks.
LEMMA InvSafe ==
    ASSUME IInv
    PROVE  NetSafe
<1>1. /\ TxInv /\ ArpInv /\ PendInv /\ CurInv /\ RunInv /\ Sp /\ pinned \subseteq Queued
      /\ Waits
  BY DEF IInv, Sp
<1>2. TypeOK
  BY <1>1 DEF TypeOK, TxInv, ArpInv, RunInv, Sp, Split, Entry
<1>3. OneOwner
  <2> SUFFICES ASSUME NEW m \in Mbufs
               PROVE  Cardinality(Places(m)) = 1
    BY DEF OneOwner
  <2>1. PICK x : Places(m) = {x}
    BY SplitIsOneOwner
  <2> QED
    BY <2>1, FS_Singleton
<1>4. PinnedInFlight
  <2>1. \A c \in Cpus : DOMAIN txq[c] = 1 .. Len(txq[c])
    BY <1>1, SMTT(30) DEF TxInv
  <2> QED
    BY <1>1, <2>1 DEF PinnedInFlight, Queued
<1>5. EntryHasTimer
  BY <1>1 DEF EntryHasTimer, Entries, ArpInv, ArpOK, Entry, Waits, TimerInv, Driven
<1> QED
  BY <1>1, <1>2, <1>3, <1>4, <1>5 DEF NetSafe, Waits

\* Whatever the hosts, the application and the network do, and however many
\* CPUs, buffers and table entries there are: every mbuf is in exactly one place,
\* the pages of a datagram are held while its frame is queued, and every entry of
\* the ARP table that is not static has its timer or is being removed; and until
\* arp_timer_handler frees something that another CPU refers to, every packet that
\* waits for an address waits on an entry that stays, and send_pending_pkt finds
\* its packet alive and its address resolved.
THEOREM PacketsAreSafe == Spec => []NetSafe
<1>1. Init => IInv
  BY InitInv
<1>2. IInv /\ [Next]_vars => IInv'
  BY NextInv
<1>3. IInv => NetSafe
  BY InvSafe
<1> QED
  BY <1>1, <1>2, <1>3, PTL DEF Spec
=============================================================================
