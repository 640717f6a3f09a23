-------------------------------- MODULE Net --------------------------------
(* The network layer under TCP: eth_input, ip_input, icmp_input, udp_input and
   arp_input on the way in; ip_output, bsys_udp_send and ip_send_one on the way
   out; the ARP table with its timers and pending packets; the buffers of all of
   them.  A frame is abstracted to what the handlers do with it; every outcome of
   their header checks is possible.

   Handlers are atomic but for two.  ip_send_one looks the address up, finds the
   entry again in arp_add_pending_pkt, and only then takes the lock to queue the
   packet; arp_timer_handler frees the packets of an entry under that lock and
   removes the entry after giving it back.  Between these steps other CPUs run,
   and one may be left with a pointer to what was freed: `dangling' records it,
   and the behaviour ends there.  Pages, checksums, header fields and the receive
   rings' own buffers are not modelled. *)
EXTENDS Integers, FiniteSets, Sequences

CONSTANTS
    Cpus,
    Hosts,             \* addresses of the local subnet, the gateway among them
    Gateway,
    Far,               \* an address outside the subnet
    Static,            \* addresses with a static entry (arp_insert, from the configuration)
    Up,                \* hosts that answer ARP requests
    NONE,
    Mbufs,             \* the mbuf pool
    MAX_PENDING_PKTS,  \* the pending_pkt pool
    ARP_MAX_ENTRIES,   \* the arp_entry pool
    ARP_MAX_ATTEMPTS,
    TxCap,             \* descriptors of a transmit queue
    MaxSends,          \* bound: packets the host originates
    MaxFrames          \* bound: unsolicited frames

Addrs == Hosts \cup {Far}

\* NONE stands for no address, no mbuf and no CPU; the configuration's static
\* entries fit in the table.
ASSUME NetAssumption ==
    /\ Gateway \in Hosts /\ Static \subseteq Addrs /\ Up \subseteq Addrs
    /\ NONE \notin Addrs \cup Mbufs \cup Cpus
    /\ IsFiniteSet(Addrs)
    /\ MAX_PENDING_PKTS \in Nat /\ TxCap \in Nat
    /\ ARP_MAX_ENTRIES \in Nat /\ Cardinality(Static) <= ARP_MAX_ENTRIES
    /\ ARP_MAX_ATTEMPTS \in Nat \ {0}

Pkts == 1 .. MAX_PENDING_PKTS

VARIABLES
    free,     \* mbufs in the pool
    txq,      \* per CPU: descriptors queued and not reclaimed, as [m, req]; the last of
              \* a frame carries its mbuf
    tcp,      \* mbufs handed to TCP
    user,     \* mbufs of datagrams the application has (done = 0xDEADBEEF)
    pinned,   \* mbufs whose iovs hold references to user pages
    arp,      \* per address: its entry, or NoEntry
    lock,     \* arp_lock was left held
    pend,     \* pending_pkt objects: [addr, m, cpu, dispatched], or FreePkt
    runq,     \* per CPU: send_pending_pkt runners, as pending_pkt numbers
    cur,      \* per CPU: <<a, m>> from arp_lookup_mac to the end of arp_add_pending_pkt
    found,    \* per CPU: whether arp_add_pending_pkt has found the entry of a, and
              \* whether that entry was removed since
    removing, \* per CPU: the address whose entry arp_timer_handler is removing
    dangling, \* an entry or a packet was freed while another CPU refers to it
    spin,     \* CPUs that wait for arp_lock for ever
    asked,    \* addresses whose request is on the wire
    lost,     \* mbufs nobody refers to any more
    sends, frames

vars == <<free, txq, tcp, user, pinned, arp, lock, pend, runq, cur, found, removing,
          dangling, spin, asked, lost, sends, frames>>

NoEntry == [valid |-> FALSE, static |-> FALSE, retries |-> -1, timer |-> NONE]
FreePkt == [addr |-> NONE, m |-> NONE, cpu |-> NONE, dispatched |-> FALSE]
NewEntry == [NoEntry EXCEPT !.retries = 0]

\* arp_init, and arp_insert for the static entries.
Init ==
    /\ free = Mbufs
    /\ txq = [c \in Cpus |-> <<>>]
    /\ tcp = {} /\ user = {} /\ pinned = {}
    /\ arp = [a \in Addrs |-> IF a \in Static
                              THEN [NewEntry EXCEPT !.valid = TRUE, !.static = TRUE]
                              ELSE NoEntry]
    /\ lock = FALSE
    /\ pend = [p \in Pkts |-> FreePkt]
    /\ runq = [c \in Cpus |-> {}]
    /\ cur = [c \in Cpus |-> <<>>] /\ found = [c \in Cpus |-> "no"]
    /\ removing = [c \in Cpus |-> NONE] /\ dangling = FALSE
    /\ spin = {} /\ asked = {} /\ lost = {}
    /\ sends = 0 /\ frames = 0

Entries == {a \in Addrs : arp[a] # NoEntry}

\* mempool_alloc: which of the free objects it is does not matter.
Any(S) == CHOOSE x \in S : TRUE

\* A CPU that may start a handler.
Ready(c) == cur[c] = <<>> /\ removing[c] = NONE /\ c \notin spin /\ ~dangling

\* An entry whose packets are freed and which is still in the table.  A timer or
\* a packet that it gets now is freed with it.
Removing(a) == \E c \in Cpus : removing[c] = a

----------------------------------------------------------------------------
(* Sending *)

\* eth_send: room for the frame's descriptors.
Room(c, n) == Len(txq[c]) + n <= TxCap
Desc(m, a) == [m |-> m, req |-> a]

\* eth_send_one of m, freed by the caller when the queue is full.
SendOrFree(c, m, fr) ==
    IF Room(c, 1)
    THEN txq' = [txq EXCEPT ![c] = Append(@, Desc(m, NONE))] /\ free' = fr
    ELSE free' = fr \cup {m} /\ UNCHANGED txq

\* arp_send_pkt: a request for a, when there is an mbuf and room for it.
\* `back' goes to the pool after it (the caller's mbuf, when it gives up).
Request(c, a, fr, back) ==
    IF fr # {} /\ Room(c, 1)
    THEN \E r \in {Any(fr)} :
            /\ txq' = [txq EXCEPT ![c] = Append(@, Desc(r, a))]
            /\ free' = (fr \ {r}) \cup back
    ELSE free' = fr \cup back /\ UNCHANGED txq

\* arp_lookup_mac for an address that is not resolved: the entry is created if
\* it is missing, and asked for unless its timer runs.
LookupUnresolved(c, a, fr, back) ==
    LET e == IF arp[a] = NoEntry THEN NewEntry ELSE arp[a] IN
    IF e.timer = NONE
    THEN /\ arp' = [arp EXCEPT ![a] = [e EXCEPT !.timer = c]]
         /\ Request(c, a, fr, back)
    ELSE UNCHANGED <<arp, txq>> /\ free' = fr \cup back

\* arp_lookup creates an entry under arp_lock, and returns with the lock held
\* when the pool is empty.
Missing(a) == arp[a] = NoEntry
PoolEmpty == Cardinality(Entries) >= ARP_MAX_ENTRIES

\* ip_send_one: off-subnet packets go to the gateway.
Route(d) == IF d \in Hosts THEN d ELSE Gateway

ip_send_one(c, d, m, fr) ==
    \E a \in {Route(d)} :
    IF arp[a].valid
    THEN SendOrFree(c, m, fr) /\ UNCHANGED <<arp, lock, cur, dangling, spin, lost>>
    ELSE IF Missing(a) /\ lock
    THEN /\ spin' = spin \cup {c} /\ lost' = lost \cup {m} /\ free' = fr
         /\ UNCHANGED <<arp, lock, cur, dangling, txq>>
    ELSE IF Missing(a) /\ PoolEmpty
    THEN /\ lock' = TRUE /\ lost' = lost \cup {m} /\ free' = fr
         /\ UNCHANGED <<arp, cur, dangling, spin, txq>>
    ELSE /\ LookupUnresolved(c, a, fr, {})
         /\ cur' = [cur EXCEPT ![c] = <<a, m>>]
         /\ dangling' = Removing(a)
         /\ UNCHANGED <<lock, spin, lost>>

\* The callers of ip_send_one: a fresh mbuf, filled and sent.
Originate(c, d) ==
    /\ Ready(c) /\ sends < MaxSends /\ free # {}
    /\ sends' = sends + 1
    /\ \E m \in {Any(free)} : ip_send_one(c, d, m, free \ {m})
    /\ UNCHANGED <<tcp, user, pinned, pend, runq, found, removing, asked, frames>>
tcp_output_packet(c, d) == Originate(c, d)
ip_output_hinted(c, d) == Originate(c, d)
icmp_echo(c, d) == Originate(c, d)

\* arp_add_pending_pkt finds the entry without a lock.  Its failures are not
\* looked at: the mbuf is lost.
AddPending(c) ==
    /\ cur[c] # <<>> /\ found[c] = "no" /\ ~dangling
    /\ IF Missing(cur[c][1])
       THEN /\ lost' = lost \cup {cur[c][2]} /\ cur' = [cur EXCEPT ![c] = <<>>]
            /\ UNCHANGED found
       ELSE found' = [found EXCEPT ![c] = "yes"] /\ UNCHANGED <<lost, cur>>
    /\ UNCHANGED <<free, txq, tcp, user, pinned, arp, lock, pend, runq, removing,
                   dangling, spin, asked, sends, frames>>

\* arp_add_pending_pkt, under the lock: the packet joins the list of the entry
\* that was found, which may be gone or going.
LinkPending(c) ==
    /\ cur[c] # <<>> /\ found[c] # "no" /\ ~dangling
    /\ LET a == cur[c][1]
           m == cur[c][2]
           room == {p \in Pkts : pend[p] = FreePkt}
       IN IF room = {}
          THEN lost' = lost \cup {m} /\ UNCHANGED <<pend, dangling>>
          ELSE /\ pend' = [pend EXCEPT ![Any(room)] =
                             [addr |-> a, m |-> m, cpu |-> c, dispatched |-> FALSE]]
               /\ dangling' = (found[c] = "gone" \/ Removing(a))
               /\ UNCHANGED lost
    /\ cur' = [cur EXCEPT ![c] = <<>>] /\ found' = [found EXCEPT ![c] = "no"]
    /\ UNCHANGED <<free, txq, tcp, user, pinned, arp, lock, runq, removing, spin,
                   asked, sends, frames>>

\* send_pending_pkt, run on the CPU that queued the packet.  RunnersLive says
\* that the packet was not freed under the runner and that its address is still
\* resolved, so that ip_send_one sends it.
SendPending(c) ==
    /\ Ready(c)
    /\ \E p \in runq[c] :
         /\ pend[p] # FreePkt /\ arp[pend[p].addr].valid
         /\ runq' = [runq EXCEPT ![c] = @ \ {p}]
         /\ pend' = [pend EXCEPT ![p] = FreePkt]
         /\ SendOrFree(c, pend[p].m, free)
    /\ UNCHANGED <<tcp, user, pinned, arp, lock, cur, found, removing, dangling,
                   spin, asked, lost, sends, frames>>

\* udp_output to a resolved address: the pages are referenced until the frame is
\* out, and released when the queue is full.
udp_output(c, m) ==
    IF Room(c, 2)
    THEN /\ txq' = [txq EXCEPT ![c] = @ \o <<Desc(NONE, NONE), Desc(m, NONE)>>]
         /\ free' = free \ {m} /\ pinned' = pinned \cup {m}
    ELSE UNCHANGED <<txq, free, pinned>>

\* bsys_udp_send and udp_output: the address is looked up as it is, without the
\* gateway; any failure releases the pages and the mbuf.
bsys_udp_send(c, d) ==
    /\ Ready(c) /\ sends < MaxSends /\ free # {}
    /\ sends' = sends + 1
    /\ \E m \in {Any(free)} :
         IF arp[d].valid
         THEN /\ udp_output(c, m)
              /\ UNCHANGED <<arp, lock, dangling, spin, lost>>
         ELSE IF Missing(d) /\ lock
         THEN /\ spin' = spin \cup {c} /\ lost' = lost \cup {m}
              /\ free' = free \ {m}
              /\ UNCHANGED <<arp, lock, dangling, txq, pinned>>
         ELSE IF Missing(d) /\ PoolEmpty
         THEN /\ lock' = TRUE
              /\ UNCHANGED <<arp, dangling, spin, lost, txq, free, pinned>>
         ELSE \* -RET_AGAIN
              /\ LookupUnresolved(c, d, free \ {m}, {m})
              /\ dangling' = Removing(d)
              /\ UNCHANGED <<lock, spin, lost, pinned>>
    /\ UNCHANGED <<tcp, user, pend, runq, cur, found, removing, asked, frames>>

\* eth_process_send and eth_process_reclaim of the oldest frame: mbuf_xmit_done
\* frees it, after udp_mbuf_done released the pages of a datagram.
Reclaim(c) ==
    /\ txq[c] # <<>> /\ ~dangling
    /\ \E n \in {IF Head(txq[c]).m = NONE THEN 2 ELSE 1} :
         /\ free' = free \cup {txq[c][n].m}
         /\ pinned' = pinned \ {txq[c][n].m}
         /\ asked' = asked \cup ({txq[c][n].req} \ {NONE})
         /\ txq' = [txq EXCEPT ![c] = SubSeq(@, n + 1, Len(@))]
    /\ UNCHANGED <<tcp, user, arp, lock, pend, runq, cur, found, removing, dangling,
                   spin, lost, sends, frames>>

----------------------------------------------------------------------------
(* Receiving *)

\* arp_update_mac: the pending packets are dispatched to the CPUs that queued
\* them.
Waiting(a) == {p \in Pkts : pend[p].addr = a /\ ~pend[p].dispatched}

\* Mutant: the packets are left for the next look-up.
Dispatch_None(c, a) == UNCHANGED <<pend, runq>>
Dispatch(c, a) ==
    /\ pend' = [p \in Pkts |-> IF p \in Waiting(a)
                               THEN [pend[p] EXCEPT !.dispatched = TRUE] ELSE pend[p]]
    /\ runq' = [x \in Cpus |-> runq[x] \cup {p \in Waiting(a) : pend[p].cpu = x}]

\* A resolved address.
Resolved(c, a) ==
    /\ arp' = [arp EXCEPT ![a] = [valid |-> TRUE, static |-> FALSE,
                                  retries |-> 0, timer |-> c]]
    /\ Dispatch(c, a)
    /\ dangling' = Removing(a)
    /\ UNCHANGED <<lock, spin>>

arp_update_mac(c, a, create) ==
    IF arp[a].static \/ (Missing(a) /\ ~create)
    THEN UNCHANGED <<arp, pend, runq, dangling, lock, spin>>
    ELSE IF Missing(a) /\ lock
    THEN spin' = spin \cup {c} /\ UNCHANGED <<arp, pend, runq, dangling, lock>>
    ELSE IF Missing(a) /\ PoolEmpty
    THEN lock' = TRUE /\ UNCHANGED <<arp, pend, runq, dangling, spin>>
    ELSE Resolved(c, a)

arp_send_response_reuse(c, m) == SendOrFree(c, m, free \ {m})

\* arp_input of a valid packet of host a, the answer to a request of this host
\* or a request of its own; `me' says that the target is this host.  A request
\* for it is answered in the same mbuf.
ArpInput(c, a, op, me) ==
    /\ Ready(c) /\ free # {}
    /\ IF op = "reply" THEN me /\ a \in asked /\ UNCHANGED frames
       ELSE frames < MaxFrames /\ frames' = frames + 1
    /\ asked' = IF op = "reply" THEN asked \ {a} ELSE asked
    /\ arp_update_mac(c, a, me)
    /\ \E m \in {Any(free)} :
         IF spin' # spin
         THEN lost' = lost \cup {m} /\ free' = free \ {m} /\ UNCHANGED txq
         ELSE /\ IF me /\ op = "request" THEN arp_send_response_reuse(c, m)
                 ELSE UNCHANGED <<free, txq>>
              /\ UNCHANGED lost
    /\ UNCHANGED <<tcp, user, pinned, cur, found, removing, sends>>

\* ip_input and the protocol handlers, for every packet that may come: one that
\* fails a check or that nobody wants goes back to the pool.
mbuf_free(m) == UNCHANGED <<free, tcp, user, txq>>
tcp_input(m) == free' = free \ {m} /\ tcp' = tcp \cup {m} /\ UNCHANGED <<user, txq>>
udp_input(m) ==
    \/ free' = free \ {m} /\ user' = user \cup {m} /\ UNCHANGED <<tcp, txq>>
    \/ mbuf_free(m)
icmp_reflect(c, m) == SendOrFree(c, m, free \ {m}) /\ UNCHANGED <<tcp, user>>
icmp_input(c, m) == icmp_reflect(c, m) \/ mbuf_free(m)
ip_input(c, m) == tcp_input(m) \/ udp_input(m) \/ icmp_input(c, m) \/ mbuf_free(m)
eth_input(c) ==
    /\ Ready(c) /\ frames < MaxFrames /\ free # {}
    /\ frames' = frames + 1
    /\ \E m \in {Any(free)} : ip_input(c, m) \/ mbuf_free(m)
    /\ UNCHANGED <<pinned, arp, lock, pend, runq, cur, found, removing, dangling,
                   spin, asked, lost, sends>>

\* bsys_udp_recv_done for a datagram the application holds, and TCP when it is
\* done with a segment.
RecvDone(m) ==
    /\ m \in user \cup tcp /\ ~dangling
    /\ user' = user \ {m} /\ tcp' = tcp \ {m} /\ free' = free \cup {m}
    /\ UNCHANGED <<txq, pinned, arp, lock, pend, runq, cur, found, removing, dangling,
                   spin, asked, lost, sends, frames>>

\* The end of the retries: under the lock, the packets of the entry are freed, a
\* dispatched one from under its runner.
\* Mutant: the packets stay.
Expire_KeepPkts(c, a) ==
    /\ removing' = [removing EXCEPT ![c] = a]
    /\ arp' = [arp EXCEPT ![a].timer = NONE]
    /\ UNCHANGED <<free, pend, txq, dangling>>
Expire(c, a) ==
    /\ removing' = [removing EXCEPT ![c] = a]
    /\ arp' = [arp EXCEPT ![a].timer = NONE]
    /\ free' = free \cup {pend[p].m : p \in {q \in Pkts : pend[q].addr = a}}
    /\ pend' = [p \in Pkts |-> IF pend[p].addr = a THEN FreePkt ELSE pend[p]]
    /\ dangling' = (\E p \in Pkts : pend[p].addr = a /\ pend[p].dispatched)
    /\ UNCHANGED txq

\* arp_timer_handler: ask again, or begin to remove the entry.
TimerFires(c, a) ==
    /\ Ready(c) /\ arp[a].timer = c
    /\ IF arp[a].retries + 1 >= ARP_MAX_ATTEMPTS
       THEN Expire(c, a)
       ELSE /\ arp' = [arp EXCEPT ![a].retries = @ + 1]
            /\ Request(c, a, free, {})
            /\ UNCHANGED <<pend, removing, dangling>>
    /\ UNCHANGED <<tcp, user, pinned, lock, runq, cur, found, spin, asked, lost,
                   sends, frames>>

\* arp_timer_handler, without a lock: the entry leaves the table and is freed.
Unlink(c) ==
    /\ removing[c] # NONE /\ ~dangling
    /\ arp' = [arp EXCEPT ![removing[c]] = NoEntry]
    /\ found' = [d \in Cpus |-> IF found[d] = "yes" /\ cur[d][1] = removing[c]
                                THEN "gone" ELSE found[d]]
    /\ removing' = [removing EXCEPT ![c] = NONE]
    /\ UNCHANGED <<free, txq, tcp, user, pinned, lock, pend, runq, cur, dangling,
                   spin, asked, lost, sends, frames>>

----------------------------------------------------------------------------
Next ==
    \/ \E c \in Cpus, d \in Addrs : 
         \/ tcp_output_packet(c, d) \/ ip_output_hinted(c, d) \/ icmp_echo(c, d)
         \/ bsys_udp_send(c, d)
    \/ \E c \in Cpus :
         AddPending(c) \/ LinkPending(c) \/ SendPending(c) \/ Reclaim(c) \/ Unlink(c)
    \/ \E c \in Cpus, a \in Addrs : TimerFires(c, a)
    \/ \E c \in Cpus, a \in Up, op \in {"request", "reply"}, me \in BOOLEAN :
         ArpInput(c, a, op, me)
    \/ \E c \in Cpus : eth_input(c)
    \/ \E m \in Mbufs : RecvDone(m)

Spec == Init /\ [][Next]_vars

\* The poll loop of a CPU runs its runners, its timers and its transmit queue;
\* nothing is assumed of the network, the peers or the application.
Fairness ==
    \A c \in Cpus : /\ WF_vars(AddPending(c)) /\ WF_vars(LinkPending(c))
                    /\ WF_vars(SendPending(c)) /\ WF_vars(Reclaim(c))
                    /\ WF_vars(Unlink(c))
                    /\ \A a \in Addrs : SF_vars(TimerFires(c, a))

FairSpec == Spec /\ Fairness

----------------------------------------------------------------------------
(* Properties *)

\* The type of every variable.
TypeOK ==
    /\ free \subseteq Mbufs /\ tcp \subseteq Mbufs /\ user \subseteq Mbufs
    /\ pinned \subseteq Mbufs /\ lost \subseteq Mbufs
    /\ \A c \in Cpus : Len(txq[c]) <= TxCap
    /\ arp \in [Addrs -> [valid : BOOLEAN, static : BOOLEAN,
                          retries : -1 .. ARP_MAX_ATTEMPTS - 1,
                          timer : Cpus \cup {NONE}]]
    /\ Cardinality(Entries) <= ARP_MAX_ENTRIES
    /\ lock \in BOOLEAN /\ spin \subseteq Cpus /\ asked \subseteq Addrs
    /\ runq \in [Cpus -> SUBSET Pkts]
    /\ found \in [Cpus -> {"no", "yes", "gone"}]
    /\ removing \in [Cpus -> Addrs \cup {NONE}] /\ dangling \in BOOLEAN

\* Every mbuf is in exactly one place: the pool, a transmit queue, TCP, the
\* application, a pending packet, a call under way, or lost.
InSets(m) ==
    {<<"free">> : x \in {m} \cap free} \cup {<<"tcp">> : x \in {m} \cap tcp}
    \cup {<<"user">> : x \in {m} \cap user} \cup {<<"lost">> : x \in {m} \cap lost}
InTxq(m) ==
    UNION {{<<"txq", c, i>> : i \in {j \in DOMAIN txq[c] : txq[c][j].m = m}} : c \in Cpus}
InCall(m) == {<<"call", c>> : c \in {d \in Cpus : cur[d] # <<>> /\ cur[d][2] = m}}
InPend(m) == {<<"pend", p>> : p \in {q \in Pkts : pend[q].m = m}}
Places(m) == InSets(m) \cup InTxq(m) \cup InCall(m) \cup InPend(m)
OneOwner == \A m \in Mbufs : Cardinality(Places(m)) = 1

\* The pages of a datagram are referenced exactly while its frame is queued.
PinnedInFlight ==
    \A m \in pinned : \E c \in Cpus : \E i \in DOMAIN txq[c] : txq[c][i].m = m

\* Every entry that is not static is driven by its timer, which refreshes or
\* removes it, or is being removed.
EntryHasTimer ==
    \A a \in Entries : arp[a].static = (arp[a].timer = NONE) \/ Removing(a)

\* A packet that waits for an address waits on an entry that is not about to go,
\* so that a reply or the end of the retries will find it.
PendingHasEntry ==
    dangling \/ \A p \in Pkts : pend[p] # FreePkt /\ ~pend[p].dispatched =>
                      pend[p].addr \in Entries /\ ~Removing(pend[p].addr)

\* A runner's packet is alive, dispatched, and of that CPU (cpu_run_on_one keeps
\* a pointer to it while arp_timer_handler may free it).
RunnersLive ==
    dangling \/ \A c \in Cpus : \A p \in runq[c] :
        /\ pend[p] # FreePkt /\ pend[p].dispatched /\ pend[p].cpu = c
        /\ arp[pend[p].addr].valid

\* Packets have one owner, and every packet and ARP entry that waits has something
\* that will wake it, until the time-out of an entry meets a CPU that uses it or
\* the runner of one of its packets.
NetSafe ==
    /\ TypeOK /\ OneOwner /\ PinnedInFlight
    /\ EntryHasTimer /\ PendingHasEntry /\ RunnersLive

\* Every pending packet is sent, queued again or dropped in the end, whatever
\* the peers do, unless arp_lock was left held or the time-out of an entry met a
\* CPU that uses it.
PendingEnds ==
    \A p \in Pkts : pend[p] # FreePkt ~> (pend[p] = FreePkt \/ lock \/ dangling)
=============================================================================
