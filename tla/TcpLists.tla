------------------------------ MODULE TcpLists ------------------------------
(***************************************************************************)
(* The protocol control blocks (pcbs) of one flow group and the lists that *)
(* hold them (tcp_impl.h, tcp.c, the demultiplexing half of tcp_in.c): the *)
(* hash table active_tbl with the list active_buckets of its buckets in    *)
(* use, bound_pcbs, tw_pcbs, the CPU's listeners, and tcpip_timer, which   *)
(* runs while there is something for tcp_slowtmr to look at.               *)
(*                                                                         *)
(* What a segment does inside a connection is module Tcp; here it keeps    *)
(* the pcb where it is, moves it to tw_pcbs, or removes it.  One local     *)
(* address; a peer stands for the remote address and port.                 *)
(***************************************************************************)
EXTENDS Integers, Sequences, SequencesExt, FiniteSets

CONSTANTS Pcb,         \* the MEMP_TCP_PCB pool
          NBuckets,    \* TCP_ACTIVE_PCBS_MAX_BUCKETS
          Port,        \* local ports (positive integers)
          Peer,        \* remote endpoints (integers)
          TwTicks,     \* 2 * TCP_MSL / TCP_SLOW_INTERVAL
          CfgPorts     \* CFG.ports

VARIABLES fg,          \* the lists of struct eth_fg and its tcpip_timer
          pcb,         \* state, tuple and age of every pcb
          listen_pcbs, \* ports of percpu tcp_cpu_lists.listen_pcbs, in order
          odd,         \* tcp_timer & 1
          stale,       \* a pcb was removed while a tcpapi_pcb pointed to it
          faults       \* what went wrong, for the properties

vars == <<fg, pcb, listen_pcbs, odd, stale, faults>>

Bucket == 0..(NBuckets - 1)

NoConn == [state |-> "FREE", lport |-> 0, peer |-> 0, age |-> 0]

\* hash_crc32c of the tuple, folded to a bucket: any fixed function will do.
tcp_to_idx(lport, peer) == (lport + peer) % NBuckets

-----------------------------------------------------------------------------
(* list.h: a node carries no list, so hlist_del takes it out of whichever  *)
(* list it is in.                                                          *)

hlist_add_head(l, n) == <<n>> \o l

hlist_del(l, n) == Remove(l, n)

Dropped(f, p) ==
    [f EXCEPT !.tbl   = [b \in Bucket |-> hlist_del(@[b], p)],
              !.bound = hlist_del(@, p),
              !.tw    = hlist_del(@, p)]

Unlinked(f, p) ==
    \A l \in {f.tbl[b] : b \in Bucket} \cup {f.bound, f.tw} : ~Contains(l, p)

-----------------------------------------------------------------------------
(* tcp_impl.h *)

Needed(f) == f.active_buckets # <<>> \/ f.tw # <<>>

tcp_timer_needed(f) == [f EXCEPT !.timer = @ \/ Needed(f)]

TCP_REG_bound(f, p) == tcp_timer_needed([f EXCEPT !.bound = hlist_add_head(@, p)])

TCP_REG_tw(f, p) == tcp_timer_needed([f EXCEPT !.tw = hlist_add_head(@, p)])

\* hash_link.prev == NULL: the bucket is not on active_buckets.
TCP_REG_ACTIVE(f, p, idx) ==
    LET g == IF f.tbl[idx] = <<>> /\ ~Contains(f.active_buckets, idx)
             THEN [f EXCEPT !.active_buckets = hlist_add_head(@, idx)]
             ELSE f
    IN  tcp_timer_needed([g EXCEPT !.tbl[idx] = hlist_add_head(@, p)])

\* The only pcb of a bucket takes the bucket off active_buckets.
TCP_RMV(f, p) ==
    LET alone == {b \in Bucket : f.tbl[b] = <<p>>}
    IN  [Dropped(f, p) EXCEPT !.active_buckets =
             SelectSeq(@, LAMBDA b : b \notin alone)]

-----------------------------------------------------------------------------
(* Opening *)

\* tcp_bind_checklist over the listed buckets, bound_pcbs and tw_pcbs; the
\* listeners are not looked at.  The local address is always the same.
InUse(port) ==
    \E l \in {fg.tbl[b] : b \in ToSet(fg.active_buckets)} \cup {fg.bound, fg.tw} :
        \E p \in ToSet(l) : pcb[p].lport = port

tcp_bind(port) == ~InUse(port)

\* tcp_abort of a pcb that is in f: RST, free.  A pcb in no list has a null
\* link.prev, through which hlist_del writes.
tcp_abort(f, p) ==
    /\ fg' = TCP_RMV(f, p)
    /\ faults' = IF Unlinked(f, p) THEN faults \cup {"unlinked"} ELSE faults
    /\ pcb' = [pcb EXCEPT ![p] = NoConn]

\* tcp_alloc: an empty pool is a panic, not the eviction written after it.
NoMemory ==
    /\ \A q \in Pcb : pcb[q].state # "FREE"
    /\ faults' = faults \cup {"panic"}
    /\ UNCHANGED <<fg, pcb>>

\* tcp_connect moves the bound pcb to its bucket, or fails (no route, the SYN
\* not queued) and leaves it bound to the caller's tcp_abort.
tcp_connect(f, p, port, peer) ==
    \/ /\ fg' = TCP_REG_ACTIVE(TCP_RMV(f, p), p, tcp_to_idx(port, peer))
       /\ pcb' = [pcb EXCEPT ![p] = [state |-> "ACTIVE", lport |-> port,
                                     peer |-> peer, age |-> 0]]
       /\ UNCHANGED faults
    \/ tcp_abort(f, p)

\* bsys_tcp_connect.  Failing to get a tcpapi_pcb or the port, it aborts a pcb
\* that is in no list.
bsys_tcp_connect(port, peer) ==
    /\ \/ NoMemory
       \/ \E p \in Pcb :
            /\ pcb[p].state = "FREE"
            /\ \/ tcp_abort(fg, p)
               \/ IF tcp_bind(port)
                  THEN tcp_connect(TCP_REG_bound(fg, p), p, port, peer)
                  ELSE tcp_abort(fg, p)
    /\ UNCHANGED <<listen_pcbs, odd, stale>>

\* Listeners are set up by tcp_api_init, one for each configured port, before
\* the CPU polls.
tcp_listen_with_backlog(port) ==
    /\ ~Contains(listen_pcbs, port)
    /\ listen_pcbs' = hlist_add_head(listen_pcbs, port)
    /\ UNCHANGED <<fg, pcb, odd, stale, faults>>

-----------------------------------------------------------------------------
(* Segments *)

tcp_input_find_list(l, dest, src) ==
    {p \in ToSet(l) : pcb[p].lport = dest /\ pcb[p].peer = src}

ActiveMatch(dest, src) ==
    tcp_input_find_list(fg.tbl[tcp_to_idx(dest, src)], dest, src)

TwMatch(dest, src) == tcp_input_find_list(fg.tw, dest, src)

\* The loop leaves lpcb at the listener of the port; without one, at the last
\* listener it looked at.
Listener(dest) ==
    IF Contains(listen_pcbs, dest) THEN dest ELSE Last(listen_pcbs)

\* Mutant: the pcb keeps the bucket it had when it enters TIME-WAIT.
EnterTimeWait_Stay(p) ==
    /\ fg' = TCP_REG_tw(fg, p)
    /\ pcb' = [pcb EXCEPT ![p].state = "TIME_WAIT", ![p].age = 0]

\* tcp_process: the FIN exchange is over
EnterTimeWait(p) ==
    /\ fg' = TCP_REG_tw(TCP_RMV(fg, p), p)
    /\ pcb' = [pcb EXCEPT ![p].state = "TIME_WAIT", ![p].age = 0]

\* tcp_input with TF_RESET or TF_CLOSED, and tcp_abort: tcp_pcb_remove, free
tcp_pcb_remove(p) ==
    /\ fg' = TCP_RMV(fg, p)
    /\ pcb' = [pcb EXCEPT ![p] = NoConn]

\* A segment for an active connection that ends it or moves it.
ActiveInput(dest, src) ==
    \E p \in ActiveMatch(dest, src) :
        /\ EnterTimeWait(p) \/ tcp_pcb_remove(p)
        /\ UNCHANGED <<listen_pcbs, odd, stale, faults>>

\* A FIN in TIME-WAIT restarts the wait; other segments change nothing here.
tcp_timewait_input(dest, src) ==
    /\ ActiveMatch(dest, src) = {}
    /\ \E p \in TwMatch(dest, src) : pcb' = [pcb EXCEPT ![p].age = 0]
    /\ UNCHANGED <<fg, listen_pcbs, odd, stale, faults>>

\* A SYN.  The new pcb has the listener's port and the bucket of the segment's;
\* if its SYN|ACK cannot be queued it is abandoned at once.
tcp_listen_input(dest, src) ==
    /\ ActiveMatch(dest, src) = {} /\ TwMatch(dest, src) = {}
    /\ listen_pcbs # <<>>
    /\ LET lport == Listener(dest)
           Reg(p) == TCP_REG_ACTIVE(fg, p, tcp_to_idx(dest, src))
       IN  \/ NoMemory
           \/ \E p \in Pcb :
                /\ pcb[p].state = "FREE"
                /\ \/ /\ fg' = Reg(p)
                      /\ pcb' = [pcb EXCEPT ![p] = [state |-> "ACTIVE", lport |-> lport,
                                                    peer |-> src, age |-> 0]]
                      /\ faults' = IF lport = dest THEN faults ELSE faults \cup {"astray"}
                   \/ tcp_abort(Reg(p), p)
    /\ UNCHANGED <<listen_pcbs, odd, stale>>

-----------------------------------------------------------------------------
(* Closing and timers *)

\* bsys_tcp_close: tcp_pcb_purge, TCP_RMV_ACTIVE, free, for whatever api->pcb
\* points to.  A handle whose pcb was removed under it takes the pcb from the
\* connection that has it now, and leaves that one's handle as its own was; a pcb
\* nobody has is unlinked through the links it last had and freed twice.  Which
\* pcb a stale handle points to is not followed: it may be any that is free.
tcp_close_with_reset(p) ==
    /\ \/ pcb[p].state # "FREE" /\ tcp_pcb_remove(p) /\ UNCHANGED faults
       \/ /\ pcb[p].state = "FREE" /\ stale
          /\ faults' = faults \cup {"dangling"} /\ UNCHANGED <<fg, pcb>>
    /\ UNCHANGED <<listen_pcbs, odd, stale>>

\* The pcb leaves its list by hlist_del alone: a bucket it was the last of
\* stays on active_buckets.
TimedOut(f, P) ==
    [f EXCEPT !.tbl = [b \in Bucket |-> SelectSeq(@[b], LAMBDA p : p \notin P)]]

\* No TCP_EVENT_ERR: api->pcb keeps pointing to a pcb removed like this.
Silently(P) == stale' = (stale \/ P # {})

\* tcp_unified_timer_handler: the last retransmission was not answered
pcb_remove_called_from_timer(p) ==
    /\ pcb[p].state = "ACTIVE"
    /\ fg' = TimedOut(fg, {p})
    /\ pcb' = [pcb EXCEPT ![p] = NoConn]
    /\ Silently({p})
    /\ UNCHANGED <<listen_pcbs, odd, faults>>

\* TIME-WAIT pcbs are looked at inside the loop over the buckets.
Overdue == {p \in ToSet(fg.tw) : pcb[p].age + 1 > TwTicks}

\* Mutant: nothing in TIME-WAIT is ever overdue.
tcp_slowtmr_KeepTw(dead) ==
    /\ fg' = [TimedOut(fg, dead) EXCEPT !.timer = Needed(fg)]
    /\ pcb' = [p \in Pcb |->
                 IF p \in dead THEN NoConn
                 ELSE IF pcb[p].state = "TIME_WAIT" /\ pcb[p].age < TwTicks
                 THEN [pcb[p] EXCEPT !.age = @ + 1] ELSE pcb[p]]
    /\ UNCHANGED stale
\* dead: the active pcbs past one of tcp_slowtmr's limits.  The age of a pcb
\* that waits on without being looked at stays at the limit.  tcpip_tcp_timer
\* then restarts the timer if it is still needed.
tcp_slowtmr(dead) ==
    LET reaped == IF fg.active_buckets = <<>> THEN {} ELSE Overdue
        g == [TimedOut(fg, dead) EXCEPT !.tw = SelectSeq(@, LAMBDA p : p \notin reaped)]
    IN  /\ fg' = [g EXCEPT !.timer = Needed(g)]
        /\ pcb' = [p \in Pcb |->
                     IF p \in dead \cup reaped THEN NoConn
                     ELSE IF pcb[p].state = "TIME_WAIT" /\ pcb[p].age < TwTicks
                     THEN [pcb[p] EXCEPT !.age = @ + 1] ELSE pcb[p]]
        /\ Silently(reaped)

\* tcp_fasttmr has no refused data to deliver and leaves the lists alone; the
\* slow timer runs every other time.
tcpip_tcp_timer ==
    /\ fg.timer
    /\ odd' = ~odd
    /\ IF odd
       THEN fg' = [fg EXCEPT !.timer = Needed(fg)] /\ UNCHANGED <<pcb, stale>>
       ELSE \E dead \in SUBSET {p \in Pcb : pcb[p].state = "ACTIVE"} : tcp_slowtmr(dead)
    /\ UNCHANGED <<listen_pcbs, faults>>

-----------------------------------------------------------------------------
Init ==
    /\ fg = [tbl |-> [b \in Bucket |-> <<>>], active_buckets |-> <<>>,
             bound |-> <<>>, tw |-> <<>>, timer |-> FALSE]
    /\ pcb = [p \in Pcb |-> NoConn]
    /\ listen_pcbs = <<>>
    /\ odd = FALSE
    /\ stale = FALSE
    /\ faults = {}

\* tcp_api_init is through.
Polling == CfgPorts \subseteq ToSet(listen_pcbs)

\* A fault ends the behaviour except "astray", after which the CPU goes on.
Running == faults \subseteq {"astray"}

Next ==
    /\ Running
    /\ \/ \E port \in CfgPorts : tcp_listen_with_backlog(port)
       \/ \E port \in Port, peer \in Peer :
            /\ Polling
            /\ \/ bsys_tcp_connect(port, peer)
               \/ ActiveInput(port, peer)
               \/ tcp_timewait_input(port, peer)
               \/ tcp_listen_input(port, peer)
       \/ \E p \in Pcb : tcp_close_with_reset(p) \/ pcb_remove_called_from_timer(p)
       \/ tcpip_tcp_timer

\* The tick of the timer wheel comes as long as the CPU polls.
Spec == Init /\ [][Next]_vars /\ WF_vars(Running /\ tcpip_tcp_timer)

-----------------------------------------------------------------------------
TypeOK ==
    /\ fg.tbl \in [Bucket -> Seq(Pcb)] /\ fg.active_buckets \in Seq(Bucket)
    /\ fg.bound \in Seq(Pcb) /\ fg.tw \in Seq(Pcb) /\ fg.timer \in BOOLEAN
    /\ pcb \in [Pcb -> [state : {"FREE", "ACTIVE", "TIME_WAIT"},
                        lport : Port \cup {0}, peer : Peer \cup {0}, age : 0..TwTicks]]
    /\ listen_pcbs \in Seq(Port) /\ odd \in BOOLEAN
    /\ stale \in BOOLEAN
    /\ faults \subseteq {"unlinked", "panic", "astray", "dangling"}

Occurrences(l, p) == Cardinality({i \in DOMAIN l : l[i] = p})

InTable(p) == {b \in Bucket : Contains(fg.tbl[b], p)}

\* tcp_impl.h:390, "Axioms about the above lists": a pcb that is not closed is
\* in one list and only one, the table if it is active and tw_pcbs if it is in
\* TIME-WAIT; a freed pcb is in none.
ListAxioms ==
    \A p \in Pcb :
        LET s == pcb[p].state IN
        /\ Cardinality(InTable(p)) = (IF s = "ACTIVE" THEN 1 ELSE 0)
        /\ \A b \in Bucket : Occurrences(fg.tbl[b], p) <= 1
        /\ Occurrences(fg.tw, p) = (IF s = "TIME_WAIT" THEN 1 ELSE 0)
        /\ ~Contains(fg.bound, p)

\* The timers and tcp_bind see a connection only through active_buckets: every
\* bucket with a pcb is on it, and none is on it twice.
BucketsListed ==
    /\ \A b \in Bucket : fg.tbl[b] # <<>> => Contains(fg.active_buckets, b)
    /\ \A b \in Bucket : Occurrences(fg.active_buckets, b) <= 1

\* Until a SYN is taken by a listener of another port, a segment finds the
\* pcb of its connection: each is in the bucket of its tuple, and no two pcbs
\* in use have the same tuple.
OnePcbPerTuple ==
    "astray" \notin faults =>
        /\ \A p \in Pcb : pcb[p].state = "ACTIVE" =>
                InTable(p) = {tcp_to_idx(pcb[p].lport, pcb[p].peer)}
        /\ \A p, q \in Pcb : /\ p # q
                             /\ pcb[p].state # "FREE" /\ pcb[q].state # "FREE"
                => <<pcb[p].lport, pcb[p].peer>> # <<pcb[q].lport, pcb[q].peer>>

\* tcpip_timer runs whenever a connection is active or in TIME-WAIT, however it
\* was opened and whatever the timer itself removed.
TimerWhileNeeded ==
    (\E p \in Pcb : pcb[p].state # "FREE") => fg.timer

\* The lists of a flow group: every pcb is where the timers and the input path
\* look for it, until a pcb on no list is unlinked (tcp_abort in bsys_tcp_connect,
\* or the close of a handle whose pcb a timer removed without telling it).
ListsSafe == TypeOK /\ ListAxioms /\ BucketsListed /\ OnePcbPerTuple /\ TimerWhileNeeded

\* A FIN restarts the wait of p, some of which is over.
Restarted(p) ==
    /\ pcb[p].state = "TIME_WAIT" /\ pcb[p].age > 0
    /\ pcb'[p].state = "TIME_WAIT" /\ pcb'[p].age = 0

\* A connection in TIME-WAIT is freed, unless FINs of its own peer restart its
\* wait again and again, or active_buckets is empty, when tcp_slowtmr does not
\* get to tw_pcbs.
TwReaped ==
    \A p \in Pcb :
        \/ (pcb[p].state = "TIME_WAIT" /\ Running)
             ~> (pcb[p].state # "TIME_WAIT" \/ ~Running \/ fg.active_buckets = <<>>)
        \/ []<><<Restarted(p)>>_vars
=============================================================================
