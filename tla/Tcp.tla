--------------------------------- MODULE Tcp ---------------------------------
(***************************************************************************)
(* Two hosts that run the stack of dp/net/tcp*.c, joined by a network that *)
(* loses, duplicates and reorders segments.  Client opens the connection,  *)
(* Server listens.  app[n] is what the stack told the layer above it on    *)
(* host n (dp/net/tcp_api.c): the bytes written to and delivered by the    *)
(* connection, the bytes reported as sent, the bytes delivered and not yet *)
(* given back with recv_done, and how the connection ended.                *)
(***************************************************************************)
EXTENDS TcpIn

CONSTANTS Client, Server,
          Iss,            \* the value of iss at start-up, on each host
          Ticks,          \* tcp_ticks, what each new iss is larger by
          TCP_MAXRTX, TCP_SYNMAXRTX,
          Closers,        \* hosts whose application may tcp_close
          Resetters,      \* hosts whose application may close with a reset
          Writes,         \* bound: the sizes of each application's writes
          MaxFaults       \* bound: segments lost, duplicated or overtaken,
                          \* timeouts while segments are in flight

Hosts == {Client, Server}
Peer(n) == IF n = Client THEN Server ELSE Client

VARIABLES pcb,    \* the pcb of each host, in state CLOSED when there is none
          net,    \* the segments in flight to each host
          app,
          faults  \* how much of MaxFaults is used up

vars == <<pcb, net, app, faults>>

NoPcb == tcp_alloc(0)

tcp_next_iss(n) == SeqNo(app[n].iss + Ticks)

Init ==
    /\ pcb = [n \in Hosts |-> NoPcb]
    /\ net = [n \in Hosts |-> <<>>]
    /\ app = [n \in Hosts |-> [writes |-> 0, written |-> 0, recvd |-> <<>>, unread |-> 0,
                               sent |-> 0, status |-> "idle", iss |-> Iss[n]]]
    /\ faults = 0

-----------------------------------------------------------------------------
\* host n is left with pcb q; the segments q.out enter the network
Leave(n, q, rest) ==
    /\ pcb' = [pcb EXCEPT ![n] = [q EXCEPT !.out = <<>>, !.recv_data = <<>>,
                                           !.recv_flags = {}]]
    /\ net' = [rest EXCEPT ![Peer(n)] = @ \o q.out]

Free(q) == [NoPcb EXCEPT !.out = q.out]

Reset(p) == [p EXCEPT !.out = Append(@, tcp_rst(p.snd_nxt, p.rcv_nxt))]

Bytes(from, len) == [i \in 1..len |-> from + i]

-----------------------------------------------------------------------------
(* The application *)

\* bsys_tcp_connect: tcp_new, tcp_nagle_disable, tcp_connect
tcp_connect ==
    /\ app[Client].status = "idle"
    /\ LET iss == tcp_next_iss(Client)
           p == [tcp_alloc(iss) EXCEPT
                    !.state = "SYN_SENT", !.flags = {"NODELAY"},
                    !.lastack = SeqNo(iss - 1), !.snd_lbb = SeqNo(iss - 1),
                    !.snd_wnd = TCP_WND, !.ssthresh = MSS * 10]
       IN  Leave(Client, tcp_output(tcp_enqueue_flags(p, {"SYN"})), net)
    /\ app' = [app EXCEPT ![Client].status = "connecting", ![Client].iss = tcp_next_iss(Client)]
    /\ UNCHANGED faults

\* bsys_tcp_sendv: tcp_write, then tcp_output
Write(n) ==
    /\ app[n].status \in {"open", "eof"}
    /\ pcb[n].state \in {"ESTABLISHED", "CLOSE_WAIT"}
    /\ app[n].writes < Len(Writes[n])
    /\ LET data == Bytes(app[n].written, Writes[n][app[n].writes + 1])
           ok == WriteFits(pcb[n], data)
           q == tcp_write(pcb[n], data)
       IN  /\ Leave(n, IF ok THEN tcp_output(q) ELSE q, net)
           /\ app' = [app EXCEPT ![n].written = IF ok THEN @ + Len(data) ELSE @,
                                 ![n].writes = IF ok THEN @ + 1 ELSE @]
    /\ UNCHANGED faults

\* bsys_tcp_recv_done: the application is done with len bytes
RecvDone(n) ==
    /\ app[n].status \in {"open", "eof"}
    /\ \E len \in 1..app[n].unread :
        /\ Leave(n, tcp_recved(pcb[n], len), net)
        /\ app' = [app EXCEPT ![n].unread = @ - len]
    /\ UNCHANGED faults

\* q == tcp_send_fin(p), which may have been refused
FinQueued(p, q) ==
    IF "FIN" \in q.flags
    THEN tcp_output([q EXCEPT !.state = IF p.state = "CLOSE_WAIT" THEN "LAST_ACK"
                                        ELSE "FIN_WAIT_1"])
    ELSE q

\* a FIN, or a reset when the application left data unread
tcp_close_shutdown(p) ==
    CASE p.state = "SYN_SENT" -> Free(p)
      [] p.rcv_wnd # TCP_WND /\ p.state = "ESTABLISHED" -> ToTimeWait(Reset(p))
      [] p.rcv_wnd # TCP_WND /\ p.state = "CLOSE_WAIT" -> Free(Reset(p))
      [] OTHER -> FinQueued(p, tcp_send_fin(p))

\* a pcb that the application may close, and may again if that failed
tcp_close(n) ==
    /\ n \in Closers
    /\ app[n].status \in {"connecting", "open", "eof"}
    /\ pcb[n].state \in {"SYN_SENT", "ESTABLISHED", "CLOSE_WAIT"}
    /\ \E q \in {tcp_close_shutdown([pcb[n] EXCEPT !.flags = @ \cup {"RXCLOSED"}])} :
        /\ Leave(n, q, net)
        /\ app' = [app EXCEPT ![n].status = IF q.state = pcb[n].state THEN @ ELSE "closed"]
    /\ UNCHANGED faults

\* bsys_tcp_close
tcp_close_with_reset(n) ==
    /\ n \in Resetters
    /\ app[n].status \in {"open", "eof"}
    /\ pcb[n].state # "CLOSED"
    /\ Leave(n, Free(Reset(pcb[n])), net)
    /\ app' = [app EXCEPT ![n].status = "closed"]
    /\ UNCHANGED faults

-----------------------------------------------------------------------------
(* Segments in *)

\* the TCP_EVENTs of tcp_input, in the order it raises them
Events(n, q) ==
    LET a == app[n]
        f == q.recv_flags
        open == f \cap {"CONNECTED", "ACCEPTED"} # {}
        b == IF "ACCEPTED" \in f THEN [a EXCEPT !.recvd = <<>>, !.unread = 0, !.sent = 0] ELSE a
        late == q.recv_data # <<>> /\ "RXCLOSED" \in q.flags
    IN  IF f \cap {"RESET", "ABRT"} # {} \/ late
        THEN [a EXCEPT !.status = IF @ = "idle" THEN @ ELSE "dead"]
        ELSE IF "CLOSED" \in f
        THEN IF "RXCLOSED" \in q.flags THEN a ELSE [a EXCEPT !.status = "dead"]
        ELSE [b EXCEPT !.sent = @ + q.acked,
                       !.recvd = @ \o q.recv_data,
                       !.unread = @ + Len(q.recv_data),
                       !.status = IF open THEN "open" ELSE @,
                       !.status = IF "GOT_FIN" \in f /\ @ = "open" THEN "eof" ELSE @]

\* what tcp_input does after q == tcp_process(...)
InputActive(q) ==
    LET f == q.recv_flags
        late == q.recv_data # <<>> /\ "RXCLOSED" \in q.flags
        r == [q EXCEPT !.rcv_wnd = IF "GOT_FIN" \in f /\ @ # TCP_WND
                                   THEN (@ + 1) % WndSpace ELSE @]
    IN  IF f \cap {"RESET", "CLOSED"} # {} THEN Free(q)
        ELSE IF "ABRT" \in f \/ late THEN Free(Reset(q))
        ELSE tcp_output(r)

tcp_input(n) ==
    /\ net[n] # <<>>
    /\ LET p == pcb[n]
           c == Head(net[n])
           rest == [net EXCEPT ![n] = Tail(@)]
       IN  CASE p.state = "CLOSED" ->
                  LET q == tcp_listen_input(p, c, tcp_next_iss(n)) IN
                  /\ Leave(n, q, rest)
                  /\ app' = [app EXCEPT ![n].iss = IF q.state = "CLOSED" THEN @ ELSE tcp_next_iss(n)]
             [] p.state = "TIME_WAIT" ->
                  /\ Leave(n, tcp_timewait_input(p, c), rest)
                  /\ UNCHANGED app
             [] OTHER ->
                  \E accepted \in BOOLEAN : \E q \in {tcp_process(p, c, accepted)} :
                  /\ Leave(n, InputActive(q), rest)
                  /\ app' = [app EXCEPT ![n] = Events(n, q)]
    /\ UNCHANGED faults

-----------------------------------------------------------------------------
(* Timers *)

\* the three parts of tcp_unified_timer_handler
DelayedAckExpired(p) ==
    [tcp_output(tcp_ack_now(p)) EXCEPT !.flags = @ \ {"ACK_NOW"}, !.t_delack = FALSE]

\* a pcb removed here is removed silently, and the handler returns
RetransmitExpired(p) ==
    LET half == Min({p.cwnd, p.snd_wnd}) \div 2
    IN  IF p.unacked = <<>> THEN [p EXCEPT !.t_rexmit = FALSE]
        ELSE IF p.snd_wnd = 0 THEN p
        ELSE IF \/ p.state = "SYN_SENT" /\ p.nrtx = TCP_SYNMAXRTX
                \/ p.nrtx = TCP_MAXRTX
        THEN Free(p)
        ELSE tcp_rexmit_rto([p EXCEPT !.t_rexmit = FALSE, !.cwnd = MSS,
                                !.ssthresh = Max({half, 2 * MSS})])

\* nothing arms the persist timer
PersistExpired(p) == IF p.t_persist THEN tcp_zero_window_probe(p) ELSE p

\* a timeout with nothing in flight is no fault
Timeout ==
    IF \A n \in Hosts : net[n] = <<>> THEN UNCHANGED faults
    ELSE faults < MaxFaults /\ faults' = faults + 1

DelayedAck(n) ==
    /\ pcb[n].t_delack
    /\ Leave(n, PersistExpired(DelayedAckExpired(pcb[n])), net)
    /\ UNCHANGED <<app, faults>>

Retransmit(n) ==
    /\ pcb[n].t_rexmit
    /\ Timeout
    /\ \E p \in {pcb[n]} \cup (IF pcb[n].t_delack THEN {DelayedAckExpired(pcb[n])} ELSE {}) :
            Leave(n, PersistExpired(RetransmitExpired(p)), net)
    /\ UNCHANGED app

\* the handler runs when the delayed acknowledgment is due, the
\* retransmission, or both
tcp_unified_timer_handler(n) == DelayedAck(n) \/ Retransmit(n)

\* tcp_slowtmr on a pcb that has not been idle for long: it only polls
Poll(n) ==
    /\ pcb[n].state \notin {"CLOSED", "TIME_WAIT"}
    /\ Leave(n, tcp_output(pcb[n]), net)
    /\ UNCHANGED <<app, faults>>

\* states that tcp_slowtmr does not leave a pcb in for ever
TimesOut(p) ==
    \/ p.state \in {"SYN_RCVD", "LAST_ACK"}
    \/ p.state = "FIN_WAIT_2" /\ "RXCLOSED" \in p.flags

    \/ p.state = "TIME_WAIT"

\* tcp_slowtmr on a pcb that has been idle for long (one in TIME-WAIT is
\* only looked at while the flow group has an active pcb)
tcp_slowtmr(n) ==
    /\ Timeout
    /\ TimesOut(pcb[n]) \/ pcb[n].ooseq # <<>>
    /\ LET p == [pcb[n] EXCEPT !.ooseq = <<>>]
       IN  /\ Leave(n, IF TimesOut(p) THEN Free(p) ELSE tcp_output(p), net)
           /\ app' = [app EXCEPT ![n].status =
                        IF TimesOut(p) /\ @ \notin {"idle", "closed"}
                        THEN "dead" ELSE @]

-----------------------------------------------------------------------------
(* The network *)

\* a segment in flight is lost, delivered twice, or overtaken by the next
Fault(n) ==
    /\ faults < MaxFaults
    /\ \E i \in DOMAIN net[n] :
        \/ net' = [net EXCEPT ![n] = RemoveAt(@, i)]
        \/ net' = [net EXCEPT ![n] = Append(@, @[i])]
        \/ i > 1 /\ net' = [net EXCEPT ![n] = <<@[i]>> \o RemoveAt(@, i)]
    /\ faults' = faults + 1
    /\ UNCHANGED <<pcb, app>>

Next ==
    \/ tcp_connect
    \/ \E n \in Hosts :
        \/ Write(n)
        \/ RecvDone(n)
        \/ tcp_close(n)
        \/ tcp_close_with_reset(n)
        \/ tcp_input(n)
        \/ tcp_unified_timer_handler(n)
        \/ Poll(n)
        \/ tcp_slowtmr(n)
        \/ Fault(n)

Spec == Init /\ [][Next]_vars

\* The dataplane loop of a host polls its queues and runs its timers over
\* and over, and the application consumes what it is given.

Fairness ==
    \A n \in Hosts :
        /\ []<>(net[n] = <<>>) \/ []<><<tcp_input(n)>>_vars
        /\ []<>~(pcb[n].t_delack) \/ []<><<DelayedAck(n)>>_vars
        /\ []<>~(pcb[n].t_rexmit /\ net = [h \in Hosts |-> <<>>]) \/ []<><<Retransmit(n)>>_vars
        /\ []<>~(app[n].unread > 0 /\ app[n].status \in {"open", "eof"}) \/ []<><<RecvDone(n)>>_vars

FairSpec == Spec /\ Fairness

-----------------------------------------------------------------------------
TypeOK ==
    /\ \A n \in Hosts :
        /\ pcb[n].state \in TcpStates
        /\ {pcb[n].rcv_wnd, pcb[n].rcv_ann_wnd} \subseteq 0..TCP_WND
        /\ {pcb[n].out, pcb[n].recv_data} = {<<>>}
        /\ app[n].status \in {"idle", "connecting", "open", "eof", "closed", "dead"}
    /\ faults \in 0..MaxFaults

\* Each direction of the connection is the byte stream the applications
\* rely on, whatever is lost, duplicated, overtaken or sent twice.
ToServer == INSTANCE ByteStream
    WITH written <- app[Client].written, recvd <- app[Server].recvd,
         status <- app[Server].status
ToClient == INSTANCE ByteStream
    WITH written <- app[Server].written, recvd <- app[Client].recvd,
         status <- app[Client].status

StreamRefined == ToServer!Spec /\ ToClient!Spec

\* tcp_receive acknowledges, and the sender frees, only bytes that were
\* handed to the receiving application (no byte is acknowledged while it
\* sits on ooseq, and no retransmission makes lastack run ahead).
Established(n) == pcb[n].state \in SynchronizedStates \ {"TIME_WAIT"}
FirstByte(n) == app[n].iss + (IF n = Client THEN 0 ELSE 1)
Acked(n) == SeqNo(pcb[n].lastack - FirstByte(n))
AckedWasDelivered == \A n \in Hosts :
    LET a == app[Peer(n)]
    IN  Established(n) /\ a.status \notin {"closed", "dead"} =>
            Acked(n) <= Len(a.recvd) + (IF a.status = "eof" THEN 1 ELSE 0)

\* Every byte of the receive window is free or in the application's hands:
\* the trims of tcp_receive, the FIN correction of tcp_input and tcp_recved
\* keep the account exactly.
WindowAccounted == \A n \in Hosts :
    Established(n) => pcb[n].rcv_wnd + app[n].unread = TCP_WND

\* unacked and unsent together hold, in order and without a hole, exactly
\* the sequence numbers from lastack to the last byte queued, and
\* snd_queuelen counts their pbufs.
SendQueue(p) == FoldLeft(InsertBySeqno, p.unsent, p.unacked)
SendQueueWhole == \A n \in Hosts :
    LET p == pcb[n]
        q == SendQueue(p)
    IN  Established(n) =>
            /\ p.snd_queuelen = Clen(q)
            /\ q # <<>> => /\ TCP_SEQ_LEQ(q[1].seqno, p.lastack)
                           /\ TCP_SEQ_GT(SegEnd(q[1]), p.lastack)
            /\ \A i \in 1..(Len(q) - 1) : SegEnd(q[i]) = q[i + 1].seqno
            /\ \A i \in DOMAIN q : \A j \in DOMAIN q[i].data :
                    SeqNo(FirstByte(n) + q[i].data[j]) = SeqNo(q[i].seqno + j)

\* A segment on the wire that may have to be sent again always has the
\* retransmission timer running, after every path of tcp_output,
\* tcp_receive and the timer handler itself.
RetransmitArmed == \A n \in Hosts : pcb[n].unacked # <<>> => pcb[n].t_rexmit

\* Every handler sends what may be sent before it returns: tcp_slowtmr's
\* tcp_output never finds anything to do.
NothingHeldBack == \A n \in Hosts :
    Established(n) => ~MayOutput(pcb[n]) /\ "ACK_NOW" \notin pcb[n].flags

\* What each handler of the stack leaves behind, whatever the network lost,
\* repeated or held back.
ConnectionSafe ==
    /\ TypeOK /\ AckedWasDelivered /\ WindowAccounted
    /\ SendQueueWhole /\ RetransmitArmed /\ NothingHeldBack

\* The right edge of the window that the peer reads in segment c.  (A SYN is
\* left out: its window is cut to 16 bits unscaled, and read as if scaled.)
WireEdge(c) == SeqNo(c.ackno + c.wnd * WndUnit)
Announces(c) == c.flags \cap {"SYN", "RST"} = {}

\* The edge of the window never moves back while the connection lasts, however
\* the application returns what it was given (tcp_update_rcv_ann_wnd).  What
\* the peer reads is that edge rounded down to the scale of the window field:
\* no segment sent takes back WndUnit bytes or more of what one still on its
\* way promised, and none promises bytes past the edge.
RightEdgeKept ==
    [][\A n \in Hosts :
        Established(n) /\ Established(n)' =>
            /\ TCP_SEQ_GEQ(pcb'[n].rcv_ann_right_edge, pcb[n].rcv_ann_right_edge)
            /\ \A c \in ToSet(net'[Peer(n)]) \ ToSet(net[Peer(n)]) : Announces(c) =>
                /\ TCP_SEQ_LEQ(WireEdge(c), pcb'[n].rcv_ann_right_edge)
                /\ \A d \in ToSet(net[Peer(n)]) : Announces(d) =>
                        TCP_SEQ_GT(WireEdge(c) + WndUnit, WireEdge(d))]_vars

\* The sender waits for a window update that nothing will ask for again.
Stalled(n) ==
    \/ pcb[n].unacked # <<>> /\ pcb[n].snd_wnd = 0
    \/ /\ pcb[n].unacked = <<>> /\ pcb[n].unsent # <<>>
       /\ ~InWindow(pcb[n], Head(pcb[n].unsent))

\* Lost segments are sent again until everything written is delivered; the
\* only other ends are a connection that is given up or one that stalls on
\* a closed window.
Delivered == \A n \in Hosts :
    <>[](\/ Len(app[Peer(n)].recvd) = app[n].written
         \/ pcb[n].state \in {"CLOSED", "TIME_WAIT"}
         \/ pcb[Peer(n)].state \in {"CLOSED", "TIME_WAIT"}
         \/ Stalled(n))
=============================================================================
