-------------------------------- MODULE TcpIn --------------------------------
(***************************************************************************)
(* dp/net/tcp_in.c: what an incoming segment does to a pcb.  c is the      *)
(* segment, a record as TcpPcb!Emit builds it (the LWIP_Context of the     *)
(* code).                                                                  *)
(***************************************************************************)
EXTENDS TcpPcb

-----------------------------------------------------------------------------
(* The acknowledgment half of tcp_receive *)

\* The window field is compared as it came, before scaling.  The persist
\* timer is only restarted here, never started.
UpdateSndWnd(p, c) ==
    IF \/ TCP_SEQ_LT(p.snd_wl1, c.seqno)
       \/ p.snd_wl1 = c.seqno /\ TCP_SEQ_LT(p.snd_wl2, c.ackno)
       \/ p.snd_wl2 = c.ackno /\ c.wnd > p.snd_wnd
    THEN LET w == c.wnd * WndUnit
         IN  [p EXCEPT !.snd_wnd = w, !.snd_wnd_max = Max({@, w}),
                       !.snd_wl1 = c.seqno, !.snd_wl2 = c.ackno,
                       !.t_persist = IF w = 0 THEN @ ELSE FALSE]
    ELSE p

\* edge is the right window edge before the window update
IsDupAck(p, c, edge) ==
    /\ TCP_TCPLEN(c) = 0
    /\ SeqNo(p.snd_wl2 + p.snd_wnd) = edge
    /\ p.t_rexmit
    /\ p.lastack = c.ackno

OldAck(p, c, edge) ==
    LET q == [p EXCEPT !.acked = 0,
                       !.dupacks = IF IsDupAck(p, c, edge) THEN @ + 1 ELSE 0]
    IN  CASE q.dupacks = DupAckLimit -> tcp_rexmit_fast(q)
          [] q.dupacks > DupAckLimit -> [q EXCEPT !.cwnd = @ + MSS]
          [] OTHER -> q

\* a segment that the ACK covers is freed; the ACK of a FIN is not reported
SegAcked(p, s) ==
    [p EXCEPT !.acked = IF @ # 0 /\ "FIN" \in s.flags THEN @ - 1 ELSE @,
              !.snd_queuelen = @ - s.clen]

SegEnd(s) == SeqNo(s.seqno + TCP_TCPLEN(s))

FreeUnacked(p, ackno) ==
    FoldLeft(LAMBDA q, s : IF Head(q.unacked) = s /\ TCP_SEQ_LEQ(SegEnd(s), ackno)
                           THEN [SegAcked(q, s) EXCEPT !.unacked = Tail(@)]
                           ELSE q, p, p.unacked)

\* segments back on unsent after a retransmission may be acknowledged there
FreeUnsent(p, ackno) ==
    FoldLeft(LAMBDA q, s : IF /\ Head(q.unsent) = s
                              /\ TCP_SEQ_BETWEEN(ackno, SegEnd(s), q.snd_nxt)
                           THEN [SegAcked(q, s) EXCEPT !.unsent = Tail(@)]
                           ELSE q, p, p.unsent)

GrowCwnd(p) ==
    IF p.cwnd < p.ssthresh THEN p.cwnd + MSS
    ELSE p.cwnd + (MSS * MSS) \div p.cwnd

\* Mutant: the timer stops with segments still unacknowledged.
NewAck_Disarms(p, c) ==
    LET n == SeqNo(c.ackno - p.lastack)
        r == FreeUnacked([p EXCEPT !.nrtx = 0, !.acked = n, !.snd_buf = @ + n,
                                   !.dupacks = 0, !.lastack = c.ackno,
                                   !.cwnd = GrowCwnd(p)], c.ackno)
    IN  [r EXCEPT !.t_rexmit = FALSE]

NewAck(p, c) ==
    LET n == SeqNo(c.ackno - p.lastack)
        q == IF "INFR" \in p.flags
             THEN [p EXCEPT !.flags = @ \ {"INFR"}, !.cwnd = p.ssthresh] ELSE p
        r == FreeUnacked([q EXCEPT !.nrtx = 0, !.acked = n, !.snd_buf = @ + n,
                                   !.dupacks = 0, !.lastack = c.ackno,
                                   !.cwnd = GrowCwnd(q)], c.ackno)
    IN  [r EXCEPT !.t_rexmit = r.unacked # <<>>]

ReceiveAck(p, c) ==
    LET edge == SeqNo(p.snd_wnd + p.snd_wl2)
        q == UpdateSndWnd(p, c)
        r == IF TCP_SEQ_LEQ(c.ackno, p.lastack) THEN OldAck(q, c, edge)
             ELSE IF TCP_SEQ_BETWEEN(c.ackno, p.lastack + 1, p.snd_nxt)
             THEN NewAck(q, c)
             ELSE [q EXCEPT !.acked = 0]
    IN  FreeUnsent(r, c.ackno)

-----------------------------------------------------------------------------
(* The data half of tcp_receive *)

InSeg(c) == [seqno |-> c.seqno, data |-> c.data, flags |-> c.flags \cap {"FIN", "SYN"}]

\* Mutant: nothing is cut off.
TrimFront_Keeps(p, c) ==
    IF TCP_SEQ_BETWEEN(p.rcv_nxt, c.seqno + 1, c.seqno + TCP_TCPLEN(c) - 1)
    THEN [c EXCEPT !.seqno = p.rcv_nxt] ELSE c

\* the part of the segment before rcv_nxt is cut off
TrimFront(p, c) ==
    IF TCP_SEQ_BETWEEN(p.rcv_nxt, c.seqno + 1, c.seqno + TCP_TCPLEN(c) - 1)
    THEN [c EXCEPT !.seqno = p.rcv_nxt,
                   !.data = SubSeq(@, SeqNo(p.rcv_nxt - c.seqno) + 1, Len(@))]
    ELSE c

\* the segments at the head of q that end at or before sequence number end
Covered(q, end) ==
    LET ends == {i \in DOMAIN q : TCP_SEQ_GT(q[i].seqno + Len(q[i].data), end)}
    IN  IF ends = {} THEN Len(q) ELSE Min(ends) - 1

\* s takes the FIN of the segments it covers and is cut at the next one;
\* for tcp_oos_insert_segment and for the in-sequence segment alike
Overlay(s, q) ==
    IF "FIN" \in s.flags THEN <<s>>
    ELSE LET end == SeqNo(s.seqno + Len(s.data))
             k == Covered(q, end)
             fin == \E i \in 1..k : "FIN" \in q[i].flags
             rest == SubSeq(q, k + 1, Len(q))
             t == [s EXCEPT !.flags = IF fin THEN @ \cup {"FIN"} ELSE @,
                            !.data = IF /\ rest # <<>>
                                        /\ TCP_SEQ_GT(end, rest[1].seqno)
                                     THEN SubSeq(@, 1, SeqNo(rest[1].seqno - s.seqno))
                                     ELSE @]
         IN  <<t>> \o rest

tcp_oos_insert_segment(cseg, next) == Overlay(cseg, next)

\* s cut so that it ends where the next segment begins
CutBefore(s, seqno) ==
    IF TCP_SEQ_GT(s.seqno + Len(s.data), seqno)
    THEN [s EXCEPT !.data = SubSeq(@, 1, SeqNo(seqno - s.seqno))] ELSE s

\* the segment cut to the receive window, when it comes last on ooseq
CutToWindow(p, s) ==
    IF TCP_SEQ_GT(s.seqno + TCP_TCPLEN(s), p.rcv_nxt + p.rcv_wnd)
    THEN CutTo(s, SeqNo(p.rcv_nxt + p.rcv_wnd - s.seqno)) ELSE s

\* the ooseq queue with the out of sequence segment s in its place
QueueOoseq(p, s) ==
    LET q == p.ooseq
        k == Cardinality({i \in DOMAIN q : TCP_SEQ_LT(q[i].seqno, s.seqno)})
        next == SubSeq(q, k + 1, Len(q))
        prev == SubSeq(q, 1, k - 1)
    IN  IF q = <<>> THEN <<s>>
        ELSE IF next # <<>> /\ next[1].seqno = s.seqno
        THEN IF Len(s.data) > Len(next[1].data)
             THEN SubSeq(q, 1, k) \o tcp_oos_insert_segment(s, next) ELSE q
        ELSE IF k = 0 THEN tcp_oos_insert_segment(s, next)
        ELSE IF next # <<>>
        THEN prev \o <<CutBefore(q[k], s.seqno)>> \o tcp_oos_insert_segment(s, next)
        ELSE IF "FIN" \in q[k].flags THEN q
        ELSE prev \o <<CutBefore(q[k], s.seqno), CutToWindow(p, s)>>

\* rcv_nxt moves over s, whose data and FIN go to the application
Accept(p, s) ==
    [tcp_update_rcv_ann_wnd(
        [p EXCEPT !.rcv_nxt = SegEnd(s),
                  !.rcv_wnd = (@ - TCP_TCPLEN(s)) % WndSpace])
     EXCEPT !.recv_data = @ \o s.data,
            !.recv_flags = IF "FIN" \in s.flags THEN @ \cup {"GOT_FIN"} ELSE @]

\* an ooseq segment that is now in sequence
AcceptOoseq(p) ==
    LET s == Head(p.ooseq)
    IN  [Accept(p, s) EXCEPT
            !.ooseq = Tail(@),
            !.state = IF "FIN" \in s.flags /\ @ = "ESTABLISHED"
                      THEN "CLOSE_WAIT" ELSE @]

ReceiveInSequence(p, s) ==
    LET fit == IF TCP_TCPLEN(s) > p.rcv_wnd THEN CutTo(s, p.rcv_wnd) ELSE s
        lay == Overlay(fit, p.ooseq)
        q == Accept([p EXCEPT !.ooseq = Tail(lay)], Head(lay))
    IN  tcp_ack(FoldLeft(LAMBDA r, x :
                            IF r.ooseq # <<>> /\ Head(r.ooseq).seqno = r.rcv_nxt
                            THEN AcceptOoseq(r) ELSE r, q, q.ooseq))

InRcvWnd(p, seqno) == TCP_SEQ_BETWEEN(seqno, p.rcv_nxt, p.rcv_nxt + p.rcv_wnd - 1)

ReceiveData(p, c) ==
    IF TCP_TCPLEN(c) > 0 /\ p.state \in {"ESTABLISHED", "FIN_WAIT_1", "FIN_WAIT_2"}
    THEN LET t == TrimFront(p, c)
             q == IF TCP_SEQ_LT(t.seqno, p.rcv_nxt) THEN tcp_ack_now(p) ELSE p
         IN  IF ~InRcvWnd(q, t.seqno) THEN tcp_send_empty_ack(q)
             ELSE IF t.seqno = q.rcv_nxt THEN ReceiveInSequence(q, InSeg(t))
             ELSE LET r == tcp_send_empty_ack(q)
                  IN  [r EXCEPT !.ooseq = QueueOoseq(r, InSeg(t))]
    ELSE IF InRcvWnd(p, c.seqno) THEN p ELSE tcp_ack_now(p)

tcp_receive(p, c) ==
    ReceiveData(IF "ACK" \in c.flags THEN ReceiveAck(p, c) ELSE p, c)

-----------------------------------------------------------------------------
(* tcp_process *)

\* tcp_pcb_purge, for a pcb in a state that has something to purge
tcp_pcb_purge(p) ==
    [p EXCEPT !.unsent = <<>>, !.unacked = <<>>, !.ooseq = <<>>,
              !.t_delack = FALSE, !.t_rexmit = FALSE, !.t_persist = FALSE]

ToTimeWait(p) == [tcp_pcb_purge(p) EXCEPT !.state = "TIME_WAIT"]

ResetReply(p, c) ==
    [p EXCEPT !.out = Append(@, tcp_rst(c.ackno, SeqNo(c.seqno + TCP_TCPLEN(c))))]

AcceptableReset(p, c) ==
    IF p.state = "SYN_SENT" THEN c.ackno = p.snd_nxt
    ELSE TCP_SEQ_BETWEEN(c.seqno, p.rcv_nxt, p.rcv_nxt + p.rcv_wnd)

ProcessSynSent(p, c) ==
    IF /\ {"SYN", "ACK"} \subseteq c.flags
       /\ c.ackno = SeqNo(p.unacked[1].seqno + 1)
    THEN LET rest == Tail(p.unacked)
         IN  [p EXCEPT !.state = "ESTABLISHED", !.snd_buf = @ + 1,
                       !.rcv_nxt = SeqNo(c.seqno + 1),
                       !.rcv_ann_right_edge = SeqNo(c.seqno + 1),
                       !.lastack = c.ackno,
                       !.snd_wnd = c.wnd * WndUnit, !.snd_wnd_max = c.wnd * WndUnit,
                       !.snd_wl1 = SeqNo(c.seqno - 1),
                       !.ssthresh = MSS * 10,
                       !.cwnd = IF @ = 1 THEN MSS * 2 ELSE MSS,
                       !.snd_queuelen = @ - 1, !.unacked = rest,
                       !.t_rexmit = rest # <<>>,
                       !.nrtx = IF rest = <<>> THEN @ ELSE 0,
                       !.recv_flags = @ \cup {"CONNECTED"},
                       !.flags = @ \cup {"ACK_NOW"}]
    ELSE IF "ACK" \in c.flags THEN ResetReply(p, c) ELSE p

\* the handshake is over; q is what tcp_receive made of the segment
Accepted(p, q) ==
    LET fin == "GOT_FIN" \in q.recv_flags
    IN  [q EXCEPT !.acked = IF @ # 0 THEN @ - 1 ELSE 0,
                  !.cwnd = IF p.cwnd = 1 THEN MSS * 2 ELSE MSS,
                  !.state = IF fin THEN "CLOSE_WAIT" ELSE @,
                  !.flags = IF fin THEN @ \cup {"ACK_NOW"} ELSE @,
                  !.recv_flags = @ \cup {"ACCEPTED"}]

\* accepted: the answer of the accept callback, which allocates
ProcessSynRcvd(p, c, accepted) ==
    IF "ACK" \in c.flags
    THEN IF ~TCP_SEQ_BETWEEN(c.ackno, p.lastack + 1, p.snd_nxt) THEN ResetReply(p, c)
         ELSE IF ~accepted THEN [p EXCEPT !.recv_flags = @ \cup {"ABRT"}]
         ELSE Accepted(p, tcp_receive([p EXCEPT !.state = "ESTABLISHED",
                                                !.flags = @ \cup {"NODELAY"}], c))
    ELSE IF "SYN" \in c.flags /\ c.seqno = SeqNo(p.rcv_nxt - 1)
    THEN tcp_rexmit(p) ELSE p

\* the states from ESTABLISHED on, after q == tcp_receive(p, c): follow the
\* FINs
FollowFins(p, c, q) ==
    LET fin == "GOT_FIN" \in q.recv_flags
        finAcked == "ACK" \in c.flags /\ c.ackno = q.snd_nxt
        now == tcp_ack_now(q)
    IN  CASE p.state \in {"ESTABLISHED", "CLOSE_WAIT"} ->
                IF fin THEN [now EXCEPT !.state = "CLOSE_WAIT"] ELSE q
          [] p.state = "FIN_WAIT_1" ->
                IF fin /\ finAcked THEN ToTimeWait(now)
                ELSE IF fin THEN [now EXCEPT !.state = "CLOSING"]
                ELSE IF finAcked THEN [q EXCEPT !.state = "FIN_WAIT_2"] ELSE q
          [] p.state = "FIN_WAIT_2" -> IF fin THEN ToTimeWait(now) ELSE q
          [] p.state = "CLOSING" -> IF finAcked THEN ToTimeWait(q) ELSE q
          [] p.state = "LAST_ACK" ->
                IF finAcked THEN [q EXCEPT !.recv_flags = @ \cup {"CLOSED"}] ELSE q

ProcessSynchronized(p, c) == FollowFins(p, c, tcp_receive(p, c))

tcp_process(p, c, accepted) ==
    IF "RST" \in c.flags
    THEN IF AcceptableReset(p, c)
         THEN [p EXCEPT !.recv_flags = @ \cup {"RESET"}, !.t_delack = FALSE] ELSE p
    ELSE IF "SYN" \in c.flags /\ p.state \notin {"SYN_SENT", "SYN_RCVD"}
    THEN tcp_ack_now(p)
    ELSE CASE p.state = "SYN_SENT" -> ProcessSynSent(p, c)
           [] p.state = "SYN_RCVD" -> ProcessSynRcvd(p, c, accepted)
           [] OTHER -> ProcessSynchronized(p, c)

-----------------------------------------------------------------------------
(* Segments for a connection in TIME-WAIT and for a listening port *)

tcp_timewait_input(p, c) ==
    IF "RST" \in c.flags THEN p
    ELSE IF /\ "SYN" \in c.flags
            /\ TCP_SEQ_BETWEEN(c.seqno, p.rcv_nxt, p.rcv_nxt + p.rcv_wnd)
    THEN ResetReply(p, c)
    ELSE IF TCP_TCPLEN(c) > 0 THEN tcp_output(tcp_ack_now(p)) ELSE p

\* the pcb tcp_listen_input sets up for a SYN
ListenPcb(c, iss) ==
    tcp_output(tcp_enqueue_flags(
        [tcp_alloc(iss) EXCEPT
            !.state = "SYN_RCVD", !.rcv_nxt = SeqNo(c.seqno + 1),
            !.rcv_ann_right_edge = SeqNo(c.seqno + 1),
            !.snd_wl1 = SeqNo(c.seqno - 1),
            !.snd_wnd = c.wnd * WndUnit, !.snd_wnd_max = c.wnd * WndUnit,
            !.ssthresh = c.wnd * WndUnit], {"SYN", "ACK"}))

\* p is the free slot for a pcb
tcp_listen_input(p, c, iss) ==
    IF "RST" \in c.flags THEN p
    ELSE IF "ACK" \in c.flags THEN ResetReply(p, c)
    ELSE IF "SYN" \in c.flags THEN ListenPcb(c, iss) ELSE p
=============================================================================
