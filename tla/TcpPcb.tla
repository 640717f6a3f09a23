------------------------------- MODULE TcpPcb -------------------------------
(***************************************************************************)
(* The protocol control block of dp/net/tcp*.c and its output side.        *)
(*                                                                         *)
(* Every C function that works on a pcb is an operator from a pcb to the   *)
(* pcb it leaves.  The segments a function puts on the wire are appended   *)
(* to p.out, the data and the flags it hands to tcp_input to p.recv_data   *)
(* and p.recv_flags; a handler of module Tcp empties the three at its end. *)
(*                                                                         *)
(* A payload is a sequence of bytes, each of which is its own position in  *)
(* the stream it was written to.  Sequence numbers are residues modulo     *)
(* SeqSpace (2^32 in the code).  Time is abstracted: a timer is armed or   *)
(* not and may run whenever it is armed, so round trip estimation, which   *)
(* only decides when, is left out.                                         *)
(***************************************************************************)
EXTENDS Integers, Sequences, SequencesExt

CONSTANTS SeqSpace,            \* number of sequence numbers, 2^32 in the code
          WndSpace,            \* values of tcpwnd_size_t, 2^32 in the code
          WndUnit,           \* 2^TCP_RCV_SCALE
          WireSpace,         \* values of the header's window field, 2^16
          MSS,               \* the MSS both SYNs agree on
          TCP_WND,
          TCP_SND_BUF,
          TCP_SND_QUEUELEN,
          DupAckLimit        \* 3 in the code

ASSUME TcpSizes ==
    /\ {SeqSpace, WndSpace, WndUnit, WireSpace, MSS, TCP_WND, TCP_SND_BUF, TCP_SND_QUEUELEN,
        DupAckLimit} \subseteq Nat \ {0}
    /\ 2 * (TCP_WND + 1) < SeqSpace
    /\ WndSpace = SeqSpace
    /\ TCP_WND \div WndUnit < WireSpace
    /\ WndUnit <= MSS

-----------------------------------------------------------------------------
(* Sequence numbers, tcp_impl.h *)

SeqNo(x) == x % SeqSpace

\* (s32_t)((u32_t)(a) - (u32_t)(b))
SeqDiff(a, b) ==
    LET d == (a - b) % SeqSpace
    IN  IF d < SeqSpace \div 2 THEN d ELSE d - SeqSpace

TCP_SEQ_LT(a, b) == SeqDiff(a, b) < 0
TCP_SEQ_LEQ(a, b) == SeqDiff(a, b) <= 0
TCP_SEQ_GT(a, b) == SeqDiff(a, b) > 0
TCP_SEQ_GEQ(a, b) == SeqDiff(a, b) >= 0
TCP_SEQ_BETWEEN(a, b, c) == TCP_SEQ_GEQ(a, b) /\ TCP_SEQ_LEQ(a, c)

-----------------------------------------------------------------------------
(* Segments.  A queued segment (struct tcp_seg) is a record with seqno,    *)
(* data, flags and, on the sending side, clen, its number of pbufs.        *)

TCP_TCPLEN(s) ==
    Len(s.data) + (IF s.flags \cap {"FIN", "SYN"} # {} THEN 1 ELSE 0)

\* the segment cut to its first n bytes, its FIN dropped
CutTo(s, n) == [s EXCEPT !.data = SubSeq(@, 1, n), !.flags = @ \ {"FIN"}]

\* the queue q, sorted by seqno, with s at its place
InsertBySeqno(q, s) ==
    LET before == {i \in DOMAIN q : TCP_SEQ_LT(q[i].seqno, s.seqno)}
    IN  InsertAt(q, Cardinality(before) + 1, s)

Clen(q) == FoldLeft(LAMBDA n, s : n + s.clen, 0, q)

-----------------------------------------------------------------------------
(* The pcb *)

SynchronizedStates ==
    {"ESTABLISHED", "FIN_WAIT_1", "FIN_WAIT_2", "CLOSE_WAIT", "CLOSING",
     "LAST_ACK", "TIME_WAIT"}
TcpStates == SynchronizedStates \cup {"CLOSED", "SYN_SENT", "SYN_RCVD"}

\* tcp_alloc: iss is what tcp_next_iss returned
tcp_alloc(iss) ==
    [state |-> "CLOSED", flags |-> {},
     rcv_nxt |-> 0, rcv_wnd |-> TCP_WND, rcv_ann_wnd |-> TCP_WND,
     rcv_ann_right_edge |-> 0,
     snd_nxt |-> iss, lastack |-> iss, snd_lbb |-> iss,
     snd_wl1 |-> 0, snd_wl2 |-> iss, snd_wnd |-> 0, snd_wnd_max |-> 0,
     snd_buf |-> TCP_SND_BUF, snd_queuelen |-> 0, acked |-> 0,
     cwnd |-> 1, ssthresh |-> 0, dupacks |-> 0, nrtx |-> 0,
     unsent |-> <<>>, unacked |-> <<>>, ooseq |-> <<>>,
     t_delack |-> FALSE, delack_counter |-> 0,
     t_rexmit |-> FALSE, t_persist |-> FALSE,
     out |-> <<>>, recv_data |-> <<>>, recv_flags |-> {}]

-----------------------------------------------------------------------------
(* Putting segments on the wire *)

\* The 16-bit window field: SYN segments carry the window unscaled, and cut off.
WireWnd(p, flags) ==
    (IF "SYN" \in flags THEN p.rcv_ann_wnd ELSE p.rcv_ann_wnd \div WndUnit) % WireSpace

Emit(p, seqno, data, flags) ==
    [p EXCEPT !.out = Append(@, [seqno |-> seqno, ackno |-> p.rcv_nxt,
                                 flags |-> flags, data |-> data,
                                 wnd |-> WireWnd(p, flags)])]

\* what every segment that announces the window also records
Announce(p) == [p EXCEPT !.rcv_ann_right_edge = SeqNo(p.rcv_nxt + p.rcv_ann_wnd)]

AckSent(p) == [p EXCEPT !.flags = @ \ {"ACK_NOW"}, !.t_delack = FALSE]

tcp_send_empty_ack(p) ==
    AckSent(Announce(Emit(p, p.snd_nxt, <<>>, {"ACK"})))

tcp_output_segment(p, s) ==
    [Announce(Emit(p, s.seqno, s.data, s.flags)) EXCEPT !.t_rexmit = TRUE]

\* the reset segment
tcp_rst(seqno, ackno) ==
    [seqno |-> seqno, ackno |-> ackno, flags |-> {"RST", "ACK"},
     data |-> <<>>, wnd |-> TCP_WND \div WndUnit]

\* the window test of tcp_output, in unsigned arithmetic
InWindow(p, s) ==
    SeqNo(s.seqno - p.lastack + Len(s.data)) <= Min({p.snd_wnd, p.cwnd})

tcp_do_output_nagle(p) ==
    \/ p.unacked = <<>>
    \/ {"NODELAY", "INFR"} \cap p.flags # {}
    \/ Len(p.unsent) > 1
    \/ Len(Head(p.unsent).data) >= MSS
    \/ p.snd_buf = 0
    \/ p.snd_queuelen >= TCP_SND_QUEUELEN

MayOutput(p) ==
    /\ p.unsent # <<>>
    /\ InWindow(p, Head(p.unsent))
    /\ \/ tcp_do_output_nagle(p)
       \/ {"NAGLEMEMERR", "FIN"} \cap p.flags # {}

\* one turn of the loop of tcp_output: the head of unsent goes out and is
\* kept on unacked
OutputHead(p) ==
    LET syn == p.state = "SYN_SENT"
        s == [Head(p.unsent) EXCEPT !.flags = IF syn THEN @ ELSE @ \cup {"ACK"}]
        q == tcp_output_segment(IF syn THEN p ELSE AckSent(p), s)
        nxt == SeqNo(s.seqno + TCP_TCPLEN(s))
    IN  [q EXCEPT !.unsent = Tail(@),
                  !.snd_nxt = IF TCP_SEQ_LT(@, nxt) THEN nxt ELSE @,
                  !.unacked = IF TCP_TCPLEN(s) > 0
                              THEN InsertBySeqno(@, s) ELSE @]

tcp_output(p) ==
    IF /\ "ACK_NOW" \in p.flags
       /\ p.unsent = <<>> \/ ~InWindow(p, Head(p.unsent))
    THEN tcp_send_empty_ack(p)
    ELSE [FoldLeft(LAMBDA q, s : IF MayOutput(q) THEN OutputHead(q) ELSE q,
                   p, p.unsent)
          EXCEPT !.flags = @ \ {"NAGLEMEMERR"}]

-----------------------------------------------------------------------------
(* Queueing *)

\* refused (ERR_MEM) when the queue or the buffer is full
tcp_enqueue_flags(p, f) ==
    LET s == [seqno |-> p.snd_lbb, data |-> <<>>, flags |-> f, clen |-> 1]
    IN  IF p.snd_queuelen >= TCP_SND_QUEUELEN
        THEN [p EXCEPT !.flags = @ \cup {"NAGLEMEMERR"}]
        ELSE IF p.snd_buf = 0 THEN p
        ELSE [p EXCEPT !.unsent = Append(@, s),
                       !.snd_lbb = SeqNo(@ + 1), !.snd_buf = @ - 1,
                       !.flags = IF "FIN" \in f THEN @ \cup {"FIN"} ELSE @,
                       !.snd_queuelen = @ + 1]

\* tcp_send_fin puts the FIN on the last unsent data segment if there is one
FinOnLast(p) ==
    p.unsent # <<>> /\ Last(p.unsent).flags \cap {"SYN", "FIN", "RST"} = {}

tcp_send_fin(p) ==
    IF FinOnLast(p)
    THEN [p EXCEPT !.unsent[Len(p.unsent)].flags = @ \cup {"FIN"},
                   !.flags = @ \cup {"FIN"}]
    ELSE tcp_enqueue_flags(p, {"FIN"})

\* tcp_write cuts data into segments of at most mss_local bytes; a queued
\* zero-copy segment has a pbuf for the header and one for the data
mss_local(p) == Min({MSS, p.snd_wnd_max \div 2})

NewSegments(p, seqno, data) ==
    LET m == mss_local(p)
        n == (Len(data) + m - 1) \div m
    IN  [i \in 1..n |->
            [seqno |-> SeqNo(seqno + (i - 1) * m), flags |-> {}, clen |-> 2,
             data |-> SubSeq(data, (i - 1) * m + 1, Min({i * m, Len(data)}))]]

\* bytes the last unsent segment can still take (phase 2 of tcp_write)
Concat(p, data) ==
    IF p.unsent = <<>> \/ Last(p.unsent).data = <<>> THEN 0
    ELSE Min({Len(data), mss_local(p) - Len(Last(p.unsent).data)})

\* the unsent queue tcp_write leaves
WriteQueue(p, data) ==
    LET k == Concat(p, data)
        grown == IF k = 0 THEN p.unsent
                 ELSE [p.unsent EXCEPT ![Len(p.unsent)].data = @ \o SubSeq(data, 1, k),
                                       ![Len(p.unsent)].clen = @ + 1]
    IN  grown \o NewSegments(p, p.snd_lbb + k, SubSeq(data, k + 1, Len(data)))

\* tcp_write_checks, and the queue length test of phase 3
WriteFits(p, data) ==
    /\ Len(data) <= p.snd_buf
    /\ p.snd_queuelen < TCP_SND_QUEUELEN
    /\ Clen(p.unacked) + Clen(WriteQueue(p, data)) <= TCP_SND_QUEUELEN

tcp_write(p, data) ==
    IF WriteFits(p, data)
    THEN LET q == WriteQueue(p, data)
         IN  [p EXCEPT !.unsent = q,
                       !.snd_lbb = SeqNo(@ + Len(data)),
                       !.snd_buf = @ - Len(data),
                       !.snd_queuelen = @ + Clen(q) - Clen(p.unsent)]
    ELSE [p EXCEPT !.flags = @ \cup {"NAGLEMEMERR"}]

-----------------------------------------------------------------------------
(* Retransmission *)

\* Mutant: segments other than a SYN wait for the next output.
tcp_rexmit_rto_Silent(p) ==
    LET q == [p EXCEPT !.unsent = p.unacked \o @, !.unacked = <<>>, !.nrtx = @ + 1]
    IN  IF p.state = "SYN_SENT" THEN tcp_output(q) ELSE q

\* all of unacked goes back to the head of unsent
tcp_rexmit_rto(p) ==
    IF p.unacked = <<>> THEN p
    ELSE tcp_output([p EXCEPT !.unsent = p.unacked \o @, !.unacked = <<>>,
                              !.nrtx = @ + 1])

\* the first unacked segment goes back to its place in unsent
tcp_rexmit(p) ==
    IF p.unacked = <<>> THEN p
    ELSE [p EXCEPT !.unsent = InsertBySeqno(@, Head(p.unacked)),
                   !.unacked = Tail(@), !.nrtx = @ + 1]

tcp_rexmit_fast(p) ==
    IF p.unacked = <<>> \/ "INFR" \in p.flags THEN p
    ELSE LET half == Min({p.cwnd, p.snd_wnd}) \div 2
             thr == IF half < 2 * MSS THEN 2 * MSS ELSE half
         IN  [tcp_rexmit(p) EXCEPT !.ssthresh = thr, !.cwnd = thr + 3 * MSS,
                                   !.flags = @ \cup {"INFR"}]

\* one byte, or the FIN, of the first segment not acknowledged
tcp_zero_window_probe(p) ==
    LET q == p.unacked \o p.unsent
        s == Head(q)
        fin == "FIN" \in s.flags /\ s.data = <<>>
    IN  IF q = <<>> THEN p
        ELSE Announce(Emit(p, s.seqno, IF fin THEN <<>> ELSE SubSeq(s.data, 1, 1),
                           {"ACK"} \cup IF fin THEN {"FIN"} ELSE {}))

-----------------------------------------------------------------------------
(* The receive window *)

\* Mutant: the window is closed until it can grow by a worthwhile amount.
tcp_update_rcv_ann_wnd_Shrinks(p) ==
    LET edge == SeqNo(p.rcv_nxt + p.rcv_wnd)
        step == Min({TCP_WND \div 2, MSS})
    IN  [p EXCEPT !.rcv_ann_wnd =
            IF TCP_SEQ_GEQ(edge, p.rcv_ann_right_edge + step) THEN p.rcv_wnd ELSE 0]

\* the window to announce: the right edge only moves by a worthwhile amount
\* and never back
tcp_update_rcv_ann_wnd(p) ==
    LET edge == SeqNo(p.rcv_nxt + p.rcv_wnd)
        step == Min({TCP_WND \div 2, MSS})
        kept == IF TCP_SEQ_GT(p.rcv_nxt, p.rcv_ann_right_edge) THEN 0
                ELSE SeqNo(p.rcv_ann_right_edge - p.rcv_nxt)
    IN  [p EXCEPT !.rcv_ann_wnd =
            IF TCP_SEQ_GEQ(edge, p.rcv_ann_right_edge + step)
            THEN p.rcv_wnd ELSE kept]

\* what tcp_update_rcv_ann_wnd returns
WndInflation(p) ==
    LET edge == SeqNo(p.rcv_nxt + p.rcv_wnd)
    IN  IF TCP_SEQ_GEQ(edge, p.rcv_ann_right_edge + Min({TCP_WND \div 2, MSS}))
        THEN SeqNo(edge - p.rcv_ann_right_edge) ELSE 0

\* the application has consumed len bytes
tcp_recved(p, len) ==
    LET wide == [p EXCEPT !.rcv_wnd = Min({@ + len, TCP_WND})]
        q == tcp_update_rcv_ann_wnd(wide)
    IN  IF WndInflation(wide) >= TCP_WND \div 4
        THEN tcp_output([q EXCEPT !.flags = @ \cup {"ACK_NOW"}]) ELSE q

\* every second segment is acknowledged at once, the others with a delay
tcp_ack(p) ==
    IF ~p.t_delack THEN [p EXCEPT !.delack_counter = 1, !.t_delack = TRUE]
    ELSE IF p.delack_counter + 1 >= 2
    THEN [p EXCEPT !.delack_counter = @ + 1, !.t_delack = FALSE,
                   !.flags = @ \cup {"ACK_NOW"}]
    ELSE [p EXCEPT !.delack_counter = @ + 1]

tcp_ack_now(p) == [p EXCEPT !.flags = @ \cup {"ACK_NOW"}]
=============================================================================
