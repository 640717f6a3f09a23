------------------------------- MODULE Sockets -------------------------------
(***************************************************************************)
(* A thread of an IX application from its handlers down to the TCP stack:  *)
(* the echo server and the echo client (apps/echoserver.c, echoclient.c),  *)
(* the event library (libix/ixev.c), the batched system calls              *)
(* (libix/main.c, dp/core/syscall.c, inc/ix/syscall.h) and the kernel's    *)
(* socket objects (dp/net/tcp_api.c).  TCP itself, the subject of module   *)
(* Tcp, is the environment here: it delivers the peer's bytes in order,    *)
(* accepts bytes while its send buffer has room, reports acknowledgements, *)
(* and ends a connection with a FIN or a reset.                            *)
(*                                                                         *)
(* The thread alternates between the kernel, which executes the batched    *)
(* calls in karr and then collects events in uarr (sys_bpoll), and the     *)
(* user, who handles the calls' return values and then the events          *)
(* (ixev_wait).  Nothing else runs on the thread, so each of those is one  *)
(* step and `phase' says which comes next.                                 *)
(*                                                                         *)
(* A connection's kernel object and its user context come from pools and   *)
(* are reused; both carry the connection's name c.  Byte n of a stream is  *)
(* the number n; an outgoing byte also names the buffer it is stored in,   *)
(* because the kernel transmits from user memory.                          *)
(***************************************************************************)
EXTENDS Integers, Sequences, FiniteSets, SequencesExt, FiniteSetsExt

CONSTANTS Conns, NULL,
          Bufs,                  \* the buffers of ixev_buf_pool
          IXEV_RECV_DEPTH, IXEV_SEND_DEPTH, IXEV_SEND_WIN_SIZE, BUF_SIZE,
          TCP_SND_BUF,
          Loads                  \* the applications' message size (msg_size) and bounds
                                 \* on what the network does: the bytes that the peer
                                 \* of c sends (bytes[c]), how often c is opened
                                 \* (opens[c]), the events of one poll (events)

VARIABLES mode,     \* the application: "server" or "client"
          load,     \* the member of Loads that bounds this behaviour
          phase,    \* what the thread does next
          running,  \* the connection whose handler runs, in phase "handler"
          karr,     \* batched system calls not yet executed
          rets,     \* executed calls whose return value is not yet handled
          uarr,     \* events for the user
          cookie,   \* the kernel's per-CPU syscall_cookie
          api,      \* struct tcpapi_pcb of every connection
          inflight, \* bytes given to TCP and not acknowledged
          peer,     \* the remote end: bytes sent, bytes received, open, opens
          ctx,      \* struct ixev_ctx of every connection
          app,      \* the application's state of every connection
          bufs      \* the owner of every ixev_buf, or NULL

kernel == <<cookie, api, inflight, peer>>
user == <<ctx, app, bufs>>
vars == <<mode, load, phase, running, karr, rets, uarr, kernel, user>>

ASSUME SocketsAssumption ==
    /\ \A l \in Loads : l.msg_size \in Nat \ {0}
    /\ BUF_SIZE \in Nat \ {0}
    /\ IXEV_SEND_WIN_SIZE \in Nat \ {0} /\ IXEV_SEND_DEPTH \in Nat \ {0}

-------------------------------------------------------------------------------
\* The argument of main.
msg_size == load.msg_size

(* Sequences of blocks: an scatter-gather array, a ring, a list of pbufs.    *)

Bytes(s) == FlattenSeq(s)

Sum(s, n) == Len(Bytes(SubSeq(s, 1, n)))

\* s without its first n bytes; a block cut in the middle keeps its rest.
DropBytes(s, n) ==
    LET k == CHOOSE i \in 0 .. Len(s) :
                Sum(s, i) <= n /\ (i = Len(s) \/ Sum(s, i + 1) > n)
        rest == SubSeq(s, k + 1, Len(s))
    IN  IF rest = <<>> THEN <<>>
        ELSE [rest EXCEPT ![1] = SubSeq(@, n - Sum(s, k) + 1, Len(@))]

-------------------------------------------------------------------------------
(* Kernel: events for the user and struct tcpapi_pcb.                        *)

usys(ev, c, ck, data) == [ev |-> ev, c |-> c, cookie |-> ck, data |-> data]

\* early remembers, for the properties, a connection that ended before accept.
NoApi == [used |-> FALSE, alive |-> FALSE, pcb |-> FALSE, cookie |-> NULL,
          accepted |-> FALSE, id |-> FALSE, recvd |-> <<>>, early |-> FALSE]

\* Mutant: only the first pbuf of a chain is reported.
recv_a_pbuf_First(c, chain) == <<usys("recv", c, api[c].cookie, chain[1])>>

\* recv_a_pbuf: one event for every pbuf of the chain.
recv_a_pbuf(c, chain) == [i \in 1 .. Len(chain) |-> usys("recv", c, api[c].cookie, chain[i])]

handle_to_tcpapi(c) == api[c].used

\* What the user finds in the descriptor of an executed call.  stale marks, for
\* the properties, a call on a freed object.
bsys_ret(call, ctx_, ret) == [call |-> call, ctx |-> ctx_, ret |-> ret, stale |-> FALSE]

\* bsys_tcp_accept reports what arrived before the application had a context.
bsys_tcp_accept(c, d) ==
    /\ api' = [api EXCEPT ![c].id = FALSE, ![c].cookie = d.cookie, ![c].accepted = TRUE]
    /\ uarr' = uarr \o FlattenSeq([i \in 1 .. Len(api[c].recvd) |->
                       [j \in 1 .. Len(api[c].recvd[i]) |->
                           usys("recv", c, d.cookie, api[c].recvd[i][j])]])
    /\ rets' = Append(rets, bsys_ret("accept", api[c].cookie, 0))
    /\ UNCHANGED <<inflight, peer>>


\* bsys_tcp_sendv: TCP takes what its send buffer has room for.
bsys_tcp_sendv(c) ==
    LET out == Bytes(ctx[c].send)
        n == Min({Len(out), TCP_SND_BUF - Len(inflight[c])})
    IN  /\ inflight' = IF api[c].alive
                       THEN [inflight EXCEPT ![c] = @ \o SubSeq(out, 1, n)]
                       ELSE inflight
        /\ rets' = Append(rets, bsys_ret("sendv", api[c].cookie,
                                        IF api[c].alive THEN n ELSE -1))
        /\ UNCHANGED <<uarr, api, peer>>

\* bsys_tcp_recv_done frees the chains whose first pbuf's length fits what is
\* left of len; the rest of len is forgotten.
FreedBy(c, len) ==
    Max({k \in 0 .. Len(api[c].recvd) :
            Sum([i \in 1 .. Len(api[c].recvd) |-> api[c].recvd[i][1]], k) <= len})

bsys_tcp_recv_done(c, len) ==
    /\ api' = [api EXCEPT ![c].recvd = SubSeq(@, FreedBy(c, len) + 1, Len(@))]
    /\ rets' = Append(rets, bsys_ret("recv_done", api[c].cookie, 0))
    /\ UNCHANGED <<uarr, inflight, peer>>

\* bsys_tcp_close: tcp_close_with_reset drops the connection and its queues.
bsys_tcp_close(c) ==
    /\ api' = [api EXCEPT ![c] = NoApi]
    /\ inflight' = [inflight EXCEPT ![c] = <<>>]
    /\ peer' = [peer EXCEPT ![c].open = FALSE]
    /\ rets' = Append(rets, bsys_ret("close", api[c].cookie, 0))
    /\ UNCHANGED uarr

\* bsys_tcp_connect starts a connection; or it fails before it has a
\* tcpapi_pcb, or after (tcp_bind, tcp_connect), when tcp_abort reports the
\* connection dead and nobody frees the object.
bsys_tcp_connect(c) ==
    \E err \in {"ok", "no_pcb", "connect_fail"} :
       /\ api' = IF err = "no_pcb" THEN api
                 ELSE [api EXCEPT ![c] = [NoApi EXCEPT !.used = TRUE, !.alive = (err = "ok"),
                                          !.pcb = (err = "ok"), !.cookie = c, !.accepted = TRUE]]
       /\ uarr' = IF err = "connect_fail" THEN Append(uarr, usys("dead", c, c, <<>>)) ELSE uarr
       /\ rets' = Append(rets, bsys_ret("connect", c, IF err = "ok" THEN 0 ELSE -1))
       /\ UNCHANGED <<inflight, peer>>

(***************************************************************************)
(* A call on a freed object.  The word that was `alive' now links the pool:*)
(* a pointer gives the handle away as unallocated and leaves the previous  *)
(* call's cookie in syscall_cookie; the NULL at the end of a list passes   *)
(* for a connection that is not alive, and its own cookie is still there.  *)
(***************************************************************************)
OnFreed(d) ==
    \E ck \in {cookie, d.c} :
       /\ cookie' = ck
       /\ rets' = Append(rets, [bsys_ret(d.call, ck, -1) EXCEPT !.stale = TRUE])
       /\ UNCHANGED <<uarr, api, inflight, peer>>

(***************************************************************************)
(* bsys_dispatch_one: execute the next batched call.  The cookie returned  *)
(* is whatever syscall_cookie holds.                                       *)
(***************************************************************************)
bsys_dispatch_one ==
    /\ phase = "dispatch" /\ karr # <<>>
    /\ karr' = Tail(karr)
    /\ LET d == Head(karr)
       IN  IF d.call = "connect"
           THEN cookie' = d.c /\ bsys_tcp_connect(d.c)
           ELSE IF d.call = "reject"
           THEN /\ rets' = Append(rets, bsys_ret("reject", cookie, -1))
                /\ UNCHANGED <<uarr, cookie, api, inflight, peer>>
           ELSE IF ~handle_to_tcpapi(d.c) THEN OnFreed(d)
           ELSE /\ cookie' = api[d.c].cookie
                /\ \/ d.call = "accept" /\ bsys_tcp_accept(d.c, d)
                   \/ d.call = "sendv" /\ bsys_tcp_sendv(d.c)
                   \/ d.call = "recv_done" /\ bsys_tcp_recv_done(d.c, d.len)
                   \/ d.call = "close" /\ bsys_tcp_close(d.c)
    /\ UNCHANGED <<mode, load, phase, running, user>>

\* The batch is done: sys_bpoll turns to timers and the network.
bsys_dispatch ==
    /\ phase = "dispatch" /\ karr = <<>>
    /\ phase' = "input"
    /\ UNCHANGED <<mode, load, running, karr, rets, uarr, kernel, user>>

-------------------------------------------------------------------------------
(* Kernel: the callbacks of the TCP stack (lwip_tcp_event), while sys_bpoll  *)
(* runs timers and processes packets.                                        *)

Event(c, e) == uarr' = Append(uarr, usys(e, c, api[c].cookie, <<>>))

Input(c) ==
    /\ phase = "input" /\ Len(uarr) < load.events
    /\ UNCHANGED <<mode, load, phase, running, karr, rets, cookie, user>>

\* LWIP_EVENT_ACCEPT: a peer's handshake completes.
on_accept(c) ==
    /\ Input(c)
    /\ ~api[c].used /\ ~peer[c].open /\ peer[c].opens < load.opens[c]
    /\ peer' = [peer EXCEPT ![c] = [sent |-> 0, got |-> <<>>, open |-> TRUE,
                                    opens |-> @.opens + 1]]
    /\ api' = [api EXCEPT ![c] = [NoApi EXCEPT !.used = TRUE, !.alive = TRUE,
                                               !.pcb = TRUE, !.id = TRUE]]
    /\ uarr' = Append(uarr, usys("knock", c, NULL, <<>>))
    /\ UNCHANGED inflight

\* LWIP_EVENT_CONNECTED: the handshake of an outgoing connection completes.
on_connected(c) ==
    /\ Input(c)
    /\ api[c].pcb /\ mode = "client" /\ ~peer[c].open /\ peer[c].opens < load.opens[c]
    /\ peer' = [peer EXCEPT ![c].open = TRUE, ![c].opens = @ + 1]
    /\ Event(c, "connected")
    /\ UNCHANGED <<api, inflight>>

\* The bytes that peer c may still send: the client's echo, or requests.
PeerMaySend(c) == (IF mode = "client" THEN Len(peer[c].got) ELSE load.bytes[c]) - peer[c].sent

\* LWIP_EVENT_RECV: a pbuf, or a chain of two, with the peer's next bytes.
on_recv(c) ==
    /\ Input(c)
    /\ api[c].pcb /\ api[c].alive /\ peer[c].open
    /\ \E n \in 1 .. PeerMaySend(c), m \in 0 .. load.bytes[c] :
          LET next == [i \in 1 .. n |-> peer[c].sent + i]
              chain == IF m = 0 THEN <<next>>
                       ELSE <<SubSeq(next, 1, m), SubSeq(next, m + 1, n)>>
          IN  /\ m < n
              /\ api' = [api EXCEPT ![c].recvd = Append(@, chain)]
              /\ uarr' = IF api[c].accepted THEN uarr \o recv_a_pbuf(c, chain) ELSE uarr
              /\ peer' = [peer EXCEPT ![c].sent = @ + n]
    /\ UNCHANGED inflight

\* LWIP_EVENT_SENT: the peer acknowledges bytes.
on_sent(c) ==
    /\ Input(c)
    /\ api[c].pcb /\ peer[c].open
    /\ \E n \in 1 .. Len(inflight[c]) :
          /\ inflight' = [inflight EXCEPT ![c] = SubSeq(@, n + 1, Len(@))]
          /\ peer' = [peer EXCEPT ![c].got = @ \o [i \in 1 .. n |-> inflight[c][i][2]]]
          /\ uarr' = Append(uarr, usys("sent", c, api[c].cookie, n))
    /\ UNCHANGED api

\* LWIP_EVENT_RECV without data: the peer's FIN.
on_fin(c) ==
    /\ Input(c)
    /\ api[c].pcb /\ api[c].alive /\ peer[c].open
    /\ api' = [api EXCEPT ![c].alive = FALSE, ![c].early = api[c].cookie = NULL]
    /\ Event(c, "dead")
    /\ UNCHANGED <<inflight, peer>>

\* LWIP_EVENT_ERR: a reset from the peer, or an abort by TCP.
on_err(c) ==
    /\ Input(c)
    /\ api[c].pcb
    /\ api' = [api EXCEPT ![c].alive = FALSE, ![c].pcb = FALSE,
                          ![c].early = @ \/ api[c].cookie = NULL]
    /\ inflight' = [inflight EXCEPT ![c] = <<>>]
    /\ peer' = [peer EXCEPT ![c].open = FALSE]
    /\ Event(c, "dead")

(***************************************************************************)
(* tcp_unified_timer_handler gives up after TCP_MAXRTX retransmissions: it *)
(* removes the pcb and reports nothing, so the object stays alive and      *)
(* keeps its pointer.  timer_run comes before the packets of a poll.       *)
(***************************************************************************)
GiveUp(c) ==
    /\ Input(c)
    /\ api[c].pcb /\ \A i \in DOMAIN uarr : uarr[i].c # c
    /\ inflight[c] # <<>> \/ (mode = "client" /\ peer[c].opens = 0)
    /\ api' = [api EXCEPT ![c].pcb = FALSE]
    /\ inflight' = [inflight EXCEPT ![c] = <<>>]
    /\ peer' = [peer EXCEPT ![c].open = FALSE]
    /\ UNCHANGED uarr

\* sys_bpoll returns once there was a batch or there are events.
sys_bpoll ==
    /\ phase = "input" /\ (rets # <<>> \/ uarr # <<>>)
    /\ phase' = "rets"
    /\ ctx' = [c \in Conns |-> [ctx[c] EXCEPT !.recv_done_desc = 0, !.sendv_desc = 0]]
    /\ UNCHANGED <<mode, load, running, karr, rets, uarr, kernel, app, bufs>>

-------------------------------------------------------------------------------
(* User: libix/ixev.c.  A descriptor pointer is an index into karr; advancing*)
(* ixev_generation, as sys_bpoll returns, invalidates them all.              *)

\* wronged remembers, for the properties, a context marked dead by a stale call.
NoCtx == [used |-> FALSE, handle |-> FALSE, en_mask |-> {}, recv |-> <<>>, send |-> <<>>,
          is_dead |-> FALSE, wronged |-> FALSE, send_total |-> 0, sent_total |-> 0, refs |-> <<>>,
          cur_buf |-> NULL, fill |-> 0, recv_done_desc |-> 0, sendv_desc |-> 0]

\* unseen remembers, for the properties, that there was something to read when
\* the handler that reads was installed.
NoApp == [handler |-> NULL, bytes_left |-> 0, data |-> <<>>, unseen |-> FALSE]

Call(call, c, len) == [call |-> call, c |-> c, len |-> len, cookie |-> c]

\* __ixev_recv_done: one descriptor per context and batch accumulates.
RecvDone(k, x, c, len) ==
    IF x.recv_done_desc = 0 THEN Append(k, Call("recv_done", c, len))
    ELSE [k EXCEPT ![x.recv_done_desc].len = @ + len]

\* __ixev_sendv: likewise; the kernel reads the array when it executes it.
Sendv(k, x, c) == IF x.sendv_desc = 0 THEN Append(k, Call("sendv", c, 0)) ELSE k

DescIndex(desc, k) == IF desc = 0 THEN Len(k) ELSE desc

Freed(c, refs) == [b \in Bufs |-> IF \E i \in DOMAIN refs : refs[i].buf = b
                                 THEN NULL ELSE bufs[b]]

(***************************************************************************)
(* ixev_handle_one_ret: what a batched call returned.                      *)
(***************************************************************************)
ixev_handle_one_ret ==
    /\ phase = "rets" /\ rets # <<>>
    /\ rets' = Tail(rets)
    /\ LET r == Head(rets)
           c == r.ctx
       IN  \/ /\ r.call = "connect"
              /\ ctx' = [ctx EXCEPT ![c].handle = r.ret >= 0]
              /\ UNCHANGED <<phase, app, bufs>>
           \/ /\ r.call = "sendv"
              /\ ctx' = [ctx EXCEPT ![c] =
                            IF r.ret < 0 THEN [@ EXCEPT !.is_dead = TRUE, !.wronged = @ \/ r.stale]
                            ELSE [@ EXCEPT !.send = DropBytes(@, r.ret)]]
              /\ UNCHANGED <<phase, app, bufs>>
           \/ /\ r.call = "close"          \* ixev_handle_close_ret
              /\ IF r.ret < 0 THEN UNCHANGED <<ctx, app, bufs>>
                 ELSE /\ bufs' = Freed(c, ctx[c].refs)
                      /\ ctx' = [ctx EXCEPT ![c] = NoCtx]
                      /\ app' = [app EXCEPT ![c] = NoApp]
              /\ UNCHANGED phase
           \/ /\ r.call \in {"accept", "reject", "recv_done"}
              /\ phase' = IF r.ret = 0 THEN phase ELSE "exit"     \* ixev_bad_ret
              /\ UNCHANGED <<ctx, app, bufs>>
    /\ UNCHANGED <<mode, load, running, karr, uarr, kernel>>

ixev_wait ==
    /\ phase = "rets" /\ rets = <<>>
    /\ phase' = "events"
    /\ UNCHANGED <<mode, load, running, karr, rets, uarr, kernel, user>>

(***************************************************************************)
(* ix_handle_events: the next event.  Run(c, w) calls c's handler when one *)
(* of the events w is enabled; else the event is only noted (in trig_mask, *)
(* which nothing reads).                                                   *)
(***************************************************************************)
Run(c, w) == IF ctx[c].en_mask \cap w # {} THEN phase' = "handler" /\ running' = c
             ELSE UNCHANGED <<phase, running>>

ixev_tcp_knock(c) ==
    /\ IF mode = "server"
       THEN /\ ctx' = [ctx EXCEPT ![c] = [NoCtx EXCEPT !.used = TRUE, !.handle = TRUE,
                                                       !.en_mask = {"IN"}]]
            /\ app' = [app EXCEPT ![c] = [NoApp EXCEPT !.handler = "main", !.bytes_left = msg_size]]
            /\ karr' = Append(karr, Call("accept", c, 0))
       ELSE /\ karr' = Append(karr, Call("reject", c, 0))
            /\ UNCHANGED <<ctx, app>>
    /\ UNCHANGED <<phase, running, bufs>>

ixev_tcp_dead(c, ck) ==
    IF ck = NULL THEN UNCHANGED <<phase, running, karr, user>>
    ELSE /\ Run(c, {"HUP", "IN"})
         /\ ctx' = [ctx EXCEPT ![c].is_dead = TRUE, ![c].en_mask = {}]
         /\ UNCHANGED <<karr, app, bufs>>

ixev_tcp_recv(c, bytes) ==
    /\ IF Len(ctx[c].recv) + 1 >= IXEV_RECV_DEPTH
       THEN phase' = "exit" /\ UNCHANGED <<running, ctx>>     \* out of receive memory
       ELSE Run(c, {"IN"}) /\ ctx' = [ctx EXCEPT ![c].recv = Append(@, bytes)]
    /\ UNCHANGED <<karr, app, bufs>>


Acked(x, len) == SelectSeq(x.refs, LAMBDA r : r.send_pos <= x.sent_total + len)

ixev_tcp_sent(c, len) ==
    LET acked == Acked(ctx[c], len)
        left == SubSeq(ctx[c].refs, Len(acked) + 1, Len(ctx[c].refs))
        again == ctx[c].send # <<>>
    IN  /\ bufs' = Freed(c, acked)
        /\ karr' = IF again THEN Sendv(karr, ctx[c], c) ELSE karr
        /\ ctx' = [ctx EXCEPT ![c].sent_total = @ + len, ![c].refs = left,
                              ![c].cur_buf = IF left = <<>> THEN NULL ELSE @,
                              ![c].sendv_desc = IF again THEN DescIndex(@, karr') ELSE @]
        /\ Run(c, {"OUT"})
        /\ UNCHANGED app

\* client_dialed starts the client whatever the result.
ixev_tcp_connected(c) ==
    /\ ctx' = [ctx EXCEPT ![c].en_mask = {"OUT"}]
    /\ app' = [app EXCEPT ![c] = [NoApp EXCEPT !.handler = "send", !.bytes_left = msg_size]]
    /\ phase' = "handler" /\ running' = c
    /\ UNCHANGED <<karr, bufs>>

ix_handle_events ==
    /\ phase = "events" /\ uarr # <<>>
    /\ uarr' = Tail(uarr)
    /\ LET e == Head(uarr)
       IN  \/ e.ev = "knock" /\ ixev_tcp_knock(e.c)
           \/ e.ev = "dead" /\ ixev_tcp_dead(e.c, e.cookie)
           \/ e.ev = "recv" /\ ixev_tcp_recv(e.cookie, e.data)
           \/ e.ev = "sent" /\ ixev_tcp_sent(e.cookie, e.data)
           \/ e.ev = "connected" /\ ixev_tcp_connected(e.c)
    /\ UNCHANGED <<mode, load, rets, kernel>>

\* ixev_wait's loop in the application: the next sys_bpoll, with this batch.
ix_poll ==
    /\ phase = "events" /\ uarr = <<>>
    /\ phase' = "dispatch"
    /\ UNCHANGED <<mode, load, running, karr, rets, uarr, kernel, user>>

-------------------------------------------------------------------------------
(* User: the library calls and handlers of the applications.  One step is    *)
(* one turn of the handler's loop.                                           *)

Return == phase' = "events" /\ running' = NULL

Again == UNCHANGED <<phase, running>>

ixev_close(c) ==
    /\ ctx' = [ctx EXCEPT ![c].en_mask = {}]
    /\ karr' = Append(karr, Call("close", c, 0))

\* ixev_recv: at most len bytes from the ring.
Readable(c, len) == Min({len, Len(Bytes(ctx[c].recv))})

AfterRecv(x, n, k) == [x EXCEPT !.recv = DropBytes(@, n),
                                !.recv_done_desc = DescIndex(@, k)]

\* ixev_window_len
Window(x, len) == Min({IXEV_SEND_WIN_SIZE - x.send_total + x.sent_total, len})

(***************************************************************************)
(* ixev_send copies what the window, the current buffer, the send array    *)
(* and the pool allow: hot bytes into the current buffer, the rest into    *)
(* new ones.  x is the context, k the batch; actual is the window's limit. *)
(***************************************************************************)
FreeBufs == SetToSeq({b \in Bufs : bufs[b] = NULL})

HotBytes(x, actual) ==
    IF x.send # <<>> /\ x.cur_buf # NULL THEN Min({actual, BUF_SIZE - x.fill}) ELSE 0

NewBufs(x, rest) ==
    Min({(rest + BUF_SIZE - 1) \div BUF_SIZE, IXEV_SEND_DEPTH - Len(x.send), Len(FreeBufs)})

InBuf(b, bytes) == [i \in 1 .. Len(bytes) |-> <<b, bytes[i]>>]

\* ixev_buf_store into the current buffer; its reference moves along.
Stored(x, bytes, hot) ==
    IF hot = 0 THEN x
    ELSE [x EXCEPT !.send[Len(x.send)] = @ \o InBuf(x.cur_buf, SubSeq(bytes, 1, hot)),
                   !.refs[Len(x.refs)].send_pos = x.send_total + hot,
                   !.fill = @ + hot]

\* The cold path: one array entry and one reference for every new buffer.
InNewBufs(x, bytes, hot, new, so_far) ==
    LET end(j) == Min({hot + j * BUF_SIZE, so_far})
    IN  [x EXCEPT
           !.send = @ \o [j \in 1 .. new |->
                       InBuf(FreeBufs[j], SubSeq(bytes, end(j - 1) + 1, end(j)))],
           !.refs = @ \o [j \in 1 .. new |->
                       [buf |-> FreeBufs[j], send_pos |-> x.send_total + end(j)]],
           !.fill = IF new = 0 THEN @ ELSE so_far - end(new - 1),
           !.cur_buf = IF new = 0 THEN @ ELSE FreeBufs[new]]

SendInto(x, k, c, bytes, actual, hot, new) ==
    LET so_far == Min({actual, hot + new * BUF_SIZE})
        y == InNewBufs(Stored(x, bytes, hot), bytes, hot, new, so_far)
        k2 == IF new > 0 THEN Sendv(k, x, c) ELSE k
    IN  [n |-> so_far, k |-> k2, new |-> new,
         x |-> [y EXCEPT !.send_total = @ + so_far,
                         !.sendv_desc = IF new > 0 THEN DescIndex(@, k2) ELSE @,
                         !.cur_buf = IF so_far < actual /\ Len(y.send) < IXEV_SEND_DEPTH
                                     THEN NULL ELSE @]]

ixev_send(x, k, c, bytes) ==
    LET actual == Window(x, Len(bytes))
        hot == HotBytes(x, actual)
    IN  SendInto(x, k, c, bytes, actual, hot, NewBufs(x, actual - hot))

\* The effects of a send s = ixev_send(...) by c.
Commit(c, s) ==
    /\ karr' = s.k
    /\ bufs' = [b \in Bufs |-> IF \E j \in 1 .. s.new : FreeBufs[j] = b THEN c ELSE bufs[b]]

Handler(c, h) ==
    /\ phase = "handler" /\ running = c /\ app[c].handler = h
    /\ UNCHANGED <<mode, load, rets, uarr, kernel>>

(***************************************************************************)
(* pp_main_handler: read into the message; echo a complete one; wait for   *)
(* IXEVOUT with what could not be sent.                                    *)
(***************************************************************************)
pp_main_handler(c) ==
    /\ Handler(c, "main") /\ ~ctx[c].is_dead
    /\ \E n \in {Readable(c, app[c].bytes_left)} :
       \E k \in {RecvDone(karr, ctx[c], c, n)} :
       \E x \in {AfterRecv(ctx[c], n, k)}, d \in {app[c].data \o SubSeq(Bytes(ctx[c].recv), 1, n)} :
          \/ /\ n = 0
             /\ Return
             /\ app' = [app EXCEPT ![c].unseen = FALSE]
             /\ UNCHANGED <<karr, ctx, bufs>>
          \/ /\ 0 < n /\ n < app[c].bytes_left
             /\ Return
             /\ karr' = k
             /\ ctx' = [ctx EXCEPT ![c] = x]
             /\ app' = [app EXCEPT ![c].data = d, ![c].bytes_left = @ - n,
                                   ![c].unseen = FALSE]
             /\ UNCHANGED bufs
          \/ /\ n = app[c].bytes_left
             /\ \E s \in {ixev_send(x, k, c, d)} :
                   /\ Commit(c, s)
                   /\ \/ /\ s.n = msg_size
                         /\ Again
                         /\ ctx' = [ctx EXCEPT ![c] = s.x]
                         /\ app' = [app EXCEPT ![c].data = <<>>, ![c].bytes_left = msg_size]
                      \/ /\ s.n < msg_size
                         /\ Return
                         /\ ctx' = [ctx EXCEPT ![c] = [s.x EXCEPT !.en_mask = {"OUT"}]]
                         /\ app' = [app EXCEPT ![c] = [handler |-> "stream", data |-> d,
                                                       bytes_left |-> msg_size - s.n,
                                                       unseen |-> FALSE]]

Unsent(c) == SubSeq(app[c].data, msg_size - app[c].bytes_left + 1, msg_size)

\* pp_stream_handler: the rest of the message, then back to reading.
pp_stream_handler(c) ==
    /\ Handler(c, "stream") /\ ~ctx[c].is_dead
    /\ Return
    /\ \E s \in {ixev_send(ctx[c], karr, c, Unsent(c))} :
          /\ Commit(c, s)
          /\ IF s.n = app[c].bytes_left
             THEN /\ ctx' = [ctx EXCEPT ![c] = [s.x EXCEPT !.en_mask = {"IN"}]]
                  /\ app' = [app EXCEPT ![c] = [handler |-> "main", data |-> <<>>,
                                                bytes_left |-> msg_size,
                                                unseen |-> ctx[c].recv # <<>>]]
             ELSE /\ ctx' = [ctx EXCEPT ![c] = s.x]
                  /\ app' = [app EXCEPT ![c].bytes_left = @ - s.n]

\* Either handler of the server, told -EIO, closes the connection.
pp_handler_dead(c) ==
    /\ \E h \in {"main", "stream"} : Handler(c, h)
    /\ ctx[c].is_dead
    /\ Return
    /\ ixev_close(c)
    /\ UNCHANGED <<app, bufs>>

(***************************************************************************)
(* The client's main_handler: send a message without copying, then read    *)
(* its echo.  The process exits when the connection has died, or when      *)
(* print_stats meets the end of its input.                                 *)
(***************************************************************************)
ixev_send_zc(c) ==
    /\ Handler(c, "send") /\ ~ctx[c].is_dead
    /\ \E n \in {Window(ctx[c], app[c].bytes_left)} :
          IF n = 0 \/ Len(ctx[c].send) >= IXEV_SEND_DEPTH
          THEN Return /\ UNCHANGED <<karr, ctx, app>>
          ELSE /\ karr' = Sendv(karr, ctx[c], c)
               /\ LET x == [ctx[c] EXCEPT !.cur_buf = NULL, !.send_total = @ + n,
                               !.send = Append(@, [i \in 1 .. n |-> <<NULL, ctx[c].send_total + i>>]),
                               !.sendv_desc = DescIndex(@, karr')]
                  IN  IF n < app[c].bytes_left
                      THEN /\ Return
                           /\ ctx' = [ctx EXCEPT ![c] = x]
                           /\ app' = [app EXCEPT ![c].bytes_left = @ - n]
                      ELSE /\ Again
                           /\ ctx' = [ctx EXCEPT ![c] = [x EXCEPT !.en_mask = {"IN"}]]
                           /\ app' = [app EXCEPT ![c] = [NoApp EXCEPT !.handler = "recv",
                                                                         !.bytes_left = msg_size]]
    /\ UNCHANGED bufs

ClientRecv(c) ==
    /\ Handler(c, "recv") /\ ~ctx[c].is_dead
    /\ \E n \in {Readable(c, app[c].bytes_left)} :
          IF n = 0 THEN Return /\ UNCHANGED <<karr, ctx, app>>
          ELSE /\ karr' = RecvDone(karr, ctx[c], c, n)
               /\ \E x \in {AfterRecv(ctx[c], n, karr')} :
                     IF n < app[c].bytes_left
                     THEN /\ Return
                          /\ ctx' = [ctx EXCEPT ![c] = x]
                          /\ app' = [app EXCEPT ![c].bytes_left = @ - n]
                     ELSE /\ ctx' = [ctx EXCEPT ![c] = [x EXCEPT !.en_mask = {"OUT"}]]
                          /\ app' = [app EXCEPT ![c] = [NoApp EXCEPT !.handler = "send",
                                                                        !.bytes_left = msg_size]]
                          /\ IF ctx[c].send_total >= load.bytes[c]
                             THEN phase' = "exit" /\ running' = NULL      \* EOF on stdin
                             ELSE Again
    /\ UNCHANGED bufs

client_die(c) ==
    /\ \E h \in {"send", "recv"} : Handler(c, h)
    /\ ctx[c].is_dead
    /\ phase' = "exit" /\ running' = NULL
    /\ ixev_close(c)
    /\ UNCHANGED <<app, bufs>>

-------------------------------------------------------------------------------
\* The connection that echoclient's main dials (ixev_dial).
Dialer == CHOOSE c \in Conns : TRUE

Init ==
    /\ mode \in {"server", "client"} /\ load \in Loads
    /\ phase = "dispatch" /\ running = NULL
    /\ karr = IF mode = "client" THEN <<Call("connect", Dialer, 0)>> ELSE <<>>
    /\ rets = <<>> /\ uarr = <<>> /\ cookie = NULL
    /\ api = [c \in Conns |-> NoApi]
    /\ inflight = [c \in Conns |-> <<>>]
    /\ peer = [c \in Conns |-> [sent |-> 0, got |-> <<>>, open |-> FALSE, opens |-> 0]]
    /\ ctx = [c \in Conns |-> [NoCtx EXCEPT !.used = (mode = "client" /\ c = Dialer)]]
    /\ app = [c \in Conns |-> NoApp]
    /\ bufs = [b \in Bufs |-> NULL]

\* The thread's own steps; the others are the network's.
Thread ==
    \/ bsys_dispatch_one \/ bsys_dispatch \/ sys_bpoll
    \/ ixev_handle_one_ret \/ ixev_wait \/ ix_handle_events \/ ix_poll
    \/ \E c \in Conns : \/ pp_main_handler(c) \/ pp_stream_handler(c) \/ pp_handler_dead(c)
                        \/ ixev_send_zc(c) \/ ClientRecv(c) \/ client_die(c)

Network ==
    \E c \in Conns : \/ on_accept(c) \/ on_connected(c) \/ on_recv(c) \/ on_sent(c)
                     \/ on_fin(c) \/ on_err(c) \/ GiveUp(c)

Next == Thread \/ Network

Spec == Init /\ [][Next]_vars

(***************************************************************************)
(* A thread that has work runs; TCP acknowledges what is in flight again   *)
(* and again (the subject of module Tcp).                                  *)
(***************************************************************************)
Busy == ~(phase = "exit" \/ (phase = "input" /\ rets = <<>> /\ uarr = <<>>))

Fairness ==
    /\ []<>~Busy \/ []<><<Thread>>_vars
    /\ \A c \in Conns : []<>(inflight[c] = <<>>) \/ []<><<on_sent(c)>>_vars

FairSpec == Spec /\ Fairness

-------------------------------------------------------------------------------
TypeOK ==
    /\ mode \in {"server", "client"}
    /\ phase \in {"dispatch", "input", "rets", "events", "handler", "exit"}
    /\ running \in Conns \cup {NULL}
    /\ \A c \in Conns :
          /\ Len(ctx[c].recv) < IXEV_RECV_DEPTH /\ Len(ctx[c].send) <= IXEV_SEND_DEPTH
          /\ Len(inflight[c]) <= TCP_SND_BUF /\ ctx[c].fill \in 0 .. BUF_SIZE
          /\ app[c].bytes_left \in 0 .. msg_size
          /\ ctx[c].sent_total <= ctx[c].send_total
    /\ bufs \in [Bufs -> Conns \cup {NULL}]

\* A close of c has been executed and its return value not yet handled.
Closing(c) == \E i \in DOMAIN rets : rets[i].call = "close" /\ rets[i].ctx = c

(***************************************************************************)
(* What a peer receives is the stream it sent (or, from the client, the    *)
(* client's stream), without a gap, a repetition or a stray byte, however  *)
(* the copies into buffers, the partial sends and the retried sends of the *)
(* event library interleave with acknowledgements.                         *)
(***************************************************************************)
EchoPrefix ==
    \A c \in Conns :
       /\ peer[c].got = [i \in 1 .. Len(peer[c].got) |-> i]
       /\ mode = "server" => Len(peer[c].got) <= peer[c].sent

(***************************************************************************)
(* TCP transmits, and retransmits, from the library's buffers: a buffer    *)
(* with a byte not yet acknowledged, or not yet accepted by the kernel, is *)
(* not back in the pool or in the hands of another connection.             *)
(***************************************************************************)
SendHeld ==
    \A c \in Conns : \A p \in Range(inflight[c]) \cup Range(Bytes(ctx[c].send)) :
       p[1] # NULL => bufs[p[1]] = c

\* TCP has given up on c without telling anybody.
GivenUp(c) == api[c].alive /\ ~api[c].pcb

(***************************************************************************)
(* No batched call is executed on a connection object that has been freed, *)
(* or whose pcb has been, with one exception: ixev_tcp_sent, which does    *)
(* not look whether the connection is dead, retries a send in the batch in *)
(* which a handler has closed it.                                          *)
(***************************************************************************)
NoStaleHandle ==
    phase = "dispatch" /\ karr # <<>> =>
       LET d == Head(karr)
       IN  \/ d.call \in {"connect", "reject"}
           \/ api[d.c].used /\ ~GivenUp(d.c)
           \/ d.call = "sendv" /\ Closing(d.c)

(***************************************************************************)
(* A context is marked dead only if its own connection is: the cookie that *)
(* comes back with a failed call is never a neighbour's, unless the failed *)
(* call is such a retry, whose cookie is that of the call before it.       *)
(***************************************************************************)
DeadIsOwn ==
    \A c \in Conns : ctx[c].used /\ ctx[c].is_dead =>
       ~api[c].alive \/ Closing(c) \/ ctx[c].wronged

(***************************************************************************)
(* The server ends only in ixev_tcp_recv, for want of a place in a ring:   *)
(* no accept, reject or recv_done ever fails (ixev_bad_ret).               *)
(***************************************************************************)
ExitIsOverrun ==
    mode = "server" /\ phase = "exit" =>
       \E c \in Conns : Len(ctx[c].recv) + 1 >= IXEV_RECV_DEPTH

\* The thread waits in sys_bpoll with nothing left to handle.
Quiet == phase = "input" /\ rets = <<>> /\ uarr = <<>>

(***************************************************************************)
(* Events are edges, so a thread that goes to wait must not depend on one  *)
(* that has passed.  Data the kernel has not accepted, and a handler that  *)
(* waits to send, have an acknowledgement coming; a handler that waits to  *)
(* read has no complete message in front of it, unless the message came    *)
(* while pp_stream_handler waited: that one installs pp_main_handler and   *)
(* returns, and the message stays in the ring until another packet comes.  *)
(***************************************************************************)
WillWake ==
    Quiet => \A c \in Conns : ctx[c].used /\ api[c].alive /\ ~GivenUp(c) =>
       /\ ctx[c].send # <<>> => inflight[c] # <<>>
       /\ app[c].handler \in {"stream", "send"} => inflight[c] # <<>>
       /\ app[c].handler = "main" => Len(Bytes(ctx[c].recv)) < app[c].bytes_left \/ app[c].unseen

(***************************************************************************)
(* "the user must still close the connection on the local end": once the   *)
(* thread has handled its events no accepted connection is left dead and   *)
(* open, but for three cases that the code misses: the connection died     *)
(* before it was accepted (the event has no cookie yet), or while its      *)
(* handler was waiting to send (no enabled event calls it), or TCP gave up *)
(* on it (no event at all).                                                *)
(***************************************************************************)
DeadIsClosedOrMissed ==
    Quiet /\ mode = "server" =>
       \A c \in Conns : api[c].used =>
          \/ api[c].alive /\ api[c].pcb
          \/ api[c].early \/ app[c].handler = "stream" \/ GivenUp(c)


\* A buffer is out of the pool just as long as its connection refers to it.
NoBufLeaks ==
    \A b \in Bufs, c \in Conns :
       bufs[b] = c <=> \E i \in DOMAIN ctx[c].refs : ctx[c].refs[i].buf = b


(***************************************************************************)
(* A peer that has sent a whole message gets it back, however its bytes    *)
(* were split, unless its connection ends, TCP gives up on it, or the      *)
(* server exits because a ring is full (ExitIsOverrun): small packets, of  *)
(* this connection or another, that arrive while a handler waits to send.  *)
(***************************************************************************)
Echoed ==
    \A c \in Conns :
       (mode = "server" /\ peer[c].sent >= msg_size /\ api[c].alive) ~>
          (Len(peer[c].got) >= msg_size \/ ~api[c].alive \/ GivenUp(c) \/ phase = "exit")
=============================================================================
