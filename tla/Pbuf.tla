-------------------------------- MODULE Pbuf --------------------------------
(***************************************************************************)
(* lwIP's packet buffers (dp/lwip/pbuf.c), as TCP uses them: reference      *)
(* counted buffers linked into chains.  A holder keeps an abstract view of  *)
(* each chain it holds, the bytes it stands for (want); the operations work *)
(* on the linked buffers.  PBUF_RAM buffers own their bytes and may reveal  *)
(* headroom; PBUF_ROM ones point at a received packet (mbuf).               *)
(* Lengths are u16_t in the code: here modulo U16.                          *)
(***************************************************************************)
EXTENDS Integers, Sequences, SequencesExt, FiniteSets

CONSTANTS
    Pbuf,       \* the buffers of the pools
    U16,        \* 2^16
    RamLen,     \* payload length of a buffer TCP allocates
    RomLen,     \* length of a received packet
    Hlen,       \* headroom of PBUF_TRANSPORT
    MaxRef,     \* bound: references a holder keeps to one buffer
    NONE

VARIABLES
    heap,   \* struct pbuf of each buffer, or NONE in the pool
    mbufs,  \* the mbuf field of each buffer, also while it is in the pool
    held,   \* references the stack holds to each buffer
    want,   \* the bytes each held chain stands for
    packets \* received packets, mbufs: "free", "held" or "twice" (freed twice)

vars == <<heap, mbufs, held, want, packets>>

Free == {p \in Pbuf : heap[p] = NONE}
Live == Pbuf \ Free
Holds == {p \in Pbuf : held[p] > 0}
Byte(type, i) == IF type = "RAM" THEN i % 2 ELSE 2

\* struct pbuf: buf is the memory behind payload, pay the offset of payload.
Payload(b) == SubSeq(b.buf, b.pay + 1, b.pay + b.len)

\* The buffers from p on, following next.
Chain(h, p) ==
    LET c[n \in 1..Cardinality(Pbuf)] ==
            IF n = 1 THEN <<p>>
            ELSE LET s == c[n - 1] IN IF h[Last(s)].next = NONE THEN s ELSE Append(s, h[Last(s)].next)
    IN c[Cardinality(Pbuf)]
Flat(h, p) == LET c == Chain(h, p) IN FlattenSeq([i \in 1..Len(c) |-> Payload(h[c[i]])])
pbuf_clen(h, p) == Len(Chain(h, p))

Pointers(q) == {p \in Live : heap[p].next = q}
\* A chain only its holder can reach: what a caller may modify.
Own(p) ==
    /\ p \in Holds /\ Pointers(p) = {}
    /\ \A q \in ToSet(Chain(heap, p)) \ {p} : heap[q].ref = 1
\* The chain, and no second reference to it.
Sole(p) == Own(p) /\ heap[p].ref = 1

Init ==
    /\ heap = [p \in Pbuf |-> NONE]
    /\ mbufs = [p \in Pbuf |-> NONE]
    /\ held = [p \in Pbuf |-> 0]
    /\ want = [p \in Pbuf |-> <<>>]
    /\ packets = [m \in Pbuf |-> "free"]

Min2(a, b) == IF a <= b THEN a ELSE b
Hold(p, w) == held' = [held EXCEPT ![p] = @ + 1] /\ want' = [want EXCEPT ![p] = w]

(***************************************************************************)
(* Allocation.  mbuf is not written: pbuf_free leaves it NULL.              *)
(***************************************************************************)
pbuf_alloc(type, offset, length) ==
    [type |-> type, next |-> NONE, len |-> length, tot_len |-> length, ref |-> 1, pay |-> offset,
     buf |-> [i \in 1..(offset + length) |-> Byte(type, i)]]

alloc_ram(offset, length) ==
    /\ \E p \in Free : LET b == pbuf_alloc("RAM", offset, length)
                        IN heap' = [heap EXCEPT ![p] = b] /\ Hold(p, Payload(b))
    /\ UNCHANGED <<mbufs, packets>>

\* A received packet, named after the buffer it is given; the pool is assumed not to be empty (the result of
\* pbuf_alloc is not tested).
tcp_input_tmp(length) ==
    \E p \in Free :
        LET b == pbuf_alloc("ROM", 0, length)
        IN /\ heap' = [heap EXCEPT ![p] = b] /\ Hold(p, Payload(b))
           /\ mbufs' = [mbufs EXCEPT ![p] = p]
           /\ packets' = [packets EXCEPT ![p] = "held"]

(***************************************************************************)
(* References.                                                              *)
(***************************************************************************)
\* How many buffers at the head of the chain nobody else refers to.
Gone(h, p) ==
    LET c == Chain(h, p) IN CHOOSE k \in 0..Len(c) : /\ \A i \in 1..k : h[c[i]].ref = 1
                                                     /\ k = Len(c) \/ h[c[k + 1]].ref > 1

\* Mutant: the walk goes on past a buffer others refer to.
pbuf_free_PastShared(h, p) ==
    LET c == Chain(h, p)
        freed == {c[i] : i \in {j \in 1..Len(c) : h[c[j]].ref = 1}}
        dropped == {mbufs[q] : q \in freed} \ {NONE}
    IN /\ heap' = [q \in Pbuf |-> IF q \in freed THEN NONE
                                  ELSE IF q \in ToSet(c) THEN [h[q] EXCEPT !.ref = @ - 1] ELSE h[q]]
       /\ mbufs' = [q \in Pbuf |-> IF q \in freed THEN NONE ELSE mbufs[q]]
       /\ packets' = [m \in Pbuf |-> IF m \notin dropped THEN packets[m]
                                     ELSE IF packets[m] = "held" THEN "free" ELSE "twice"]

\* Buffers go back to their pool from the head of the chain on until one is
\* still referred to; each takes its packet with it.
pbuf_free(h, p) ==
    LET c == Chain(h, p)
        k == Gone(h, p)
        freed == {c[i] : i \in 1..k}
        dropped == {mbufs[q] : q \in freed} \ {NONE}
    IN /\ heap' = [q \in Pbuf |-> IF q \in freed THEN NONE
                                  ELSE IF k < Len(c) /\ q = c[k + 1] THEN [h[q] EXCEPT !.ref = @ - 1] ELSE h[q]]
       /\ mbufs' = [q \in Pbuf |-> IF q \in freed THEN NONE ELSE mbufs[q]]
       /\ packets' = [m \in Pbuf |-> IF m \notin dropped THEN packets[m]
                                     ELSE IF packets[m] = "held" THEN "free" ELSE "twice"]

Drop(p) == held' = [held EXCEPT ![p] = @ - 1] /\ want' = [want EXCEPT ![p] = IF held[p] = 1 THEN <<>> ELSE @]

free(p) ==
    /\ p \in Holds
    /\ pbuf_free(heap, p) /\ Drop(p)

pbuf_ref(p) ==
    /\ p \in Holds /\ held[p] < MaxRef
    /\ heap' = [heap EXCEPT ![p].ref = @ + 1]
    /\ Hold(p, want[p])
    /\ UNCHANGED <<mbufs, packets>>

(***************************************************************************)
(* Chains.                                                                  *)
(***************************************************************************)

pbuf_cat(h, t) ==
    LET c == Chain(heap, h)
    IN [q \in Pbuf |-> IF q \notin ToSet(c) THEN heap[q]
                       ELSE [heap[q] EXCEPT !.tot_len = (@ + heap[t].tot_len) % U16,
                                            !.next = IF q = Last(c) THEN t ELSE @]]

\* The holder's reference to t becomes the link's.
cat(h, t) ==
    /\ h # t /\ Sole(h) /\ Sole(t)
    /\ heap' = pbuf_cat(h, t)
    /\ held' = [held EXCEPT ![t] = @ - 1]
    /\ want' = [want EXCEPT ![h] = @ \o want[t], ![t] = <<>>]
    /\ UNCHANGED <<mbufs, packets>>

pbuf_chain(h, t) ==
    /\ h # t /\ Sole(h) /\ Own(t)
    /\ heap' = [pbuf_cat(h, t) EXCEPT ![t].ref = @ + 1]
    /\ want' = [want EXCEPT ![h] = @ \o want[t]]
    /\ UNCHANGED <<held, mbufs, packets>>

pbuf_dechain(p) ==
    /\ p \in Holds /\ Pointers(p) = {}
    /\ heap[p].next # NONE
    /\ LET q == heap[p].next
           h == [heap EXCEPT ![q].tot_len = (heap[p].tot_len - heap[p].len) % U16,
                             ![p].next = NONE, ![p].tot_len = heap[p].len]
       IN pbuf_free(h, q)
    /\ want' = [want EXCEPT ![p] = Payload(heap[p])]
    /\ UNCHANGED held

\* The new last buffer is the first that reaches the new length; what is
\* behind it is freed.
pbuf_realloc(p, new_len) ==
    LET c == Chain(heap, p)
        grow == new_len - heap[p].tot_len
        Before(i) == Len(FlattenSeq([j \in 1..(i - 1) |-> Payload(heap[c[j]])]))
        k == CHOOSE i \in 1..Len(c) : new_len <= Before(i) + heap[c[i]].len /\ (i = 1 \/ new_len > Before(i))
        front == [q \in Pbuf |-> IF \E i \in 1..(k - 1) : c[i] = q THEN [heap[q] EXCEPT !.tot_len = (@ + grow) % U16] ELSE heap[q]]
        h == [front EXCEPT ![c[k]].len = new_len - Before(k), ![c[k]].tot_len = new_len - Before(k), ![c[k]].next = NONE]
    IN IF k < Len(c) THEN pbuf_free(h, c[k + 1]) ELSE heap' = h /\ UNCHANGED <<mbufs, packets>>

\* TCP trims a segment of its own, shorter than 64K.
realloc(p, new_len) ==
    /\ Sole(p) /\ Len(want[p]) < U16
    /\ new_len < heap[p].tot_len
    /\ pbuf_realloc(p, new_len)
    /\ want' = [want EXCEPT ![p] = SubSeq(@, 1, new_len)]
    /\ UNCHANGED held

\* inc bytes appear at the front (RAM only, as far as there is headroom) or,
\* when negative, disappear.
pbuf_header(b, inc) ==
    IF (inc < 0 /\ -inc > b.len) \/ (inc > 0 /\ (b.type = "ROM" \/ b.pay < inc)) THEN b
    ELSE [b EXCEPT !.pay = @ - inc, !.len = (@ + inc) % U16, !.tot_len = (@ + inc) % U16]

header(p, inc) ==
    /\ Sole(p)
    /\ heap' = [heap EXCEPT ![p] = pbuf_header(@, inc)]
    /\ want' = [want EXCEPT ![p] = IF inc < 0 /\ -inc > heap[p].len THEN @
                                   ELSE IF inc < 0 THEN SubSeq(@, 1 - inc, Len(@))
                                   ELSE IF heap[p].type = "ROM" \/ heap[p].pay < inc THEN @
                                   ELSE SubSeq(heap[p].buf, heap[p].pay - inc + 1, heap[p].pay) \o @]
    /\ UNCHANGED <<held, mbufs, packets>>

\* Where the front part ends: the sum of the lengths, as a u16_t, stops
\* growing with the next buffer.
SplitAt(p) ==
    LET c == Chain(heap, p)
        Sum(i) == Len(FlattenSeq([j \in 1..i |-> Payload(heap[c[j]])]))
        Stops(i) == i = Len(c) \/ ((Sum(i) % U16) + heap[c[i + 1]].len) % U16 <= (Sum(i) % U16)
    IN CHOOSE i \in 1..Len(c) : Stops(i) /\ \A j \in 1..(i - 1) : ~Stops(j)

\* The received data handed to the application is cut below 64K; the caller
\* holds the rest.
pbuf_split_64k(p) ==
    LET c == Chain(heap, p)
        k == SplitAt(p)
    IN /\ Sole(p) /\ k < Len(c)
       /\ heap' = [q \in Pbuf |-> IF \E i \in 1..k : c[i] = q
                                  THEN [heap[q] EXCEPT !.tot_len = (@ - heap[c[k + 1]].tot_len) % U16,
                                                       !.next = IF q = c[k] THEN NONE ELSE @]
                                  ELSE heap[q]]
       /\ held' = [held EXCEPT ![c[k + 1]] = @ + 1]
       /\ want' = [want EXCEPT ![p] = SubSeq(@, 1, Len(FlattenSeq([j \in 1..k |-> Payload(heap[c[j]])]))),
                               ![c[k + 1]] = Flat(heap, c[k + 1])]
       /\ UNCHANGED <<mbufs, packets>>

(***************************************************************************)
(* Contents.                                                                *)
(***************************************************************************)
\* The bytes pbuf_copy_partial delivers, buffer by buffer.
pbuf_copy_partial(h, p, n, offset) ==
    LET c == Chain(h, p)
        step(acc, b) ==
            IF acc.off # 0 /\ acc.off >= b.len THEN [acc EXCEPT !.off = @ - b.len]
            ELSE LET m == Min2(b.len - acc.off, n - Len(acc.out))
                 IN [off |-> 0, out |-> acc.out \o SubSeq(Payload(b), acc.off + 1, acc.off + m)]
    IN FoldLeft(step, [off |-> offset, out |-> <<>>], [i \in 1..Len(c) |-> h[c[i]]]).out

\* The byte at offset, or 0 past the end.
pbuf_get_at(h, p, offset) ==
    LET c == Chain(h, p)
        Before(i) == Len(FlattenSeq([j \in 1..(i - 1) |-> Payload(h[c[j]])]))
        ks == {i \in 1..Len(c) : offset - Before(i) < h[c[i]].len /\ Before(i) <= offset}
    IN IF ks = {} THEN 0
       ELSE LET k == CHOOSE i \in ks : \A j \in ks : i <= j IN Payload(h[c[k]])[offset - Before(k) + 1]

\* The byte strings searched for.
Needles == {<<0>>, <<2, 2>>, <<1, 0>>, <<2, 2, 0>>}

NotFound == -1  \* 0xFFFF

\* 0 when s is at offset, else one more than the place of the first difference.
pbuf_memcmp(h, p, offset, s) ==
    LET diff == {i \in 1..Len(s) : pbuf_get_at(h, p, offset + i - 1) # s[i]}
    IN IF offset >= Len(Flat(h, p)) THEN NotFound
       ELSE IF diff = {} THEN 0 ELSE CHOOSE i \in diff : \A j \in diff : i <= j

\* The search: after a difference at place i it goes on i bytes further.
pbuf_memfind(h, p, s) ==
    LET max == h[p].tot_len - Len(s)
        f[i \in 0..(U16 + Len(s))] ==
            IF i > max THEN NotFound
            ELSE LET plus == pbuf_memcmp(h, p, i, s)
                 IN IF plus = 0 THEN i ELSE IF plus = NotFound THEN NotFound ELSE f[i + plus]
    IN IF h[p].tot_len >= Len(s) THEN f[0] ELSE NotFound

\* Part by part, as much as is left in the current buffers of both chains,
\* up to the end of the packet.
pbuf_copy(h, p_to, p_from) ==
    LET to == Chain(h, p_to)
        from == Chain(h, p_from)
        Put(b, at, bytes) == [b EXCEPT !.buf = [i \in 1..Len(@) |-> IF i \in (b.pay + at + 1)..(b.pay + at + Len(bytes))
                                                                  THEN bytes[i - b.pay - at] ELSE @[i]]]
        Part(s) ==
            LET t == s.h[to[s.t]]
                g == h[from[s.f]]
                len == Min2(t.len - s.offset_to, g.len - s.offset_from)
                nf == s.offset_from + len >= g.len
                nt == s.offset_to + len = t.len
            IN [h |-> [s.h EXCEPT ![to[s.t]] = Put(@, s.offset_to, SubSeq(Payload(g), s.offset_from + 1, s.offset_from + len))],
                t |-> IF nt THEN s.t + 1 ELSE s.t, offset_to |-> IF nt THEN 0 ELSE s.offset_to + len,
                f |-> IF nf THEN s.f + 1 ELSE s.f, offset_from |-> IF nf THEN 0 ELSE s.offset_from + len]
        Queue(p) == h[p].len = h[p].tot_len /\ h[p].next # NONE
        Over(s) == s.f > Len(from) \/ s.t > Len(to) \/ Queue(from[s.f]) \/ Queue(to[s.t])
        copy[n \in 0..(Len(to) + Len(from))] ==
            IF n = 0 THEN [h |-> h, t |-> 1, f |-> 1, offset_to |-> 0, offset_from |-> 0]
            ELSE LET s == copy[n - 1] IN IF n > 1 /\ Over(s) THEN s ELSE Part(s)
    IN copy[Len(to) + Len(from)].h

\* As much of the bytes as each buffer holds.
pbuf_take(h, p, bytes) ==
    LET c == Chain(h, p)
        Before(i) == Len(FlattenSeq([j \in 1..(i - 1) |-> Payload(h[c[j]])]))
        Fill(b, at) == [b EXCEPT !.buf = [i \in 1..Len(@) |-> IF i > b.pay /\ i <= b.pay + Min2(b.len, Len(bytes) - at)
                                                            THEN bytes[at + i - b.pay] ELSE @[i]]]
    IN [q \in Pbuf |-> IF q \in ToSet(c) THEN Fill(h[q], Before(CHOOSE i \in 1..Len(c) : c[i] = q)) ELSE h[q]]

Next ==
    \/ tcp_input_tmp(RomLen) \/ alloc_ram(Hlen, RamLen)
    \/ \E p \in Live : \/ free(p) \/ pbuf_ref(p) \/ pbuf_dechain(p) \/ pbuf_split_64k(p)
                       \/ \E n \in 1..RomLen : realloc(p, n)
                       \/ \E inc \in {-1, Hlen} : header(p, inc)
                       \/ \E t \in Live : cat(p, t) \/ pbuf_chain(p, t)

Spec == Init /\ [][Next]_vars

(***************************************************************************)
(* Properties.                                                              *)
(***************************************************************************)
TypeOK ==
    \A p \in Live :
        /\ heap[p].len \in 0..(U16 - 1) /\ heap[p].tot_len \in 0..(U16 - 1)
        /\ heap[p].pay >= 0 /\ heap[p].pay + heap[p].len <= Len(heap[p].buf)
        /\ heap[p].next \in Pbuf \cup {NONE}

\* "the reference count always equals the number of pointers that refer to
\* this pbuf" (pbuf.h): those of holders and the next pointers of chains, also
\* after a chain was shared, cut or partly freed.  So no buffer is freed while
\* somebody can reach it, and none that nobody can reach stays allocated.
RefsCountPointers ==
    /\ \A p \in Live : heap[p].ref = held[p] + Cardinality(Pointers(p)) /\ heap[p].ref > 0
    /\ \A p \in Free : held[p] = 0 /\ Pointers(p) = {}

\* "p->tot_len == p->len + (p->next? p->next->tot_len: 0)" (pbuf.h), in the
\* arithmetic of a u16_t: also for chains of more than 64K, which TCP builds
\* when it delivers what had come out of order.
TotLens ==
    \A p \in Live :
        heap[p].tot_len = (heap[p].len + (IF heap[p].next = NONE THEN 0 ELSE heap[heap[p].next].tot_len)) % U16

\* A holder's chain is the bytes it was put together from: no operation on
\* another chain, no cut and no free by another holder changes them.
ChainsAsWanted == \A p \in Holds : Flat(heap, p) = want[p]

\* A received packet is given back once, with the buffer that carries it: no
\* two buffers carry the same one, one in the pool carries none (pbuf_alloc
\* does not reset the field), and none is freed twice or forgotten.
PacketsReturnedOnce ==
    /\ \A p \in Free : mbufs[p] = NONE
    /\ \A p, q \in Live : mbufs[p] # NONE /\ mbufs[p] = mbufs[q] => p = q
    /\ \A m \in Pbuf : /\ packets[m] # "twice"
                       /\ packets[m] = "held" => \E p \in Live : mbufs[p] = m

\* Reading across buffers is reading the bytes: a copy of a part, a single
\* byte, and a search that reports a place where the string is.
ReadsAsBytes ==
    \A p \in Holds :
        LET s == Flat(heap, p) IN
        /\ \A off \in 0..Len(s), n \in 1..2 : pbuf_copy_partial(heap, p, n, off) = SubSeq(s, off + 1, Min2(off + n, Len(s)))
        /\ \A off \in 0..Len(s) : pbuf_get_at(heap, p, off) = IF off < Len(s) THEN s[off + 1] ELSE 0
        /\ Len(s) < U16 => \A x \in Needles : LET i == pbuf_memfind(heap, p, x)
                                              IN i # NotFound => i + Len(x) <= Len(s) /\ SubSeq(s, i + 1, i + Len(x)) = x

\* Writing across buffers is writing the bytes: the source, whichever way the
\* two chains are cut, is then at the front of the target and the rest of the
\* target is as it was; with zero-length buffers in either chain as well.
WritesAsBytes ==
    \A p, q \in Holds :
        LET t == Flat(heap, p)
            g == Flat(heap, q)
            written == g \o SubSeq(t, Len(g) + 1, Len(t))
        IN /\ ToSet(Chain(heap, p)) \cap ToSet(Chain(heap, q)) = {} /\ Len(g) <= Len(t) /\ Len(t) < U16
           => /\ Flat(pbuf_copy(heap, p, q), p) = written
              /\ Flat(pbuf_take(heap, p, g), p) = written

\* pbuf.c: counts, lengths and bytes of every chain are right, however chains are
\* shared, joined, cut and freed.
PbufsSafe ==
    /\ TypeOK /\ RefsCountPointers /\ TotLens
    /\ PacketsReturnedOnce /\ ChainsAsWanted /\ ReadsAsBytes
    /\ WritesAsBytes
=============================================================================
