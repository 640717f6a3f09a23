------------------------------- MODULE Chksum -------------------------------
(***************************************************************************)
(* The Internet checksums: chksum_internet (inc/asm/chksum.h, assembly, used *)
(* for ICMP and IP) and lwIP's sums over buffers and chains of buffers       *)
(* (dp/lwip/inet_chksum.c).  A byte is a digit in base B (256 in the code);  *)
(* everything else, words of 2, 4 and 8 bytes, carries and swaps, is built   *)
(* from bytes as in the code.                                                *)
(***************************************************************************)
EXTENDS Integers, Sequences, SequencesExt

CONSTANTS
    B,          \* base of a byte
    MaxLen,     \* bound: bytes in one buffer
    MaxCut      \* bound: bytes in a chain of several buffers

VARIABLE
    chain   \* the payloads of a chain of buffers

M16 == B * B
M32 == M16 * M16
M64 == M32 * M32

\* The little-endian word of some bytes.
Word(s) == FoldRight(LAMBDA b, acc : b + B * acc, s, 0)
SWAP_BYTES_IN_WORD(w) == (w % B) * B + ((w \div B) % B)
FOLD_U32T(u) == (u \div M16) + (u % M16)
Not16(w) == M16 - 1 - w

\* add and adc $0: an end-around carry in words of m.
AddCarry(a, b, m) == IF a + b >= m THEN (a + b + 1) % m ELSE a + b

----------------------------------------------------------------------------

\* Chunks of 8 bytes with adcq: the carry of one goes into the next, that of
\* the last into the sum.
chksum_chunks(s) ==
    LET step(acc, k) == LET t == acc.sum + Word(SubSeq(s, 8 * k - 7, 8 * k)) + acc.cf
                        IN [sum |-> t % M64, cf |-> t \div M64]
        last == FoldLeft(step, [sum |-> 0, cf |-> 0], [k \in 1..(Len(s) \div 8) |-> k])
    IN (last.sum + last.cf) % M64

\* What is left, 4, 2 and 1 bytes, and the folds to 32 and 16 bits.
chksum_internet(s) ==
    LET n == Len(s)
        at4 == 8 * (n \div 8)
        at2 == at4 + (IF (n \div 4) % 2 = 1 THEN 4 ELSE 0)
        at1 == at2 + (IF (n \div 2) % 2 = 1 THEN 2 ELSE 0)
        Rest(sum, from, to) == IF from = to THEN sum ELSE AddCarry(sum, Word(SubSeq(s, from + 1, to)), M64)
        sum == Rest(Rest(Rest(chksum_chunks(s), at4, at2), at2, at1), at1, n)
        sum32 == AddCarry(sum \div M32, sum % M32, M32)
    IN Not16(AddCarry(sum32 \div M16, sum32 % M16, M16))

----------------------------------------------------------------------------
\* lwip_standard_chksum for a buffer at an odd or an even address.
lwip_standard_chksum(s, odd) ==
    LET body == IF odd /\ s # <<>> THEN Tail(s) ELSE s
        n == Len(body)
        first == IF odd /\ s # <<>> THEN B * Head(s) ELSE 0
        left == IF n % 2 = 1 THEN body[n] ELSE 0
        bulk == FoldLeft(LAMBDA acc, k : acc + Word(SubSeq(body, 2 * k - 1, 2 * k)), 0, [k \in 1..(n \div 2) |-> k])
        sum == FOLD_U32T(FOLD_U32T((bulk + first + left) % M32))
    IN IF odd THEN SWAP_BYTES_IN_WORD(sum) ELSE sum

inet_chksum(s, odd) == Not16(lwip_standard_chksum(s, odd))

\* Mutant: a buffer of odd length does not shift the next ones.
inet_chksum_pbuf_NoSwap(c, odd) ==
    Not16(FoldLeft(LAMBDA acc, s : FOLD_U32T(acc + lwip_standard_chksum(s, odd)), 0, c) % M16)

\* After a buffer of odd length the sum is kept with its bytes swapped.
inet_chksum_pbuf(c, odd) ==
    LET step(a, s) == LET acc == FOLD_U32T(a.acc + lwip_standard_chksum(s, odd))
                      IN IF Len(s) % 2 # 0 THEN [acc |-> SWAP_BYTES_IN_WORD(acc), swapped |-> 1 - a.swapped]
                         ELSE [acc |-> acc, swapped |-> a.swapped]
        end == FoldLeft(step, [acc |-> 0, swapped |-> 0], c)
    IN Not16((IF end.swapped = 1 THEN SWAP_BYTES_IN_WORD(end.acc) ELSE end.acc) % M16)

\* The sum over the first chksum_len bytes of a chain, after those of the
\* pseudo header (acc, proto, proto_len).
inet_cksum_pseudo_partial_base(c, proto, proto_len, chksum_len, odd, acc0) ==
    LET Take(a, s) == SubSeq(s, 1, IF Len(s) > a.left THEN a.left ELSE Len(s))
        step(a, s) ==
            IF a.left = 0 THEN a
            ELSE LET acc == FOLD_U32T(a.acc + lwip_standard_chksum(Take(a, s), odd))
                 IN [acc |-> IF Len(s) % 2 # 0 THEN SWAP_BYTES_IN_WORD(acc) ELSE acc,
                     swapped |-> IF Len(s) % 2 # 0 THEN 1 - a.swapped ELSE a.swapped,
                     left |-> a.left - Len(Take(a, s))]
        end == FoldLeft(step, [acc |-> acc0, swapped |-> 0, left |-> chksum_len], c)
        acc == IF end.swapped = 1 THEN SWAP_BYTES_IN_WORD(end.acc) ELSE end.acc
    IN Not16(FOLD_U32T(FOLD_U32T(acc + SWAP_BYTES_IN_WORD(proto) + SWAP_BYTES_IN_WORD(proto_len))) % M16)

inet_chksum_pseudo_partial(c, proto, proto_len, chksum_len, odd, src, dest) ==
    inet_cksum_pseudo_partial_base(c, proto, proto_len, chksum_len, odd,
        FOLD_U32T(FOLD_U32T((src % M16) + (src \div M16) + (dest % M16) + (dest \div M16))))

\* The pseudo header alone, for a NIC that adds the rest: two 32-bit adds with
\* carry, folded.
in_pseudo(sum, b, c) ==
    LET s1 == sum + b
        s2 == (s1 % M32) + c + (s1 \div M32)
        s3 == ((s2 % M32) + (s2 \div M32)) % M32
        folded == (s3 % M16) + (s3 \div M16)
    IN IF folded > M16 - 1 THEN folded - (M16 - 1) ELSE folded

\* hton32
Swap32(w) == SWAP_BYTES_IN_WORD(w % M16) * M16 + SWAP_BYTES_IN_WORD(w \div M16)
inet_chksum_pseudo(proto, tot_len, src, dest) == in_pseudo(src, dest, Swap32(proto + tot_len))

----------------------------------------------------------------------------
\* The chains, byte by byte.
Bytes == FlattenSeq(chain)

Init == chain = << <<>> >>

\* pbufs are filled,
AddByte ==
    \E b \in 0..(B - 1) :
        /\ Len(Bytes) < (IF Len(chain) = 1 THEN MaxLen ELSE MaxCut)
        /\ chain' = [chain EXCEPT ![Len(chain)] = Append(@, b)]
\* and chained.
AddBuffer ==
    /\ Len(Bytes) < MaxCut /\ Last(chain) # <<>>
    /\ chain' = Append(chain, <<>>)

Next == AddByte \/ AddBuffer
Spec == Init /\ [][Next]_chain

(***************************************************************************)
(* Properties.                                                              *)
(***************************************************************************)
\* The reference (RFC 1071): the sum of the 16-bit words, an odd byte filled
\* up with zero, modulo 2^16 - 1; 0 only when every byte is 0.
Sum16(s) ==
    LET even == IF Len(s) % 2 = 1 THEN Append(s, 0) ELSE s
        t == FoldLeft(LAMBDA acc, k : acc + Word(SubSeq(even, 2 * k - 1, 2 * k)), 0, [k \in 1..(Len(even) \div 2) |-> k])
    IN IF t = 0 THEN 0 ELSE ((t - 1) % (M16 - 1)) + 1

\* chksum_internet is the Internet checksum for every length, whatever the
\* carries of the 8-byte additions do: icmp_input takes a packet whose sum, its
\* checksum included, is 0, and icmp_reflect sends one.
ChunkedSumIsSum == chksum_internet(Bytes) = Not16(Sum16(Bytes))

\* The sum of a chain does not depend on where it is cut into buffers nor on
\* whether they are at odd addresses, for buffers of the size the code is made
\* for ("Works for len up to and including 0x20000", twice 2^16).
CutsDoNotMatter ==
    \A odd \in BOOLEAN : Len(Bytes) <= 2 * M16 => inet_chksum_pbuf(chain, odd) = Not16(Sum16(Bytes))

\* The pseudo-header sum that is put into a segment for the NIC to complete is
\* the one lwIP computes in software over an empty payload: for every address
\* and length the two agree, complement aside.
OffloadedPseudoIsPseudo ==
    LET addr == Word(SubSeq(Bytes, 1, 4))
        dest == Word(SubSeq(Bytes, 5, 8))
        len == Word(SubSeq(Bytes, 9, 10))
    IN Len(Bytes) = 10 =>
            inet_chksum_pseudo(1, len, addr, dest) = Not16(inet_chksum_pseudo_partial(<<>>, 1, len, 0, FALSE, addr, dest))

\* The software checksum over a prefix of a chain is the sum of the pseudo
\* header and of that prefix, also when the prefix ends inside a buffer of odd
\* length.
PartialSumIsPrefix ==
    \A n \in 0..Len(Bytes) :
        Len(Bytes) <= MaxCut =>
        inet_chksum_pseudo_partial(chain, 1, n % M16, n, FALSE, 1, 2) =
            Not16(Sum16(SubSeq(Bytes, 1, n) \o (IF n % 2 = 1 THEN <<0>> ELSE <<>>) \o <<1, 0, 0, 0, 0, 1, 0, 0>> \o <<0, 1>> \o <<(n % M16) \div B, n % B>>))

\* The four checksum routines compute the Internet checksum.
ChecksumsAgree ==
    /\ ChunkedSumIsSum /\ CutsDoNotMatter /\ OffloadedPseudoIsPseudo
    /\ PartialSumIsPrefix
=============================================================================
