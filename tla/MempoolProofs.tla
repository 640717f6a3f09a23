---------------------------- MODULE MempoolProofs ----------------------------
(***************************************************************************)
(* The safety of the memory pools, for any CPUs, chunk size and number of  *)
(* chunks, and for both copies of the code.                                *)
(***************************************************************************)
EXTENDS Mempool, SequenceTheorems, TLAPS

(* Most leaves are first-order and go to Zenon; the ones that need arithmetic,
   records or sequences name the SMT solver. *)
USE ZenonT(20), SMTT(30)

(***************************************************************************)
(* Lists of elements.                                                      *)
(***************************************************************************)

\* Popping a list takes its first element out and nothing else.
LEMMA TailList ==
    ASSUME NEW S, NEW s \in Seq(S), s # << >>, IsInjective(s)
    PROVE  /\ Head(s) \in S /\ Head(s) \in Range(s)
           /\ Tail(s) \in Seq(S) /\ IsInjective(Tail(s))
           /\ Range(Tail(s)) = Range(s) \ {Head(s)}
           /\ Len(Tail(s)) = Len(s) - 1
<1> DEFINE t == Tail(s)
<1>1. /\ Head(s) \in S /\ t \in Seq(S) /\ Len(t) = Len(s) - 1
      /\ \A i \in 1 .. Len(t) : t[i] = s[i + 1]
  BY HeadTailProperties
<1>2. /\ Len(s) \in Nat \ {0} /\ DOMAIN s = 1 .. Len(s) /\ DOMAIN t = 1 .. Len(t)
      /\ Head(s) = s[1]
  BY <1>1, EmptySeq, LenProperties, SMTT(30)
<1> HIDE DEF t
<1>3. \A i, j \in 1 .. Len(s) : s[i] = s[j] => i = j
  BY <1>2 DEF IsInjective
<1>4. IsInjective(t)
  <2>1. ASSUME NEW i \in 1 .. Len(t), NEW j \in 1 .. Len(t), t[i] = t[j]
        PROVE  i = j
    <3>1. i + 1 \in 1 .. Len(s) /\ j + 1 \in 1 .. Len(s) /\ s[i + 1] = s[j + 1]
      BY <1>1, <1>2, <2>1, SMTT(30)
    <3>2. i + 1 = j + 1
      BY <1>3, <3>1
    <3>3. QED
      BY <3>2, SMTT(30)
  <2>2. QED
    BY <1>2, <2>1 DEF IsInjective
<1>5. ASSUME NEW x \in Range(t) PROVE x \in Range(s) /\ x # Head(s)
  <2>1. PICK i \in 1 .. Len(t) : x = t[i]
    BY <1>2 DEF Range
  <2>2. i + 1 \in 1 .. Len(s) /\ 1 \in 1 .. Len(s) /\ i + 1 # 1 /\ x = s[i + 1]
    BY <1>1, <1>2, <2>1, SMTT(30)
  <2>3. QED
    BY <1>2, <1>3, <2>2 DEF Range
<1>6. ASSUME NEW x \in Range(s), x # Head(s) PROVE x \in Range(t)
  <2>1. PICK i \in 1 .. Len(s) : x = s[i]
    BY <1>2 DEF Range
  <2>2. i - 1 \in 1 .. Len(t) /\ (i - 1) + 1 = i
    BY <1>1, <1>2, <1>6, <2>1, SMTT(30)
  <2>3. QED
    BY <1>1, <1>2, <2>1, <2>2 DEF Range
<1>7. Head(s) \in Range(s)
  BY <1>2, SMTT(30) DEF Range
<1>8. QED
  BY <1>1, <1>4, <1>5, <1>6, <1>7 DEF t

\* NULL, and a list of one element.
LEMMA EmptyList ==
    /\ Range(<< >>) = {} /\ IsInjective(<< >>) /\ Len(<< >>) = 0
  BY SMTT(30) DEF Range, IsInjective

LEMMA OneElemList ==
    ASSUME NEW S, NEW e \in S
    PROVE  /\ <<e>> \in Seq(S) /\ Range(<<e>>) = {e} /\ IsInjective(<<e>>)
           /\ Len(<<e>>) = 1 /\ <<e>> # << >>
  BY SMTT(30) DEF Range, IsInjective

\* Pushing an element that is not on the list adds it and nothing else.
LEMMA PushList ==
    ASSUME NEW S, NEW s \in Seq(S), NEW e \in S, IsInjective(s), e \notin Range(s)
    PROVE  /\ <<e>> \o s \in Seq(S) /\ IsInjective(<<e>> \o s)
           /\ Range(<<e>> \o s) = Range(s) \cup {e}
           /\ Len(<<e>> \o s) = Len(s) + 1 /\ <<e>> \o s # << >>
<1> DEFINE t == <<e>> \o s
<1>0. <<e>> \in Seq(S) /\ Len(<<e>>) = 1 /\ <<e>>[1] = e /\ Range(<<e>>) = {e}
  BY OneElemList
<1>1. /\ t \in Seq(S) /\ Len(t) = 1 + Len(s)
      /\ \A i \in 1 .. 1 + Len(s) : t[i] = IF i <= 1 THEN <<e>>[i] ELSE s[i - 1]
  BY <1>0, ConcatProperties, SMTT(30)
<1>2. Range(t) = Range(s) \cup {e}
  <2> DEFINE u == <<e>>
  <2>1. u \in Seq(S) /\ Range(u) = {e}
    BY <1>0
  <2> HIDE DEF u
  <2>2. Range(u \o s) = Range(u) \cup Range(s)
    BY <2>1, RangeConcatenation, SMTT(30)
  <2>3. QED
    BY <2>1, <2>2 DEF u
<1>3. Len(s) \in Nat /\ DOMAIN s = 1 .. Len(s) /\ DOMAIN t = 1 .. (1 + Len(s))
  BY <1>1, LenProperties
<1> HIDE DEF t
<1>4. /\ t[1] = e
      /\ \A i \in 2 .. (1 + Len(s)) : i - 1 \in 1 .. Len(s) /\ t[i] = s[i - 1]
  BY <1>0, <1>1, <1>3, SMTT(30)
<1>5. \A i, j \in 1 .. Len(s) : s[i] = s[j] => i = j
  BY <1>3 DEF IsInjective
<1>6. \A i \in 1 .. Len(s) : s[i] # e
  BY <1>3 DEF Range
<1>7. IsInjective(t)
  <2>1. ASSUME NEW i \in 1 .. (1 + Len(s)), NEW j \in 1 .. (1 + Len(s)),
               t[i] = t[j]
        PROVE  i = j
    <3>1. CASE i = 1 /\ j = 1
      BY <3>1
    <3>2. CASE i = 1 /\ j # 1
      BY <1>3, <1>4, <1>6, <2>1, <3>2, SMTT(30)
    <3>3. CASE i # 1 /\ j = 1
      BY <1>3, <1>4, <1>6, <2>1, <3>3, SMTT(30)
    <3>4. CASE i # 1 /\ j # 1
      <4>1. /\ i - 1 \in 1 .. Len(s) /\ j - 1 \in 1 .. Len(s)
            /\ s[i - 1] = s[j - 1]
        BY <1>3, <1>4, <2>1, <3>4, SMTT(30)
      <4>2. i - 1 = j - 1
        BY <1>5, <4>1
      <4>3. QED
        BY <4>2, SMTT(30)
    <3>5. QED
      BY <3>1, <3>2, <3>3, <3>4
  <2>2. QED
    BY <1>3, <2>1 DEF IsInjective
<1>8. t # << >>
  BY <1>1, <1>3, EmptySeq, SMTT(30)
<1>9. QED
  BY <1>1, <1>2, <1>3, <1>7, <1>8, SMTT(30) DEF t

(***************************************************************************)
(* Lists of chunks.                                                        *)
(***************************************************************************)

\* A list of chunks without NULL, and with no element twice.
ChunkList(list) ==
    /\ list \in Seq(Seq(Elem))
    /\ Separate(list)
    /\ \A k \in DOMAIN list : list[k] # NULL

\* Taking the first chunk off takes its elements out and nothing else.
LEMMA TailChunks ==
    ASSUME NEW list, ChunkList(list), list # << >>
    PROVE  /\ Head(list) \in Seq(Elem) /\ Head(list) # NULL
           /\ IsInjective(Head(list)) /\ Range(Head(list)) \subseteq Contents(list)
           /\ ChunkList(Tail(list))
           /\ Contents(Tail(list)) = Contents(list) \ Range(Head(list))
           /\ Len(Tail(list)) = Len(list) - 1
           /\ \A k \in 1 .. Len(Tail(list)) :
                 k + 1 \in DOMAIN list /\ Tail(list)[k] = list[k + 1]
           /\ 1 \in DOMAIN list /\ Head(list) = list[1]
<1> DEFINE t == Tail(list)
<1>1. /\ Head(list) \in Seq(Elem) /\ t \in Seq(Seq(Elem)) /\ Len(t) = Len(list) - 1
      /\ \A i \in 1 .. Len(t) : t[i] = list[i + 1]
  BY HeadTailProperties DEF ChunkList
<1>2. /\ Len(list) \in Nat \ {0} /\ DOMAIN list = 1 .. Len(list)
      /\ DOMAIN t = 1 .. Len(t) /\ Head(list) = list[1]
  BY <1>1, EmptySeq, LenProperties, SMTT(30) DEF ChunkList
<1> HIDE DEF t
<1>3. \A i \in 1 .. Len(t) : i + 1 \in 1 .. Len(list) /\ i + 1 # 1
  BY <1>1, <1>2, SMTT(30)
<1>4. 1 \in 1 .. Len(list)
  BY <1>2, SMTT(30)
<1>5. \A i \in 1 .. Len(t), j \in 1 .. Len(t) : i # j => i + 1 # j + 1
  BY <1>1, <1>2, SMTT(30)
<1>6. ChunkList(t)
  <2>1. Separate(t)
    <3>1. Separate(list) /\ DOMAIN list = 1 .. Len(list) /\ DOMAIN t = 1 .. Len(t)
      BY <1>2 DEF ChunkList
    <3>2. \A i \in DOMAIN t : t[i] = list[i + 1] /\ i + 1 \in DOMAIN list
      BY <1>1, <1>3, <3>1
    <3>3. \A i \in DOMAIN t : IsInjective(t[i])
      BY <3>1, <3>2 DEF Separate
    <3>4. ASSUME NEW i \in DOMAIN t, NEW j \in DOMAIN t, i # j
          PROVE  Range(t[i]) \cap Range(t[j]) = {}
      <4>1. i + 1 # j + 1
        BY <1>5, <3>1, <3>4
      <4>2. QED
        BY <3>1, <3>2, <4>1 DEF Separate
    <3>5. QED
      BY <3>3, <3>4 DEF Separate
  <2>2. QED
    BY <1>1, <1>2, <1>3, <2>1 DEF ChunkList
<1>7. ASSUME NEW x \in Contents(t) PROVE x \in Contents(list) /\ x \notin Range(list[1])
  <2>1. PICK i \in 1 .. Len(t) : x \in Range(t[i])
    BY <1>2 DEF Contents
  <2>2. QED
    BY <1>1, <1>2, <1>3, <1>4, <2>1 DEF Contents, ChunkList, Separate
<1>8. ASSUME NEW x \in Contents(list), x \notin Range(list[1]) PROVE x \in Contents(t)
  <2>1. PICK i \in 1 .. Len(list) : x \in Range(list[i])
    BY <1>2 DEF Contents
  <2>2. i - 1 \in 1 .. Len(t) /\ (i - 1) + 1 = i
    BY <1>1, <1>2, <1>8, <2>1, SMTT(30)
  <2>3. QED
    BY <1>1, <1>2, <2>1, <2>2 DEF Contents
<1>9. /\ Head(list) # NULL /\ IsInjective(Head(list))
      /\ Range(Head(list)) \subseteq Contents(list)
  BY <1>2, <1>4 DEF ChunkList, Separate, Contents
<1>10. QED
  BY <1>1, <1>2, <1>3, <1>4, <1>6, <1>7, <1>8, <1>9 DEF t

\* Putting a chunk of other elements in front adds them and nothing else.
LEMMA PushChunks ==
    ASSUME NEW list, ChunkList(list), NEW p \in Seq(Elem), p # NULL,
           IsInjective(p), Range(p) \cap Contents(list) = {}
    PROVE  /\ ChunkList(<<p>> \o list)
           /\ Contents(<<p>> \o list) = Contents(list) \cup Range(p)
           /\ Len(<<p>> \o list) = Len(list) + 1
           /\ (<<p>> \o list)[1] = p
           /\ \A k \in 2 .. (Len(list) + 1) :
                 k - 1 \in DOMAIN list /\ (<<p>> \o list)[k] = list[k - 1]
<1> DEFINE t == <<p>> \o list
<1>0. list \in Seq(Seq(Elem)) /\ <<p>> \in Seq(Seq(Elem)) /\ Len(<<p>>) = 1 /\ <<p>>[1] = p
  BY OneElemList DEF ChunkList
<1>1. /\ t \in Seq(Seq(Elem)) /\ Len(t) = 1 + Len(list)
      /\ \A i \in 1 .. 1 + Len(list) : t[i] = IF i <= 1 THEN <<p>>[i] ELSE list[i - 1]
  BY <1>0, ConcatProperties, SMTT(30)
<1>2. /\ Len(list) \in Nat /\ DOMAIN list = 1 .. Len(list)
      /\ DOMAIN t = 1 .. (1 + Len(list))
  BY <1>0, <1>1, LenProperties
<1> HIDE DEF t
<1>3. /\ t[1] = p /\ 1 \in DOMAIN t
      /\ \A i \in 2 .. (1 + Len(list)) : i - 1 \in DOMAIN list /\ t[i] = list[i - 1]
      /\ \A i \in DOMAIN t : i = 1 \/ i \in 2 .. (1 + Len(list))
      /\ \A i, j \in 2 .. (1 + Len(list)) : i # j => i - 1 # j - 1
  BY <1>0, <1>1, <1>2, SMTT(30)
<1>4. \A k \in DOMAIN list :
         /\ k + 1 \in DOMAIN t /\ t[k + 1] = list[k]
         /\ Range(list[k]) \subseteq Contents(list)
  <2>1. ASSUME NEW k \in DOMAIN list PROVE k + 1 \in DOMAIN t /\ t[k + 1] = list[k]
    <3>1. k + 1 \in 2 .. (1 + Len(list)) /\ (k + 1) - 1 = k
      BY <1>2, SMTT(30)
    <3>2. QED
      BY <1>2, <1>3, <3>1, SMTT(30)
  <2>2. QED
    BY <2>1 DEF Contents
<1>5. Separate(t)
  <2>1. \A i \in DOMAIN t : IsInjective(t[i])
    BY <1>3 DEF ChunkList, Separate
  <2>2. ASSUME NEW i \in DOMAIN t, NEW j \in DOMAIN t, i # j
        PROVE  Range(t[i]) \cap Range(t[j]) = {}
    <3>1. CASE i = 1
      BY <1>3, <1>4, <2>2, <3>1, SMTT(30)
    <3>2. CASE j = 1
      BY <1>3, <1>4, <2>2, <3>2, SMTT(30)
    <3>3. CASE i # 1 /\ j # 1
      BY <1>3, <2>2, <3>3, SMTT(30) DEF ChunkList, Separate
    <3>4. QED
      BY <3>1, <3>2, <3>3
  <2>3. QED
    BY <2>1, <2>2 DEF Separate
<1>6. \A i \in DOMAIN t : t[i] # NULL
  BY <1>3 DEF ChunkList
<1>7. Contents(t) = Contents(list) \cup Range(p)
  <2>1. ASSUME NEW x \in Contents(t) PROVE x \in Contents(list) \cup Range(p)
    <3>1. PICK i \in DOMAIN t : x \in Range(t[i])
      BY DEF Contents
    <3>2. QED
      BY <1>3, <1>4, <3>1
  <2>2. ASSUME NEW x \in Contents(list) PROVE x \in Contents(t)
    <3>1. PICK k \in DOMAIN list : x \in Range(list[k])
      BY DEF Contents
    <3>2. QED
      BY <1>4, <3>1 DEF Contents
  <2>3. Range(p) \subseteq Contents(t)
    BY <1>3, SMTT(30) DEF Contents
  <2>4. QED
    BY <2>1, <2>2, <2>3
<1>8. QED
  BY <1>1, <1>2, <1>3, <1>5, <1>6, <1>7, SMTT(30) DEF ChunkList, t

(***************************************************************************)
(* The inductive invariant.                                                *)
(***************************************************************************)

\* The lock keeps the copy of chunk_head that its holder works on up to date.
LockProtects ==
    \A c \in CPUs :
        pc[c] \in {"pop", "push"} =>
            /\ locked /\ seen[c] = chunk_head
            /\ \A d \in CPUs : pc[d] \in {"pop", "push"} => d = c

\* A CPU that waits for a chunk has no lists, and one that frees has an element.
WaitsFor ==
    \A c \in CPUs :
        /\ pc[c] \in {"alloc_2", "pop"} => head[c] = NULL /\ private_chunk[c] = NULL
        /\ pc[c] \in {"free_2", "push"} => elem[c] \in Elem

NoEmptyChunk == \A k \in DOMAIN chunk_head : chunk_head[k] # NULL

Inv ==
    /\ TypeOK
    /\ NothingLostOrShared
    /\ FreeTwoIsSafe
    /\ LockProtects
    /\ WaitsFor
    /\ NoEmptyChunk

\* The lists of one CPU hold nothing twice.
Own(c) ==
    /\ IsInjective(head[c]) /\ IsInjective(private_chunk[c])
    /\ Range(head[c]) \cap Range(private_chunk[c]) = {}
    /\ InHand(c) \cap (Range(head[c]) \cup Range(private_chunk[c])) = {}

\* In use, in the datastore and in the pools: everything, and nothing twice.
Partition(H, S, K) ==
    /\ \A e \in Elem : e \in H \/ e \in S \/ \E c \in CPUs : e \in K[c]
    /\ H \cap S = {}
    /\ \A c \in CPUs :
          /\ K[c] \cap (H \cup S) = {}
          /\ \A d \in CPUs : c # d => K[c] \cap K[d] = {}

Pools == [c \in CPUs |-> Cached(c)]

\* Moving elements between one CPU, the datastore and their users.
LEMMA Move ==
    ASSUME NEW c \in CPUs, NEW H, NEW S, NEW K, Partition(H, S, K),
           NEW G, NEW R, NEW L,
           \A d \in CPUs : d # c => L[d] = K[d],
           G \cup R \cup L[c] = H \cup S \cup K[c],
           G \cap R = {}, L[c] \cap (G \cup R) = {}
    PROVE  Partition(G, R, L)
<1>1. \A d \in CPUs : d # c => L[d] \cap (G \cup R \cup L[c]) = {}
  BY DEF Partition
<1>2. \A e \in Elem : e \in G \/ e \in R \/ \E d \in CPUs : e \in L[d]
  <2>1. ASSUME NEW e \in Elem
        PROVE  e \in G \/ e \in R \/ \E d \in CPUs : e \in L[d]
    <3>1. CASE e \in H \cup S \cup K[c]
      BY <3>1
    <3>2. CASE \E d \in CPUs : d # c /\ e \in K[d]
      BY <3>2
    <3>3. QED
      BY <3>1, <3>2 DEF Partition
  <2>2. QED
    BY <2>1
<1>3. ASSUME NEW a \in CPUs, NEW d \in CPUs, a # d
      PROVE  L[a] \cap L[d] = {}
  <2>1. CASE a = c
    BY <1>1, <1>3, <2>1
  <2>2. CASE d = c
    BY <1>1, <1>3, <2>2
  <2>3. CASE a # c /\ d # c
    BY <1>3, <2>3 DEF Partition
  <2>4. QED
    BY <2>1, <2>2, <2>3
<1>4. \A a \in CPUs : L[a] \cap (G \cup R) = {}
  BY <1>1
<1>5. QED
  BY <1>2, <1>3, <1>4 DEF Partition

LEMMA SharedIsPartition ==
    NothingLostOrShared <=> /\ Partition(held, Contents(chunk_head), Pools)
                            /\ Separate(chunk_head)
                            /\ \A c \in CPUs : Own(c)
  BY DEF NothingLostOrShared, Partition, Pools, Own

LEMMA SharedIsPartitionNext ==
    /\ Partition(held', Contents(chunk_head'), Pools')
    /\ Separate(chunk_head')
    /\ \A c \in CPUs : Own(c)'
    => NothingLostOrShared'
<1> SUFFICES ASSUME Partition(held', Contents(chunk_head'), Pools'),
                    Separate(chunk_head'), \A c \in CPUs : Own(c)'
             PROVE  NothingLostOrShared'
  OBVIOUS
<1>1. \A c \in CPUs : Pools'[c] = Cached(c)'
  BY DEF Pools
<1>2. \A e \in Elem : \/ e \in held' \/ e \in Contents(chunk_head')
                     \/ \E c \in CPUs : e \in Cached(c)'
  BY <1>1, SMTT(30) DEF Partition
<1>3. /\ held' \cap Contents(chunk_head') = {}
      /\ \A c \in CPUs :
            /\ Cached(c)' \cap (held' \cup Contents(chunk_head')) = {}
            /\ \A d \in CPUs : c # d => Cached(c)' \cap Cached(d)' = {}
  BY <1>1 DEF Partition
<1>4. QED
  BY <1>2, <1>3 DEF NothingLostOrShared, Own

\* What a step of one CPU has to keep.
LEMMA OneCpuStep ==
    ASSUME NEW c \in CPUs, NothingLostOrShared,
           \A d \in CPUs : d # c =>
              /\ head'[d] = head[d] /\ private_chunk'[d] = private_chunk[d]
              /\ pc'[d] = pc[d] /\ elem'[d] = elem[d],
           held' \cup Contents(chunk_head') \cup Cached(c)'
             = held \cup Contents(chunk_head) \cup Cached(c),
           held' \cap Contents(chunk_head') = {},
           Cached(c)' \cap (held' \cup Contents(chunk_head')) = {},
           Separate(chunk_head'), Own(c)'
    PROVE  NothingLostOrShared'
<1>1. /\ Partition(held, Contents(chunk_head), Pools)
      /\ \A d \in CPUs : Own(d)
  BY SharedIsPartition
<1>2. \A d \in CPUs : d # c => Cached(d)' = Cached(d) /\ (Own(d) => Own(d)')
  BY DEF Cached, InHand, Own
<1>3. \A d \in CPUs : Own(d)'
  BY <1>1, <1>2
<1>4. /\ \A d \in CPUs : d # c => Pools'[d] = Pools[d]
      /\ Pools[c] = Cached(c) /\ Pools'[c] = Cached(c)'
  BY <1>2 DEF Pools
<1>5. Partition(held', Contents(chunk_head'), Pools')
  <2> HIDE DEF Pools
  <2>1. QED
    BY <1>1, <1>4, Move, SMTT(30)
<1>6. QED
  BY <1>3, <1>5, SharedIsPartitionNext

\* A step that moves nothing.
LEMMA SameLists ==
    ASSUME NothingLostOrShared, head' = head, private_chunk' = private_chunk,
           chunk_head' = chunk_head, held' = held,
           \A d \in CPUs : InHand(d)' = InHand(d)
    PROVE  NothingLostOrShared'
<1>1. \A d \in CPUs : Cached(d)' = Cached(d)
  BY DEF Cached
<1>2. \A d \in CPUs : Own(d)'
  BY SharedIsPartition DEF Own
<1>3. \A d \in CPUs : Pools'[d] = Pools[d]
  BY <1>1 DEF Pools
<1>4. Partition(held, Contents(chunk_head), Pools)
  BY SharedIsPartition
<1>5. Partition(held', Contents(chunk_head'), Pools')
  BY <1>3, <1>4 DEF Partition
<1>6. Separate(chunk_head')
  BY SharedIsPartition
<1>7. QED
  BY <1>2, <1>5, <1>6, SharedIsPartitionNext

\* The same for FreeTwoIsSafe, when the CPU is not in mempool_free_2 afterwards.
LEMMA FreeTwoOneCpu ==
    ASSUME FreeTwoIsSafe, NEW c \in CPUs,
           \A d \in CPUs : d # c =>
              /\ head'[d] = head[d] /\ private_chunk'[d] = private_chunk[d]
              /\ pc'[d] = pc[d] /\ num_free'[d] = num_free[d],
           num_free'[c] <= chunk_size,
           num_free'[c] = chunk_size => head'[c] # NULL,
           pc'[c] = "run"
    PROVE  FreeTwoIsSafe'
  BY DEF FreeTwoIsSafe

LEMMA CpuFacts ==
    ASSUME Inv, NEW c \in CPUs
    PROVE  /\ head[c] \in Seq(Elem) /\ private_chunk[c] \in Seq(Elem)
           /\ num_free[c] \in Int
           /\ Own(c) /\ ChunkList(chunk_head)
           /\ held \cap Contents(chunk_head) = {}
           /\ Cached(c) \cap (held \cup Contents(chunk_head)) = {}
           /\ chunk_size \in Nat \ {0}
           /\ held \subseteq Elem
  BY MempoolAssumption DEF Inv, TypeOK, NothingLostOrShared, Own, ChunkList, NoEmptyChunk

\* mempool_alloc pops the CPU's list.
LEMMA AllocStep ==
    ASSUME Inv, NEW c \in CPUs, mempool_alloc(c)
    PROVE  Inv'
<1> DEFINE h == head[c]
           e == Head(head[c])
<1>0. /\ pc[c] = "run" /\ h # NULL /\ held' = held \cup {e}
      /\ head' = [head EXCEPT ![c] = Tail(h)]
      /\ num_free' = [num_free EXCEPT ![c] = @ - 1]
      /\ UNCHANGED <<private_chunk, chunk_head, free_chunks, locked, pc, seen, elem>>
  BY DEF mempool_alloc
<1>t. TypeOK
  BY DEF Inv
<1>1. /\ h \in Seq(Elem) /\ Own(c) /\ held \subseteq Elem /\ num_free[c] \in Int
      /\ ChunkList(chunk_head) /\ held \cap Contents(chunk_head) = {}
      /\ Cached(c) \cap (held \cup Contents(chunk_head)) = {}
  BY CpuFacts
<1>2. /\ e \in Elem /\ e \in Range(h) /\ Tail(h) \in Seq(Elem)
      /\ IsInjective(Tail(h)) /\ Range(Tail(h)) = Range(h) \ {e}
  BY <1>0, <1>1, TailList DEF Own, NULL
<1>3. /\ head'[c] = Tail(h) /\ num_free'[c] = num_free[c] - 1
      /\ \A d \in CPUs : d # c => head'[d] = head[d] /\ num_free'[d] = num_free[d]
  BY <1>0, <1>t DEF TypeOK
<1>4. TypeOK'
  <2>1. head' \in [CPUs -> Seq(Elem)] /\ num_free' \in [CPUs -> Int]
    BY <1>0, <1>1, <1>2, <1>t, SMTT(30) DEF TypeOK
  <2>2. QED
    BY <1>0, <1>1, <1>2, <1>t, <2>1 DEF TypeOK
<1>5. NothingLostOrShared'
  <2> HIDE DEF h, e
  <2>1. /\ InHand(c)' = InHand(c) /\ private_chunk'[c] = private_chunk[c]
        /\ Contents(chunk_head') = Contents(chunk_head) /\ Separate(chunk_head')
    BY <1>0, <1>1 DEF InHand, ChunkList
  <2>2. /\ Range(head[c]) \cap Range(private_chunk[c]) = {}
        /\ InHand(c) \cap (Range(head[c]) \cup Range(private_chunk[c])) = {}
        /\ IsInjective(private_chunk[c])
    BY <1>1 DEF Own
  <2>3. Own(c)'
    BY <1>2, <1>3, <2>1, <2>2 DEF Own, h
  <2>4. Cached(c)' = Cached(c) \ {e} /\ e \in Cached(c)
    BY <1>2, <1>3, <2>1, <2>2 DEF Cached, h
  <2>5. QED
    BY <1>0, <1>1, <1>3, <2>1, <2>3, <2>4, OneCpuStep DEF Inv
<1>6. FreeTwoIsSafe'
  <2>1. FreeTwoIsSafe /\ chunk_size \in Nat /\ num_free[c] \in Int
    BY <1>1, MempoolAssumption DEF Inv
  <2>2. num_free[c] <= chunk_size /\ num_free'[c] = num_free[c] - 1
    BY <1>3, <2>1 DEF FreeTwoIsSafe
  <2>3. num_free'[c] <= chunk_size /\ num_free'[c] # chunk_size
    BY <2>1, <2>2, SMTT(30)
  <2>4. /\ pc'[c] = "run"
        /\ \A d \in CPUs : d # c =>
              /\ head'[d] = head[d] /\ private_chunk'[d] = private_chunk[d]
              /\ pc'[d] = pc[d] /\ num_free'[d] = num_free[d]
    BY <1>0, <1>3
  <2>5. QED
    BY <2>1, <2>3, <2>4, FreeTwoOneCpu
<1>7. LockProtects' /\ NoEmptyChunk' /\ WaitsFor'
  BY <1>0, <1>3 DEF Inv, LockProtects, NoEmptyChunk, WaitsFor
<1>8. QED
  BY <1>4, <1>5, <1>6, <1>7 DEF Inv

\* mempool_alloc_2 takes the private chunk.
LEMMA AllocPrivateStep ==
    ASSUME Inv, NEW c \in CPUs, AllocPrivate(c)
    PROVE  Inv'
<1> DEFINE p == private_chunk[c]
           e == Head(private_chunk[c])
<1>0. /\ pc[c] = "run" /\ head[c] = NULL /\ p # NULL /\ held' = held \cup {e}
      /\ head' = [head EXCEPT ![c] = Tail(p)]
      /\ private_chunk' = [private_chunk EXCEPT ![c] = NULL]
      /\ UNCHANGED <<num_free, chunk_head, free_chunks, locked, pc, seen, elem>>
  BY DEF AllocPrivate
<1>t. TypeOK
  BY DEF Inv
<1>1. /\ p \in Seq(Elem) /\ Own(c) /\ held \subseteq Elem
      /\ ChunkList(chunk_head) /\ held \cap Contents(chunk_head) = {}
      /\ Cached(c) \cap (held \cup Contents(chunk_head)) = {}
  BY CpuFacts
<1>2. /\ e \in Elem /\ e \in Range(p) /\ Tail(p) \in Seq(Elem)
      /\ IsInjective(Tail(p)) /\ Range(Tail(p)) = Range(p) \ {e}
  BY <1>0, <1>1, TailList DEF Own, NULL
<1>n. NULL \in Seq(Elem) /\ IsInjective(NULL) /\ Range(NULL) = {}
  BY EmptyList, SMTT(30) DEF NULL
<1>3. /\ head'[c] = Tail(p) /\ private_chunk'[c] = NULL
      /\ \A d \in CPUs : d # c =>
            head'[d] = head[d] /\ private_chunk'[d] = private_chunk[d]
  BY <1>0, <1>t DEF TypeOK
<1>4. TypeOK'
  <2>1. head' \in [CPUs -> Seq(Elem)] /\ private_chunk' \in [CPUs -> Seq(Elem)]
    BY <1>0, <1>2, <1>n, <1>t DEF TypeOK
  <2>2. QED
    BY <1>0, <1>1, <1>2, <1>t, <2>1 DEF TypeOK
<1>5. NothingLostOrShared'
  <2> HIDE DEF p, e
  <2>1. /\ InHand(c)' = {} /\ InHand(c) = {}
        /\ Contents(chunk_head') = Contents(chunk_head) /\ Separate(chunk_head')
    BY <1>0, <1>1 DEF InHand, ChunkList
  <2>3. Own(c)'
    BY <1>2, <1>3, <1>n, <2>1 DEF Own
  <2>4. Cached(c)' = Cached(c) \ {e} /\ e \in Cached(c)
    BY <1>0, <1>2, <1>3, <1>n, <2>1 DEF Cached, p
  <2>5. QED
    BY <1>0, <1>1, <1>3, <2>1, <2>3, <2>4, OneCpuStep DEF Inv
<1>6. FreeTwoIsSafe'
  BY <1>0, <1>3, SMTT(30) DEF Inv, FreeTwoIsSafe
<1>7. LockProtects' /\ NoEmptyChunk' /\ WaitsFor'
  BY <1>0, <1>3 DEF Inv, LockProtects, NoEmptyChunk, WaitsFor
<1>8. QED
  BY <1>4, <1>5, <1>6, <1>7 DEF Inv

\* mempool_alloc_2 goes to the datastore.
LEMMA AllocSharedStep ==
    ASSUME Inv, NEW c \in CPUs, AllocShared(c)
    PROVE  Inv'
<1>0. /\ pc[c] = "run" /\ head[c] = NULL /\ private_chunk[c] = NULL
      /\ pc' = [pc EXCEPT ![c] = "alloc_2"]
      /\ UNCHANGED <<head, private_chunk, num_free, chunk_head, free_chunks,
                     locked, seen, elem, held>>
  BY DEF AllocShared
<1>t. TypeOK
  BY DEF Inv
<1>1. pc'[c] = "alloc_2" /\ \A d \in CPUs : d # c => pc'[d] = pc[d]
  BY <1>0, <1>t DEF TypeOK
<1>2. TypeOK'
  BY <1>0, <1>t DEF TypeOK
<1>3. NothingLostOrShared'
  <2>1. \A d \in CPUs : InHand(d)' = InHand(d)
    BY <1>0, <1>1 DEF InHand
  <2>2. QED
    BY <1>0, <2>1, SameLists DEF Inv
<1>4. FreeTwoIsSafe' /\ LockProtects' /\ NoEmptyChunk' /\ WaitsFor'
  BY <1>0, <1>1, SMTT(30) DEF Inv, FreeTwoIsSafe, LockProtects, NoEmptyChunk, WaitsFor
<1>5. QED
  BY <1>2, <1>3, <1>4 DEF Inv

\* The lock is taken only when no CPU is behind it.
LEMMA SpinLockStep ==
    ASSUME Inv, NEW c \in CPUs, spin_lock(c)
    PROVE  Inv'
<1>0. /\ pc[c] \in {"alloc_2", "free_2"} /\ ~locked /\ locked' = TRUE
      /\ pc' = [pc EXCEPT ![c] = IF pc[c] = "alloc_2" THEN "pop" ELSE "push"]
      /\ seen' = [seen EXCEPT ![c] = chunk_head]
      /\ UNCHANGED <<head, private_chunk, num_free, chunk_head, free_chunks, elem, held>>
  BY DEF spin_lock, test_and_set
<1>t. TypeOK
  BY DEF Inv
<1>1. /\ pc'[c] = IF pc[c] = "alloc_2" THEN "pop" ELSE "push"
      /\ seen'[c] = chunk_head
      /\ \A d \in CPUs : d # c => pc'[d] = pc[d] /\ seen'[d] = seen[d]
  BY <1>0, <1>t DEF TypeOK
<1>2. TypeOK'
  BY <1>0, <1>t DEF TypeOK
<1>3. NothingLostOrShared'
  <2>1. \A d \in CPUs : InHand(d)' = InHand(d)
    BY <1>0, <1>1, SMTT(30) DEF InHand
  <2>2. QED
    BY <1>0, <2>1, SameLists DEF Inv
<1>4. LockProtects'
  <2>1. \A d \in CPUs : pc[d] \notin {"pop", "push"}
    BY <1>0 DEF Inv, LockProtects
  <2>2. QED
    BY <1>0, <1>1, <2>1 DEF LockProtects
<1>5. FreeTwoIsSafe' /\ NoEmptyChunk' /\ WaitsFor'
  BY <1>0, <1>1, SMTT(30) DEF Inv, FreeTwoIsSafe, NoEmptyChunk, WaitsFor
<1>6. QED
  BY <1>2, <1>3, <1>4, <1>5 DEF Inv

\* A chunk of the datastore becomes the list of the CPU.
LEMMA PopChunkStep ==
    ASSUME Inv, NEW c \in CPUs, PopChunk(c)
    PROVE  Inv'
<1> DEFINE k == Head(chunk_head)
           e == Head(k)
<1>t. TypeOK
  BY DEF Inv
<1>0. /\ pc[c] = "pop" /\ chunk_head # NULL /\ chunk_head' = Tail(chunk_head)
      /\ head' = [head EXCEPT ![c] = Tail(k)] /\ held' = held \cup {e}
      /\ locked' = FALSE /\ free_chunks' = free_chunks - 1
      /\ pc' = [pc EXCEPT ![c] = "run"] /\ seen' = [seen EXCEPT ![c] = NULL]
      /\ UNCHANGED <<private_chunk, num_free, elem>>
      /\ head[c] = NULL /\ private_chunk[c] = NULL
      /\ \A d \in CPUs : d # c => pc[d] \notin {"pop", "push"}
  BY DEF PopChunk, Inv, LockProtects, WaitsFor
<1>1. /\ held \subseteq Elem /\ ChunkList(chunk_head)
      /\ held \cap Contents(chunk_head) = {}
      /\ Cached(c) \cap (held \cup Contents(chunk_head)) = {}
  BY CpuFacts
<1>2. /\ k \in Seq(Elem) /\ k # NULL /\ IsInjective(k)
      /\ Range(k) \subseteq Contents(chunk_head)
      /\ ChunkList(Tail(chunk_head))
      /\ Contents(Tail(chunk_head)) = Contents(chunk_head) \ Range(k)
  BY <1>0, <1>1, TailChunks DEF NULL
<1>3. /\ e \in Elem /\ e \in Range(k) /\ Tail(k) \in Seq(Elem)
      /\ IsInjective(Tail(k)) /\ Range(Tail(k)) = Range(k) \ {e}
  <2> HIDE DEF k
  <2>1. QED
    BY <1>2, TailList DEF NULL
<1>n. NULL \in Seq(Seq(Elem)) /\ IsInjective(NULL) /\ Range(NULL) = {}
  BY EmptyList, SMTT(30) DEF NULL
<1> HIDE DEF k, e
<1>4. /\ head'[c] = Tail(k) /\ pc'[c] = "run" /\ private_chunk'[c] = NULL
      /\ \A d \in CPUs : d # c => head'[d] = head[d] /\ pc'[d] = pc[d]
  BY <1>0, <1>t DEF TypeOK
<1>5. TypeOK'
  <2>1. /\ head' \in [CPUs -> Seq(Elem)] /\ seen' \in [CPUs -> Seq(Seq(Elem))]
        /\ chunk_head' \in Seq(Seq(Elem)) /\ held' \subseteq Elem
    BY <1>0, <1>1, <1>2, <1>3, <1>n, <1>t DEF TypeOK, ChunkList
  <2>2. /\ pc' \in [CPUs -> {"run", "alloc_2", "pop", "free_2", "push"}]
        /\ free_chunks' \in Int
    BY <1>0, <1>t, SMTT(30) DEF TypeOK
  <2>3. QED
    BY <1>0, <1>t, <2>1, <2>2 DEF TypeOK
<1>6. NothingLostOrShared'
  <2>1. InHand(c)' = {} /\ InHand(c) = {}
    BY <1>0, <1>4 DEF InHand
  <2>2. Own(c)'
    BY <1>3, <1>4, <1>n, <2>1 DEF Own
  <2>3. Cached(c)' = Range(k) \ {e} /\ Cached(c) = {}
    BY <1>0, <1>3, <1>4, <1>n, <2>1 DEF Cached
  <2>4. /\ Contents(chunk_head') = Contents(chunk_head) \ Range(k)
        /\ Separate(chunk_head')
    BY <1>0, <1>2 DEF ChunkList
  <2>5. /\ held' \cup Contents(chunk_head') \cup Cached(c)'
             = held \cup Contents(chunk_head) \cup Cached(c)
        /\ held' \cap Contents(chunk_head') = {}
        /\ Cached(c)' \cap (held' \cup Contents(chunk_head')) = {}
    BY <1>0, <1>1, <1>2, <1>3, <2>3, <2>4, SMTT(30)
  <2>6. QED
    BY <1>0, <1>4, <2>2, <2>4, <2>5, OneCpuStep DEF Inv
<1>7. FreeTwoIsSafe'
  BY <1>0, <1>4, SMTT(30) DEF Inv, FreeTwoIsSafe
<1>8. LockProtects' /\ WaitsFor'
  BY <1>0, <1>4, SMTT(30) DEF Inv, LockProtects, WaitsFor
<1>9. NoEmptyChunk'
  BY <1>0, <1>2 DEF NoEmptyChunk, ChunkList
<1>10. QED
  BY <1>5, <1>6, <1>7, <1>8, <1>9 DEF Inv

\* mempool_alloc returns NULL.
LEMMA PopNothingStep ==
    ASSUME Inv, NEW c \in CPUs, PopNothing(c)
    PROVE  Inv'
<1>t. TypeOK
  BY DEF Inv
<1>0. /\ pc[c] = "pop" /\ locked' = FALSE /\ pc' = [pc EXCEPT ![c] = "run"]
      /\ UNCHANGED <<head, private_chunk, num_free, chunk_head, free_chunks,
                     seen, elem, held>>
      /\ \A d \in CPUs : d # c => pc[d] \notin {"pop", "push"}
  BY DEF PopNothing, Inv, LockProtects
<1>1. pc'[c] = "run" /\ \A d \in CPUs : d # c => pc'[d] = pc[d]
  BY <1>0, <1>t DEF TypeOK
<1>2. TypeOK'
  BY <1>0, <1>t DEF TypeOK
<1>3. NothingLostOrShared'
  <2>1. \A d \in CPUs : InHand(d)' = InHand(d)
    BY <1>0, <1>1 DEF InHand
  <2>2. QED
    BY <1>0, <2>1, SameLists DEF Inv
<1>4. FreeTwoIsSafe' /\ LockProtects' /\ NoEmptyChunk' /\ WaitsFor'
  BY <1>0, <1>1, SMTT(30) DEF Inv, FreeTwoIsSafe, LockProtects, NoEmptyChunk, WaitsFor
<1>5. QED
  BY <1>2, <1>3, <1>4 DEF Inv

\* mempool_free pushes onto the CPU's list.
LEMMA FreeStep ==
    ASSUME Inv, NEW c \in CPUs, NEW e \in held, mempool_free(c, e)
    PROVE  Inv'
<1> DEFINE h == head[c]
<1>t. TypeOK
  BY DEF Inv
<1>0. /\ pc[c] = "run" /\ num_free[c] < chunk_size /\ held' = held \ {e}
      /\ head' = [head EXCEPT ![c] = <<e>> \o h]
      /\ num_free' = [num_free EXCEPT ![c] = @ + 1]
      /\ UNCHANGED <<private_chunk, chunk_head, free_chunks, locked, pc, seen, elem>>
  BY DEF mempool_free
<1>1. /\ h \in Seq(Elem) /\ Own(c) /\ held \subseteq Elem /\ num_free[c] \in Int
      /\ ChunkList(chunk_head) /\ held \cap Contents(chunk_head) = {}
      /\ Cached(c) \cap (held \cup Contents(chunk_head)) = {}
      /\ chunk_size \in Nat
  BY CpuFacts
<1>2. e \in Elem /\ e \notin Range(h)
  BY <1>1 DEF Cached
<1>3. /\ <<e>> \o h \in Seq(Elem) /\ IsInjective(<<e>> \o h)
      /\ Range(<<e>> \o h) = Range(h) \cup {e} /\ <<e>> \o h # NULL
  <2>1. IsInjective(h)
    BY <1>1 DEF Own
  <2> HIDE DEF h
  <2>2. QED
    BY <1>1, <1>2, <2>1, PushList, SMTT(30) DEF NULL
<1>4. /\ head'[c] = <<e>> \o h /\ num_free'[c] = num_free[c] + 1
      /\ \A d \in CPUs : d # c => head'[d] = head[d] /\ num_free'[d] = num_free[d]
  BY <1>0, <1>t DEF TypeOK
<1>5. TypeOK'
  <2>1. head' \in [CPUs -> Seq(Elem)] /\ num_free' \in [CPUs -> Int]
    BY <1>0, <1>1, <1>3, <1>t, SMTT(30) DEF TypeOK
  <2>2. QED
    BY <1>0, <1>t, <2>1 DEF TypeOK
<1>6. NothingLostOrShared'
  <2> HIDE DEF h
  <2>1. /\ InHand(c)' = {} /\ InHand(c) = {} /\ private_chunk'[c] = private_chunk[c]
        /\ Contents(chunk_head') = Contents(chunk_head) /\ Separate(chunk_head')
    BY <1>0, <1>1 DEF InHand, ChunkList
  <2>2. /\ Range(head[c]) \cap Range(private_chunk[c]) = {}
        /\ IsInjective(private_chunk[c]) /\ e \notin Range(private_chunk[c])
    BY <1>1 DEF Own, Cached
  <2>3. Own(c)'
    BY <1>3, <1>4, <2>1, <2>2 DEF Own, h
  <2>4. Cached(c)' = Cached(c) \cup {e} /\ e \notin Cached(c)
    BY <1>1, <1>3, <1>4, <2>1, <2>2 DEF Cached, h
  <2>5. QED
    BY <1>0, <1>1, <1>4, <2>1, <2>3, <2>4, OneCpuStep, SMTT(30) DEF Inv
<1>7. FreeTwoIsSafe'
  <2>1. num_free'[c] <= chunk_size /\ head'[c] # NULL
    BY <1>0, <1>1, <1>3, <1>4, SMTT(30)
  <2>2. QED
    BY <1>0, <1>4, <2>1, SMTT(30) DEF Inv, FreeTwoIsSafe
<1>8. LockProtects' /\ NoEmptyChunk' /\ WaitsFor'
  BY <1>0, <1>4 DEF Inv, LockProtects, NoEmptyChunk, WaitsFor
<1>9. QED
  BY <1>5, <1>6, <1>7, <1>8 DEF Inv

\* What the end of mempool_free_2 leaves on the CPU.
LEMMA StartListFacts ==
    ASSUME Inv, NEW c \in CPUs, NEW e \in Elem, StartList(c, e)
    PROVE  /\ head' \in [CPUs -> Seq(Elem)] /\ private_chunk' \in [CPUs -> Seq(Elem)]
           /\ num_free' \in [CPUs -> Int]
           /\ head'[c] = <<e>> /\ head'[c] # NULL /\ Range(head'[c]) = {e}
           /\ IsInjective(head'[c]) /\ Len(head'[c]) = 1
           /\ private_chunk'[c] = head[c]
           /\ num_free'[c] = IF ResetsNumFree THEN 1 ELSE num_free[c]
           /\ num_free'[c] <= chunk_size
           /\ \A d \in CPUs : d # c => /\ head'[d] = head[d]
                                       /\ private_chunk'[d] = private_chunk[d]
                                       /\ num_free'[d] = num_free[d]
<1>t. /\ head \in [CPUs -> Seq(Elem)] /\ private_chunk \in [CPUs -> Seq(Elem)]
      /\ num_free \in [CPUs -> Int] /\ num_free[c] <= chunk_size
      /\ chunk_size \in Nat \ {0}
  BY MempoolAssumption DEF Inv, TypeOK, FreeTwoIsSafe
<1>1. <<e>> \in Seq(Elem) /\ Range(<<e>>) = {e} /\ IsInjective(<<e>>)
      /\ Len(<<e>>) = 1 /\ <<e>> # NULL
  BY OneElemList DEF NULL
<1>2. /\ private_chunk' = [private_chunk EXCEPT ![c] = head[c]]
      /\ head' = [head EXCEPT ![c] = <<e>>]
      /\ num_free' = [num_free EXCEPT ![c] = IF ResetsNumFree THEN 1 ELSE num_free[c]]
  BY DEF StartList
<1>3. /\ head' \in [CPUs -> Seq(Elem)] /\ head'[c] = <<e>>
      /\ \A d \in CPUs : d # c => head'[d] = head[d]
  BY <1>t, <1>1, <1>2
<1>4. /\ private_chunk' \in [CPUs -> Seq(Elem)] /\ private_chunk'[c] = head[c]
      /\ \A d \in CPUs : d # c => private_chunk'[d] = private_chunk[d]
  BY <1>t, <1>2
<1>5. /\ num_free' \in [CPUs -> Int]
      /\ num_free'[c] = IF ResetsNumFree THEN 1 ELSE num_free[c]
      /\ \A d \in CPUs : d # c => num_free'[d] = num_free[d]
  BY <1>t, <1>2, SMTT(30)
<1>6. num_free'[c] <= chunk_size
  BY <1>t, <1>5, SMTT(30)
<1>7. QED
  BY <1>1, <1>3, <1>4, <1>5, <1>6

\* mempool_free_2 makes the list the private chunk and begins a new one.
LEMMA FreePrivateStep ==
    ASSUME Inv, NEW c \in CPUs, NEW e \in held, FreePrivate(c, e)
    PROVE  Inv'
<1>t. TypeOK
  BY DEF Inv
<1>0. /\ pc[c] = "run" /\ num_free[c] >= chunk_size /\ private_chunk[c] = NULL
      /\ held' = held \ {e} /\ StartList(c, e)
      /\ UNCHANGED <<chunk_head, free_chunks, locked, pc, seen, elem>>
  BY DEF FreePrivate
<1>1. /\ head[c] \in Seq(Elem) /\ Own(c) /\ held \subseteq Elem /\ num_free[c] \in Int
      /\ ChunkList(chunk_head) /\ held \cap Contents(chunk_head) = {}
      /\ Cached(c) \cap (held \cup Contents(chunk_head)) = {}
      /\ chunk_size \in Nat
  BY CpuFacts
<1>2. e \in Elem /\ e \notin Range(head[c])
  BY <1>1 DEF Cached
<1>3. /\ head' \in [CPUs -> Seq(Elem)] /\ private_chunk' \in [CPUs -> Seq(Elem)]
      /\ num_free' \in [CPUs -> Int]
      /\ head'[c] # NULL /\ Range(head'[c]) = {e} /\ IsInjective(head'[c])
      /\ private_chunk'[c] = head[c] /\ num_free'[c] <= chunk_size
      /\ \A d \in CPUs : d # c => /\ head'[d] = head[d]
                                  /\ private_chunk'[d] = private_chunk[d]
                                  /\ num_free'[d] = num_free[d]
  BY <1>0, <1>2, StartListFacts
<1>5. TypeOK'
  BY <1>0, <1>3, <1>t DEF TypeOK
<1>6. NothingLostOrShared'
  <2>1. /\ InHand(c)' = {} /\ InHand(c) = {}
        /\ Contents(chunk_head') = Contents(chunk_head) /\ Separate(chunk_head')
    BY <1>0, <1>1 DEF InHand, ChunkList
  <2>2. Own(c)'
    BY <1>1, <1>2, <1>3, <2>1, SMTT(30) DEF Own
  <2>3. Range(private_chunk[c]) = {}
    BY <1>0, EmptyList DEF NULL
  <2>4. Cached(c)' = Cached(c) \cup {e} /\ e \notin Cached(c)
    BY <1>1, <1>3, <2>1, <2>3 DEF Cached
  <2>5. /\ held' \cup Contents(chunk_head') \cup Cached(c)'
             = held \cup Contents(chunk_head) \cup Cached(c)
        /\ held' \cap Contents(chunk_head') = {}
        /\ Cached(c)' \cap (held' \cup Contents(chunk_head')) = {}
    BY <1>0, <1>1, <2>1, <2>4
  <2>6. \A d \in CPUs : d # c =>
           /\ head'[d] = head[d] /\ private_chunk'[d] = private_chunk[d]
           /\ pc'[d] = pc[d] /\ elem'[d] = elem[d]
    BY <1>0, <1>3
  <2>7. QED
    BY <2>1, <2>2, <2>5, <2>6, OneCpuStep DEF Inv
<1>7. FreeTwoIsSafe'
  BY <1>0, <1>3 DEF Inv, FreeTwoIsSafe
<1>8. LockProtects' /\ NoEmptyChunk' /\ WaitsFor'
  BY <1>0, <1>3 DEF Inv, LockProtects, NoEmptyChunk, WaitsFor
<1>9. QED
  BY <1>5, <1>6, <1>7, <1>8 DEF Inv

\* mempool_free_2 has the element in hand while it waits for the lock.
LEMMA FreeSharedStep ==
    ASSUME Inv, NEW c \in CPUs, NEW e \in held, FreeShared(c, e)
    PROVE  Inv'
<1>t. TypeOK
  BY DEF Inv
<1>0. /\ pc[c] = "run" /\ num_free[c] >= chunk_size /\ private_chunk[c] # NULL
      /\ held' = held \ {e} /\ elem' = [elem EXCEPT ![c] = e]
      /\ pc' = [pc EXCEPT ![c] = "free_2"]
      /\ UNCHANGED <<head, private_chunk, num_free, chunk_head, free_chunks,
                     locked, seen>>
  BY DEF FreeShared
<1>1. /\ Own(c) /\ held \subseteq Elem /\ num_free[c] \in Int
      /\ ChunkList(chunk_head) /\ held \cap Contents(chunk_head) = {}
      /\ Cached(c) \cap (held \cup Contents(chunk_head)) = {}
      /\ chunk_size \in Nat
  BY CpuFacts
<1>2. e \in Elem /\ e \notin Cached(c)
  BY <1>1
<1>3. /\ pc'[c] = "free_2" /\ elem'[c] = e
      /\ \A d \in CPUs : d # c => pc'[d] = pc[d] /\ elem'[d] = elem[d]
  BY <1>0, <1>t DEF TypeOK
<1>4. TypeOK'
  BY <1>0, <1>2, <1>t DEF TypeOK
<1>5. NothingLostOrShared'
  <2>1. /\ InHand(c)' = {e} /\ InHand(c) = {}
        /\ Contents(chunk_head') = Contents(chunk_head) /\ Separate(chunk_head')
    BY <1>0, <1>1, <1>3 DEF InHand, ChunkList
  <2>2. Own(c)'
    BY <1>0, <1>1, <1>2, <2>1 DEF Own, Cached
  <2>3. Cached(c)' = Cached(c) \cup {e}
    <3>1. Range(head'[c]) = Range(head[c]) /\ Range(private_chunk'[c]) = Range(private_chunk[c])
      BY <1>0
    <3>2. QED
      BY <2>1, <3>1 DEF Cached
  <2>4. /\ held' \cup Contents(chunk_head') \cup Cached(c)'
             = held \cup Contents(chunk_head) \cup Cached(c)
        /\ held' \cap Contents(chunk_head') = {}
        /\ Cached(c)' \cap (held' \cup Contents(chunk_head')) = {}
    BY <1>0, <1>1, <1>2, <2>1, <2>3, SMTT(30)
  <2>5. \A d \in CPUs : d # c =>
           /\ head'[d] = head[d] /\ private_chunk'[d] = private_chunk[d]
           /\ pc'[d] = pc[d] /\ elem'[d] = elem[d]
    BY <1>0, <1>3
  <2>6. QED
    BY <2>1, <2>2, <2>4, <2>5, OneCpuStep DEF Inv
<1>6. FreeTwoIsSafe'
  <2>1. num_free[c] = chunk_size
    <3>1. num_free[c] <= chunk_size
      BY DEF Inv, FreeTwoIsSafe
    <3>2. QED
      BY <1>0, <1>1, <3>1, SMTT(30)
  <2>2. QED
    BY <1>0, <1>3, <2>1 DEF Inv, FreeTwoIsSafe
<1>7. LockProtects' /\ NoEmptyChunk' /\ WaitsFor'
  BY <1>0, <1>2, <1>3, SMTT(30) DEF Inv, LockProtects, NoEmptyChunk, WaitsFor
<1>8. QED
  BY <1>4, <1>5, <1>6, <1>7 DEF Inv

\* The private chunk goes to the datastore, the list becomes the private chunk.
LEMMA PushChunkStep ==
    ASSUME Inv, NEW c \in CPUs, PushChunk(c)
    PROVE  Inv'
<1> DEFINE p == private_chunk[c]
           e == elem[c]
<1>t. TypeOK
  BY DEF Inv
<1>0. /\ pc[c] = "push" /\ chunk_head' = <<p>> \o chunk_head
      /\ locked' = FALSE /\ free_chunks' = free_chunks + 1 /\ StartList(c, e)
      /\ elem' = [elem EXCEPT ![c] = NoElem] /\ pc' = [pc EXCEPT ![c] = "run"]
      /\ seen' = [seen EXCEPT ![c] = NULL] /\ held' = held
      /\ p # NULL /\ e \in Elem
      /\ \A d \in CPUs : d # c => pc[d] \notin {"pop", "push"}
  BY DEF PushChunk, Inv, LockProtects, WaitsFor, FreeTwoIsSafe
<1>1. /\ p \in Seq(Elem) /\ Own(c)
      /\ ChunkList(chunk_head) /\ held \cap Contents(chunk_head) = {}
      /\ Cached(c) \cap (held \cup Contents(chunk_head)) = {}
      /\ chunk_size \in Nat
  BY CpuFacts
<1>2. InHand(c) = {e} /\ IsInjective(p) /\ Range(p) \cap Contents(chunk_head) = {}
  BY <1>0, <1>1 DEF InHand, Own, Cached
<1>3. /\ ChunkList(chunk_head')
      /\ Contents(chunk_head') = Contents(chunk_head) \cup Range(p)
  BY <1>0, <1>1, <1>2, PushChunks
<1>4. /\ head' \in [CPUs -> Seq(Elem)] /\ private_chunk' \in [CPUs -> Seq(Elem)]
      /\ num_free' \in [CPUs -> Int]
      /\ head'[c] # NULL /\ Range(head'[c]) = {e} /\ IsInjective(head'[c])
      /\ private_chunk'[c] = head[c] /\ num_free'[c] <= chunk_size
      /\ \A d \in CPUs : d # c => /\ head'[d] = head[d]
                                  /\ private_chunk'[d] = private_chunk[d]
                                  /\ num_free'[d] = num_free[d]
  BY <1>0, StartListFacts
<1>5. /\ pc'[c] = "run"
      /\ \A d \in CPUs : d # c => pc'[d] = pc[d] /\ elem'[d] = elem[d]
  BY <1>0, <1>t DEF TypeOK
<1>6. TypeOK'
  <2>1. NULL \in Seq(Seq(Elem)) /\ chunk_head' \in Seq(Seq(Elem))
    BY <1>3, SMTT(30) DEF NULL, ChunkList
  <2>2. seen' \in [CPUs -> Seq(Seq(Elem))]
    BY <1>0, <1>t, <2>1 DEF TypeOK
  <2>3. elem' \in [CPUs -> Elem \cup {NoElem}]
    <3>1. elem \in [CPUs -> Elem \cup {NoElem}] /\ NoElem \in Elem \cup {NoElem}
      BY <1>t DEF TypeOK
    <3>2. QED
      BY <1>0, <3>1
  <2>4. pc' \in [CPUs -> {"run", "alloc_2", "pop", "free_2", "push"}]
    BY <1>0, <1>t DEF TypeOK
  <2>5. free_chunks' \in Int /\ held' \subseteq Elem
    BY <1>0, <1>t, SMTT(30) DEF TypeOK
  <2>6. locked' \in BOOLEAN
    BY <1>0
  <2>7. QED
    BY <1>4, <2>1, <2>2, <2>3, <2>4, <2>5, <2>6 DEF TypeOK
<1>7. NothingLostOrShared'
  <2>1. InHand(c)' = {} /\ Separate(chunk_head')
    BY <1>3, <1>5 DEF InHand, ChunkList
  <2> HIDE DEF p, e
  <2>2. /\ IsInjective(head[c]) /\ Range(head[c]) \cap Range(p) = {}
        /\ e \notin Range(head[c]) /\ e \notin Range(p)
    BY <1>1, <1>2 DEF Own, p
  <2>3. Own(c)'
    BY <1>4, <2>1, <2>2 DEF Own
  <2>4. /\ Cached(c)' = Range(head[c]) \cup {e}
        /\ Cached(c) = Range(head[c]) \cup Range(p) \cup {e}
    BY <1>2, <1>4, <2>1 DEF Cached, p
  <2>5. /\ held' \cup Contents(chunk_head') \cup Cached(c)'
             = held \cup Contents(chunk_head) \cup Cached(c)
        /\ held' \cap Contents(chunk_head') = {}
        /\ Cached(c)' \cap (held' \cup Contents(chunk_head')) = {}
    BY <1>0, <1>1, <1>3, <2>2, <2>4, SMTT(30)
  <2>6. QED
    BY <1>4, <1>5, <2>1, <2>3, <2>5, OneCpuStep DEF Inv
<1>8. FreeTwoIsSafe'
  BY <1>4, <1>5 DEF Inv, FreeTwoIsSafe
<1>9. LockProtects' /\ WaitsFor'
  BY <1>0, <1>4, <1>5 DEF Inv, LockProtects, WaitsFor
<1>10. NoEmptyChunk'
  BY <1>3 DEF NoEmptyChunk, ChunkList
<1>11. QED
  BY <1>6, <1>7, <1>8, <1>9, <1>10 DEF Inv

----------------------------------------------------------------------------
\* The buffer is cut into chunks that share nothing.
LEMMA InvInit == Init => Inv
<1> SUFFICES ASSUME Init PROVE Inv
  OBVIOUS
<1>a. chunk_size \in Nat \ {0} /\ num_chunks \in Nat
  BY MempoolAssumption
<1>1. \A k \in 1 .. num_chunks :
         /\ num_chunks - k + 1 \in 1 .. num_chunks
         /\ InitChunk(k) \in Seq(Elem) /\ InitChunk(k) # NULL
         /\ IsInjective(InitChunk(k))
         /\ Range(InitChunk(k)) = {num_chunks - k + 1} \X (1 .. chunk_size)
  <2> TAKE k \in 1 .. num_chunks
  <2> DEFINE m == num_chunks - k + 1
             u == InitChunk(k)
  <2>1. m \in 1 .. num_chunks
    BY <1>a, SMTT(30)
  <2> HIDE DEF m
  <2>2. u = [j \in 1 .. chunk_size |-> <<m, j>>]
    BY DEF InitChunk, m
  <2>3. \A j \in 1 .. chunk_size : <<m, j>> \in Elem
    BY <2>1 DEF Elem
  <2>4. u \in Seq(Elem) /\ Len(u) = chunk_size
    BY <1>a, <2>2, <2>3, IsASeq, SMTT(30)
  <2>5. u # NULL
    BY <1>a, <2>4, EmptyList DEF NULL
  <2>6. IsInjective(u)
    BY <2>2, SMTT(30) DEF IsInjective
  <2>7. Range(u) = {m} \X (1 .. chunk_size)
    BY <2>2, SMTT(30) DEF Range
  <2>8. QED
    BY <2>1, <2>4, <2>5, <2>6, <2>7 DEF m
<1>2. /\ chunk_head = [k \in 1 .. num_chunks |-> InitChunk(k)]
      /\ chunk_head \in Seq(Seq(Elem)) /\ Len(chunk_head) = num_chunks
  BY <1>a, <1>1, IsASeq, SMTT(30) DEF Init
<1>3. Separate(chunk_head)
  <2>1. \A k, l \in 1 .. num_chunks : k # l => num_chunks - k + 1 # num_chunks - l + 1
    BY <1>a, SMTT(30)
  <2>2. \A k, l \in 1 .. num_chunks :
           k # l => Range(InitChunk(k)) \cap Range(InitChunk(l)) = {}
    BY <1>1, <2>1, SMTT(30)
  <2>3. QED
    BY <1>1, <1>2, <2>2 DEF Separate
<1>4. Elem \subseteq Contents(chunk_head)
  <2> SUFFICES ASSUME NEW m \in 1 .. num_chunks, NEW j \in 1 .. chunk_size
               PROVE  <<m, j>> \in Contents(chunk_head)
    BY SMTT(30) DEF Elem
  <2> DEFINE k == num_chunks - m + 1
  <2>1. k \in 1 .. num_chunks /\ num_chunks - k + 1 = m
    BY <1>a, SMTT(30)
  <2> HIDE DEF k
  <2>2. <<m, j>> \in Range(chunk_head[k]) /\ k \in DOMAIN chunk_head
    BY <1>1, <1>2, <2>1
  <2>3. QED
    BY <2>2 DEF Contents
<1>5. /\ \A c \in CPUs : Cached(c) = {} /\ InHand(c) = {}
      /\ \A c \in CPUs : head[c] = NULL /\ private_chunk[c] = NULL
      /\ Range(NULL) = {} /\ IsInjective(NULL)
  BY EmptyList DEF Init, Cached, InHand, NULL
<1>6. NothingLostOrShared
  BY <1>3, <1>4, <1>5 DEF Init, NothingLostOrShared
<1>7. TypeOK
  <2>1. NULL \in Seq(Elem) /\ NULL \in Seq(Seq(Elem)) /\ NoElem \in Elem \cup {NoElem}
    BY SMTT(30) DEF NULL
  <2>2. /\ head \in [CPUs -> Seq(Elem)] /\ private_chunk \in [CPUs -> Seq(Elem)]
        /\ seen \in [CPUs -> Seq(Seq(Elem))] /\ elem \in [CPUs -> Elem \cup {NoElem}]
    BY <2>1 DEF Init
  <2>3. /\ num_free \in [CPUs -> Int] /\ free_chunks \in Int
        /\ pc \in [CPUs -> {"run", "alloc_2", "pop", "free_2", "push"}]
        /\ held \subseteq Elem
    BY <1>a, SMTT(30) DEF Init
  <2>4. locked \in BOOLEAN
    BY DEF Init
  <2>5. QED
    BY <1>2, <2>2, <2>3, <2>4 DEF TypeOK
<1>8. FreeTwoIsSafe
  BY <1>a, SMTT(30) DEF Init, FreeTwoIsSafe
<1>9. LockProtects /\ WaitsFor
  BY DEF Init, LockProtects, WaitsFor
<1>10. NoEmptyChunk
  BY <1>1, <1>2 DEF NoEmptyChunk
<1>11. QED
  BY <1>6, <1>7, <1>8, <1>9, <1>10 DEF Inv

LEMMA InvNext == Inv /\ [Next]_vars => Inv'
<1> SUFFICES ASSUME Inv, [Next]_vars PROVE Inv'
  OBVIOUS
<1>1. CASE UNCHANGED vars
  <2>1. NothingLostOrShared'
    BY <1>1, SameLists DEF vars, Inv, InHand
  <2>2. TypeOK' /\ FreeTwoIsSafe'
    BY <1>1 DEF vars, Inv, TypeOK, FreeTwoIsSafe
  <2>3. LockProtects' /\ WaitsFor' /\ NoEmptyChunk'
    BY <1>1 DEF vars, Inv, LockProtects, WaitsFor, NoEmptyChunk
  <2>4. QED
    BY <2>1, <2>2, <2>3 DEF Inv
<1>2. CASE Next
  <2>1. PICK c \in CPUs :
           \/ mempool_alloc(c) \/ AllocPrivate(c) \/ AllocShared(c) \/ spin_lock(c)
           \/ PopChunk(c) \/ PopNothing(c) \/ PushChunk(c)
           \/ \E e \in held : mempool_free(c, e) \/ FreePrivate(c, e) \/ FreeShared(c, e)
    BY <1>2 DEF Next
  <2>2. QED
    BY <2>1, AllocStep, AllocPrivateStep, AllocSharedStep, SpinLockStep, PopChunkStep,
       PopNothingStep, PushChunkStep, FreeStep, FreePrivateStep, FreeSharedStep
<1>3. QED
  BY <1>1, <1>2

\* The invariant that the proofs rest on holds of every pool.
THEOREM InvHolds == Spec => []Inv
  BY InvInit, InvNext, PTL DEF Spec

\* Whatever the number of CPUs, chunks and elements in a chunk, and in both
\* copies of the code: mempool_alloc, mempool_alloc_2, mempool_free and
\* mempool_free_2 neither lose an element nor have one in two places.
THEOREM NothingLost == Spec => []NothingLostOrShared
<1>1. Inv => NothingLostOrShared
  BY DEF Inv
<1>2. QED
  BY <1>1, InvHolds, PTL

\* The assertion of mempool_free_2 never fails.
THEOREM FreeTwoSafe == Spec => []FreeTwoIsSafe
<1>1. Inv => FreeTwoIsSafe
  BY DEF Inv
<1>2. QED
  BY <1>1, InvHolds, PTL

\* mempool_alloc returns NULL only when its CPU and the datastore have nothing.
THEOREM NullIsNone == Spec => NullMeansNone
<1> DEFINE A == \A c \in CPUs :
                   pc[c] = "pop" /\ pc'[c] = "run" /\ held' = held =>
                      \A e \in Elem : e \in held \/ \E d \in CPUs \ {c} : e \in Cached(d)
<1>1. Inv /\ [Next]_vars => [A]_vars
  <2> SUFFICES ASSUME Inv, Next, NEW c \in CPUs, pc[c] = "pop", pc'[c] = "run", held' = held
               PROVE  \A e \in Elem : e \in held \/ \E d \in CPUs \ {c} : e \in Cached(d)
    OBVIOUS
  <2>1. /\ seen[c] = chunk_head /\ head[c] = NULL /\ private_chunk[c] = NULL
        /\ ChunkList(chunk_head) /\ held \cap Contents(chunk_head) = {}
        /\ pc \in [CPUs -> {"run", "alloc_2", "pop", "free_2", "push"}]
    BY CpuFacts DEF Inv, TypeOK, LockProtects, WaitsFor
  <2>2. PopChunk(c) \/ PopNothing(c)
    <3>1. PICK d \in CPUs :
             \/ mempool_alloc(d) \/ AllocPrivate(d) \/ AllocShared(d) \/ spin_lock(d)
             \/ PopChunk(d) \/ PopNothing(d) \/ PushChunk(d)
             \/ \E e \in held : mempool_free(d, e) \/ FreePrivate(d, e) \/ FreeShared(d, e)
      BY DEF Next
    <3>2. d = c
      BY <2>1, <3>1 DEF mempool_alloc, AllocPrivate, AllocShared, spin_lock, PopChunk,
         PopNothing, PushChunk, mempool_free, FreePrivate, FreeShared
    <3>3. QED
      BY <3>1, <3>2 DEF mempool_alloc, AllocPrivate, AllocShared, spin_lock, PushChunk,
         mempool_free, FreePrivate, FreeShared
  <2>3. ~ PopChunk(c)
    <3> SUFFICES ASSUME PopChunk(c) PROVE FALSE
      OBVIOUS
    <3> DEFINE k == Head(chunk_head)
    <3>1. chunk_head # NULL /\ held' = held \cup {Head(k)}
      BY <2>1 DEF PopChunk
    <3>2. k \in Seq(Elem) /\ k # NULL /\ IsInjective(k) /\ Range(k) \subseteq Contents(chunk_head)
      BY <2>1, <3>1, TailChunks DEF NULL
    <3> HIDE DEF k
    <3>3. Head(k) \in Range(k)
      BY <3>2, TailList DEF NULL
    <3>4. QED
      BY <2>1, <3>1, <3>2, <3>3
  <2>4. chunk_head = NULL
    BY <2>1, <2>2, <2>3 DEF PopNothing
  <2>5. Contents(chunk_head) = {} /\ Cached(c) = {}
    <3>1. DOMAIN chunk_head = {} /\ Range(head[c]) = {} /\ Range(private_chunk[c]) = {}
      BY <2>1, <2>4, EmptyList, SMTT(30) DEF NULL
    <3>2. Contents(chunk_head) = {}
      BY <3>1 DEF Contents
    <3>3. InHand(c) = {}
      BY DEF InHand
    <3>4. QED
      BY <3>1, <3>2, <3>3 DEF Cached
  <2>6. QED
    BY <2>5 DEF Inv, NothingLostOrShared
<1>2. QED
  BY <1>1, InvHolds, PTL DEF Spec, NullMeansNone

----------------------------------------------------------------------------
\* What the step of one CPU has to show for ChunksAreFull, when it leaves the
\* datastore alone.
LEMMA FullOneCpu ==
    ASSUME ChunksAreFull, NEW c \in CPUs, chunk_head' = chunk_head,
           free_chunks' = free_chunks,
           \A d \in CPUs : d # c =>
              /\ head'[d] = head[d] /\ private_chunk'[d] = private_chunk[d]
              /\ num_free'[d] = num_free[d],
           num_free'[c] <= Len(head'[c]),
           private_chunk'[c] # NULL => Len(private_chunk'[c]) >= chunk_size
    PROVE  ChunksAreFull'
  BY DEF ChunksAreFull

LEMMA FullNext ==
    ASSUME ResetsNumFree, Inv, ChunksAreFull, [Next]_vars
    PROVE  ChunksAreFull'
<1>a. chunk_size \in Nat \ {0} /\ free_chunks = Len(chunk_head)
  BY MempoolAssumption DEF ChunksAreFull
<1>t. /\ head \in [CPUs -> Seq(Elem)] /\ private_chunk \in [CPUs -> Seq(Elem)]
      /\ num_free \in [CPUs -> Int]
  BY DEF Inv, TypeOK
<1>n. Len(NULL) = 0
  BY EmptyList DEF NULL
<1>1. CASE UNCHANGED vars
  BY <1>1 DEF vars, ChunksAreFull
<1>2. ASSUME NEW c \in CPUs, mempool_alloc(c) PROVE ChunksAreFull'
  <2>1. /\ head[c] # NULL /\ num_free'[c] = num_free[c] - 1 /\ head'[c] = Tail(head[c])
        /\ \A d \in CPUs : d # c => head'[d] = head[d] /\ num_free'[d] = num_free[d]
        /\ private_chunk' = private_chunk /\ chunk_head' = chunk_head
        /\ free_chunks' = free_chunks
    BY <1>2, <1>t DEF mempool_alloc
  <2>2. /\ Len(head'[c]) = Len(head[c]) - 1 /\ Len(head[c]) \in Nat
    BY <1>t, <2>1, CpuFacts, TailList, LenProperties DEF Own, NULL
  <2>3. num_free[c] <= Len(head[c]) /\ num_free[c] \in Int
    BY <1>t DEF ChunksAreFull
  <2>4. num_free'[c] <= Len(head'[c])
    BY <2>1, <2>2, <2>3, SMTT(30)
  <2>5. private_chunk'[c] # NULL => Len(private_chunk'[c]) >= chunk_size
    BY <2>1 DEF ChunksAreFull
  <2>6. QED
    BY <2>1, <2>4, <2>5, FullOneCpu
<1>3. ASSUME NEW c \in CPUs, AllocPrivate(c) PROVE ChunksAreFull'
  <2>1. /\ head[c] = NULL /\ private_chunk[c] # NULL
        /\ head'[c] = Tail(private_chunk[c]) /\ private_chunk'[c] = NULL
        /\ \A d \in CPUs : d # c => /\ head'[d] = head[d]
                                    /\ private_chunk'[d] = private_chunk[d]
        /\ num_free' = num_free /\ chunk_head' = chunk_head
        /\ free_chunks' = free_chunks
    BY <1>3, <1>t DEF AllocPrivate
  <2>2. Len(head'[c]) \in Nat
    <3>1. private_chunk[c] \in Seq(Elem) /\ private_chunk[c] # << >>
      BY <1>t, <2>1 DEF NULL
    <3>2. head'[c] \in Seq(Elem)
      BY <2>1, <3>1, HeadTailProperties
    <3>3. QED
      BY <3>2, LenProperties
  <2>3. num_free[c] <= 0 /\ num_free[c] \in Int
    BY <1>t, <1>n, <2>1 DEF ChunksAreFull
  <2>4. num_free'[c] <= Len(head'[c])
    BY <2>1, <2>2, <2>3, SMTT(30)
  <2>5. QED
    BY <2>1, <2>4, FullOneCpu
<1>4. ASSUME NEW c \in CPUs, PopChunk(c) PROVE ChunksAreFull'
  <2> DEFINE k == Head(chunk_head)
             rest == Tail(chunk_head)
  <2>1. /\ chunk_head # NULL /\ head[c] = NULL /\ ChunkList(chunk_head)
        /\ head'[c] = Tail(k) /\ \A d \in CPUs : d # c => head'[d] = head[d]
        /\ num_free' = num_free /\ private_chunk' = private_chunk
        /\ chunk_head' = rest /\ free_chunks' = free_chunks - 1
    BY <1>4, <1>t, CpuFacts DEF PopChunk, Inv, LockProtects, WaitsFor
  <2>2. /\ k \in Seq(Elem) /\ k # NULL /\ ChunkList(rest)
        /\ Len(rest) = Len(chunk_head) - 1
        /\ \A i \in 1 .. Len(rest) : i + 1 \in DOMAIN chunk_head /\ rest[i] = chunk_head[i + 1]
    BY <2>1, TailChunks DEF NULL
  <2> HIDE DEF k, rest
  <2>3. Len(head'[c]) \in Nat /\ DOMAIN rest = 1 .. Len(rest)
    BY <2>1, <2>2, HeadTailProperties, LenProperties DEF NULL, ChunkList
  <2>4. num_free[c] <= 0 /\ num_free[c] \in Int
    BY <1>t, <1>n, <2>1 DEF ChunksAreFull
  <2>5. num_free'[c] <= Len(head'[c])
    BY <2>1, <2>3, <2>4, SMTT(30)
  <2>6. \A i \in DOMAIN rest : Len(rest[i]) >= chunk_size
    BY <2>2, <2>3 DEF ChunksAreFull
  <2>7. free_chunks' = Len(rest)
    BY <1>a, <2>1, <2>2
  <2>8. QED
    BY <2>1, <2>5, <2>6, <2>7 DEF ChunksAreFull
<1>5. ASSUME NEW c \in CPUs, NEW e \in held, mempool_free(c, e) PROVE ChunksAreFull'
  <2>1. /\ num_free'[c] = num_free[c] + 1 /\ head'[c] = <<e>> \o head[c]
        /\ \A d \in CPUs : d # c => head'[d] = head[d] /\ num_free'[d] = num_free[d]
        /\ private_chunk' = private_chunk /\ chunk_head' = chunk_head
        /\ free_chunks' = free_chunks
    BY <1>5, <1>t DEF mempool_free
  <2>2. e \in Elem /\ e \notin Range(head[c]) /\ IsInjective(head[c])
    BY CpuFacts DEF Cached, Own
  <2>3. Len(head'[c]) = Len(head[c]) + 1 /\ Len(head[c]) \in Nat
    <3>1. head[c] \in Seq(Elem)
      BY <1>t
    <3>2. Len(head'[c]) = Len(head[c]) + 1
      BY <2>1, <2>2, <3>1, PushList, SMTT(30)
    <3>3. QED
      BY <3>1, <3>2, LenProperties
  <2>4. num_free[c] <= Len(head[c]) /\ num_free[c] \in Int
    BY <1>t DEF ChunksAreFull
  <2>5. num_free'[c] <= Len(head'[c])
    BY <2>1, <2>3, <2>4, SMTT(30)
  <2>6. private_chunk'[c] # NULL => Len(private_chunk'[c]) >= chunk_size
    BY <2>1 DEF ChunksAreFull
  <2>7. QED
    BY <2>1, <2>5, <2>6, FullOneCpu
<1>6. ASSUME NEW c \in CPUs, NEW e \in Elem, StartList(c, e), num_free[c] >= chunk_size
      PROVE  /\ num_free'[c] <= Len(head'[c]) /\ Len(private_chunk'[c]) >= chunk_size
             /\ \A d \in CPUs : d # c => /\ head'[d] = head[d]
                                         /\ private_chunk'[d] = private_chunk[d]
                                         /\ num_free'[d] = num_free[d]
  <2>1. /\ Len(head'[c]) = 1 /\ private_chunk'[c] = head[c] /\ num_free'[c] = 1
        /\ \A d \in CPUs : d # c => /\ head'[d] = head[d]
                                    /\ private_chunk'[d] = private_chunk[d]
                                    /\ num_free'[d] = num_free[d]
    BY <1>6, StartListFacts
  <2>2. num_free[c] <= Len(head[c]) /\ num_free[c] \in Int /\ Len(head[c]) \in Nat
    BY <1>t, LenProperties DEF ChunksAreFull
  <2>3. Len(head[c]) >= chunk_size
    BY <1>6, <1>a, <2>2, SMTT(30)
  <2>4. QED
    BY <2>1, <2>3, SMTT(30)
<1>7. ASSUME NEW c \in CPUs, NEW e \in held, FreePrivate(c, e) PROVE ChunksAreFull'
  <2>1. /\ e \in Elem /\ StartList(c, e) /\ num_free[c] >= chunk_size
        /\ chunk_head' = chunk_head /\ free_chunks' = free_chunks
    BY <1>7, CpuFacts DEF FreePrivate
  <2>2. QED
    BY <1>6, <2>1, FullOneCpu
<1>8. ASSUME NEW c \in CPUs, PushChunk(c) PROVE ChunksAreFull'
  <2> DEFINE p == private_chunk[c]
             t == <<p>> \o chunk_head
  <2>1. /\ elem[c] \in Elem /\ StartList(c, elem[c]) /\ num_free[c] = chunk_size
        /\ p # NULL /\ chunk_head' = t /\ free_chunks' = free_chunks + 1
        /\ pc[c] = "push"
    BY <1>8 DEF PushChunk, Inv, LockProtects, WaitsFor, FreeTwoIsSafe
  <2>2. /\ p \in Seq(Elem) /\ ChunkList(chunk_head) /\ IsInjective(p)
        /\ Range(p) \cap Contents(chunk_head) = {} /\ Len(p) >= chunk_size
        /\ Len(chunk_head) \in Nat
    BY <2>1, CpuFacts, LenProperties DEF Own, Cached, ChunksAreFull, ChunkList
  <2>3. /\ ChunkList(t) /\ Len(t) = Len(chunk_head) + 1 /\ t[1] = p
        /\ \A k \in 2 .. (Len(chunk_head) + 1) :
              k - 1 \in DOMAIN chunk_head /\ t[k] = chunk_head[k - 1]
    BY <2>1, <2>2, PushChunks
  <2> HIDE DEF p, t
  <2>4. DOMAIN t = 1 .. (Len(chunk_head) + 1)
    BY <2>3, LenProperties DEF ChunkList
  <2>5. \A k \in 2 .. (Len(chunk_head) + 1) : Len(t[k]) >= chunk_size
    BY <2>3 DEF ChunksAreFull
  <2>6. \A k \in DOMAIN t : Len(t[k]) >= chunk_size
    BY <2>2, <2>3, <2>4, <2>5, SMTT(30)
  <2>7. free_chunks' = Len(t)
    BY <1>a, <2>1, <2>3
  <2>8. /\ num_free'[c] <= Len(head'[c]) /\ Len(private_chunk'[c]) >= chunk_size
        /\ \A d \in CPUs : d # c => /\ head'[d] = head[d]
                                    /\ private_chunk'[d] = private_chunk[d]
                                    /\ num_free'[d] = num_free[d]
    <3>1. num_free[c] >= chunk_size
      BY <1>a, <2>1, SMTT(30)
    <3>2. QED
      BY <1>6, <2>1, <3>1
  <2>9. QED
    BY <2>1, <2>6, <2>7, <2>8 DEF ChunksAreFull
<1>9. ASSUME NEW c \in CPUs,
             \/ AllocShared(c) \/ spin_lock(c) \/ PopNothing(c)
             \/ \E e \in held : FreeShared(c, e)
      PROVE  ChunksAreFull'
  BY <1>9 DEF AllocShared, spin_lock, PopNothing, FreeShared, ChunksAreFull
<1>10. QED
  BY <1>1, <1>2, <1>3, <1>4, <1>5, <1>7, <1>8, <1>9 DEF Next

\* In the dataplane's copy, where mempool_free_2 sets num_free, a chunk that
\* goes to the datastore has at least chunk_size elements, for every chunk size.
THEOREM FullChunks ==
    ASSUME ResetsNumFree PROVE Spec => []ChunksAreFull
<1>1. Init => ChunksAreFull
  <2> SUFFICES ASSUME Init PROVE ChunksAreFull
    OBVIOUS
  <2>a. chunk_size \in Nat \ {0} /\ num_chunks \in Nat
    BY MempoolAssumption
  <2>1. \A k \in 1 .. num_chunks : Len(InitChunk(k)) = chunk_size
    BY <2>a, IsASeq, SMTT(30) DEF InitChunk
  <2>2. Len(chunk_head) = num_chunks /\ DOMAIN chunk_head = 1 .. num_chunks
    BY <2>a, SMTT(30) DEF Init
  <2>3. Len(NULL) = 0
    BY EmptyList DEF NULL
  <2>4. QED
    BY <2>a, <2>1, <2>2, <2>3, SMTT(30) DEF Init, ChunksAreFull
<1>2. Inv /\ ChunksAreFull /\ [Next]_vars => ChunksAreFull'
  BY FullNext
<1>3. QED
  BY <1>1, <1>2, InvHolds, PTL DEF Spec

\* Every property of the pools that is an invariant, for any CPUs, chunk size
\* and number of chunks (mempool.c, in both copies of the code).
THEOREM PoolIsSafe == Spec => []PoolSafe
<1>1. Inv => TypeOK /\ NothingLostOrShared /\ FreeTwoIsSafe
  BY DEF Inv
<1>2. CASE ResetsNumFree
  <2>1. TypeOK /\ NothingLostOrShared /\ FreeTwoIsSafe /\ ChunksAreFull => PoolSafe
    BY DEF PoolSafe
  <2>2. Spec => []ChunksAreFull
    BY <1>2, FullChunks
  <2>3. QED
    BY <1>1, <2>1, <2>2, InvHolds, PTL
<1>3. CASE ~ResetsNumFree
  <2>1. TypeOK /\ NothingLostOrShared /\ FreeTwoIsSafe => PoolSafe
    BY <1>3 DEF PoolSafe
  <2>2. QED
    BY <1>1, <2>1, InvHolds, PTL
<1>4. QED
  BY <1>2, <1>3
==============================================================================
