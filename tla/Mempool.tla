------------------------------- MODULE Mempool -------------------------------
(***************************************************************************)
(* One memory pool datastore and the pools that CPUs keep in front of it   *)
(* (dp/core/mempool.c, inc/ix/mempool.h), and the copy of the same code    *)
(* for applications (libix/mempool.c, libix/mempool.h).                    *)
(*                                                                         *)
(* A linked list of elements is the sequence of its elements, NULL is the  *)
(* empty sequence, and the datastore is a list of such lists (chunks).     *)
(* Only the datastore is shared: a step is what a CPU does between two     *)
(* points at which another CPU can change the datastore or the lock.       *)
(***************************************************************************)
EXTENDS Integers, Sequences, Functions

CONSTANTS
    CPUs,
    chunk_size,
    num_chunks,
    ResetsNumFree,  \* mempool_free_2 sets num_free: TRUE in dp, FALSE in libix
    MaxDrift        \* bound: num_free stays above -MaxDrift

ASSUME MempoolAssumption ==
    /\ chunk_size \in Nat \ {0}
    /\ num_chunks \in Nat
    /\ ResetsNumFree \in BOOLEAN
    /\ MaxDrift \in Nat

VARIABLES
    head, private_chunk, num_free,  \* struct mempool of every CPU
    chunk_head, free_chunks, locked,    \* struct mempool_datastore
    pc,     \* "run", or where the CPU is in mempool_alloc_2 or mempool_free_2
    seen,   \* the chunk list a CPU has read inside the lock
    elem,   \* the argument of a mempool_free_2 that is under way
    held    \* elements in use

vars == <<head, private_chunk, num_free, chunk_head, free_chunks, locked, pc,
          seen, elem, held>>

\* An element is named by its place in the buffer: its chunk and its place in it.
Elem == (1 .. num_chunks) \X (1 .. chunk_size)
NoElem == <<0, 0>>
NULL == << >>

\* mempool_init_buf_with_pages puts every full chunk in front of the list.
InitChunk(k) == [j \in 1 .. chunk_size |-> <<num_chunks - k + 1, j>>]

Init ==
    /\ head = [c \in CPUs |-> NULL]
    /\ private_chunk = [c \in CPUs |-> NULL]
    /\ num_free = [c \in CPUs |-> 0]
    /\ chunk_head = [k \in 1 .. num_chunks |-> InitChunk(k)]
    /\ free_chunks = num_chunks
    /\ locked = FALSE
    /\ pc = [c \in CPUs |-> "run"]
    /\ seen = [c \in CPUs |-> NULL]
    /\ elem = [c \in CPUs |-> NoElem]
    /\ held = {}

----------------------------------------------------------------------------
\* mempool_alloc, first stage: pop the CPU's own list.
mempool_alloc(c) ==
    /\ pc[c] = "run" /\ head[c] # NULL
    /\ num_free[c] > -MaxDrift
    /\ held' = held \cup {Head(head[c])}
    /\ head' = [head EXCEPT ![c] = Tail(@)]
    /\ num_free' = [num_free EXCEPT ![c] = @ - 1]
    /\ UNCHANGED <<private_chunk, chunk_head, free_chunks, locked, pc, seen, elem>>

\* mempool_alloc_2 with a private chunk: num_free stays as it is.
AllocPrivate(c) ==
    /\ pc[c] = "run" /\ head[c] = NULL /\ private_chunk[c] # NULL
    /\ held' = held \cup {Head(private_chunk[c])}
    /\ head' = [head EXCEPT ![c] = Tail(private_chunk[c])]
    /\ private_chunk' = [private_chunk EXCEPT ![c] = NULL]
    /\ UNCHANGED <<num_free, chunk_head, free_chunks, locked, pc, seen, elem>>

\* Mutant: the private chunk is not looked at.
AllocSharedEarly(c) ==
    /\ pc[c] = "run" /\ head[c] = NULL
    /\ pc' = [pc EXCEPT ![c] = "alloc_2"]
    /\ UNCHANGED <<head, private_chunk, num_free, chunk_head, free_chunks,
                   locked, seen, elem, held>>

\* mempool_alloc_2 without one goes to the datastore.
AllocShared(c) ==
    /\ pc[c] = "run" /\ head[c] = NULL /\ private_chunk[c] = NULL
    /\ pc' = [pc EXCEPT ![c] = "alloc_2"]
    /\ UNCHANGED <<head, private_chunk, num_free, chunk_head, free_chunks,
                   locked, seen, elem, held>>

\* Mutant: the lock is taken whether it is free or not.
test_and_set_Always == locked' = TRUE

\* The turn of spin_lock's loop that ends it.
test_and_set ==
    /\ ~locked
    /\ locked' = TRUE

\* spin_lock, and the read of chunk_head behind it.
spin_lock(c) ==
    /\ pc[c] \in {"alloc_2", "free_2"}
    /\ test_and_set
    /\ pc' = [pc EXCEPT ![c] = IF @ = "alloc_2" THEN "pop" ELSE "push"]
    /\ seen' = [seen EXCEPT ![c] = chunk_head]
    /\ UNCHANGED <<head, private_chunk, num_free, chunk_head, free_chunks, elem, held>>

\* The rest of mempool_alloc_2: the first chunk becomes the CPU's list, again
\* without a change of num_free.
PopChunk(c) ==
    /\ pc[c] = "pop" /\ seen[c] # NULL
    /\ chunk_head' = Tail(seen[c])
    /\ head' = [head EXCEPT ![c] = Tail(Head(seen[c]))]
    /\ held' = held \cup {Head(Head(seen[c]))}
    /\ free_chunks' = free_chunks - 1
    /\ locked' = FALSE
    /\ pc' = [pc EXCEPT ![c] = "run"]
    /\ seen' = [seen EXCEPT ![c] = NULL]
    /\ UNCHANGED <<private_chunk, num_free, elem>>

\* Mutant: waits for a chunk with the lock held.
PopNothingRetries(c) ==
    /\ pc[c] = "pop" /\ seen[c] = NULL
    /\ seen' = [seen EXCEPT ![c] = chunk_head]
    /\ UNCHANGED <<head, private_chunk, num_free, chunk_head, free_chunks,
                   locked, pc, elem, held>>

\* The datastore is empty: mempool_alloc returns NULL.
PopNothing(c) ==
    /\ pc[c] = "pop" /\ seen[c] = NULL
    /\ locked' = FALSE
    /\ pc' = [pc EXCEPT ![c] = "run"]
    /\ UNCHANGED <<head, private_chunk, num_free, chunk_head, free_chunks,
                   seen, elem, held>>

\* mempool_free, first stage.
mempool_free(c, e) ==
    /\ pc[c] = "run" /\ e \in held
    /\ num_free[c] < chunk_size
    /\ held' = held \ {e}
    /\ head' = [head EXCEPT ![c] = <<e>> \o @]
    /\ num_free' = [num_free EXCEPT ![c] = @ + 1]
    /\ UNCHANGED <<private_chunk, chunk_head, free_chunks, locked, pc, seen, elem>>

\* The end of mempool_free_2: the full list is kept as the private chunk.
StartList(c, e) ==
    /\ private_chunk' = [private_chunk EXCEPT ![c] = head[c]]
    /\ head' = [head EXCEPT ![c] = <<e>>]
    /\ num_free' = [num_free EXCEPT ![c] = IF ResetsNumFree THEN 1 ELSE @]

\* mempool_free_2 without a private chunk.
FreePrivate(c, e) ==
    /\ pc[c] = "run" /\ e \in held
    /\ num_free[c] >= chunk_size /\ private_chunk[c] = NULL
    /\ held' = held \ {e}
    /\ StartList(c, e)
    /\ UNCHANGED <<chunk_head, free_chunks, locked, pc, seen, elem>>

\* mempool_free_2 with one has to give that one to the datastore first.
FreeShared(c, e) ==
    /\ pc[c] = "run" /\ e \in held
    /\ num_free[c] >= chunk_size /\ private_chunk[c] # NULL
    /\ held' = held \ {e}
    /\ elem' = [elem EXCEPT ![c] = e]
    /\ pc' = [pc EXCEPT ![c] = "free_2"]
    /\ UNCHANGED <<head, private_chunk, num_free, chunk_head, free_chunks,
                   locked, seen>>

PushChunk(c) ==
    /\ pc[c] = "push"
    /\ chunk_head' = <<private_chunk[c]>> \o seen[c]
    /\ free_chunks' = free_chunks + 1
    /\ locked' = FALSE
    /\ StartList(c, elem[c])
    /\ elem' = [elem EXCEPT ![c] = NoElem]
    /\ pc' = [pc EXCEPT ![c] = "run"]
    /\ seen' = [seen EXCEPT ![c] = NULL]
    /\ UNCHANGED held

Next ==
    \E c \in CPUs :
       \/ mempool_alloc(c)
       \/ AllocPrivate(c)
       \/ AllocShared(c)
       \/ spin_lock(c)
       \/ PopChunk(c)
       \/ PopNothing(c)
       \/ \E e \in held :
             \/ mempool_free(c, e)
             \/ FreePrivate(c, e)
             \/ FreeShared(c, e)
       \/ PushChunk(c)

Spec == Init /\ [][Next]_vars

\* A CPU that holds the spin lock executes the few instructions up to
\* spin_unlock: nothing blocks there.  Nothing is assumed of a CPU that waits
\* for the lock, because spin_lock is not fair.
FairSpec ==
    /\ Spec
    /\ \A c \in CPUs : WF_vars(PopChunk(c) \/ PopNothing(c) \/ PushChunk(c))

----------------------------------------------------------------------------
TypeOK ==
    /\ head \in [CPUs -> Seq(Elem)]
    /\ private_chunk \in [CPUs -> Seq(Elem)]
    /\ num_free \in [CPUs -> Int]
    /\ chunk_head \in Seq(Seq(Elem))
    /\ free_chunks \in Int
    /\ locked \in BOOLEAN
    /\ pc \in [CPUs -> {"run", "alloc_2", "pop", "free_2", "push"}]
    /\ seen \in [CPUs -> Seq(Seq(Elem))]
    /\ elem \in [CPUs -> Elem \cup {NoElem}]
    /\ held \subseteq Elem

\* What a call of mempool_free_2 that waits has in its hands.
InHand(c) == IF pc[c] \in {"free_2", "push"} THEN {elem[c]} ELSE {}
Cached(c) == Range(head[c]) \cup Range(private_chunk[c]) \cup InHand(c)

Contents(list) == UNION {Range(list[k]) : k \in DOMAIN list}

\* No element is twice in a list of chunks.
Separate(list) ==
    \A k \in DOMAIN list :
        /\ IsInjective(list[k])
        /\ \A l \in DOMAIN list : k # l => Range(list[k]) \cap Range(list[l]) = {}

\* Every element is in exactly one place: in use, in one list of one CPU, or in
\* one chunk of the datastore, and once there.  So mempool_alloc never returns
\* an element that is in use and no free element is lost, whichever CPU frees
\* an element and however calls meet at the datastore.
NothingLostOrShared ==
    /\ \A e \in Elem :
          \/ e \in held
          \/ e \in Contents(chunk_head)
          \/ \E c \in CPUs : e \in Cached(c)
    /\ held \cap Contents(chunk_head) = {}
    /\ Separate(chunk_head)
    /\ \A c \in CPUs :
          /\ Cached(c) \cap (held \cup Contents(chunk_head)) = {}
          /\ \A d \in CPUs : c # d => Cached(c) \cap Cached(d) = {}
          /\ IsInjective(head[c]) /\ IsInjective(private_chunk[c])
          /\ Range(head[c]) \cap Range(private_chunk[c]) = {}
          /\ InHand(c) \cap (Range(head[c]) \cup Range(private_chunk[c])) = {}

\* assert(m->num_free == m->chunk_size) in mempool_free_2 holds, and the list
\* it makes the private chunk is not NULL, although num_free is not the length
\* of the list.
FreeTwoIsSafe ==
    \A c \in CPUs :
        /\ num_free[c] <= chunk_size
        /\ num_free[c] = chunk_size => head[c] # NULL
        /\ pc[c] \in {"free_2", "push"} =>
              num_free[c] = chunk_size /\ private_chunk[c] # NULL

\* In the dataplane's copy of the code num_free never exceeds the length of the
\* list, so a chunk that goes to the datastore has at least chunk_size elements;
\* free_chunks counts the chunks.
ChunksAreFull ==
    /\ \A c \in CPUs :
          /\ num_free[c] <= Len(head[c])
          /\ private_chunk[c] # NULL => Len(private_chunk[c]) >= chunk_size
    /\ \A k \in DOMAIN chunk_head : Len(chunk_head[k]) >= chunk_size
    /\ free_chunks = Len(chunk_head)

\* Elements have one place each, the counters that stand for list lengths are
\* good enough for the asserts, and chunks are full.
PoolSafe ==
    /\ TypeOK /\ NothingLostOrShared /\ FreeTwoIsSafe
    /\ ResetsNumFree => ChunksAreFull

\* mempool_alloc returns NULL only if every element is in use or in the lists of
\* other CPUs: the CPU's own lists and the datastore are empty at that moment.
NullMeansNone ==
    [][\A c \in CPUs :
          pc[c] = "pop" /\ pc'[c] = "run" /\ held' = held =>
             \A e \in Elem : e \in held \/ \E d \in CPUs \ {c} : e \in Cached(d)]_vars

\* The datastore's lock is always released, also when the datastore is empty.
LockIsReleased == locked ~> ~locked
=============================================================================
