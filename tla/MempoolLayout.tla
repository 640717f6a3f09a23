---------------------------- MODULE MempoolLayout ----------------------------
(***************************************************************************)
(* How a memory pool datastore is laid out in pages and cut into chunks      *)
(* (mempool_create_datastore, dp/core/mempool.c and its copy for             *)
(* applications, libix/mempool.c), and the indices TCP's handles are made    *)
(* of (inc/ix/mempool.h).  Addresses are offsets into the buffer.            *)
(***************************************************************************)
EXTENDS Integers, Sequences, SequencesExt

CONSTANTS
    PGSIZE_2MB,
    LONG,           \* sizeof(long), the alignment of elements
    INT_MAX,        \* products of int wrap above it
    MaxElems, MaxLen,   \* bounds of the requests
    NONE

VARIABLES
    asked,  \* the last request: [nr_elems, elem_len, nostraddle, chunk_size]
    mds     \* the datastore made for it, or NONE

vars == <<asked, mds>>

Request == [nr_elems : 0..MaxElems, elem_len : 0..MaxLen, nostraddle : BOOLEAN, chunk_size : {1, 2, 4}]

align_up(x, a) == ((x + a - 1) \div a) * a
div_up(x, d) == (x + d - 1) \div d
\* Arithmetic of the type int.
CInt(x) == IF x > INT_MAX THEN x - 2 * (INT_MAX + 1) ELSE x

\* Mutant: one element more in every page.
mempool_init_buf_with_pages_OneMore(elems_per_page, nr_pages, elem_len, chunk_size) ==
    LET At(k) == CInt(((k - 1) \div (elems_per_page + 1)) * PGSIZE_2MB) + ((k - 1) % (elems_per_page + 1)) * elem_len
        chunks == (nr_pages * (elems_per_page + 1)) \div chunk_size
    IN Reverse([c \in 1..chunks |-> [k \in 1..chunk_size |-> At((c - 1) * chunk_size + k)]])

\* The elements, page by page, in chunks of chunk_size; every full chunk goes
\* to the front of the list, elements of a last one that is not full are in
\* none.
mempool_init_buf_with_pages(elems_per_page, nr_pages, elem_len, chunk_size) ==
    LET At(k) == CInt(((k - 1) \div elems_per_page) * PGSIZE_2MB) + ((k - 1) % elems_per_page) * elem_len
        chunks == (nr_pages * elems_per_page) \div chunk_size
    IN Reverse([c \in 1..chunks |-> [k \in 1..chunk_size |-> At((c - 1) * chunk_size + k)]])

\* With nostraddle the elements are fitted into pages one by one, else the
\* pages are one array and nr_elems becomes what fits.
mempool_create_datastore(r) ==
    LET elem_len == align_up(r.elem_len, LONG)
        elems_per_page == PGSIZE_2MB \div elem_len
        nr_pages == IF r.nostraddle THEN div_up(r.nr_elems, elems_per_page)
                    ELSE (r.nr_elems * elem_len + PGSIZE_2MB - 1) \div PGSIZE_2MB
        nr_elems == IF r.nostraddle THEN r.nr_elems ELSE CInt(nr_pages * PGSIZE_2MB) \div elem_len
    IN [nr_pages |-> nr_pages, nr_elems |-> nr_elems, elem_len |-> elem_len, nostraddle |-> r.nostraddle,
        chunks |-> IF r.nostraddle THEN mempool_init_buf_with_pages(elems_per_page, nr_pages, elem_len, r.chunk_size)
                   ELSE mempool_init_buf_with_pages(nr_elems, 1, elem_len, r.chunk_size)]

mempool_idx_to_ptr(idx, elem_len) == elem_len * idx

mempool_ptr_to_idx(p, elem_len) == p \div elem_len

Init == asked = NONE /\ mds = NONE

\* The assertion on the request: nr_elems is a multiple of chunk_size.
Asserted(r) == r.nr_elems % r.chunk_size = 0

\* The requests the system makes: no element larger than a page, and less
\* than 2 GB (the largest, the packet buffers, 793 of 1023 pages); above that
\* the products of int wrap.
Sane(r) == r.elem_len <= PGSIZE_2MB /\ mempool_create_datastore(r).nr_pages * PGSIZE_2MB <= INT_MAX

Create(r) ==
    /\ mds = NONE /\ Asserted(r)
    /\ r.elem_len # 0 /\ r.nr_elems # 0 /\ Sane(r)
    /\ asked' = r /\ mds' = mempool_create_datastore(r)

\* -EINVAL
Refuse(r) ==
    /\ mds = NONE /\ Asserted(r)
    /\ r.elem_len = 0 \/ r.nr_elems = 0
    /\ asked' = r /\ UNCHANGED mds

Next == \E r \in Request : Create(r) \/ Refuse(r)
Spec == Init /\ [][Next]_vars

(***************************************************************************)
(* Properties.                                                              *)
(***************************************************************************)
Elems == FlattenSeq(mds.chunks)

\* The elements in the chunks lie in the pages allocated, no two of them
\* overlap, and, where the caller asks for it (packet buffers the NIC writes
\* to, tuples mapped to the application), none crosses the end of a page.
ElementsInPages ==
    mds # NONE =>
        /\ \A i \in 1..Len(Elems) :
              /\ Elems[i] >= 0 /\ Elems[i] % LONG = 0 /\ Elems[i] + asked.elem_len <= mds.nr_pages * PGSIZE_2MB
              /\ mds.nostraddle => (Elems[i] % PGSIZE_2MB) + asked.elem_len <= PGSIZE_2MB
        /\ \A i, j \in 1..Len(Elems) : i # j => Elems[i] + asked.elem_len <= Elems[j] \/ Elems[j] + asked.elem_len <= Elems[i]

\* "will create a pool with at least @nr_elems" (mempool.c:189): also though
\* elements that do not fill a chunk are left out.
AtLeastAsked == mds # NONE => Len(Elems) >= asked.nr_elems

\* A handle's index leads back to the element it was made from, and passes
\* the assertion idx < nr_elems, for every element of a pool that may be
\* indexed (not nostraddle).
IndexLeadsBack ==
    mds # NONE /\ ~mds.nostraddle =>
        \A i \in 1..Len(Elems) :
            LET x == mempool_ptr_to_idx(Elems[i], mds.elem_len)
            IN x < mds.nr_elems /\ mempool_idx_to_ptr(x, mds.elem_len) = Elems[i]

\* The elements mempool_create_datastore cuts are apart, enough, and found again
\* from their indices.
LayoutSafe == ElementsInPages /\ AtLeastAsked /\ IndexLeadsBack
=============================================================================
