------------------------------ MODULE MC_Memory ------------------------------
(***************************************************************************)
(* One run over six independent models of storage and of what lies in it:  *)
(* the block free list (BlkFreelistSpec), kernel pages and the areas lent  *)
(* to the application (PageMem), the address space of the sandboxed        *)
(* application (Sandbox), the cutting of pages into pool elements          *)
(* (MempoolLayout), pbuf chains (Pbuf) and the checksums over them         *)
(* (Chksum).  A behaviour is one of the model `part' names; the others     *)
(* stay in their initial states.                                           *)
(***************************************************************************)
EXTENDS BlkFreelistSpec, TLC

CONSTANTS c1, c2, t1, t2, p1, p2, p3, NONE

VARIABLES
    part,
    mem_pos, page_pos, vm_iomapk_pos, ixmem_pos, host, pgroot, live, lent, cpu, wiped,
    brk_len, mmap_len, uhost, upgroot, regs, stray, th, mtx, uphase, elf, args, faults,
    asked, mds,
    heap, mbufs, pheld, want, packets,
    chain

pages_vars == <<mem_pos, page_pos, vm_iomapk_pos, ixmem_pos, host, pgroot, live, lent, cpu, wiped>>
umm_vars == <<brk_len, mmap_len, uhost, upgroot, regs, stray, th, mtx, uphase, elf, args, faults>>
layout_vars == <<asked, mds>>
pbuf_vars == <<heap, mbufs, pheld, want, packets>>
mc_vars == <<part, vars, pages_vars, umm_vars, layout_vars, pbuf_vars, chain>>

\* The application passes the first address of the area libix uses.
MCChosen == {4}
Pages == INSTANCE PageMem WITH
    Cpu <- {c1, c2}, MemPages <- 3, MEM_USER_START <- 2, IoPages <- 3, Nr <- {1, 2},
    Chosen <- MCChosen

RX == {"R", "X"}
RW == {"R", "W"}
Load(n, p) == [type |-> "load", n |-> n, fits |-> TRUE, perm |-> p]
TooHigh == [type |-> "load", n |-> 3, fits |-> FALSE, perm |-> RW]
Interp == [type |-> "interp", n |-> 4, fits |-> TRUE, perm |-> {}]
Note == [type |-> "note", n |-> 5, fits |-> TRUE, perm |-> {}]
MCPhdrs == {{Load(1, RX), Load(2, RW), Note}, {Load(1, RX), TooHigh}, {Load(1, RW), Interp}}
Umm == INSTANCE Sandbox WITH
    host <- uhost, pgroot <- upgroot, phase <- uphase,
    Thread <- {t1, t2}, Size <- 8, BIG_PGSIZE <- 2, APP_STACK_SIZE <- 2, Lens <- {1, 3},
    Prots <- {{"R"}, RW}, Phdrs <- MCPhdrs,
    Argvs <- [argc : 0..2, envc : 0..2, strs : 2..40]

Layout == INSTANCE MempoolLayout WITH
    PGSIZE_2MB <- 16, LONG <- 2, INT_MAX <- 127, MaxElems <- 12, MaxLen <- 10

Bufs == INSTANCE Pbuf WITH
    held <- pheld,
    Pbuf <- {p1, p2, p3}, U16 <- 4, RamLen <- 1, RomLen <- 2, Hlen <- 1, MaxRef <- 2

Sums == INSTANCE Chksum WITH B <- 2, MaxLen <- 16, MaxCut <- 6

\* A behaviour tells apart CPUs, threads or buffers, never two of these: the odd
\* permutations of the buffers swap the CPUs and the threads as well, so that
\* six permutations do for all three sets.
Swap == (c1 :> c2) @@ (c2 :> c1) @@ (t1 :> t2) @@ (t2 :> t1)
IsOdd(f) == \E p \in DOMAIN f : f[p] = p /\ \E q \in DOMAIN f : f[q] # q
Symm == {IF IsOdd(f) THEN f @@ Swap ELSE f : f \in Permutations({p1, p2, p3})}

MCInit ==
    /\ part \in {"blocks", "pages", "umm", "layout", "pbuf", "chksum"}
    /\ Init /\ Pages!Init /\ Umm!Init /\ Layout!Init /\ Bufs!Init /\ Sums!Init
    /\ part # "umm" => elf.todo = {Load(1, RW), Interp}

BlocksStep == part = "blocks" /\ Next        /\ UNCHANGED <<part, pages_vars, umm_vars, layout_vars, pbuf_vars, chain>>
PagesStep  == part = "pages"  /\ Pages!Next  /\ UNCHANGED <<part, vars, umm_vars, layout_vars, pbuf_vars, chain>>
UmmStep    == part = "umm"    /\ Umm!Next    /\ UNCHANGED <<part, vars, pages_vars, layout_vars, pbuf_vars, chain>>
LayoutStep == part = "layout" /\ Layout!Next /\ UNCHANGED <<part, vars, pages_vars, umm_vars, pbuf_vars, chain>>
BufsStep   == part = "pbuf"   /\ Bufs!Next   /\ UNCHANGED <<part, vars, pages_vars, umm_vars, layout_vars, chain>>
SumsStep   == part = "chksum" /\ Sums!Next   /\ UNCHANGED <<part, vars, pages_vars, umm_vars, layout_vars, pbuf_vars>>

MCNext == BlocksStep \/ PagesStep \/ UmmStep \/ LayoutStep \/ BufsStep \/ SumsStep

MCSpec == MCInit /\ [][MCNext]_mc_vars

-----------------------------------------------------------------------------
\* mem.c, page.c and vm.c together: pages have one owner and stay mapped for
\* it, and a call that fails or ends leaves nothing behind.
PagesSafe == part = "pages" => Pages!PagesSafe

\* umm.c and elf.c together: the ranges given to the application stay apart, the
\* two page tables agree, and it starts with what its file asks for.
AddressSpaceSafe == part = "umm" => Umm!AddressSpaceSafe

\* The elements mempool_create_datastore cuts are apart, enough, and found again
\* from their indices.
LayoutSafe == part = "layout" => Layout!LayoutSafe

\* pbuf.c: counts, lengths and bytes of every chain are right, however chains are
\* shared, joined, cut and freed.
PbufsSafe == part = "pbuf" => Bufs!PbufsSafe

\* The four checksum routines compute the Internet checksum.
ChecksumsAgree == part = "chksum" => Sums!ChecksumsAgree
=============================================================================
