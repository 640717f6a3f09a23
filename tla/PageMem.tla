------------------------------ MODULE PageMem ------------------------------
(***************************************************************************)
(* The dataplane's memory: huge pages from mem.c and page.c, the page table *)
(* (vm.c), and the pages it lends to the application (sys_mmap, sys_unmap   *)
(* and the page of batched system calls in syscall.c; ix_alloc_pages of     *)
(* libix).  A unit is a 2MB page.  Page 0 is MEM_PHYS_BASE_ADDR:            *)
(*   -MemPages..-1          from mem_alloc_pages, mem_pos going down        *)
(*   0..MEM_USER_START-1    from page_alloc_contig, page_pos going up       *)
(*   MEM_USER_START..       the application's direct area                   *)
(*   IOMAPM..IOMAPM_END-1   lent pages, at addresses libix chooses          *)
(*   IOMAPK..IOMAPK_END-1   lent pages, at addresses vm_map_to_user chooses *)
(* Kernel pages are mapped at their own address.                            *)
(***************************************************************************)
EXTENDS Integers

CONSTANTS
    Cpu,
    MemPages, MEM_USER_START,   \* pages of the two kernel areas
    IoPages,                    \* pages of each of the two lent areas
    Nr,                         \* sizes asked for
    Chosen,                     \* addresses the application passes to sys_mmap itself
    NONE

VARIABLES
    mem_pos, page_pos, vm_iomapk_pos, ixmem_pos,
    host,       \* pages the host has mapped
    pgroot,     \* the page table: the page behind each address, or NONE
    live,       \* kernel ranges handed out and not freed: [base, nr]
    lent,       \* ranges the application holds: [addr, nr, base]
    cpu,        \* the call each CPU is in
    wiped       \* addresses of others that a failed mapping took out

vars == <<mem_pos, page_pos, vm_iomapk_pos, ixmem_pos, host, pgroot, live, lent, cpu, wiped>>

DirectPages == 2
Over == MEM_USER_START + 1
IOMAPM == MEM_USER_START + DirectPages
IOMAPM_END == IOMAPM + IoPages
IOMAPK == IOMAPM_END
IOMAPK_END == IOMAPK + IoPages
Addr == (-MemPages)..(IOMAPK_END - 1)
Extent(a, nr) == a..(a + nr - 1)
Direct == Extent(MEM_USER_START, DirectPages)

Idle == [pc |-> "idle"]
Set(c, r) == cpu' = [cpu EXCEPT ![c] = r]

\* Bound: no call begins once a failed mapping has wiped others.
Free(c) == cpu[c] = Idle /\ wiped = {}

Init ==
    /\ mem_pos = 0 /\ page_pos = 0 /\ vm_iomapk_pos = IOMAPK /\ ixmem_pos = IOMAPM
    /\ host = {} /\ pgroot = [a \in Addr |-> NONE]
    /\ live = {} /\ lent = {} /\ wiped = {}
    /\ cpu = [c \in Cpu |-> Idle]

(***************************************************************************)
(* The page table, under vm_lock.                                           *)
(***************************************************************************)
\* Mutant: the page after the range goes too.
vm_unmap_More(pt, a, nr) == [x \in Addr |-> IF x \in Extent(a, nr + 1) THEN NONE ELSE pt[x]]
vm_unmap(pt, a, nr) == [x \in Addr |-> IF x \in Extent(a, nr) THEN NONE ELSE pt[x]]

__vm_map_phys(base, a, nr) ==
    /\ pgroot' = [x \in Addr |-> IF x \in Extent(a, nr) THEN base + (x - a) ELSE pgroot[x]]
    /\ UNCHANGED wiped

\* The walk found no room for its tables: the partial mapping is taken out,
\* nr times the length of the range (nr pages) from its start.
__vm_map_phys_fails(a, nr) ==
    /\ pgroot' = vm_unmap(pgroot, a, nr * nr)
    /\ wiped' = wiped \cup {x \in Extent(a + nr, nr * nr - nr) \cap Addr : pgroot[x] # NONE}

__vm_is_mapped(a, nr) == \E x \in Extent(a, nr) : pgroot[x] # NONE

(***************************************************************************)
(* mem.c and page.c.  An allocation is two steps: an address, then the      *)
(* host's mapping and the page table, either of which may refuse.           *)
(***************************************************************************)
\* The address is not given back when the rest fails.
mem_alloc_pages(c, nr) ==
    /\ Free(c)
    /\ mem_pos - nr >= -MemPages
    /\ mem_pos' = mem_pos - nr
    /\ Set(c, [pc |-> "mmap", for |-> "mem", base |-> mem_pos - nr, nr |-> nr])
    /\ UNCHANGED <<page_pos, vm_iomapk_pos, ixmem_pos, host, pgroot, live, lent, wiped>>

\* Mutant: the end of the area is not looked at.
page_alloc_contig_NoEnd(c, nr, for, addr) ==
    /\ page_pos < Over
    /\ page_pos' = page_pos + nr
    /\ Set(c, [pc |-> "mmap", for |-> for, base |-> page_pos, nr |-> nr, addr |-> addr])

\* The first part of page_alloc_contig_on_node: only the first page of the
\* range is compared with the end of the area.  Bound: page_pos stops at Over.
page_alloc_contig(c, nr, for, addr) ==
    /\ page_pos < Over
    /\ page_pos' = page_pos + nr
    /\ Set(c, IF page_pos >= MEM_USER_START THEN Idle
              ELSE [pc |-> "mmap", for |-> for, base |-> page_pos, nr |-> nr, addr |-> addr])

\* The host's mapping and the page table: mmap fails; both succeed; the page
\* table has no room and the host's mapping is undone.
__mem_alloc_pages(c) ==
    LET r == cpu[c] IN
    /\ r.pc = "mmap"
    /\ \/ Set(c, [r EXCEPT !.pc = "failed"]) /\ UNCHANGED <<host, pgroot, wiped>>
       \/ /\ __vm_map_phys(r.base, r.base, r.nr)
          /\ host' = host \cup Extent(r.base, r.nr)
          /\ Set(c, [r EXCEPT !.pc = "lookup"])
       \/ /\ __vm_map_phys_fails(r.base, r.nr)
          /\ host' = host \ Extent(r.base, r.nr)
          /\ Set(c, [r EXCEPT !.pc = "failed"])
    /\ UNCHANGED <<mem_pos, page_pos, vm_iomapk_pos, ixmem_pos, live, lent>>

\* MAP_FAILED: a caller of mem_alloc_pages gets it; page_alloc_contig_on_node
\* tests for NULL instead and writes to it, which ends the process.
alloc_failed(c) ==
    /\ cpu[c].pc = "failed"
    /\ IF cpu[c].for = "mem" THEN Set(c, Idle) ELSE cpu' = [x \in Cpu |-> [pc |-> "dead"]]
    /\ UNCHANGED <<mem_pos, page_pos, vm_iomapk_pos, ixmem_pos, host, pgroot, live, lent, wiped>>

\* The second part of page_alloc_contig_on_node: the machine addresses of the
\* pages, or the range freed.  Ranges of mem_alloc_pages are ready.
page_alloc_contig_on_node(c) ==
    LET r == cpu[c] IN
    /\ r.pc = "lookup"
    /\ \/ /\ live' = live \cup {[base |-> r.base, nr |-> r.nr]}
          /\ Set(c, IF r.for = "mem" THEN Idle ELSE [r EXCEPT !.pc = "lend"])
       \/ /\ r.for # "mem"
          /\ Set(c, [pc |-> "munmap", base |-> r.base, nr |-> r.nr])
          /\ UNCHANGED live
    /\ pgroot' = IF live' = live THEN vm_unmap(pgroot, r.base, r.nr) ELSE pgroot
    /\ UNCHANGED <<mem_pos, page_pos, vm_iomapk_pos, ixmem_pos, host, lent, wiped>>

\* mem_free_pages: the page table, then the host.
mem_free_pages(c) ==
    /\ Free(c)
    /\ \E r \in live :
        /\ r.base < 0
        /\ live' = live \ {r}
        /\ pgroot' = vm_unmap(pgroot, r.base, r.nr)
        /\ Set(c, [pc |-> "munmap", base |-> r.base, nr |-> r.nr])
    /\ UNCHANGED <<mem_pos, page_pos, vm_iomapk_pos, ixmem_pos, host, lent, wiped>>

mem_munmap(c) ==
    /\ cpu[c].pc = "munmap"
    /\ host' = host \ Extent(cpu[c].base, cpu[c].nr)
    /\ Set(c, Idle)
    /\ UNCHANGED <<mem_pos, page_pos, vm_iomapk_pos, ixmem_pos, pgroot, live, lent, wiped>>

(***************************************************************************)
(* Pages lent to the application.                                           *)
(***************************************************************************)
\* ix_alloc_pages picks the next address; sys_mmap takes it when it lies in
\* the area, the last page of which no call can have.
ix_alloc_pages(c, nr) ==
    /\ Free(c)
    /\ ixmem_pos' = ixmem_pos + nr
    /\ ixmem_pos + nr < IOMAPM_END
    /\ page_alloc_contig(c, nr, "app", ixmem_pos)
    /\ UNCHANGED <<mem_pos, vm_iomapk_pos, host, pgroot, live, lent, wiped>>

\* sys_mmap called with an address of the application's choice.
sys_mmap(c, nr, addr) ==
    /\ Free(c)
    /\ addr >= IOMAPM /\ addr + nr < IOMAPM_END
    /\ page_alloc_contig(c, nr, "app", addr)
    /\ UNCHANGED <<mem_pos, vm_iomapk_pos, ixmem_pos, host, pgroot, live, lent, wiped>>

\* The rest of sys_mmap, under vm_lock.  On failure page_free_contig is given
\* the application's address instead of the pages: they stay allocated.
sys_mmap_map(c) ==
    LET r == cpu[c] IN
    /\ r.pc = "lend" /\ r.for = "app"
    /\ \/ __vm_is_mapped(r.addr, r.nr) /\ UNCHANGED <<pgroot, lent, wiped>>
       \/ /\ ~__vm_is_mapped(r.addr, r.nr)
          /\ __vm_map_phys(r.base, r.addr, r.nr)
          /\ lent' = lent \cup {[addr |-> r.addr, nr |-> r.nr, base |-> r.base]}
       \/ /\ ~__vm_is_mapped(r.addr, r.nr)
          /\ __vm_map_phys_fails(r.addr, r.nr) /\ UNCHANGED lent
    /\ Set(c, Idle)
    /\ UNCHANGED <<mem_pos, page_pos, vm_iomapk_pos, ixmem_pos, host, live>>

\* sys_unmap (ix_free_pages): the pages stay allocated.
sys_unmap(c) ==
    /\ Free(c)
    /\ \E r \in lent :
        /\ r.addr < IOMAPM_END
        /\ pgroot' = vm_unmap(pgroot, r.addr, r.nr)
        /\ lent' = lent \ {r}
    /\ UNCHANGED <<mem_pos, page_pos, vm_iomapk_pos, ixmem_pos, host, live, cpu, wiped>>

\* syscall_init_cpu; mempool_pagemem_map_to_user does the same.
syscall_init_cpu(c, nr) ==
    /\ Free(c)
    /\ page_alloc_contig(c, nr, "cpu", NONE)
    /\ UNCHANGED <<mem_pos, vm_iomapk_pos, ixmem_pos, host, pgroot, live, lent, wiped>>

\* The position moves only on success.  Bound: the area does not fill up.
vm_map_to_user(c) ==
    LET r == cpu[c] IN
    /\ r.pc = "lend" /\ r.for = "cpu"
    /\ vm_iomapk_pos + r.nr <= IOMAPK_END
    /\ \/ /\ __vm_map_phys(r.base, vm_iomapk_pos, r.nr)
          /\ lent' = lent \cup {[addr |-> vm_iomapk_pos, nr |-> r.nr, base |-> r.base]}
          /\ vm_iomapk_pos' = vm_iomapk_pos + r.nr
       \/ /\ __vm_map_phys_fails(vm_iomapk_pos, r.nr)
          /\ UNCHANGED <<lent, vm_iomapk_pos>>
    /\ Set(c, Idle)
    /\ UNCHANGED <<mem_pos, page_pos, ixmem_pos, host, live>>

Next ==
    \E c \in Cpu :
        \/ \E nr \in Nr : mem_alloc_pages(c, nr) \/ ix_alloc_pages(c, nr) \/ syscall_init_cpu(c, nr)
        \/ \E nr \in Nr, addr \in Chosen : sys_mmap(c, nr, addr)
        \/ __mem_alloc_pages(c) \/ alloc_failed(c) \/ page_alloc_contig_on_node(c)
        \/ mem_free_pages(c) \/ mem_munmap(c)
        \/ sys_mmap_map(c) \/ sys_unmap(c) \/ vm_map_to_user(c)

Spec == Init /\ [][Next]_vars

(***************************************************************************)
(* Properties.                                                              *)
(***************************************************************************)
Straddles(r) == r.base < MEM_USER_START /\ r.base + r.nr > MEM_USER_START

\* The ranges calls hold while they allocate or free them.
Pending == {[base |-> cpu[c].base, nr |-> cpu[c].nr, by |-> c] : c \in {x \in Cpu : cpu[x].pc \notin {"idle", "dead", "lend"}}}
Held == {[base |-> r.base, nr |-> r.nr, by |-> NONE] : r \in live} \cup Pending

TypeOK ==
    /\ mem_pos \in (-MemPages)..0 /\ page_pos \in Nat
    /\ host \subseteq Addr /\ wiped \subseteq Addr
    /\ \A a \in Addr : pgroot[a] \in Addr \cup {NONE}
    /\ \A r \in Held : r.base < MEM_USER_START /\ Extent(r.base, r.nr) \subseteq Addr

\* The two allocators, which share MEM_PHYS_BASE_ADDR and take addresses
\* under a lock and with an atomic add, never give a page to two calls, and a
\* page being freed is nobody else's; nor do they give out a page of the
\* application's area, except that page_alloc_contig_on_node compares only
\* the start of the range with MEM_USER_START.
PagesHandedOutOnce ==
    /\ \A r, s \in Held : r # s => Extent(r.base, r.nr) \cap Extent(s.base, s.nr) = {}
    /\ \A r \in Held : Straddles(r) \/ Extent(r.base, r.nr) \cap Direct = {}

\* A page that was handed out is mapped, in the host and at its own address,
\* until it is freed, whatever other calls do or fail to do; the addresses a
\* failed mapping of several pages wiped are the exception.
LivePagesMapped ==
    \A r \in live : \A a \in Extent(r.base, r.nr) : a \in host /\ (pgroot[a] = a \/ a \in wiped)

\* With no call in progress the page table has no entry of the kernel areas
\* that the host does not back: freeing and failing undo both sides.
NothingDangling ==
    (\A c \in Cpu : cpu[c] = Idle) =>
        \A a \in Addr : a < MEM_USER_START /\ pgroot[a] # NONE => a \in host

\* No host memory is left behind: with no call in progress every page the
\* host has mapped belongs to a range somebody holds.
NoHostLeak ==
    (\A c \in Cpu : cpu[c] = Idle) => host = UNION {Extent(r.base, r.nr) : r \in live}

\* What was lent stays lent: the addresses the application holds lead to the
\* pages it was given, one after another, and no page is lent at two
\* addresses, also when other calls map, fail or unmap (again but for wiped
\* addresses).
LentAsGiven ==
    /\ \A r \in lent : \A i \in 0..(r.nr - 1) :
            pgroot[r.addr + i] = r.base + i \/ r.addr + i \in wiped
    /\ \A r, s \in lent : r # s => Extent(r.base, r.nr) \cap Extent(s.base, s.nr) = {}

\* mem.c, page.c and vm.c together: pages have one owner and stay mapped for
\* it, and a call that fails or ends leaves nothing behind.
PagesSafe ==
    /\ TypeOK /\ PagesHandedOutOnce /\ LivePagesMapped
    /\ NothingDangling /\ NoHostLeak /\ LentAsGiven
=============================================================================
