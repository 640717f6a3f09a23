------------------------------ MODULE Sandbox ------------------------------
(***************************************************************************)
(* The sandbox the application runs in: the loader (dp/sandbox/main.c), the *)
(* application's address space (dp/sandbox/umm.c) and the dispatch of its   *)
(* memory system calls (dp/sandbox/trap.c).                                 *)
(*                                                                          *)
(* The area is Size pages; page 0 is UMM_ADDR_START.  The heap grows up     *)
(* from it (brk_len), mappings grow down from its end (mmap_len).  A call   *)
(* maps a range twice: in the host (mmap, shmat, mremap) and in the page    *)
(* table of the sandbox (libdune).  Each is a step, so that calls of two    *)
(* threads interleave as they can: syscall_do serialises mmap, mprotect and *)
(* munmap, but not brk, shmat and mremap.                                   *)
(***************************************************************************)
EXTENDS Integers, FiniteSets

CONSTANTS
    Thread,         \* threads of the application
    Size,           \* pages of the direct user area
    BIG_PGSIZE,     \* pages of a big page
    APP_STACK_SIZE, \* pages of the stack, the unmapped one included
    Lens,           \* lengths the application asks for
    Prots,          \* protections it asks for: subsets of {"R", "W"}
    Phdrs,          \* program headers: sets of [type, fits, perm]
    Argvs,          \* argument vectors: records [argc, envc, strs], strs the bytes of the strings
    NONE

VARIABLES
    brk_len, mmap_len,  \* the counters of umm.c
    host,       \* the host's mapping: protection of each page, or NONE
    pgroot,     \* the sandbox's page table, likewise
    regs,       \* the ranges the application holds
    stray,      \* big pages left mapped in the host by a call that failed
    th,         \* what each thread is doing
    mtx,        \* the holder of _syscall_mtx
    phase,      \* of sandbox_init: "elf", "stack", "args", "run", "exit"
    elf,        \* segments still to load and the permissions of the loaded ones
    args,       \* the frame setup_arguments built
    faults      \* what happened that the code does not guard against

vars == <<brk_len, mmap_len, host, pgroot, regs, stray, th, mtx, phase, elf, args, faults>>
mem == <<brk_len, mmap_len, host, pgroot, regs, stray>>

RW == {"R", "W"}
\* Bound: how far below the area umm_map_big may run before a behaviour ends.
Under == 2 * BIG_PGSIZE
Page == (-Under)..(Size - 1)
Extent(lo, n) == lo..(lo + n - 1)
BIG_PGADDR(n) == n - (n % BIG_PGSIZE)
RoundUp(n) == BIG_PGADDR(n + BIG_PGSIZE - 1)
Set(f, ps, v) == [p \in Page |-> IF p \in ps THEN v ELSE f[p]]

umm_space_left(len) == brk_len + mmap_len + len < Size
umm_get_map_pos == Size - mmap_len

Idle == [op |-> "idle"]
Quiet == \A t \in Thread : th[t] = Idle
Reg(kind, lo, len, req) == [kind |-> kind, lo |-> lo, len |-> len, req |-> req]
RegPages(r) == Extent(r.lo, r.len)

(***************************************************************************)
(* Starting the application.                                                *)
(***************************************************************************)
Init ==
    /\ brk_len = 0 /\ mmap_len = 0 /\ regs = {} /\ stray = {}
    /\ host = [p \in Page |-> NONE] /\ pgroot = [p \in Page |-> NONE]
    /\ th = [t \in Thread |-> Idle] /\ mtx = NONE
    /\ phase = "elf" /\ args = NONE /\ faults = {}
    /\ elf \in {[todo |-> ps, loaded |-> {}] : ps \in Phdrs}

\* Loads one segment: mapped R|W, read in, then given its own permissions.
\* ok: the page table calls and the read succeed.
process_elf_ph(ph, ok) ==
    IF ph.type = "interp" \/ (ph.type = "load" /\ (~ph.fits \/ ~ok))
    THEN phase' = "exit" /\ UNCHANGED elf
    ELSE /\ elf' = [todo |-> elf.todo \ {ph},
                    loaded |-> IF ph.type = "load" THEN elf.loaded \cup {[ph |-> ph, perm |-> ph.perm]} ELSE elf.loaded]
         /\ UNCHANGED phase

load_elf ==
    /\ phase = "elf"
    /\ \/ elf.todo # {} /\ \E ph \in elf.todo, ok \in BOOLEAN : process_elf_ph(ph, ok)
       \/ elf.todo = {} /\ phase' = "stack" /\ UNCHANGED elf
    /\ UNCHANGED <<mem, th, mtx, args, faults>>

\* The stack's lowest page is reserved and left unmapped.
umm_alloc_stack ==
    /\ phase = "stack"
    /\ umm_space_left(APP_STACK_SIZE)
    /\ LET base == umm_get_map_pos
           ps == Extent(base - APP_STACK_SIZE + 1, APP_STACK_SIZE - 1)
       IN /\ host' = Set(host, ps, RW)
          /\ pgroot' = Set(pgroot, ps, RW)
          /\ mmap_len' = mmap_len + APP_STACK_SIZE
          /\ regs' = regs \cup {Reg("stack", base - APP_STACK_SIZE, APP_STACK_SIZE, APP_STACK_SIZE)}
    /\ phase' = "args"
    /\ UNCHANGED <<brk_len, stray, th, mtx, elf, args, faults>>

NUM_AUX == 14
\* Bytes setup_aux writes: NUM_AUX entries of 16 and the type of the last one.
setup_aux == 16 * 14 + 8

\* The frame below the stack top: the strings at its top, the argument,
\* environment and auxiliary tables from its bottom up.
setup_arguments(a) ==
    LET table == 8 * (a.argc + a.envc + 4)
        sum == a.strs + 16 * NUM_AUX + table
    IN [strs |-> a.strs, len |-> ((sum + 31) \div 32) * 32, written |-> table + setup_aux]

sandbox_init ==
    /\ phase = "args"
    /\ \/ args = NONE /\ \E a \in Argvs : args' = setup_arguments(a) /\ UNCHANGED phase
       \/ args # NONE /\ phase' = "run" /\ args' = NONE
    /\ UNCHANGED <<mem, th, mtx, elf, faults>>

(***************************************************************************)
(* System calls.  A thread enters with syscall_do, which also records that  *)
(* an unlocked call met another one.  Bound: the exploration of a behaviour *)
(* ends there, where umm_map_big has left the area, and after an undo that  *)
(* left old entries.                                                        *)
(***************************************************************************)
Locked == {"mmap", "big", "munmap", "mprotect"}

\* Mutant: munmap does not take the lock.
syscall_do_Free(t, call) ==
    /\ phase = "run" /\ th[t] = Idle /\ faults = {}
    /\ call.op \in Locked \ {"munmap"} => mtx = NONE
    /\ mtx' = IF call.op \in Locked \ {"munmap"} THEN t ELSE mtx
    /\ th' = [th EXCEPT ![t] = call]
    /\ faults' = faults \cup (IF \E u \in Thread \ {t} : th[u] # Idle /\ {call.op, th[u].op} \ Locked # {} THEN {"race"} ELSE {})
                        \cup (IF call.op = "big" /\ call.lo < brk_len THEN {"overrun"} ELSE {})
    /\ UNCHANGED <<phase, elf, args>>

syscall_do(t, call) ==
    /\ phase = "run" /\ th[t] = Idle /\ faults = {}
    /\ call.op \in Locked => mtx = NONE
    /\ mtx' = IF call.op \in Locked THEN t ELSE mtx
    /\ th' = [th EXCEPT ![t] = call]
    /\ faults' = faults \cup (IF \E u \in Thread \ {t} : th[u] # Idle /\ {call.op, th[u].op} \ Locked # {} THEN {"race"} ELSE {})
                        \cup (IF call.op = "big" /\ call.lo < brk_len THEN {"overrun"} ELSE {})
    /\ UNCHANGED <<phase, elf, args>>

Return(t) ==
    /\ th' = [th EXCEPT ![t] = Idle]
    /\ mtx' = IF mtx = t THEN NONE ELSE mtx
    /\ UNCHANGED <<phase, elf, args>>

(***************************************************************************)
(* First steps: what a call checks, and the host's mapping.  The host may   *)
(* refuse any of them, in which case the call returns and nothing changes.  *)
(* It always refuses to take or to replace a part of a big page.            *)
(***************************************************************************)
HostSet(ps, prot) ==
    /\ \A p \in stray \cap ps : Extent(BIG_PGADDR(p), BIG_PGSIZE) \subseteq ps
    /\ host' = Set(host, ps, prot)
    /\ stray' = stray \ ps

umm_brk(t, brk) ==
    LET len == RoundUp(brk)
        ps == IF len < brk_len THEN Extent(len, brk_len - len) ELSE Extent(brk_len, len - brk_len)
    IN /\ umm_space_left(len) /\ len # brk_len
       /\ syscall_do(t, [op |-> "brk", len |-> len, ps |-> ps])
       /\ HostSet(ps, IF len < brk_len THEN NONE ELSE RW)
       /\ UNCHANGED <<brk_len, mmap_len, pgroot, regs>>

\* No umm_space_left here.  The host rounds a huge-page mapping up.
umm_map_big(t, len, prot) ==
    LET full_len == RoundUp(len) + (umm_get_map_pos % BIG_PGSIZE)
        lo == umm_get_map_pos - full_len
        ps == Extent(lo, RoundUp(len))
    IN /\ len >= BIG_PGSIZE \div 2
       /\ ps \subseteq Page
       /\ syscall_do(t, [op |-> "big", reg |-> Reg("big", lo, RoundUp(len), len), lo |-> lo, ps |-> ps,
                         prot |-> prot, adjust |-> full_len])
       /\ HostSet(ps, prot)
       /\ UNCHANGED <<brk_len, mmap_len, pgroot, regs>>

\* A mapping of small pages (a file, MAP_STACK, or less than half a big
\* page): at a new address, or at the address of a range already held.
umm_mmap(t, len, prot) ==
    /\ \/ LET r == Reg("map", umm_get_map_pos - len, len, len)
          IN /\ umm_space_left(len)
             /\ syscall_do(t, [op |-> "mmap", reg |-> r, ps |-> RegPages(r), prot |-> prot, adjust |-> len])
             /\ HostSet(RegPages(r), prot)
       \/ \E r \in regs :
             /\ r.kind = "map"
             /\ syscall_do(t, [op |-> "mmap", reg |-> r, ps |-> RegPages(r), prot |-> prot, adjust |-> 0])
             /\ HostSet(RegPages(r), prot)
    /\ UNCHANGED <<brk_len, mmap_len, pgroot, regs>>

\* shmat refuses a range where something is mapped.
umm_shmat(t, len, prot) ==
    LET r == Reg("map", umm_get_map_pos - len, len, len)
    IN /\ umm_space_left(len)
       /\ \A p \in RegPages(r) : host[p] = NONE
       /\ syscall_do(t, [op |-> "shmat", reg |-> r, ps |-> RegPages(r), prot |-> prot, adjust |-> len])
       /\ HostSet(RegPages(r), prot)
       /\ UNCHANGED <<brk_len, mmap_len, pgroot, regs>>

\* Mutant: the range of the second attempt is not the one taken out of the page table.
umm_munmap_Short(t, r) ==
    /\ r.kind \in {"map", "big", "moved"}
    /\ syscall_do(t, [op |-> "munmap", reg |-> r, ps |-> Extent(r.lo, r.req)])
    /\ HostSet(RegPages(r), NONE)
    /\ UNCHANGED <<brk_len, mmap_len, pgroot, regs>>

\* The host refuses a length that is no multiple of the big page for a range
\* of big pages; the length is then rounded up, for the page table too.
umm_munmap(t, r) ==
    LET n == IF r.kind = "big" /\ r.req % BIG_PGSIZE # 0 THEN RoundUp(r.req) ELSE r.req
    IN /\ r.kind \in {"map", "big", "moved"}
       /\ syscall_do(t, [op |-> "munmap", reg |-> r, ps |-> Extent(r.lo, n)])
       /\ HostSet(Extent(r.lo, n), NONE)
       /\ UNCHANGED <<brk_len, mmap_len, pgroot, regs>>

umm_mprotect(t, r, prot) ==
    /\ \/ r.kind = "map"
       \/ r.kind = "big" /\ r.req % BIG_PGSIZE = 0
    /\ syscall_do(t, [op |-> "mprotect", ps |-> RegPages(r), prot |-> prot])
    /\ HostSet(RegPages(r), prot)
    /\ UNCHANGED <<brk_len, mmap_len, pgroot, regs>>

\* Without MREMAP_FIXED; the range always moves.  It keeps its protection in
\* the host; a range of small pages.
umm_mremap(t, r, len) ==
    LET new == Reg("moved", umm_get_map_pos - len, len, len)
        prot == host[r.lo]
    IN /\ r.kind = "map"
       /\ umm_space_left(len)
       /\ syscall_do(t, [op |-> "mremap", reg |-> new, old |-> r, ps |-> RegPages(new)])
       /\ \A p \in stray \cap RegPages(new) : Extent(BIG_PGADDR(p), BIG_PGSIZE) \subseteq RegPages(new)
       /\ host' = Set(Set(host, RegPages(r), NONE), RegPages(new), prot)
       /\ stray' = stray \ RegPages(new)
       /\ UNCHANGED <<brk_len, mmap_len, pgroot, regs>>

(***************************************************************************)
(* Second steps: the page table and the counters.                           *)
(***************************************************************************)
\* The length a failed call gives munmap is the one asked for, which the host
\* refuses for a range of big pages that it does not fill.
Undone(c) == IF c.op = "big" /\ c.reg.req % BIG_PGSIZE # 0 THEN {} ELSE c.ps

\* The tail of mmap, shmat and a growing brk: the page table, or the host's
\* mapping undone.
umm_mmap_anom_flags(t) ==
    LET c == th[t] IN
    /\ c.op \in {"mmap", "big", "shmat"}
    /\ \/ /\ pgroot' = Set(pgroot, c.ps, c.prot)
          /\ mmap_len' = mmap_len + c.adjust
          /\ regs' = regs \cup {c.reg}
          /\ UNCHANGED <<host, stray, faults>>
       \/ /\ host' = Set(host, Undone(c), NONE)
          /\ stray' = stray \cup (c.ps \ Undone(c))
          /\ faults' = faults \cup (IF c.op = "mmap" /\ c.adjust = 0 THEN {"undone"} ELSE {})
          /\ UNCHANGED <<pgroot, mmap_len, regs>>
    /\ Return(t) /\ UNCHANGED brk_len

umm_brk_end(t) ==
    LET c == th[t] IN
    /\ c.op = "brk"
    /\ \/ /\ pgroot' = Set(pgroot, c.ps, IF c.len < brk_len THEN NONE ELSE RW)
          /\ brk_len' = c.len
          /\ UNCHANGED host
       \/ /\ c.len > brk_len
          /\ host' = Set(host, c.ps, NONE)
          /\ UNCHANGED <<pgroot, brk_len>>
    /\ Return(t) /\ UNCHANGED <<mmap_len, regs, stray, faults>>

umm_munmap_end(t) ==
    /\ th[t].op = "munmap"
    /\ pgroot' = Set(pgroot, th[t].ps, NONE)
    /\ regs' = regs \ {th[t].reg}
    /\ Return(t) /\ UNCHANGED <<brk_len, mmap_len, host, stray, faults>>

umm_mprotect_end(t) ==
    /\ th[t].op = "mprotect"
    /\ pgroot' = Set(pgroot, th[t].ps, th[t].prot)
    /\ Return(t) /\ UNCHANGED <<brk_len, mmap_len, host, regs, stray, faults>>

\* The new range is R|W in the page table, whatever it was; when the page
\* table has no room the process exits.
umm_mremap_end(t) ==
    LET c == th[t] IN
    /\ c.op = "mremap"
    /\ mmap_len' = mmap_len + c.reg.len
    /\ \/ /\ pgroot' = Set(Set(pgroot, RegPages(c.old), NONE), c.ps, RW)
          /\ regs' = (regs \ {c.old}) \cup {c.reg}
          /\ Return(t) /\ UNCHANGED faults
       \/ /\ phase' = "exit"
          /\ pgroot' = Set(pgroot, RegPages(c.old), NONE)
          /\ UNCHANGED <<regs, th, mtx, elf, args, faults>>
    /\ UNCHANGED <<brk_len, host, stray>>

syscall_do_foreal(t) ==
    \/ \E len \in Lens : umm_brk(t, len) \/ umm_brk(t, 0)
    \/ \E len \in Lens, prot \in Prots : umm_map_big(t, len, prot) \/ umm_mmap(t, len, prot) \/ umm_shmat(t, len, prot)
    \/ \E r \in regs : umm_munmap(t, r) \/ (\E prot \in Prots : umm_mprotect(t, r, prot)) \/ (\E len \in Lens : umm_mremap(t, r, len))
    \/ /\ phase = "run" /\ faults = {}
       /\ \/ umm_mmap_anom_flags(t) \/ umm_brk_end(t) \/ umm_munmap_end(t)
          \/ umm_mprotect_end(t) \/ umm_mremap_end(t)

Next ==
    \/ load_elf \/ umm_alloc_stack \/ sandbox_init
    \/ \E t \in Thread : syscall_do_foreal(t)

Spec == Init /\ [][Next]_vars

(***************************************************************************)
(* Properties.                                                              *)
(***************************************************************************)
TypeOK ==
    /\ brk_len \in 0..Size /\ mmap_len \in 0..(Size + Under)
    /\ \A p \in Page : host[p] \in Prots \cup {RW, NONE} /\ pgroot[p] \in Prots \cup {RW, NONE}
    /\ mtx \in Thread \cup {NONE}
    /\ \A t \in Thread : th[t].op \in Locked => mtx = t

\* What the application was given stays its own: no two ranges it holds, the
\* unmapped page under the stack included, share a page, and none reaches
\* into the heap (every range is placed with MAP_FIXED, which replaces what
\* was there).  The exceptions are an unlocked call that ran beside another
\* one, and umm_map_big, which does not ask umm_space_left.
RangesApart ==
    ~(faults \cap {"race", "overrun"} # {}) =>
        /\ \A r, s \in regs : r # s => RegPages(r) \cap RegPages(s) = {}
        /\ \A r \in regs : r.lo >= brk_len /\ r.lo + r.len <= Size

\* Between calls the page table shows the application exactly what the host
\* has mapped, with the host's protection except for ranges mremap moved; a
\* failed call has undone both sides.  Exceptions: the undo of a mapping
\* placed over one that was there, which leaves the old entries, and the undo
\* of big pages the request did not fill, which leaves them in the host alone.
TablesAgree ==
    (Quiet /\ phase = "run" /\ faults = {}) =>
        \A p \in Page :
            /\ (pgroot[p] = NONE) = (host[p] = NONE \/ p \in stray)
            /\ p \notin stray /\ (\A r \in regs : r.kind = "moved" => p \notin RegPages(r)) => pgroot[p] = host[p]

\* Between calls every page that is mapped belongs to the heap or to a range
\* the application holds: brk, munmap, mremap and the undo of a failed call
\* leave no page mapped that nobody can unmap any more.  Big pages that munmap
\* refused to give back are the exception; they lie in the space that is left,
\* so that a later mapping replaces them.
NothingLeftMapped ==
    (Quiet /\ faults = {}) =>
        LET own == 0..(brk_len - 1) \cup
                UNION {IF r.kind = "stack" THEN RegPages(r) \ {r.lo} ELSE RegPages(r) : r \in regs}
        IN /\ {p \in Page : host[p] # NONE} = own \cup stray
           /\ \A p \in stray : p \notin own /\ p < umm_get_map_pos

\* The application is entered only with every loadable segment in place,
\* under the permissions of its header and not the ones it was read in with.
SegmentsLoaded ==
    phase \in {"args", "run"} => /\ elf.todo = {}
                                 /\ \A s \in elf.loaded : s.ph.fits /\ s.perm = s.ph.perm

\* The tables of the initial frame stay below its strings, except the word
\* that ends the auxiliary vector, which NUM_AUX does not count: it lands on
\* the first string when the alignment leaves less than a word between them.
ArgsBelowStrings ==
    args # NONE => /\ args.written - 8 <= args.len - args.strs
                   /\ args.written > args.len - args.strs => (args.len - args.strs) - (args.written - 8) < 8

\* umm.c and elf.c together: the ranges given to the application stay apart, the
\* two page tables agree, and it starts with what its file asks for.
AddressSpaceSafe ==
    /\ TypeOK /\ RangesApart /\ TablesAgree
    /\ NothingLeftMapped /\ SegmentsLoaded /\ ArgsBelowStrings
=============================================================================
