------------------------------- MODULE Paging -------------------------------
(***************************************************************************)
(* kernel/mm/paging_impl.c: the page tables of four levels, vmalloc and    *)
(* the page fault handler.  Addresses are counted in pages, and a page of  *)
(* memory is named by its number.  Pages come from physical_alloc_page,    *)
(* which gives the lowest free one and fails when there is none; nothing   *)
(* here frees one.  Calls run to completion one after the other.  An entry *)
(* is a page and the bit NX, which stands above every page number; the     *)
(* other flags, the statistics and the TLB, which every change of an entry *)
(* invalidates, are left out.                                              *)
(*                                                                         *)
(* The code reaches a table by its number through the direct map at        *)
(* KERNEL_VIRT_BASE, which is VMALLOC_START too.  At this commit nothing   *)
(* loads these tables into CR3, so that what they map at that address does *)
(* not change how the code reaches them; the model takes the direct map as *)
(* given.                                                                  *)
(***************************************************************************)
EXTENDS Integers, FiniteSets, FiniteSetsExt

CONSTANTS PTE_COUNT,            \* entries of a table: 512 in the code
          PTE_NX,               \* bit 63 of an entry, as a number of pages
          BootTable,            \* the page of boot_pml4
          Pool,                 \* the pages that are free at the start
          CallerPages,          \* bound: the pages that callers map themselves
          MapAddrs, MapCounts,  \* bound: the addresses and lengths of calls
          VMALLOC_START, VMALLOC_REGION_SIZE

Entries == 0 .. (PTE_COUNT - 1)
AddrSpace == 0 .. (PTE_COUNT * PTE_COUNT * PTE_COUNT * PTE_COUNT - 1)
PageNumbers == 0 .. (PTE_NX - 1)
vmalloc_end == VMALLOC_START + VMALLOC_REGION_SIZE

ASSUME PagingAssumption ==
    /\ PTE_COUNT \in Nat \ {0} /\ {VMALLOC_START, VMALLOC_REGION_SIZE} \subseteq Nat
    /\ PTE_NX \in Nat /\ AddrSpace \subseteq PageNumbers
    /\ IsFiniteSet(Pool) /\ Pool \subseteq PageNumbers \ {0}   \* the address 0 means failure
    /\ BootTable \in PageNumbers \ Pool /\ CallerPages \subseteq PageNumbers \ Pool
    /\ MapAddrs \subseteq AddrSpace /\ MapCounts \subseteq Nat
    /\ vmalloc_end - 1 \in AddrSpace

VARIABLE paging   \* the contents of pages as tables, the free pages, vmalloc_next,
                  \* whether the last call worked; history: the entry mapped last at each address

NotPresent == -1
make_pte(p, nx) == IF nx THEN p + PTE_NX ELSE p
PageOf(e) == IF e >= PTE_NX THEN e - PTE_NX ELSE e
TablePages == Pool \cup {BootTable}   \* the pages that may become tables

\* Free pages contain what was left there: here, entries that lead to the boot table.
paging_init ==
    paging = [table |-> [p \in TablePages |->
                           [i \in Entries |-> IF p = BootTable THEN NotPresent ELSE BootTable]],
              pool |-> Pool, vmalloc_next |-> VMALLOC_START, ok |-> TRUE,
              ref |-> [v \in AddrSpace |-> NotPresent]]
-----------------------------------------------------------------------------
\* Level 3 is the index into the PML4, level 0 that into the page table.
ShiftOne(v) == v \div PTE_COUNT
virt_to_indices(v, level) ==
    (CASE level = 3 -> ShiftOne(ShiftOne(ShiftOne(v)))
       [] level = 2 -> ShiftOne(ShiftOne(v))
       [] level = 1 -> ShiftOne(v)
       [] level = 0 -> v) % PTE_COUNT

\* Mutant: the new table is not cleared.
allocate_page_table_dirty(s, t, i) ==
    LET p == Min(s.pool)
    IN  [s EXCEPT !.pool = @ \ {p}, !.table[t][i] = p]

\* A cleared table at the entry i of table t.
allocate_page_table(s, t, i) ==
    LET p == Min(s.pool)
    IN  [s EXCEPT !.pool = @ \ {p}, !.table = [@ EXCEPT ![p] = [j \in Entries |-> NotPresent], ![t][i] = p]]

\* Down one level from table w.at, with a new table where there is none.
DownOne(w, v, level) ==
    LET i == virt_to_indices(v, level)
        s == IF w.s.table[w.at][i] = NotPresent THEN allocate_page_table(w.s, w.at, i) ELSE w.s
    IN  IF w.at \notin TablePages \/ (w.s.table[w.at][i] = NotPresent /\ w.s.pool = {})
        THEN [w EXCEPT !.at = NotPresent]
        ELSE [s |-> s, at |-> s.table[w.at][i]]

\* The tables made on the way stay when a later one cannot be had.  Their entries are
\* without NX.
MapPage(s, v, p, nx) ==
    LET w == DownOne(DownOne(DownOne([s |-> s, at |-> BootTable], v, 3), v, 2), v, 1)
    IN  IF w.at = NotPresent THEN [w.s EXCEPT !.ok = FALSE]
        ELSE [w.s EXCEPT !.table[w.at][virt_to_indices(v, 0)] = make_pte(p, nx),
                       !.ref[v] = make_pte(p, nx), !.ok = TRUE]

\* The entry of an address, as far down as there are tables.
Follow(s, t, v, level) == IF t \notin TablePages THEN NotPresent ELSE s.table[t][virt_to_indices(v, level)]
LeafTable(s, v) == Follow(s, Follow(s, Follow(s, BootTable, v, 3), v, 2), v, 1)

UnmapPage(s, v) ==
    LET t == LeafTable(s, v)
    IN  IF Follow(s, t, v, 0) = NotPresent THEN s
        ELSE [s EXCEPT !.table[t][virt_to_indices(v, 0)] = NotPresent, !.ref[v] = NotPresent]

\* paging_is_mapped makes the same walk; 0 is no mapping.  Only the offset is masked out
\* of the entry: its NX stays in the result.
paging_virt_to_phys(v) ==
    LET p == Follow(paging, LeafTable(paging, v), v, 0) IN IF p = NotPresent THEN 0 ELSE p
-----------------------------------------------------------------------------
\* Also paging_map_page, for one page, and paging_identity_map, with p = v and without
\* NX.  The loop stops at the first failure; what it mapped stays mapped.
paging_map_range(v, p, n, nx) ==
    LET after[i \in 0 .. n] ==
            IF i = 0 THEN [paging EXCEPT !.ok = TRUE]
            ELSE IF ~after[i - 1].ok THEN after[i - 1] ELSE MapPage(after[i - 1], v + i - 1, p + i - 1, nx)
    IN  v + n - 1 \in AddrSpace /\ paging' = after[n]

\* Also paging_unmap_page, for one page.
paging_unmap_range(v, n) ==
    LET after[i \in 0 .. n] == IF i = 0 THEN paging ELSE UnmapPage(after[i - 1], v + i - 1)
    IN  v + n - 1 \in AddrSpace /\ paging' = after[n]

\* Also sys_mmap, and a vmalloc_map that finds no memory at all.  A request that does
\* not fit moves vmalloc_next past the end, too; then (a bound) it is not moved further.
vmalloc(n) ==
    /\ paging.vmalloc_next <= vmalloc_end
    /\ paging' = [paging EXCEPT !.vmalloc_next = @ + n]

\* physical_alloc_page for the page of an address, and paging_map_page with NX, whose
\* result is not looked at.
BackPage(s, v) ==
    IF s.pool = {} THEN [s EXCEPT !.ok = FALSE]
    ELSE [MapPage([s EXCEPT !.pool = @ \ {Min(s.pool)}], v, Min(s.pool), TRUE) EXCEPT !.ok = TRUE]

\* One page is taken for phys_out before those that are mapped.
vmalloc_map(n) ==
    LET v == paging.vmalloc_next
        after[i \in 0 .. n] ==
            IF i = 0 THEN [paging EXCEPT !.vmalloc_next = @ + n, !.ok = TRUE, !.pool = @ \ {Min(@)}]
            ELSE IF ~after[i - 1].ok THEN after[i - 1] ELSE BackPage(after[i - 1], v + i - 1)
    IN  /\ v + n <= vmalloc_end /\ paging.pool # {}
        /\ paging' = after[n]

\* A fault in the vmalloc region is backed, whether or not vmalloc gave the address
\* out and whether or not a page is there already; other faults are not handled.
page_fault_handler(v) ==
    /\ v \in VMALLOC_START .. (vmalloc_end - 1)
    /\ paging' = BackPage(paging, v)

PagingNext ==
    \/ \E v \in MapAddrs, n \in MapCounts :
          \/ \E p \in CallerPages \cup {v}, nx \in BOOLEAN :
                /\ p .. (p + n - 1) \subseteq PageNumbers \ Pool
                /\ paging_map_range(v, p, n, nx)
          \/ paging_unmap_range(v, n)
    \/ \E n \in MapCounts : vmalloc(n) \/ vmalloc_map(n)
    \/ \E v \in VMALLOC_START .. (vmalloc_end - 1) : page_fault_handler(v)
-----------------------------------------------------------------------------
\* The tables of the lower levels that the given ones lead to.
LowerTables(T) == {paging.table[t][i] : t \in T \cap TablePages, i \in Entries} \ {NotPresent}

\* Whatever is mapped, mapped again, unmapped and backed by faults, and wherever
\* memory runs out on the way, every address translates to the page that was mapped
\* last there, with PTE_NX in the result when it was mapped with NX (vmalloc_map and
\* the fault handler do), also next to addresses that share some of its tables; and a
\* page that came from the allocator has one use: one table or one mapping, and is not
\* free.
TranslatesAsMapped ==
    LET high == LowerTables({BootTable})
        mid  == LowerTables(high)
        all  == {BootTable} \cup high \cup mid \cup LowerTables(mid)
        uses(p) == {e \in (all \cap TablePages) \X Entries : PageOf(paging.table[e[1]][e[2]]) = p}
    IN  /\ \A v \in AddrSpace :
              paging_virt_to_phys(v) = IF paging.ref[v] = NotPresent THEN 0 ELSE paging.ref[v]
        /\ \A p \in Pool : Cardinality(uses(p)) <= (IF p \in paging.pool THEN 0 ELSE 1)
=============================================================================
