------------------------------ MODULE PhysMem ------------------------------
(***************************************************************************)
(* The physical page allocator of kernel/mm/memory.c: one bit per page,    *)
(* allocation by first fit.  A page stands for its address: page_to_addr   *)
(* and addr_to_page are shifts, and page 0 is address 0, the value that    *)
(* the allocator returns for failure.                                      *)
(*                                                                         *)
(* The calls run to completion one after the other: nothing preempts the   *)
(* kernel and no interrupt handler allocates.  The callers free what they  *)
(* were given and reserve only pages that nobody was given.  Of the        *)
(* statistics, free_pages and reserved_pages are kept.                     *)
(***************************************************************************)
EXTENDS Integers, FiniteSets

CONSTANTS MaxPages,     \* mm->max_pages
          BitmapBits,   \* bits in the pages of the bitmap: bitmap_size * 8
          BitmapPages,  \* the pages that hold the bitmap itself
          FreeAtBoot,   \* pages of free E820 regions outside the bitmap
          MaxBlock,     \* bound on the pages of one request
          MaxReserved   \* bound on the ranges reserved at a time

Managed == 0 .. (MaxPages - 1)

\* The bitmap fills whole pages, so its last bits belong to no page.  With the
\* memory map of memory_detect_e820 there are 97 of them.
ASSUME PhysMemAssumption ==
    /\ MaxPages \in Nat
    /\ BitmapBits \in Nat
    /\ MaxPages < BitmapBits
    /\ BitmapPages \subseteq Managed
    /\ FreeAtBoot \subseteq Managed \ BitmapPages
    /\ MaxBlock \in Nat \ {0}
    /\ MaxReserved \in Nat

VARIABLES bitmap,           \* the set bits: pages in use, and the bits beyond MaxPages
          free_pages,       \* stats.free_pages
          reserved_pages,   \* stats.reserved_pages
          held,             \* the blocks callers were given and have not freed
          reserved          \* the ranges reserved and not unreserved

PhysVars == <<bitmap, free_pages, reserved_pages, held, reserved>>

\* A block or a range: its first page and its length.
Blocks == [page : Managed, count : 0 .. MaxBlock]

Pages(b) == b.page .. (b.page + b.count - 1)

PagesOf(blocks) == UNION {Pages(b) : b \in blocks}

memory_manager_init ==
    /\ bitmap = (0 .. (BitmapBits - 1)) \ FreeAtBoot
    /\ free_pages = MaxPages
    /\ reserved_pages = Cardinality(BitmapPages)
    /\ held = {}
    /\ reserved = {}

\* Mutant: the scan tests the first bit of the run only.
find_first_free_head_only(count) ==
    LET fits == {i \in Managed : i \notin bitmap}
    IN  IF fits = {} THEN -1 ELSE CHOOSE i \in fits : \A k \in fits : i <= k

\* The scan starts at a managed page only, but may run past the last one.
find_first_free(count) ==
    LET fits == {i \in Managed : \A j \in 0 .. (count - 1) : i + j \notin bitmap}
    IN  IF fits = {} THEN -1 ELSE CHOOSE i \in fits : \A k \in fits : i <= k

\* addr is the returned address: 0 when no run of pages was found, and also when
\* the run found starts at page 0.
physical_alloc_pages(count, addr) ==
    LET page == find_first_free(count)
    IN  IF page = -1
        THEN addr = 0 /\ UNCHANGED <<bitmap, free_pages>>
        ELSE /\ addr = page
             /\ bitmap' = bitmap \cup (page .. (page + count - 1))
             /\ free_pages' = free_pages - count

physical_alloc_page(addr) == physical_alloc_pages(1, addr)

\* Mutant: a page that was not marked in use is counted as freed too.
FreeRange_uncounted(pages) ==
    /\ bitmap' = bitmap \ (pages \cap Managed)
    /\ free_pages' = free_pages + 1

\* The loop of physical_free_pages over a range; physical_free_page is one turn.
FreeRange(pages) ==
    LET used == pages \cap Managed \cap bitmap
    IN  /\ bitmap' = bitmap \ used
        /\ free_pages' = free_pages + Cardinality(used)

\* A caller that gets address 0 takes it for a failure.
AllocBlock ==
    \E b \in Blocks :
        /\ physical_alloc_pages(b.count, b.page)
        /\ held' = IF b.page = 0 THEN held ELSE held \cup {b}
        /\ UNCHANGED <<reserved_pages, reserved>>

physical_free_pages ==
    \E b \in held :
        /\ FreeRange(Pages(b))
        /\ held' = held \ {b}
        /\ UNCHANGED <<reserved_pages, reserved>>

\* Mutant: reserving a page that is reserved already takes it off free_pages again.
physical_reserve_recount(r) ==
    LET pages == Pages(r) \cap Managed
    IN  /\ bitmap' = bitmap \cup pages
        /\ free_pages' = free_pages - Cardinality(pages)
        /\ reserved_pages' = reserved_pages + Cardinality(pages)
        /\ reserved' = reserved \cup {r}
        /\ UNCHANGED held

physical_reserve(r) ==
    LET pages == Pages(r) \cap Managed
    IN  /\ bitmap' = bitmap \cup pages
        /\ free_pages' = free_pages - Cardinality(pages \ bitmap)
        /\ reserved_pages' = reserved_pages + Cardinality(pages)
        /\ reserved' = reserved \cup {r}
        /\ UNCHANGED held

\* The code sets bits that are clear, as physical_reserve does, and counts them as
\* freed; it clears none.
physical_unreserve(r) ==
    LET pages == Pages(r) \cap Managed
    IN  /\ bitmap' = bitmap \cup pages
        /\ free_pages' = free_pages + Cardinality(pages \ bitmap)
        /\ reserved_pages' = reserved_pages - Cardinality(pages)
        /\ reserved' = reserved \ {r}
        /\ UNCHANGED held

\* inUse are the pages that callers were given.
Reserve(inUse) ==
    /\ Cardinality(reserved) < MaxReserved
    /\ \E r \in Blocks \ reserved : Pages(r) \cap inUse = {} /\ physical_reserve(r)

Unreserve == \E r \in reserved : physical_unreserve(r)

PhysNext == AllocBlock \/ physical_free_pages \/ Reserve(PagesOf(held)) \/ Unreserve

PhysSpec == memory_manager_init /\ [][PhysNext]_PhysVars
-----------------------------------------------------------------------------
PhysTypeOK ==
    /\ bitmap \subseteq 0 .. (BitmapBits - 1)
    /\ free_pages \in Int
    /\ reserved_pages \in Int
    /\ held \subseteq Blocks
    /\ reserved \subseteq Blocks

\* First fit never runs into the bits beyond the last page, and never gives a page
\* to two callers, a reserved page or a page of the bitmap: what callers hold is
\* marked in use, managed, free of holes of the memory map, and pairwise disjoint.
PagesExclusive ==
    /\ PagesOf(held) \subseteq bitmap \cap FreeAtBoot
    /\ PagesOf(held) \cap PagesOf(reserved) = {}
    /\ \A b, c \in held : b # c => Pages(b) \cap Pages(c) = {}

\* free_pages follows the bitmap through every allocation, free and reservation; it
\* starts too high by the pages that memory_manager_init leaves marked, and stays
\* so.  In particular the unsigned counter never wraps below zero.
FreePagesTracks ==
    free_pages = Cardinality(Managed \ bitmap) + (MaxPages - Cardinality(FreeAtBoot))

\* memory.c says of the value 0 that physical_alloc_pages returns "No free pages":
\* an allocation of one page or more that fails found no run of free pages.
AllocFailsOnlyWhenFull ==
    [][\A count \in 1 .. MaxBlock :
          AllocBlock /\ physical_alloc_pages(count, 0) => find_first_free(count) = -1]_PhysVars
=============================================================================
