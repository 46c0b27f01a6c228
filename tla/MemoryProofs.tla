---------------------------- MODULE MemoryProofs ----------------------------
(***************************************************************************)
(* The page allocator and the slab allocator on top of it, for every       *)
(* memory size, memory map, request size and set of caches.                *)
(*                                                                         *)
(* Two facts carry the first part.  The first bit beyond the last page is  *)
(* set and stays set, so a run of clear bits that starts at a page ends at *)
(* a page: this is what the scan, which does not test for the end of the   *)
(* bitmap, relies on.  And a clear bit is a page of a free region that     *)
(* nobody holds and nobody has reserved.                                   *)
(*                                                                         *)
(* The second part takes the lists as sets.  Almost every step of the slab *)
(* allocator touches one slab of one cache (OneSlab), so the invariant is  *)
(* shown once for such a step, and each branch of slab_alloc and slab_free *)
(* is shown to be one; slab_shrink is the exception, and needs that an     *)
(* empty slab has no object in a caller's hands.                           *)
(***************************************************************************)
EXTENDS Slab, BaseLemmas, FiniteSetTheorems, TLAPS

\* The inductive invariant.
PhysInv ==
    /\ PhysTypeOK
    /\ (0 .. (BitmapBits - 1)) \ FreeAtBoot \subseteq bitmap
    /\ PagesOf(reserved) \cap Managed \subseteq bitmap
    /\ PagesExclusive
    /\ FreePagesTracks

\* find_first_free returns -1 or the start of a run of clear bits.
LEMMA FirstFreeFits ==
  ASSUME NEW count \in Nat, find_first_free(count) # -1
  PROVE  /\ find_first_free(count) \in Managed
         /\ \A j \in 0 .. (count - 1) : find_first_free(count) + j \notin bitmap
<1> DEFINE fits == {i \in Managed : \A j \in 0 .. (count - 1) : i + j \notin bitmap}
<1>1. fits \in SUBSET Nat
  BY PhysMemAssumption DEF Managed
<1>2. fits # {}
  BY DEF find_first_free
<1>3. \E i \in fits : \A k \in fits : i <= k
  BY <1>1, <1>2, LeastElement
<1>4. find_first_free(count) = CHOOSE i \in fits : \A k \in fits : i <= k
  BY <1>2 DEF find_first_free
<1>5. find_first_free(count) \in fits
  BY <1>3, <1>4
<1> QED
  BY <1>5

\* A run of clear bits that starts at a page stays among the pages of free regions.
LEMMA RunStaysInside ==
  ASSUME PhysInv, NEW page \in Managed, NEW count \in Nat,
         \A j \in 0 .. (count - 1) : page + j \notin bitmap
  PROVE  /\ page .. (page + count - 1) \subseteq FreeAtBoot
         /\ (page .. (page + count - 1)) \cap bitmap = {}
<1> USE PhysMemAssumption DEF Managed
<1>1. \A q \in page .. (page + count - 1) : q \notin bitmap
  <2> SUFFICES ASSUME NEW q \in page .. (page + count - 1) PROVE q \notin bitmap
    OBVIOUS
  <2>1. q - page \in 0 .. (count - 1) /\ page + (q - page) = q
    OBVIOUS
  <2> QED
    BY <2>1
<1>2. MaxPages \in bitmap
  BY DEF PhysInv
<1>3. page + count - 1 < MaxPages
  <2> SUFFICES ASSUME page + count - 1 >= MaxPages PROVE FALSE
    OBVIOUS
  <2>1. MaxPages \in page .. (page + count - 1)
    OBVIOUS
  <2> QED
    BY <2>1, <1>1, <1>2
<1>4. \A q \in page .. (page + count - 1) : q \in FreeAtBoot
  BY <1>1, <1>3 DEF PhysInv
<1> QED
  BY <1>1, <1>4

\* The pages of a set of blocks, element by element.
LEMMA InPagesOf ==
  ASSUME NEW B, NEW q
  PROVE  q \in PagesOf(B) <=> \E b \in B : q \in Pages(b)
BY DEF PagesOf

\* Sets of pages are finite.
LEMMA PagesFinite ==
  ASSUME NEW S \in SUBSET Managed
  PROVE  IsFiniteSet(S) /\ Cardinality(S) \in Nat
<1>1. IsFiniteSet(0 .. (MaxPages - 1))
  <2>1. 0 \in Int /\ MaxPages - 1 \in Int
    BY PhysMemAssumption
  <2> QED
    BY <2>1, FS_Interval
<1>2. IsFiniteSet(S)
  BY <1>1, FS_Subset DEF Managed
<1> QED
  BY <1>2, FS_CardinalityType

\* Every page has its bit.
LEMMA PagesHaveBits == Managed \subseteq 0 .. (BitmapBits - 1)
BY PhysMemAssumption DEF Managed

\* Marking a set of clear pages takes its size off the number of clear bits.
LEMMA ClearBits ==
  ASSUME NEW old, NEW moved \in SUBSET Managed, moved \cap old = {}
  PROVE  Cardinality(Managed \ old) = Cardinality(Managed \ (old \cup moved)) + Cardinality(moved)
<1> DEFINE A == Managed \ (old \cup moved)
<1>1. IsFiniteSet(A) /\ Cardinality(A) \in Nat
  BY PagesFinite
<1>2. IsFiniteSet(moved) /\ Cardinality(moved) \in Nat
  BY PagesFinite
<1>3. Managed \ old = A \cup moved /\ A \cap moved = {}
  OBVIOUS
<1> HIDE DEF A
<1>4. Cardinality(A \cup moved) = Cardinality(A) + Cardinality(moved) - Cardinality(A \cap moved)
  BY <1>1, <1>2, FS_Union
<1>5. Cardinality(A \cap moved) = 0
  BY <1>3, FS_EmptySet
<1>6. Cardinality(A \cup moved) = Cardinality(A) + Cardinality(moved)
  BY <1>1, <1>2, <1>4, <1>5
<1>7. A = Managed \ (old \cup moved)
  BY DEF A
<1> QED
  BY <1>3, <1>6, <1>7

\* memory_manager_init.
LEMMA PhysInitInv == memory_manager_init => PhysInv
<1> SUFFICES ASSUME memory_manager_init PROVE PhysInv
  OBVIOUS
<1> USE PhysMemAssumption DEF memory_manager_init
<1>1. PagesOf(held) = {} /\ PagesOf(reserved) = {}
  BY DEF PagesOf
<1>2. Cardinality(BitmapPages) \in Nat /\ Cardinality(FreeAtBoot) \in Nat
  BY PagesFinite
<1>3. reserved_pages \in Int
  BY <1>2
<1>4. Managed \ bitmap = FreeAtBoot
  <2>1. Managed \subseteq 0 .. (BitmapBits - 1) /\ FreeAtBoot \subseteq Managed
    BY DEF Managed
  <2> QED
    BY <2>1
<1>5. Cardinality(Managed \ bitmap) = Cardinality(FreeAtBoot)
  BY <1>4
<1>6. FreePagesTracks
  BY <1>2, <1>5 DEF FreePagesTracks
<1> QED
  BY <1>1, <1>3, <1>6 DEF PhysInv, PhysTypeOK, PagesExclusive

\* An allocation gives out pages that were clear, so free and nobody's.
LEMMA AllocPages ==
  ASSUME PhysInv, NEW b \in Blocks, physical_alloc_pages(b.count, b.page),
         held' \subseteq held \cup {b}, b.page = 0 => held' = held, UNCHANGED <<reserved_pages, reserved>>
  PROVE  /\ PhysInv'
         /\ \/ b.page = 0 /\ bitmap' = bitmap
            \/ bitmap' = bitmap \cup Pages(b) /\ Pages(b) \subseteq FreeAtBoot /\ Pages(b) \cap bitmap = {}
<1> USE PhysMemAssumption
<1>1. UNCHANGED <<reserved_pages, reserved>>
  OBVIOUS
<1>2. b.page \in Managed /\ b.count \in Nat /\ b.page \in Int
  BY DEF Blocks, Managed
<1>3. CASE find_first_free(b.count) = -1
  <2>1. b.page = 0 /\ UNCHANGED <<bitmap, free_pages>>
    BY <1>3 DEF physical_alloc_pages
  <2>2. UNCHANGED PhysVars
    BY <1>1, <2>1 DEF PhysVars
  <2> QED
    BY <2>1, <2>2 DEF PhysVars, PhysInv, PhysTypeOK, PagesExclusive, FreePagesTracks
<1>4. CASE find_first_free(b.count) # -1
  <2>1. /\ b.page = find_first_free(b.count)
        /\ bitmap' = bitmap \cup Pages(b)
        /\ free_pages' = free_pages - b.count
    BY <1>4 DEF physical_alloc_pages, Pages
  <2>2. Pages(b) \subseteq FreeAtBoot /\ Pages(b) \cap bitmap = {}
    BY <1>2, <1>4, <2>1, FirstFreeFits, RunStaysInside DEF Pages
  <2>3. FreePagesTracks'
    <3>1. Pages(b) \in SUBSET Managed
      BY <2>2
    <3>2. Cardinality(Managed \ bitmap) = Cardinality(Managed \ bitmap') + Cardinality(Pages(b))
      <4> DEFINE P == Pages(b)
      <4>1. P \in SUBSET Managed /\ P \cap bitmap = {} /\ bitmap' = bitmap \cup P
        BY <2>1, <2>2, <3>1
      <4> HIDE DEF P
      <4>2. Cardinality(Managed \ bitmap) = Cardinality(Managed \ (bitmap \cup P)) + Cardinality(P)
        BY <4>1, ClearBits
      <4> QED
        BY <4>1, <4>2 DEF P
    <3>3. Cardinality(Pages(b)) = b.count
      BY <1>2, FS_Interval, SMTT(30) DEF Pages
    <3>4. Cardinality(Managed \ bitmap') \in Nat
      BY PagesFinite
    <3>5. Cardinality(FreeAtBoot) \in Nat
      BY PagesFinite
    <3> QED
      BY <1>2, <2>1, <3>2, <3>3, <3>4, <3>5 DEF PhysInv, FreePagesTracks
  <2>4. held' \subseteq held \cup {b}
    OBVIOUS
  <2>5. PhysTypeOK'
    <3>1. bitmap' \subseteq 0 .. (BitmapBits - 1)
      BY <2>1, <2>2, PagesHaveBits DEF PhysInv, PhysTypeOK
    <3>2. free_pages' \in Int
      BY <1>2, <2>1 DEF PhysInv, PhysTypeOK
    <3> QED
      BY <1>1, <2>4, <3>1, <3>2 DEF PhysInv, PhysTypeOK
  <2>6. PagesOf(held') \subseteq bitmap' \cap FreeAtBoot
    BY <2>1, <2>2, <2>4, InPagesOf DEF PhysInv, PagesExclusive
  <2>7. PagesOf(held') \cap PagesOf(reserved') = {}
    <3>1. Pages(b) \cap PagesOf(reserved) = {}
      BY <2>2 DEF PhysInv
    <3> QED
      BY <1>1, <2>4, <3>1, InPagesOf DEF PhysInv, PagesExclusive
  <2>8. \A x, y \in held' : x # y => Pages(x) \cap Pages(y) = {}
    <3>1. \A x \in held : Pages(x) \subseteq bitmap
      BY InPagesOf DEF PhysInv, PagesExclusive
    <3> QED
      BY <2>2, <2>4, <3>1 DEF PhysInv, PagesExclusive
  <2> QED
    BY <1>1, <2>1, <2>2, <2>3, <2>5, <2>6, <2>7, <2>8 DEF PhysInv, PagesExclusive
<1> QED
  BY <1>3, <1>4

\* The same for a block that a caller is given.
LEMMA AllocInv == ASSUME PhysInv, AllocBlock PROVE PhysInv' /\ bitmap \subseteq bitmap'
                                                   /\ PagesOf(held') \subseteq PagesOf(held) \cup (bitmap' \ bitmap)
<1>1. PICK b \in Blocks :
         /\ physical_alloc_pages(b.count, b.page)
         /\ held' = IF b.page = 0 THEN held ELSE held \cup {b}
         /\ UNCHANGED <<reserved_pages, reserved>>
  BY DEF AllocBlock
<1>2. held' \subseteq held \cup {b} /\ (b.page = 0 => held' = held)
  BY <1>1
<1>3. /\ PhysInv'
      /\ \/ b.page = 0 /\ bitmap' = bitmap
         \/ bitmap' = bitmap \cup Pages(b) /\ Pages(b) \subseteq FreeAtBoot /\ Pages(b) \cap bitmap = {}
  BY <1>1, <1>2, AllocPages
<1>4. PagesOf(held') \subseteq PagesOf(held) \cup Pages(b)
  BY <1>2, InPagesOf
<1> QED
  BY <1>2, <1>3, <1>4

\* Clearing the bits of pages that nobody else holds or has reserved.
LEMMA FreePages ==
  ASSUME PhysInv, NEW P, P \subseteq bitmap \cap FreeAtBoot, FreeRange(P), held' \subseteq held,
         P \cap PagesOf(held') = {}, P \cap PagesOf(reserved) = {}, UNCHANGED <<reserved_pages, reserved>>
  PROVE  PhysInv' /\ bitmap' = bitmap \ P
<1> USE PhysMemAssumption
<1>1. P \cap Managed \cap bitmap = P
  OBVIOUS
<1>4. bitmap' = bitmap \ P /\ free_pages' = free_pages + Cardinality(P)
  BY <1>1 DEF FreeRange
<1>5. /\ Cardinality(P) \in Nat
      /\ Cardinality(Managed \ bitmap) \in Nat
      /\ Cardinality(Managed \ bitmap') = Cardinality(Managed \ bitmap) + Cardinality(P)
  <2>1. P \in SUBSET Managed /\ P \cap bitmap' = {} /\ bitmap = bitmap' \cup P
    BY <1>4
  <2>2. Cardinality(Managed \ bitmap') = Cardinality(Managed \ (bitmap' \cup P)) + Cardinality(P)
    BY <2>1, ClearBits
  <2>3. Cardinality(P) \in Nat /\ Cardinality(Managed \ bitmap) \in Nat
    BY <2>1, PagesFinite
  <2> QED
    BY <2>1, <2>2, <2>3
<1>6. Cardinality(FreeAtBoot) \in Nat
  BY PagesFinite
<1>7. FreePagesTracks'
  BY <1>4, <1>5, <1>6 DEF PhysInv, FreePagesTracks
<1>8. PhysTypeOK'
  <2>1. free_pages' \in Int
    BY <1>4, <1>5 DEF PhysInv, PhysTypeOK
  <2> QED
    BY <1>4, <2>1 DEF PhysInv, PhysTypeOK
<1>9. PagesOf(reserved') \cap Managed \subseteq bitmap'
  BY <1>4 DEF PhysInv
<1>10. PagesExclusive'
  <2>1. PagesOf(held') \subseteq PagesOf(held)
    BY InPagesOf
  <2>2. PagesOf(held') \subseteq bitmap' \cap FreeAtBoot
    BY <1>4, <2>1 DEF PhysInv, PagesExclusive
  <2>3. PagesOf(held') \cap PagesOf(reserved') = {}
    BY <2>1 DEF PhysInv, PagesExclusive
  <2> QED
    BY <2>2, <2>3 DEF PhysInv, PagesExclusive
<1> QED
  BY <1>4, <1>7, <1>8, <1>9, <1>10 DEF PhysInv

\* Freeing a block clears its bits and no bit of another block or range.
LEMMA FreeInv == ASSUME PhysInv, physical_free_pages
                 PROVE  PhysInv' /\ held' \subseteq held /\ bitmap \ PagesOf(held) \subseteq bitmap'
<1>1. PICK b \in held :
         /\ FreeRange(Pages(b))
         /\ held' = held \ {b}
         /\ UNCHANGED <<reserved_pages, reserved>>
  BY DEF physical_free_pages
<1>2. PICK P : P = Pages(b)
  OBVIOUS
<1>3. P \subseteq bitmap \cap FreeAtBoot /\ P \subseteq PagesOf(held) /\ P \cap PagesOf(reserved) = {}
  BY <1>2, InPagesOf DEF PhysInv, PagesExclusive
<1>4. P \cap PagesOf(held') = {}
  <2>1. \A x \in held' : x \in held /\ Pages(x) \cap P = {}
    BY <1>1, <1>2 DEF PhysInv, PagesExclusive
  <2> QED
    BY <2>1, InPagesOf
<1>5. FreeRange(P) /\ held' \subseteq held
  BY <1>1, <1>2
<1>6. PhysInv' /\ bitmap' = bitmap \ P
  BY <1>1, <1>3, <1>4, <1>5, FreePages
<1> QED
  BY <1>3, <1>5, <1>6

\* A reservation marks pages that no caller holds.
LEMMA ReserveInv ==
  ASSUME PhysInv, NEW inUse, PagesOf(held) \subseteq inUse, Reserve(inUse)
  PROVE  /\ PhysInv' /\ bitmap \subseteq bitmap' /\ held' = held
         /\ inUse \cap PagesOf(reserved') \subseteq PagesOf(reserved)
<1> USE PhysMemAssumption
<1>1. PICK r \in Blocks : Pages(r) \cap inUse = {} /\ physical_reserve(r)
  BY DEF Reserve
<1> DEFINE pages == Pages(r) \cap Managed
<1>2. /\ bitmap' = bitmap \cup pages
      /\ free_pages' = free_pages - Cardinality(pages \ bitmap)
      /\ reserved_pages' = reserved_pages + Cardinality(pages)
      /\ reserved' = reserved \cup {r}
      /\ UNCHANGED held
  BY <1>1 DEF physical_reserve
<1>3. Cardinality(pages) \in Nat
  BY PagesFinite
<1>4. /\ Cardinality(pages \ bitmap) \in Nat
      /\ Cardinality(Managed \ bitmap') \in Nat
      /\ Cardinality(Managed \ bitmap) = Cardinality(Managed \ bitmap') + Cardinality(pages \ bitmap)
  <2>1. /\ bitmap' = bitmap \cup (pages \ bitmap)
        /\ pages \ bitmap \in SUBSET Managed
        /\ (pages \ bitmap) \cap bitmap = {}
    BY <1>2
  <2> DEFINE P == pages \ bitmap
  <2> HIDE DEF P
  <2>2. P \in SUBSET Managed /\ P \cap bitmap = {} /\ bitmap' = bitmap \cup P
    BY <2>1 DEF P
  <2>3. Cardinality(Managed \ bitmap) = Cardinality(Managed \ (bitmap \cup P)) + Cardinality(P)
    BY <2>2, ClearBits
  <2>4. Cardinality(P) \in Nat /\ Cardinality(Managed \ bitmap') \in Nat
    BY <2>2, PagesFinite
  <2> QED
    BY <2>2, <2>3, <2>4 DEF P
<1>5. Cardinality(FreeAtBoot) \in Nat
  BY PagesFinite
<1>6. FreePagesTracks'
  BY <1>2, <1>4, <1>5 DEF PhysInv, FreePagesTracks
<1>7. PhysTypeOK'
  <2>1. bitmap' \subseteq 0 .. (BitmapBits - 1)
    BY <1>2, PagesHaveBits DEF PhysInv, PhysTypeOK
  <2>2. free_pages' \in Int /\ reserved_pages' \in Int
    BY <1>2, <1>3, <1>4 DEF PhysInv, PhysTypeOK
  <2> QED
    BY <1>2, <2>1, <2>2 DEF PhysInv, PhysTypeOK
<1>8. PagesOf(reserved') = PagesOf(reserved) \cup Pages(r)
  BY <1>2 DEF PagesOf
<1>9. PagesOf(reserved') \cap Managed \subseteq bitmap'
  BY <1>2, <1>8 DEF PhysInv
<1>10. PagesOf(held') = PagesOf(held)
  BY <1>2
<1>11. PagesExclusive'
  BY <1>1, <1>2, <1>8, <1>10 DEF PhysInv, PagesExclusive
<1> QED
  BY <1>1, <1>2, <1>6, <1>7, <1>8, <1>9, <1>11 DEF PhysInv

\* physical_unreserve finds every bit of a reserved range set: it clears none, and
\* for that reason sets none either.
LEMMA UnreserveInv ==
  ASSUME PhysInv, Unreserve
  PROVE  PhysInv' /\ bitmap' = bitmap /\ held' = held /\ PagesOf(reserved') \subseteq PagesOf(reserved)
<1> USE PhysMemAssumption
<1>1. PICK r \in reserved : physical_unreserve(r)
  BY DEF Unreserve
<1> DEFINE pages == Pages(r) \cap Managed
<1>2. pages \subseteq bitmap
  BY InPagesOf DEF PhysInv
<1>3. pages \ bitmap = {} /\ Cardinality(pages \ bitmap) = 0
  BY <1>2, FS_EmptySet
<1>4. Cardinality(pages) \in Nat
  BY PagesFinite
<1>5. /\ bitmap' = bitmap
      /\ free_pages' = free_pages
      /\ reserved_pages' = reserved_pages - Cardinality(pages)
      /\ reserved' = reserved \ {r}
      /\ held' = held
  BY <1>1, <1>2, <1>3 DEF physical_unreserve, PhysInv, PhysTypeOK
<1>6. PhysTypeOK'
  BY <1>4, <1>5 DEF PhysInv, PhysTypeOK
<1>7. PagesOf(reserved') \subseteq PagesOf(reserved) /\ PagesOf(held') = PagesOf(held)
  BY <1>5 DEF PagesOf
<1> QED
  BY <1>5, <1>6, <1>7 DEF PhysInv, PagesExclusive, FreePagesTracks

\* PhysInv is inductive.
LEMMA PhysNextInv == PhysInv /\ [PhysNext]_PhysVars => PhysInv'
<1> SUFFICES ASSUME PhysInv, [PhysNext]_PhysVars PROVE PhysInv'
  OBVIOUS
<1>1. CASE UNCHANGED PhysVars
  BY <1>1 DEF PhysVars, PhysInv, PhysTypeOK, PagesExclusive, FreePagesTracks
<1> QED
  BY <1>1, AllocInv, FreeInv, ReserveInv, UnreserveInv DEF PhysNext

\* It holds in every reachable state.
LEMMA PhysInvariant == PhysSpec => []PhysInv
BY PhysInitInv, PhysNextInv, PTL DEF PhysSpec
-----------------------------------------------------------------------------
\* Lists of slabs and of free objects as sets: a new head, the rest, one entry less, two
\* lists one after the other, and a list cut in two.
LEMMA InToSet ==
  ASSUME NEW s, NEW x
  PROVE  x \in ToSet(s) <=> \E i \in DOMAIN s : s[i] = x
BY DEF ToSet

IsCons(t, x, s) == t = <<x>> \o s

LEMMA SetCons ==
  ASSUME NEW S, NEW s \in Seq(S), NEW x \in S, NEW t, IsCons(t, x, s)
  PROVE  /\ t \in Seq(S) /\ t # <<>> /\ Len(t) = Len(s) + 1
         /\ ToSet(t) = ToSet(s) \cup {x}
         /\ IsInjective(s) /\ x \notin ToSet(s) => IsInjective(t)
<1>1. t \in Seq(S) /\ Len(t) = Len(s) + 1 /\ t[1] = x /\ Len(s) \in Nat
      /\ \A i \in 1 .. Len(s) : t[i + 1] = s[i]
  BY DEF IsCons
<1>2. DOMAIN t = 1 .. (Len(s) + 1) /\ DOMAIN s = 1 .. Len(s)
  BY <1>1
<1>3. \A i \in DOMAIN t : i = 1 \/ (i - 1 \in DOMAIN s /\ t[i] = s[i - 1])
  BY <1>1, <1>2
<1>4. ToSet(t) = ToSet(s) \cup {x}
  <2>1. \A i \in DOMAIN s : i + 1 \in DOMAIN t /\ t[i + 1] = s[i]
    BY <1>1, <1>2
  <2>2. 1 \in DOMAIN t
    BY <1>1, <1>2
  <2>3. ASSUME NEW y PROVE y \in ToSet(t) <=> y \in ToSet(s) \/ y = x
    <3>1. t[1] = x
      BY <1>1
    <3>2. /\ y \in ToSet(t) <=> \E i \in DOMAIN t : t[i] = y
          /\ y \in ToSet(s) <=> \E i \in DOMAIN s : s[i] = y
      BY InToSet
    <3> QED
      BY <1>3, <2>1, <2>2, <3>1, <3>2, Zenon
  <2> QED
    BY <2>3
<1>5. ASSUME IsInjective(s), x \notin ToSet(s) PROVE IsInjective(t)
  <2>1. ASSUME NEW i \in DOMAIN t, NEW j \in DOMAIN t, t[i] = t[j] PROVE i = j
    <3>1. \A k \in DOMAIN s : s[k] # x
      BY <1>5 DEF ToSet
    <3>2. CASE i = 1
      BY <1>1, <1>3, <2>1, <3>1, <3>2
    <3>3. CASE j = 1
      BY <1>1, <1>3, <2>1, <3>1, <3>3
    <3>4. CASE i # 1 /\ j # 1
      <4>1. i - 1 = j - 1
        BY <1>3, <1>5, <2>1, <3>4 DEF IsInjective
      <4> QED
        BY <1>2, <4>1
    <3> QED
      BY <3>2, <3>3, <3>4
  <2> QED
    BY <2>1 DEF IsInjective
<1> QED
  BY <1>1, <1>4, <1>5

\* The list without its head.
LEMMA SetTail ==
  ASSUME NEW S, NEW s \in Seq(S), s # <<>>
  PROVE  /\ Tail(s) \in Seq(S) /\ Len(Tail(s)) = Len(s) - 1 /\ Len(s) \in Nat \ {0}
         /\ Head(s) \in S /\ Head(s) \in ToSet(s)
         /\ ToSet(s) = ToSet(Tail(s)) \cup {Head(s)}
         /\ IsInjective(s) => IsInjective(Tail(s)) /\ Head(s) \notin ToSet(Tail(s))
<1>1. /\ Tail(s) \in Seq(S) /\ Len(Tail(s)) = Len(s) - 1 /\ Len(s) \in Nat \ {0} /\ Head(s) = s[1]
      /\ s[1] \in S
  OBVIOUS
<1>2. PICK t : t = Tail(s)
  OBVIOUS
<1>3. DOMAIN s = 1 .. Len(s) /\ DOMAIN t = 1 .. (Len(s) - 1)
  BY <1>1, <1>2
<1>4. \A i \in DOMAIN t : i + 1 \in DOMAIN s /\ t[i] = s[i + 1]
  BY <1>1, <1>2, <1>3
<1>5. \A i \in DOMAIN s : i = 1 \/ (i - 1 \in DOMAIN t /\ s[i] = t[i - 1])
  <2> TAKE i \in DOMAIN s
  <2>1. i # 1 => i - 1 \in DOMAIN t /\ (i - 1) + 1 = i
    BY <1>3
  <2> QED
    BY <1>4, <2>1
<1>6. 1 \in DOMAIN s
  BY <1>1, <1>3
<1>7. ToSet(s) = ToSet(t) \cup {s[1]}
  BY <1>4, <1>5, <1>6 DEF ToSet
<1>8. ASSUME IsInjective(s) PROVE IsInjective(t) /\ s[1] \notin ToSet(t)
  <2>1. ASSUME NEW i \in DOMAIN t, NEW j \in DOMAIN t, t[i] = t[j] PROVE i = j
    <3>1. i + 1 = j + 1
      BY <1>4, <1>8, <2>1 DEF IsInjective
    <3> QED
      BY <1>3, <3>1
  <2>2. ASSUME NEW i \in DOMAIN t PROVE t[i] # s[1]
    <3>1. i + 1 # 1
      BY <1>3
    <3> QED
      BY <1>4, <1>6, <1>8, <3>1 DEF IsInjective
  <2> QED
    BY <2>1, <2>2 DEF IsInjective, ToSet
<1> QED
  BY <1>1, <1>2, <1>6, <1>7, <1>8 DEF ToSet

\* The positions Keep takes, in order.
LEMMA KeepOrder ==
  ASSUME NEW S, NEW s \in Seq(S), NEW at \in SUBSET (DOMAIN s), IsInjective(s)
  PROVE  IsInjective(Keep(s, at))
<1> DEFINE rank(i) == Cardinality({j \in at : j <= i})
           pos(k) == CHOOSE i \in at : rank(i) = k
           n == Cardinality(at)
<1>1. DOMAIN s = 1 .. Len(s) /\ Len(s) \in Nat
  OBVIOUS
<1>2. n \in Nat /\ \A k \in 1 .. n : \E i \in at : rank(i) = k
  BY <1>1, KeepRanks
<1>3. \A k \in 1 .. n : pos(k) \in at /\ rank(pos(k)) = k
  BY <1>2
<1>4. Keep(s, at) = [k \in 1 .. n |-> s[pos(k)]]
  BY DEF Keep
<1> HIDE DEF pos, rank, n
<1>5. ASSUME NEW k \in 1 .. n, NEW h \in 1 .. n, s[pos(k)] = s[pos(h)] PROVE k = h
  <2>1. pos(k) = pos(h)
    BY <1>3, <1>5 DEF IsInjective
  <2> QED
    BY <1>3, <2>1
<1> QED
  BY <1>4, <1>5 DEF IsInjective

\* The list without an entry.
LEMMA SetWithout ==
  ASSUME NEW S, NEW s \in Seq(S), NEW x
  PROVE  /\ Without(s, x) \in Seq(S)
         /\ ToSet(Without(s, x)) = ToSet(s) \ {x}
         /\ IsInjective(s) => IsInjective(Without(s, x))
<1>1. PICK at : at = {i \in DOMAIN s : s[i] # x}
  OBVIOUS
<1>2. at \in SUBSET (DOMAIN s) /\ Without(s, x) = Keep(s, at)
  BY <1>1 DEF Without
<1>3. PICK t : t = Keep(s, at)
  OBVIOUS
<1>4. /\ t \in Seq(S)
      /\ \A k \in DOMAIN t : \E i \in at : t[k] = s[i]
      /\ \A i \in at : \E k \in DOMAIN t : t[k] = s[i]
  BY <1>2, <1>3, KeepEntries
<1>5. ToSet(t) = ToSet(s) \ {x}
  BY <1>1, <1>4 DEF ToSet
<1>6. IsInjective(s) => IsInjective(t)
  BY <1>2, <1>3, KeepOrder
<1> QED
  BY <1>2, <1>3, <1>4, <1>5, <1>6

\* Two lists one after the other.
LEMMA SetConcat ==
  ASSUME NEW S, NEW a \in Seq(S), NEW b \in Seq(S)
  PROVE  /\ a \o b \in Seq(S)
         /\ ToSet(a \o b) = ToSet(a) \cup ToSet(b)
         /\ IsInjective(a) /\ IsInjective(b) /\ ToSet(a) \cap ToSet(b) = {} => IsInjective(a \o b)
<1>1. PICK t, m, n : t = a \o b /\ m = Len(a) /\ n = Len(b)
  OBVIOUS
<1>2. /\ t \in Seq(S) /\ m \in Nat /\ n \in Nat
      /\ DOMAIN a = 1 .. m /\ DOMAIN b = 1 .. n /\ DOMAIN t = 1 .. (m + n)
      /\ \A i \in 1 .. m : t[i] = a[i]
      /\ \A i \in 1 .. n : t[m + i] = b[i]
  BY <1>1
<1>3. \A i \in DOMAIN t : \/ i \in DOMAIN a /\ t[i] = a[i]
                          \/ i - m \in DOMAIN b /\ t[i] = b[i - m]
  <2> TAKE i \in DOMAIN t
  <2>1. CASE i <= m
    BY <1>2, <2>1
  <2>2. CASE ~ (i <= m)
    <3>1. i - m \in 1 .. n /\ m + (i - m) = i
      BY <1>2, <2>2
    <3> QED
      BY <1>2, <3>1
  <2> QED
    BY <2>1, <2>2
<1>4. ToSet(t) = ToSet(a) \cup ToSet(b)
  <2>1. \A i \in DOMAIN a : i \in DOMAIN t /\ t[i] = a[i]
    BY <1>2
  <2>2. \A i \in DOMAIN b : m + i \in DOMAIN t /\ t[m + i] = b[i]
    BY <1>2
  <2> QED
    BY <1>3, <2>1, <2>2 DEF ToSet
<1>5. ASSUME IsInjective(a), IsInjective(b), ToSet(a) \cap ToSet(b) = {} PROVE IsInjective(t)
  <2>1. ASSUME NEW i \in DOMAIN t, NEW j \in DOMAIN t, t[i] = t[j] PROVE i = j
    <3>1. \A x \in DOMAIN a, y \in DOMAIN b : a[x] # b[y]
      BY <1>5 DEF ToSet
    <3>2. \/ i \in DOMAIN a /\ j \in DOMAIN a /\ a[i] = a[j]
          \/ i - m \in DOMAIN b /\ j - m \in DOMAIN b /\ b[i - m] = b[j - m]
      BY <1>3, <2>1, <3>1
    <3>3. i = j \/ i - m = j - m
      BY <1>5, <3>2 DEF IsInjective
    <3> QED
      BY <1>2, <3>3
  <2> QED
    BY <2>1 DEF IsInjective
<1> QED
  BY <1>1, <1>2, <1>4, <1>5

IsFront(a, s, k) == a = SubSeq(s, 1, k)
IsRest(b, s, k) == b = SubSeq(s, k + 1, Len(s))

\* A list cut after its k-th entry.
LEMMA SetCut ==
  ASSUME NEW S, NEW s \in Seq(S), NEW k \in 0 .. Len(s), NEW a, NEW b, IsFront(a, s, k), IsRest(b, s, k)
  PROVE  /\ a \in Seq(S) /\ Len(a) = k /\ b \in Seq(S)
         /\ ToSet(s) = ToSet(a) \cup ToSet(b)
         /\ IsInjective(s) => /\ ToSet(a) \cap ToSet(b) = {} /\ IsInjective(b)
                              /\ IsFiniteSet(ToSet(a)) /\ Cardinality(ToSet(a)) = k
<1>1. PICK n : n = Len(s) /\ n \in Nat /\ DOMAIN s = 1 .. n /\ k \in Nat /\ k <= n
  OBVIOUS
<1>2. /\ a \in Seq(S) /\ Len(a) = k /\ DOMAIN a = 1 .. k /\ \A i \in 1 .. k : a[i] = s[i]
  BY <1>1 DEF IsFront
<1>3. /\ b \in Seq(S) /\ Len(b) = n - k /\ DOMAIN b = 1 .. (n - k) /\ \A i \in 1 .. (n - k) : b[i] = s[k + i]
  BY <1>1 DEF IsRest
<1>4. \A i \in DOMAIN s : \/ i \in DOMAIN a /\ s[i] = a[i]
                          \/ i - k \in DOMAIN b /\ s[i] = b[i - k]
  <2> TAKE i \in DOMAIN s
  <2>1. CASE i <= k
    BY <1>1, <1>2, <2>1
  <2>2. CASE ~ (i <= k)
    <3>1. i - k \in 1 .. (n - k) /\ k + (i - k) = i
      BY <1>1, <2>2
    <3> QED
      BY <1>3, <3>1
  <2> QED
    BY <2>1, <2>2
<1>5. \A i \in DOMAIN a : i \in DOMAIN s /\ s[i] = a[i]
  BY <1>1, <1>2
<1>6. \A i \in DOMAIN b : k + i \in DOMAIN s /\ s[k + i] = b[i]
  BY <1>1, <1>3
<1>7. ToSet(s) = ToSet(a) \cup ToSet(b)
  <2>1. ASSUME NEW y PROVE y \in ToSet(s) <=> y \in ToSet(a) \/ y \in ToSet(b)
    <3>1. /\ y \in ToSet(s) <=> \E i \in DOMAIN s : s[i] = y
          /\ y \in ToSet(a) <=> \E i \in DOMAIN a : a[i] = y
          /\ y \in ToSet(b) <=> \E i \in DOMAIN b : b[i] = y
      BY InToSet
    <3> QED
      BY <1>4, <1>5, <1>6, <3>1, Zenon
  <2> QED
    BY <2>1
<1>8. ASSUME IsInjective(s)
      PROVE  /\ ToSet(a) \cap ToSet(b) = {} /\ IsInjective(b)
             /\ IsFiniteSet(ToSet(a)) /\ Cardinality(ToSet(a)) = k
  <2>1. ASSUME NEW i \in DOMAIN a, NEW j \in DOMAIN b PROVE a[i] # b[j]
    <3>1. i # k + j
      BY <1>1, <1>2, <1>3
    <3> QED
      BY <1>5, <1>6, <1>8, <3>1 DEF IsInjective
  <2>2. ASSUME NEW i \in DOMAIN b, NEW j \in DOMAIN b, b[i] = b[j] PROVE i = j
    <3>1. k + i = k + j
      BY <1>6, <1>8, <2>2 DEF IsInjective
    <3> QED
      BY <1>1, <1>3, <3>1
  <2>3. a \in Bijection(1 .. k, ToSet(a))
    <3>1. a \in [1 .. k -> ToSet(a)]
      <4>1. \A i \in 1 .. k : a[i] \in ToSet(a)
        BY <1>2, InToSet
      <4>2. a = [i \in 1 .. k |-> a[i]]
        BY <1>2
      <4> QED
        BY <4>1, <4>2, Zenon
    <3>2. \A i, j \in 1 .. k : a[i] = a[j] => i = j
      BY <1>2, <1>5, <1>8 DEF IsInjective
    <3>3. \A x \in ToSet(a) : \E i \in 1 .. k : a[i] = x
      BY <1>2 DEF ToSet
    <3> QED
      BY <1>2, <3>1, <3>2, <3>3 DEF Bijection, Injection, Surjection, IsInjective
  <2>4. IsFiniteSet(1 .. k) /\ Cardinality(1 .. k) = k
    BY <1>1, FS_Interval
  <2>5. IsFiniteSet(ToSet(a)) /\ Cardinality(ToSet(a)) = k
    <3>1. ExistsBijection(1 .. k, ToSet(a))
      BY <2>3 DEF ExistsBijection
    <3> QED
      BY <2>4, <3>1, FS_Bijection
  <2>6. ToSet(a) \cap ToSet(b) = {}
    <3>1. ASSUME NEW y \in ToSet(a), y \in ToSet(b) PROVE FALSE
      <4>1. (\E i \in DOMAIN a : a[i] = y) /\ (\E i \in DOMAIN b : b[i] = y)
        BY <3>1, InToSet
      <4> QED
        BY <2>1, <4>1, Zenon
    <3> QED
      BY <3>1
  <2>7. IsInjective(b)
    BY <2>2 DEF IsInjective
  <2> QED
    BY <2>5, <2>6, <2>7
<1> QED
  BY <1>2, <1>3, <1>7, <1>8

\* A list of n different numbers below n has them all.
LEMMA AllListed ==
  ASSUME NEW s \in Seq(Nat), NEW n \in Nat, Len(s) = n, IsInjective(s), ToSet(s) \subseteq 0 .. (n - 1)
  PROVE  ToSet(s) = 0 .. (n - 1)
<1>1. DOMAIN s = 1 .. n /\ s \in [1 .. n -> 0 .. (n - 1)]
  BY DEF ToSet
<1>2. s \in Injection(1 .. n, 0 .. (n - 1))
  BY <1>1 DEF Injection, IsInjective
<1>3. /\ IsFiniteSet(1 .. n) /\ Cardinality(1 .. n) = n
      /\ IsFiniteSet(0 .. (n - 1)) /\ Cardinality(0 .. (n - 1)) = n
  BY FS_Interval
<1>4. s \in Surjection(1 .. n, 0 .. (n - 1))
  BY <1>2, <1>3, FS_Injection
<1> QED
  BY <1>1, <1>4 DEF Surjection, ToSet

\* The slabs of a cache, and the objects of a slab that callers hold.
On(c) == ToSet(slabs_partial[c]) \cup ToSet(slabs_full[c]) \cup ToSet(slabs_empty[c])
Taken(p) == {o.obj : o \in {o \in live : o.page = p}}

\* What a slab says of itself: its free list has the objects nobody holds, once each.
Sound(c, objs, n, taken) ==
    /\ IsInjective(objs)
    /\ n = Len(objs)
    /\ ToSet(objs) \cap taken = {}
    /\ ToSet(objs) \cup taken = 0 .. (calc_num_objs(c) - 1)

\* The inductive invariant of the slab allocator, part by part.
SlabTypes ==
    /\ slabs_partial \in [Caches -> Seq(Managed)]
    /\ slabs_full \in [Caches -> Seq(Managed)]
    /\ slabs_empty \in [Caches -> Seq(Managed)]
    /\ free_list \in [Managed -> Seq(Nat)]
    /\ num_free \in [Managed -> Nat]
    /\ num_objs_free \in [Caches -> Int]
    /\ live \subseteq Objects

ListsApart ==
    /\ \A c \in Caches :
          /\ IsInjective(slabs_partial[c]) /\ IsInjective(slabs_full[c]) /\ IsInjective(slabs_empty[c])
          /\ ToSet(slabs_partial[c]) \cap ToSet(slabs_full[c]) = {}
          /\ ToSet(slabs_partial[c]) \cap ToSet(slabs_empty[c]) = {}
          /\ ToSet(slabs_full[c]) \cap ToSet(slabs_empty[c]) = {}
    /\ \A c, d \in Caches : c # d => On(c) \cap On(d) = {}

ListsSorted ==
    \A c \in Caches :
        /\ \A p \in ToSet(slabs_full[c]) : free_list[p] = <<>>
        /\ \A p \in ToSet(slabs_partial[c]) : free_list[p] # <<>>
        /\ \A p \in ToSet(slabs_empty[c]) : Len(free_list[p]) = calc_num_objs(c)

SlabsSound == \A c \in Caches : \A p \in On(c) : Sound(c, free_list[p], num_free[p], Taken(p))

LiveOnList == \A o \in live : o.page \in On(o.cache)

FreeCounted == \A c \in Caches : num_objs_free[c] = SumOver(num_free, On(c))

PagesOwned ==
    \A c \in Caches : /\ On(c) \subseteq bitmap \cap FreeAtBoot
                      /\ On(c) \cap (PagesOf(held) \cup PagesOf(reserved)) = {}

SlabInv == /\ SlabTypes /\ ListsApart /\ ListsSorted /\ SlabsSound
           /\ LiveOnList /\ FreeCounted /\ PagesOwned

\* A step that touches slab p of cache c only: the slab is on one list of the cache, sound
\* and where it belongs.
OneSlab(c, p) ==
    /\ slabs_partial' \in [Caches -> Seq(Managed)]
    /\ slabs_full' \in [Caches -> Seq(Managed)]
    /\ slabs_empty' \in [Caches -> Seq(Managed)]
    /\ free_list' \in [Managed -> Seq(Nat)]
    /\ num_free' \in [Managed -> Nat]
    /\ \A d \in Caches \ {c} : /\ slabs_partial'[d] = slabs_partial[d]
                               /\ slabs_full'[d] = slabs_full[d]
                               /\ slabs_empty'[d] = slabs_empty[d]
    /\ IsInjective(slabs_partial'[c]) /\ IsInjective(slabs_full'[c]) /\ IsInjective(slabs_empty'[c])
    /\ ToSet(slabs_partial'[c]) \ {p} = ToSet(slabs_partial[c]) \ {p}
    /\ ToSet(slabs_full'[c]) \ {p} = ToSet(slabs_full[c]) \ {p}
    /\ ToSet(slabs_empty'[c]) \ {p} = ToSet(slabs_empty[c]) \ {p}
    /\ \/ /\ p \in ToSet(slabs_partial'[c]) /\ p \notin ToSet(slabs_full'[c]) /\ p \notin ToSet(slabs_empty'[c])
          /\ free_list'[p] # <<>>
       \/ /\ p \notin ToSet(slabs_partial'[c]) /\ p \in ToSet(slabs_full'[c]) /\ p \notin ToSet(slabs_empty'[c])
          /\ free_list'[p] = <<>>
       \/ /\ p \notin ToSet(slabs_partial'[c]) /\ p \notin ToSet(slabs_full'[c]) /\ p \in ToSet(slabs_empty'[c])
          /\ Len(free_list'[p]) = calc_num_objs(c)
    /\ \A d \in Caches \ {c} : p \notin On(d)
    /\ \A q \in Managed \ {p} : free_list'[q] = free_list[q] /\ num_free'[q] = num_free[q] /\ Taken(q)' = Taken(q)
    /\ Sound(c, free_list'[p], num_free'[p], Taken(p)')

\* A slab has an object at least, whatever the size.
LEMMA ObjectsPerSlab ==
  ASSUME NEW c \in Caches
  PROVE  calc_num_objs(c) \in Nat \ {0}
<1>1. c \in 1 .. 4096 /\ c + 8 \in Nat \ {0} /\ SLAB_PAGE_SIZE - sizeof_slab_t = 4048
  BY SlabAssumption DEF SLAB_PAGE_SIZE, sizeof_slab_t
<1>2. PICK d : d = c + 8 /\ d \in Nat \ {0}
  BY <1>1
<1>3. 4048 \div d \in Int
  BY <1>2
<1>4. PICK num : num = 4048 \div d /\ num \in Int
  BY <1>3
<1>5. calc_num_objs(c) = IF num > 0 THEN num ELSE 1
  BY <1>1, <1>2, <1>4 DEF calc_num_objs
<1> QED
  BY <1>4, <1>5

\* Slabs are pages.
LEMMA OnManaged ==
  ASSUME SlabTypes, NEW c \in Caches
  PROVE  On(c) \subseteq Managed
BY InToSet DEF SlabTypes, On

\* Taking the first free object of a slab leaves the slab sound.
LEMMA SoundTake ==
  ASSUME NEW c \in Caches, NEW objs \in Seq(Nat), objs # <<>>, NEW n, NEW taken, Sound(c, objs, n, taken)
  PROVE  /\ Sound(c, Tail(objs), n - 1, taken \cup {Head(objs)})
         /\ Head(objs) \in 0 .. (calc_num_objs(c) - 1)
         /\ n \in Nat \ {0} /\ (n = 1 <=> Tail(objs) = <<>>) /\ Tail(objs) \in Seq(Nat)
<1>1. PICK t, x : t = Tail(objs) /\ x = Head(objs)
  OBVIOUS
<1>2. /\ t \in Seq(Nat) /\ Len(t) = Len(objs) - 1 /\ Len(objs) \in Nat \ {0}
      /\ ToSet(objs) = ToSet(t) \cup {x}
      /\ IsInjective(t) /\ x \notin ToSet(t)
  BY <1>1, SetTail DEF Sound
<1>3. n = Len(objs)
  BY DEF Sound
<1>4. ToSet(t) \cap (taken \cup {x}) = {} /\ ToSet(t) \cup (taken \cup {x}) = 0 .. (calc_num_objs(c) - 1)
  BY <1>2 DEF Sound
<1>5. Len(t) = 0 <=> t = <<>>
  BY <1>2, EmptySeq
<1>6. n - 1 = Len(t) /\ (n = 1 <=> Len(t) = 0)
  BY <1>2, <1>3
<1>7. Sound(c, t, n - 1, taken \cup {x})
  BY <1>2, <1>4, <1>6 DEF Sound
<1> QED
  BY <1>1, <1>2, <1>3, <1>4, <1>5, <1>6, <1>7

\* Putting an object back leaves the slab sound.
LEMMA SoundPut ==
  ASSUME NEW c \in Caches, NEW objs \in Seq(Nat), NEW n \in Nat, NEW taken, Sound(c, objs, n, taken), NEW x \in taken
  PROVE  /\ Sound(c, <<x>> \o objs, n + 1, taken \ {x})
         /\ <<x>> \o objs # <<>> /\ <<x>> \o objs \in Seq(Nat) /\ Len(<<x>> \o objs) = n + 1
<1>1. x \in Nat /\ x \notin ToSet(objs) /\ n = Len(objs)
  <2>1. x \in 0 .. (calc_num_objs(c) - 1) /\ x \notin ToSet(objs) /\ n = Len(objs)
    BY DEF Sound
  <2> QED
    BY <2>1
<1>2. PICK t : t = <<x>> \o objs
  OBVIOUS
<1>3. /\ t \in Seq(Nat) /\ t # <<>> /\ Len(t) = Len(objs) + 1
      /\ ToSet(t) = ToSet(objs) \cup {x} /\ IsInjective(t)
  <2>1. IsInjective(objs)
    BY DEF Sound
  <2>2. /\ t \in Seq(Nat) /\ t # <<>> /\ Len(t) = Len(objs) + 1
        /\ ToSet(t) = ToSet(objs) \cup {x}
        /\ IsInjective(objs) /\ x \notin ToSet(objs) => IsInjective(t)
    <3>1. x \in Nat
      BY <1>1
    <3>2. IsCons(t, x, objs)
      BY <1>2 DEF IsCons
    <3> QED
      BY <3>1, <3>2, SetCons
  <2> QED
    BY <1>1, <2>1, <2>2
<1>4. ToSet(t) \cap (taken \ {x}) = {} /\ ToSet(t) \cup (taken \ {x}) = 0 .. (calc_num_objs(c) - 1)
  BY <1>3 DEF Sound
<1>5. Sound(c, t, n + 1, taken \ {x})
  BY <1>1, <1>3, <1>4 DEF Sound
<1> QED
  BY <1>1, <1>2, <1>3, <1>5

\* The slabs of the caches after a step that touches slab p of cache c only.
LEMMA OneSlabOn ==
  ASSUME NEW c \in Caches, NEW p \in Managed, OneSlab(c, p)
  PROVE  On(c)' = On(c) \cup {p} /\ \A d \in Caches \ {c} : On(d)' = On(d)
<1>1. On(c)' = On(c) \cup {p}
  BY DEF OneSlab, On
<1>2. ASSUME NEW d \in Caches \ {c} PROVE On(d)' = On(d)
  BY DEF OneSlab, On
<1> QED
  BY <1>1, <1>2

\* Such a step keeps the lists apart and sorted, and the slabs sound.
LEMMA OneSlabApart ==
  ASSUME ListsApart, NEW c \in Caches, NEW p \in Managed, OneSlab(c, p)
  PROVE  ListsApart'
<1>1. On(c)' = On(c) \cup {p} /\ \A d \in Caches \ {c} : On(d)' = On(d)
  BY OneSlabOn
<1>2. ASSUME NEW e \in Caches, NEW d \in Caches, e # d PROVE On(e)' \cap On(d)' = {}
  <2>1. \A d1 \in Caches \ {c} : p \notin On(d1)
    BY DEF OneSlab
  <2>2. On(e) \cap On(d) = {} /\ On(d) \cap On(e) = {}
    BY <1>2 DEF ListsApart
  <2>3. CASE e = c
    BY <1>1, <1>2, <2>1, <2>2, <2>3
  <2>4. CASE d = c
    BY <1>1, <1>2, <2>1, <2>2, <2>4
  <2>5. CASE e # c /\ d # c
    BY <1>1, <2>2, <2>5
  <2> QED
    BY <2>3, <2>4, <2>5
<1>3. ASSUME NEW d \in Caches
      PROVE  /\ IsInjective(slabs_partial'[d]) /\ IsInjective(slabs_full'[d]) /\ IsInjective(slabs_empty'[d])
             /\ ToSet(slabs_partial'[d]) \cap ToSet(slabs_full'[d]) = {}
             /\ ToSet(slabs_partial'[d]) \cap ToSet(slabs_empty'[d]) = {}
             /\ ToSet(slabs_full'[d]) \cap ToSet(slabs_empty'[d]) = {}
  <2>1. CASE d = c
    <3>1. PICK P, F, E, P2, F2, E2 :
             /\ P = ToSet(slabs_partial[c]) /\ F = ToSet(slabs_full[c]) /\ E = ToSet(slabs_empty[c])
             /\ P2 = ToSet(slabs_partial'[c]) /\ F2 = ToSet(slabs_full'[c]) /\ E2 = ToSet(slabs_empty'[c])
      OBVIOUS
    <3>2. P \cap F = {} /\ P \cap E = {} /\ F \cap E = {}
      BY <3>1 DEF ListsApart
    <3>3. /\ P2 \ {p} = P \ {p} /\ F2 \ {p} = F \ {p} /\ E2 \ {p} = E \ {p}
          /\ \/ p \notin F2 /\ p \notin E2
             \/ p \notin P2 /\ p \notin E2
             \/ p \notin P2 /\ p \notin F2
      BY <3>1 DEF OneSlab
    <3>4. P2 \cap F2 = {} /\ P2 \cap E2 = {} /\ F2 \cap E2 = {}
      BY <3>2, <3>3
    <3> QED
      BY <2>1, <3>1, <3>4 DEF OneSlab
  <2>2. CASE d # c
    BY <2>2 DEF OneSlab, ListsApart
  <2> QED
    BY <2>1, <2>2
<1> QED
  BY <1>2, <1>3 DEF ListsApart

\* The slab is where it belongs, and the other slabs have not moved.
LEMMA OneSlabSorted ==
  ASSUME SlabTypes, ListsSorted, NEW c \in Caches, NEW p \in Managed, OneSlab(c, p)
  PROVE  ListsSorted'
<1>1. ASSUME NEW d \in Caches
      PROVE  /\ \A q \in ToSet(slabs_full'[d]) : free_list'[q] = <<>>
             /\ \A q \in ToSet(slabs_partial'[d]) : free_list'[q] # <<>>
             /\ \A q \in ToSet(slabs_empty'[d]) : Len(free_list'[q]) = calc_num_objs(d)
  <2>1. PICK P, F, E, P2, F2, E2 :
           /\ P = ToSet(slabs_partial[d]) /\ F = ToSet(slabs_full[d]) /\ E = ToSet(slabs_empty[d])
           /\ P2 = ToSet(slabs_partial'[d]) /\ F2 = ToSet(slabs_full'[d]) /\ E2 = ToSet(slabs_empty'[d])
    OBVIOUS
  <2>2. P \subseteq Managed /\ F \subseteq Managed /\ E \subseteq Managed
    BY <2>1, OnManaged DEF On
  <2>3. /\ \A q \in F : free_list[q] = <<>>
        /\ \A q \in P : free_list[q] # <<>>
        /\ \A q \in E : Len(free_list[q]) = calc_num_objs(d)
    BY <2>1 DEF ListsSorted
  <2>4. \A q \in Managed \ {p} : free_list'[q] = free_list[q]
    BY DEF OneSlab
  <2>5. CASE d = c
    <3>1. P2 \ {p} = P \ {p} /\ F2 \ {p} = F \ {p} /\ E2 \ {p} = E \ {p}
      BY <2>1, <2>5 DEF OneSlab
    <3>2. /\ p \in F2 => free_list'[p] = <<>>
          /\ p \in P2 => free_list'[p] # <<>>
          /\ p \in E2 => Len(free_list'[p]) = calc_num_objs(d)
      BY <2>1, <2>5 DEF OneSlab
    <3>3. \A q \in F2 : free_list'[q] = <<>>
      BY <2>2, <2>3, <2>4, <3>1, <3>2
    <3>4. \A q \in P2 : free_list'[q] # <<>>
      BY <2>2, <2>3, <2>4, <3>1, <3>2
    <3>5. \A q \in E2 : Len(free_list'[q]) = calc_num_objs(d)
      BY <2>2, <2>3, <2>4, <3>1, <3>2
    <3> QED
      BY <2>1, <3>3, <3>4, <3>5
  <2>6. CASE d # c
    <3>1. P2 = P /\ F2 = F /\ E2 = E
      BY <2>1, <2>6 DEF OneSlab
    <3>2. p \notin P /\ p \notin F /\ p \notin E
      BY <2>1, <2>6 DEF OneSlab, On
    <3>3. \A q \in P \cup F \cup E : free_list'[q] = free_list[q]
      BY <2>2, <2>4, <3>2
    <3> QED
      BY <2>1, <2>3, <3>1, <3>3
  <2> QED
    BY <2>5, <2>6
<1> QED
  BY <1>1 DEF ListsSorted

\* The slab is sound, and the other slabs have not changed.
LEMMA OneSlabSound ==
  ASSUME SlabTypes, SlabsSound, NEW c \in Caches, NEW p \in Managed, OneSlab(c, p)
  PROVE  SlabsSound'
<1>1. On(c)' = On(c) \cup {p} /\ \A d \in Caches \ {c} : On(d)' = On(d)
  BY OneSlabOn
<1>2. ASSUME NEW d \in Caches, NEW q \in On(d)'
      PROVE  Sound(d, free_list'[q], num_free'[q], Taken(q)')
  <2>1. CASE q = p
    <3>1. d = c
      BY <1>1, <1>2, <2>1 DEF OneSlab
    <3> QED
      BY <2>1, <3>1 DEF OneSlab
  <2>2. CASE q # p
    <3>1. q \in On(d) /\ q \in Managed \ {p}
      BY <1>1, <1>2, <2>2, OnManaged
    <3>2. free_list'[q] = free_list[q] /\ num_free'[q] = num_free[q] /\ Taken(q)' = Taken(q)
      BY <3>1 DEF OneSlab
    <3>3. Sound(d, free_list[q], num_free[q], Taken(q))
      BY <3>1 DEF SlabsSound
    <3> QED
      BY <3>2, <3>3
  <2> QED
    BY <2>1, <2>2
<1> QED
  BY <1>2 DEF SlabsSound

\* The count of the cache changes by as much as that of the slab.
LEMMA OneSlabCounted ==
  ASSUME SlabTypes, FreeCounted, NEW c \in Caches, NEW p \in Managed, OneSlab(c, p), NEW old,
         old = (IF p \in On(c) THEN num_free[p] ELSE 0),
         NEW v, v = num_objs_free[c] - old + num_free'[p],
         num_objs_free' = [num_objs_free EXCEPT ![c] = v]
  PROVE  FreeCounted' /\ num_objs_free' \in [Caches -> Int]
<1>1. On(c)' = On(c) \cup {p} /\ \A d \in Caches \ {c} : On(d)' = On(d)
  BY OneSlabOn
<1>2. num_free \in [Managed -> Nat] /\ num_free' \in [Managed -> Nat] /\ \A q \in Managed \ {p} : num_free'[q] = num_free[q]
  BY DEF OneSlab, SlabTypes
<1>3. \A d \in Caches : On(d) \subseteq Managed /\ num_objs_free[d] = SumOver(num_free, On(d)) /\ IsFiniteSet(On(d))
  BY OnManaged, PagesFinite DEF FreeCounted
<1>4. ASSUME NEW d \in Caches \ {c} PROVE num_objs_free'[d] = SumOver(num_free', On(d)')
  <2>1. PICK S, g : S = On(d) /\ g = num_free'
    OBVIOUS
  <2>2. IsFiniteSet(S) /\ \A x \in S : num_free[x] \in Int /\ g[x] = num_free[x]
    <3>1. p \notin S
      BY <2>1 DEF OneSlab
    <3> QED
      BY <1>2, <1>3, <2>1, <3>1
  <2>3. SumOver(g, S) = SumOver(num_free, S)
    BY <2>2, SumSame
  <2>4. num_objs_free'[d] = num_objs_free[d]
    BY DEF SlabTypes
  <2> QED
    BY <1>1, <1>3, <2>1, <2>3, <2>4
<1>5. num_objs_free'[c] = SumOver(num_free', On(c)')
  <2>1. PICK S, g, R : S = On(c) /\ g = num_free' /\ R = S \cup {p}
    OBVIOUS
  <2>2. /\ IsFiniteSet(S) /\ IsFiniteSet(R) /\ p \in R
        /\ \A x \in R : num_free[x] \in Int /\ g[x] \in Int
        /\ \A x \in R \ {p} : g[x] = num_free[x]
    <3>1. IsFiniteSet(S) /\ S \subseteq Managed
      BY <1>3, <2>1
    <3>2. IsFiniteSet(R)
      BY <2>1, <3>1, FS_AddElement
    <3> QED
      BY <1>2, <2>1, <3>1, <3>2
  <2>3. SumOver(g, R) = SumOver(num_free, R) - num_free[p] + g[p]
    BY <2>2, SumPoint
  <2>4. SumOver(num_free, R) = num_free[p] + SumOver(num_free, R \ {p})
    BY <2>2, SumWithout
  <2>5. SumOver(num_free, S) \in Int
    BY <2>1, <2>2, SumType
  <2>6. num_objs_free'[c] = SumOver(num_free, S) - old + g[p]
    BY <1>3, <2>1 DEF SlabTypes
  <2>7. num_free[p] \in Int /\ g[p] \in Int
    BY <2>2
  <2>8. CASE p \in S
    <3>1. R = S /\ old = num_free[p]
      BY <2>1, <2>8
    <3> QED
      BY <1>1, <2>1, <2>3, <2>6, <3>1
  <2>9. CASE p \notin S
    <3>1. R \ {p} = S /\ old = 0
      BY <2>1, <2>9
    <3>2. SumOver(g, R) = SumOver(num_free, S) + g[p]
      <4>1. PICK a, b, e, f : /\ a = SumOver(g, R) /\ b = SumOver(num_free, R) /\ e = num_free[p] /\ f = g[p]
        OBVIOUS
      <4>2. PICK s : s = SumOver(num_free, S) /\ s \in Int
        BY <2>5
      <4>3. a = b - e + f /\ b = e + s /\ e \in Int /\ f \in Int
        BY <2>3, <2>4, <2>7, <3>1, <4>1, <4>2
      <4>4. a = s + f
        BY <4>2, <4>3
      <4> QED
        BY <4>1, <4>2, <4>4
    <3>3. num_objs_free'[c] = SumOver(num_free, S) + g[p]
      BY <2>5, <2>6, <2>7, <3>1
    <3> QED
      BY <1>1, <2>1, <3>2, <3>3
  <2> QED
    BY <2>8, <2>9
<1>6. num_objs_free' \in [Caches -> Int]
  <2>1. old \in Int /\ num_free'[p] \in Int
    BY <1>2
  <2> QED
    BY <2>1 DEF SlabTypes
<1> QED
  BY <1>4, <1>5, <1>6 DEF FreeCounted

\* The invariant after such a step.
LEMMA OneSlabInv ==
  ASSUME SlabInv, NEW c \in Caches, NEW p \in Managed, OneSlab(c, p), NEW old,
         old = (IF p \in On(c) THEN num_free[p] ELSE 0),
         NEW v, v = num_objs_free[c] - old + num_free'[p],
         num_objs_free' = [num_objs_free EXCEPT ![c] = v],
         live' \subseteq Objects,
         \A o \in live' : o \in live \/ (o.cache = c /\ o.page = p),
         bitmap \subseteq bitmap', UNCHANGED <<held, reserved>>,
         p \in bitmap' \cap FreeAtBoot, p \notin PagesOf(held) \cup PagesOf(reserved)
  PROVE  SlabInv'
<1>1. SlabTypes /\ ListsApart /\ ListsSorted /\ SlabsSound /\ LiveOnList /\ FreeCounted /\ PagesOwned
  BY DEF SlabInv
<1>2. ListsApart' /\ ListsSorted' /\ SlabsSound'
  BY <1>1, OneSlabApart, OneSlabSorted, OneSlabSound
<1>3. FreeCounted' /\ num_objs_free' \in [Caches -> Int]
  BY <1>1, OneSlabCounted
<1>4. SlabTypes'
  BY <1>3 DEF OneSlab, SlabTypes
<1>5. On(c)' = On(c) \cup {p} /\ \A d \in Caches \ {c} : On(d)' = On(d)
  BY OneSlabOn
<1>6. LiveOnList'
  <2>1. ASSUME NEW o \in live' PROVE o.page \in On(o.cache)'
    <3>1. CASE o.cache = c /\ o.page = p
      BY <1>5, <3>1
    <3>2. CASE o \in live
      <4>1. o.page \in On(o.cache) /\ o.cache \in Caches
        BY <1>1, <3>2 DEF LiveOnList, SlabTypes, Objects
      <4> QED
        BY <1>5, <4>1
    <3> QED
      BY <3>1, <3>2
  <2> QED
    BY <2>1 DEF LiveOnList
<1>7. PagesOwned'
  <2>1. ASSUME NEW d \in Caches PROVE /\ On(d)' \subseteq bitmap' \cap FreeAtBoot
                                      /\ On(d)' \cap (PagesOf(held) \cup PagesOf(reserved)) = {}
    BY <1>1, <1>5 DEF PagesOwned
  <2>2. PagesOf(held') = PagesOf(held) /\ PagesOf(reserved') = PagesOf(reserved)
    OBVIOUS
  <2> QED
    BY <2>1, <2>2 DEF PagesOwned
<1> QED
  BY <1>2, <1>3, <1>4, <1>6, <1>7 DEF SlabInv

\* One more object in the hands of a caller.
LEMMA TakenAdd ==
  ASSUME NEW o, live' = live \cup {o}
  PROVE  Taken(o.page)' = Taken(o.page) \cup {o.obj} /\ \A q : q # o.page => Taken(q)' = Taken(q)
<1>1. Taken(o.page)' = Taken(o.page) \cup {o.obj}
  BY DEF Taken
<1>2. ASSUME NEW q, q # o.page PROVE Taken(q)' = Taken(q)
  BY <1>2 DEF Taken
<1> QED
  BY <1>1, <1>2

\* The state in which the first branch of slab_alloc runs, whichever way it was reached: the
\* head of the partial list has a free object.
Ready(c, partial, objs, n, p) ==
    /\ partial \in Seq(Managed) /\ partial # <<>> /\ IsInjective(partial) /\ p = Head(partial)
    /\ objs \in [Managed -> Seq(Nat)] /\ n \in [Managed -> Nat]
    /\ objs[p] # <<>> /\ Sound(c, objs[p], n[p], Taken(p))
    /\ \A q \in Managed \ {p} : objs[q] = free_list[q] /\ n[q] = num_free[q]
    /\ ToSet(partial) \ {p} = ToSet(slabs_partial[c]) \ {p}
    /\ p \notin ToSet(slabs_full[c])
    /\ \A d \in Caches \ {c} : p \notin On(d)
    /\ slabs_empty' \in [Caches -> Seq(Managed)] /\ IsInjective(slabs_empty'[c])
    /\ \A d \in Caches \ {c} : slabs_empty'[d] = slabs_empty[d]
    /\ ToSet(slabs_empty'[c]) \ {p} = ToSet(slabs_empty[c]) \ {p}
    /\ p \notin ToSet(slabs_empty'[c])

\* The first branch of slab_alloc touches one slab.
LEMMA TakeOneSlab ==
  ASSUME SlabInv, NEW c \in Caches, NEW partial, NEW objs, NEW n, NEW p,
         Ready(c, partial, objs, n, p), TakeObject(c, partial, objs, n)
  PROVE  /\ p \in Managed /\ OneSlab(c, p)
         /\ n[p] \in Nat \ {0} /\ num_free'[p] = n[p] - 1
         /\ live' \subseteq Objects /\ \A o \in live' : o \in live \/ (o.cache = c /\ o.page = p)
<1>1. /\ partial \in Seq(Managed) /\ partial # <<>> /\ IsInjective(partial) /\ p = Head(partial)
      /\ objs \in [Managed -> Seq(Nat)] /\ n \in [Managed -> Nat]
      /\ objs[p] # <<>> /\ Sound(c, objs[p], n[p], Taken(p))
  BY DEF Ready
<1>2. /\ Tail(partial) \in Seq(Managed) /\ p \in Managed /\ p \in ToSet(partial)
      /\ ToSet(partial) = ToSet(Tail(partial)) \cup {p}
      /\ IsInjective(Tail(partial)) /\ p \notin ToSet(Tail(partial))
  BY <1>1, SetTail
<1>3. PICK fl, x, m, tk : fl = objs[p] /\ x = Head(fl) /\ m = n[p] /\ tk = Taken(p)
  OBVIOUS
<1>4. fl \in Seq(Nat) /\ fl # <<>> /\ Sound(c, fl, m, tk)
  BY <1>1, <1>2, <1>3
<1>5. /\ Sound(c, Tail(fl), m - 1, tk \cup {x})
      /\ x \in 0 .. (calc_num_objs(c) - 1)
      /\ m \in Nat \ {0} /\ (m = 1 <=> Tail(fl) = <<>>) /\ Tail(fl) \in Seq(Nat)
  BY <1>3, <1>4, SoundTake
<1>6. /\ free_list' = [objs EXCEPT ![p] = Tail(fl)]
      /\ num_free' = [n EXCEPT ![p] = m - 1]
      /\ live' = live \cup {[cache |-> c, page |-> p, obj |-> x]}
      /\ m = 1 => /\ slabs_partial' = [slabs_partial EXCEPT ![c] = Tail(partial)]
                  /\ slabs_full' = [slabs_full EXCEPT ![c] = <<p>> \o slabs_full[c]]
      /\ m # 1 => /\ slabs_partial' = [slabs_partial EXCEPT ![c] = partial]
                  /\ slabs_full' = slabs_full
  BY <1>1, <1>2, <1>3 DEF TakeObject
<1>7. /\ free_list' \in [Managed -> Seq(Nat)] /\ free_list'[p] = Tail(fl)
      /\ num_free' \in [Managed -> Nat] /\ num_free'[p] = m - 1
      /\ \A q \in Managed \ {p} : free_list'[q] = objs[q] /\ num_free'[q] = n[q]
  <2>1. m - 1 \in Nat
    BY <1>5
  <2> QED
    BY <1>1, <1>2, <1>5, <1>6, <2>1
<1>8. Taken(p)' = tk \cup {x} /\ \A q : q # p => Taken(q)' = Taken(q)
  <2>1. PICK o : o = [cache |-> c, page |-> p, obj |-> x]
    OBVIOUS
  <2>2. o.page = p /\ o.obj = x /\ live' = live \cup {o}
    BY <1>6, <2>1
  <2>3. Taken(o.page)' = Taken(o.page) \cup {o.obj} /\ \A q : q # o.page => Taken(q)' = Taken(q)
    BY <2>2, TakenAdd
  <2> QED
    BY <1>3, <2>2, <2>3
<1>9. PICK P, F : /\ slabs_partial' = [slabs_partial EXCEPT ![c] = P]
                  /\ slabs_full' = [slabs_full EXCEPT ![c] = F]
                  /\ P \in Seq(Managed) /\ F \in Seq(Managed)
                  /\ IsInjective(P) /\ IsInjective(F)
                  /\ ToSet(P) \ {p} = ToSet(partial) \ {p}
                  /\ ToSet(F) \ {p} = ToSet(slabs_full[c]) \ {p}
                  /\ \/ p \in ToSet(P) /\ p \notin ToSet(F) /\ m # 1
                     \/ p \notin ToSet(P) /\ p \in ToSet(F) /\ m = 1
  <2>1. /\ slabs_full \in [Caches -> Seq(Managed)] /\ slabs_full[c] \in Seq(Managed)
        /\ IsInjective(slabs_full[c]) /\ p \notin ToSet(slabs_full[c])
    BY DEF SlabInv, SlabTypes, ListsApart, Ready
  <2>2. CASE m = 1
    <3>1. PICK F0, F : F0 = slabs_full[c] /\ F = <<p>> \o F0
      OBVIOUS
    <3>2. IsCons(F, p, F0) /\ F0 \in Seq(Managed)
      BY <2>1, <3>1 DEF IsCons
    <3>3. F \in Seq(Managed) /\ ToSet(F) = ToSet(F0) \cup {p} /\ IsInjective(F)
      <4>1. /\ F \in Seq(Managed) /\ ToSet(F) = ToSet(F0) \cup {p}
            /\ IsInjective(F0) /\ p \notin ToSet(F0) => IsInjective(F)
        BY <1>2, <3>2, SetCons
      <4> QED
        BY <2>1, <3>1, <4>1
    <3>4. slabs_full' = [slabs_full EXCEPT ![c] = F]
      BY <1>6, <2>2, <3>1
    <3>5. ToSet(F) \ {p} = ToSet(slabs_full[c]) \ {p} /\ p \in ToSet(F)
      BY <3>1, <3>3
    <3>6. PICK P : P = Tail(partial)
      OBVIOUS
    <3>7. /\ slabs_partial' = [slabs_partial EXCEPT ![c] = P] /\ P \in Seq(Managed) /\ IsInjective(P)
          /\ ToSet(P) \ {p} = ToSet(partial) \ {p} /\ p \notin ToSet(P)
      BY <1>2, <1>6, <2>2, <3>6
    <3> QED
      BY <2>2, <3>3, <3>4, <3>5, <3>7
  <2>3. CASE m # 1
    <3>1. slabs_full' = [slabs_full EXCEPT ![c] = slabs_full[c]]
      BY <1>6, <2>1, <2>3
    <3> QED
      BY <1>1, <1>2, <1>6, <2>1, <2>3, <3>1
  <2> QED
    BY <2>2, <2>3
<1>10. /\ slabs_partial' \in [Caches -> Seq(Managed)] /\ slabs_partial'[c] = P
       /\ slabs_full' \in [Caches -> Seq(Managed)] /\ slabs_full'[c] = F
       /\ \A d \in Caches \ {c} : slabs_partial'[d] = slabs_partial[d] /\ slabs_full'[d] = slabs_full[d]
  BY <1>9 DEF SlabInv, SlabTypes
<1>11. OneSlab(c, p)
  <2>1. /\ \A d \in Caches \ {c} : slabs_empty'[d] = slabs_empty[d] /\ p \notin On(d)
        /\ slabs_empty' \in [Caches -> Seq(Managed)] /\ IsInjective(slabs_empty'[c])
        /\ ToSet(slabs_empty'[c]) \ {p} = ToSet(slabs_empty[c]) \ {p}
        /\ p \notin ToSet(slabs_empty'[c])
        /\ ToSet(partial) \ {p} = ToSet(slabs_partial[c]) \ {p}
        /\ \A q \in Managed \ {p} : objs[q] = free_list[q] /\ n[q] = num_free[q]
    BY DEF Ready
  <2>2. \A q \in Managed \ {p} : /\ free_list'[q] = free_list[q] /\ num_free'[q] = num_free[q]
                                 /\ Taken(q)' = Taken(q)
    BY <1>7, <1>8, <2>1
  <2>3. Sound(c, free_list'[p], num_free'[p], Taken(p)')
    BY <1>5, <1>7, <1>8
  <2>4. \/ /\ p \in ToSet(slabs_partial'[c]) /\ p \notin ToSet(slabs_full'[c]) /\ p \notin ToSet(slabs_empty'[c])
           /\ free_list'[p] # <<>>
        \/ /\ p \notin ToSet(slabs_partial'[c]) /\ p \in ToSet(slabs_full'[c]) /\ p \notin ToSet(slabs_empty'[c])
           /\ free_list'[p] = <<>>
    BY <1>5, <1>7, <1>9, <1>10, <2>1
  <2>5. /\ ToSet(slabs_partial'[c]) \ {p} = ToSet(slabs_partial[c]) \ {p}
        /\ ToSet(slabs_full'[c]) \ {p} = ToSet(slabs_full[c]) \ {p}
        /\ IsInjective(slabs_partial'[c]) /\ IsInjective(slabs_full'[c])
    BY <1>9, <1>10, <2>1
  <2> QED
    BY <1>7, <1>10, <2>1, <2>2, <2>3, <2>4, <2>5 DEF OneSlab
<1>12. live' \subseteq Objects
  <2>1. [cache |-> c, page |-> p, obj |-> x] \in Objects
    BY <1>2, <1>5 DEF Objects
  <2> QED
    BY <1>6, <2>1 DEF SlabInv, SlabTypes
<1>13. \A o \in live' : o \in live \/ (o.cache = c /\ o.page = p)
  BY <1>6
<1> QED
  BY <1>2, <1>3, <1>5, <1>7, <1>11, <1>12, <1>13

\* A slab on a list of a cache is on no list of another one, and nobody else has its page.
LEMMA SlabOn ==
  ASSUME SlabInv, NEW c \in Caches, NEW p \in On(c)
  PROVE  /\ p \in Managed /\ \A d \in Caches \ {c} : p \notin On(d)
         /\ Sound(c, free_list[p], num_free[p], Taken(p))
         /\ p \in bitmap \cap FreeAtBoot /\ p \notin PagesOf(held) \cup PagesOf(reserved)
         /\ free_list[p] \in Seq(Nat) /\ num_free[p] \in Nat
<1>1. p \in Managed
  BY OnManaged DEF SlabInv
<1>2. ASSUME NEW d \in Caches \ {c} PROVE p \notin On(d)
  BY DEF SlabInv, ListsApart
<1>3. Sound(c, free_list[p], num_free[p], Taken(p))
  BY DEF SlabInv, SlabsSound
<1>4. p \in bitmap \cap FreeAtBoot /\ p \notin PagesOf(held) \cup PagesOf(reserved)
  BY DEF SlabInv, PagesOwned
<1>5. free_list[p] \in Seq(Nat) /\ num_free[p] \in Nat
  BY <1>1 DEF SlabInv, SlabTypes
<1> QED
  BY <1>1, <1>2, <1>3, <1>4, <1>5

\* What the list functions of the three lists of a cache are.
LEMMA CacheLists ==
  ASSUME SlabInv, NEW c \in Caches
  PROVE  /\ slabs_partial[c] \in Seq(Managed) /\ slabs_full[c] \in Seq(Managed) /\ slabs_empty[c] \in Seq(Managed)
         /\ IsInjective(slabs_partial[c]) /\ IsInjective(slabs_full[c]) /\ IsInjective(slabs_empty[c])
         /\ ToSet(slabs_partial[c]) \cap ToSet(slabs_full[c]) = {}
         /\ ToSet(slabs_partial[c]) \cap ToSet(slabs_empty[c]) = {}
         /\ ToSet(slabs_full[c]) \cap ToSet(slabs_empty[c]) = {}
         /\ num_objs_free[c] \in Int
<1>1. /\ slabs_partial[c] \in Seq(Managed) /\ slabs_full[c] \in Seq(Managed) /\ slabs_empty[c] \in Seq(Managed)
      /\ num_objs_free[c] \in Int
  BY DEF SlabInv, SlabTypes
<1> QED
  BY <1>1 DEF SlabInv, ListsApart

\* The branches of slab_alloc: a partial slab,
LEMMA AllocFromPartialInv == ASSUME SlabInv, NEW c \in Caches, AllocFromPartial(c) PROVE SlabInv'
<1>1. /\ slabs_partial[c] # <<>> /\ TakeObject(c, slabs_partial[c], free_list, num_free)
      /\ num_objs_free' = [num_objs_free EXCEPT ![c] = num_objs_free[c] - 1]
      /\ slabs_empty' = slabs_empty /\ bitmap' = bitmap /\ held' = held /\ reserved' = reserved
  BY DEF AllocFromPartial, PhysVars, SlabInv, SlabTypes
<1>2. PICK l, p : l = slabs_partial[c] /\ p = Head(l)
  OBVIOUS
<1>3. l \in Seq(Managed) /\ l # <<>> /\ IsInjective(l)
  BY <1>1, <1>2, CacheLists
<1>4. p \in ToSet(l) /\ p \in On(c)
  BY <1>2, <1>3, SetTail DEF On
<1>5. Ready(c, l, free_list, num_free, p)
  <2>1. free_list[p] # <<>>
    BY <1>2, <1>4 DEF SlabInv, ListsSorted
  <2>2. p \notin ToSet(slabs_full[c]) /\ p \notin ToSet(slabs_empty[c]) /\ IsInjective(slabs_empty[c])
    BY <1>2, <1>4, CacheLists
  <2>3. /\ \A d \in Caches \ {c} : p \notin On(d)
        /\ Sound(c, free_list[p], num_free[p], Taken(p))
    BY <1>4, SlabOn
  <2>4. slabs_empty \in [Caches -> Seq(Managed)] /\ free_list \in [Managed -> Seq(Nat)] /\ num_free \in [Managed -> Nat]
    BY DEF SlabInv, SlabTypes
  <2> QED
    BY <1>1, <1>2, <1>3, <2>1, <2>2, <2>3, <2>4 DEF Ready
<1>6. TakeObject(c, l, free_list, num_free)
  BY <1>1, <1>2
<1>7. /\ p \in Managed /\ OneSlab(c, p)
      /\ num_free[p] \in Nat \ {0} /\ num_free'[p] = num_free[p] - 1
      /\ live' \subseteq Objects /\ \A o \in live' : o \in live \/ (o.cache = c /\ o.page = p)
  BY <1>5, <1>6, TakeOneSlab
<1>8. PICK v, old : v = num_objs_free[c] - 1 /\ old = num_free[p]
  OBVIOUS
<1>9. v = num_objs_free[c] - old + num_free'[p] /\ old = (IF p \in On(c) THEN num_free[p] ELSE 0)
  BY <1>4, <1>7, <1>8, CacheLists
<1>10. p \in bitmap' \cap FreeAtBoot /\ p \notin PagesOf(held) \cup PagesOf(reserved)
  BY <1>1, <1>4, SlabOn
<1>11. num_objs_free' = [num_objs_free EXCEPT ![c] = v]
  BY <1>1, <1>8
<1>12. bitmap \subseteq bitmap' /\ UNCHANGED <<held, reserved>>
  BY <1>1
<1> QED
  BY <1>7, <1>9, <1>10, <1>11, <1>12, OneSlabInv

\* an empty slab,
LEMMA AllocFromEmptyInv == ASSUME SlabInv, NEW c \in Caches, AllocFromEmpty(c) PROVE SlabInv'
<1>1. PICK e, p, l : e = slabs_empty[c] /\ p = Head(e) /\ l = <<p>>
  OBVIOUS
<1>2. /\ slabs_partial[c] = <<>> /\ e # <<>> /\ TakeObject(c, l, free_list, num_free)
      /\ num_objs_free' = [num_objs_free EXCEPT ![c] = num_objs_free[c] - 1]
      /\ slabs_empty' = [slabs_empty EXCEPT ![c] = Tail(e)]
      /\ bitmap' = bitmap /\ held' = held /\ reserved' = reserved
  BY <1>1 DEF AllocFromEmpty, PhysVars, SlabInv, SlabTypes
<1>3. /\ e \in Seq(Managed) /\ p \in ToSet(e) /\ p \in On(c) /\ p \in Managed
      /\ Tail(e) \in Seq(Managed) /\ IsInjective(Tail(e)) /\ p \notin ToSet(Tail(e))
      /\ ToSet(e) = ToSet(Tail(e)) \cup {p}
  <2>1. e \in Seq(Managed) /\ IsInjective(e)
    BY <1>1, CacheLists
  <2>2. /\ p \in ToSet(e) /\ p \in Managed
        /\ Tail(e) \in Seq(Managed) /\ IsInjective(Tail(e)) /\ p \notin ToSet(Tail(e))
        /\ ToSet(e) = ToSet(Tail(e)) \cup {p}
    BY <1>1, <1>2, <2>1, SetTail
  <2> QED
    BY <1>1, <2>1, <2>2 DEF On
<1>4. slabs_empty' \in [Caches -> Seq(Managed)] /\ slabs_empty'[c] = Tail(e)
      /\ \A d \in Caches \ {c} : slabs_empty'[d] = slabs_empty[d]
  BY <1>2, <1>3 DEF SlabInv, SlabTypes
<1>5. l \in Seq(Managed) /\ l # <<>> /\ IsInjective(l) /\ Head(l) = p /\ ToSet(l) = {p}
  <2>1. l \in Seq(Managed) /\ l # <<>> /\ Head(l) = p /\ DOMAIN l = {1} /\ l[1] = p
    BY <1>1, <1>3
  <2> QED
    BY <2>1 DEF IsInjective, ToSet
<1>6. Ready(c, l, free_list, num_free, p)
  <2>1. free_list[p] # <<>>
    <3>1. Len(free_list[p]) = calc_num_objs(c)
      BY <1>1, <1>3 DEF SlabInv, ListsSorted
    <3>2. calc_num_objs(c) \in Nat \ {0}
      BY ObjectsPerSlab
    <3>3. Len(<<>>) = 0
      OBVIOUS
    <3> QED
      BY <3>1, <3>2, <3>3
  <2>2. p \notin ToSet(slabs_full[c])
    BY <1>1, <1>3, CacheLists
  <2>3. /\ \A d \in Caches \ {c} : p \notin On(d)
        /\ Sound(c, free_list[p], num_free[p], Taken(p))
    BY <1>3, SlabOn
  <2>4. free_list \in [Managed -> Seq(Nat)] /\ num_free \in [Managed -> Nat]
    BY DEF SlabInv, SlabTypes
  <2>5. ToSet(slabs_partial[c]) = {}
    BY <1>2, InToSet
  <2>6. ToSet(l) \ {p} = ToSet(slabs_partial[c]) \ {p} /\ ToSet(slabs_empty'[c]) \ {p} = ToSet(slabs_empty[c]) \ {p}
    BY <1>1, <1>3, <1>4, <1>5, <2>5
  <2> QED
    BY <1>3, <1>4, <1>5, <2>1, <2>2, <2>3, <2>4, <2>6 DEF Ready
<1>7. /\ OneSlab(c, p)
      /\ num_free[p] \in Nat \ {0} /\ num_free'[p] = num_free[p] - 1
      /\ live' \subseteq Objects /\ \A o \in live' : o \in live \/ (o.cache = c /\ o.page = p)
  BY <1>2, <1>6, TakeOneSlab
<1>8. PICK v, old : v = num_objs_free[c] - 1 /\ old = num_free[p]
  OBVIOUS
<1>9. v = num_objs_free[c] - old + num_free'[p] /\ old = (IF p \in On(c) THEN num_free[p] ELSE 0)
  BY <1>3, <1>7, <1>8, CacheLists
<1>10. p \in bitmap' \cap FreeAtBoot /\ p \notin PagesOf(held) \cup PagesOf(reserved)
  BY <1>2, <1>3, SlabOn
<1>11. num_objs_free' = [num_objs_free EXCEPT ![c] = v]
  BY <1>2, <1>8
<1>12. bitmap \subseteq bitmap' /\ UNCHANGED <<held, reserved>>
  BY <1>2
<1> QED
  BY <1>3, <1>7, <1>9, <1>10, <1>11, <1>12, OneSlabInv

\* A new slab: every object of it is free and nobody holds one.
LEMMA NewSlab ==
  ASSUME NEW c \in Caches, NEW n, n = calc_num_objs(c), NEW objs, objs = [i \in 1 .. n |-> i - 1]
  PROVE  objs \in Seq(Nat) /\ objs # <<>> /\ Sound(c, objs, n, {})
<1>1. n \in Nat \ {0}
  BY ObjectsPerSlab
<1>2. objs \in [1 .. n -> Nat]
  BY <1>1
<1>3. objs \in Seq(Nat) /\ Len(objs) = n /\ DOMAIN objs = 1 .. n
  BY <1>1, <1>2
<1>4. objs # <<>>
  BY <1>1, <1>3
<1>5. IsInjective(objs)
  BY <1>1 DEF IsInjective
<1>6. ToSet(objs) = 0 .. (n - 1)
  <2>1. \A i \in 1 .. n : objs[i] \in 0 .. (n - 1)
    BY <1>1
  <2>2. \A k \in 0 .. (n - 1) : k + 1 \in 1 .. n /\ objs[k + 1] = k
    BY <1>1
  <2>3. ASSUME NEW y PROVE y \in ToSet(objs) <=> y \in 0 .. (n - 1)
    <3>1. y \in ToSet(objs) <=> \E i \in 1 .. n : objs[i] = y
      BY <1>3, InToSet
    <3> QED
      BY <2>1, <2>2, <3>1, Zenon
  <2> QED
    BY <2>3
<1> QED
  BY <1>3, <1>4, <1>5, <1>6 DEF Sound

\* Steps of the page allocator alone leave the slabs as they are.
LEMMA SlabsStay ==
  ASSUME SlabInv, UNCHANGED SlabVars,
         \A c \in Caches : /\ On(c) \subseteq bitmap'
                           /\ On(c) \cap (PagesOf(held') \cup PagesOf(reserved')) = {}
  PROVE  SlabInv'
<1>1. /\ slabs_partial' = slabs_partial /\ slabs_full' = slabs_full /\ slabs_empty' = slabs_empty
      /\ free_list' = free_list /\ num_free' = num_free /\ num_objs_free' = num_objs_free /\ live' = live
  BY DEF SlabVars, SlabLists
<1>2. (\A c : On(c)' = On(c)) /\ (\A p : Taken(p)' = Taken(p))
  BY <1>1 DEF On, Taken
<1>3. SlabTypes' /\ ListsSorted' /\ LiveOnList'
  BY <1>1, <1>2 DEF SlabInv, SlabTypes, ListsSorted, LiveOnList
<1>4. ListsApart'
  BY <1>1, <1>2 DEF SlabInv, ListsApart
<1>5. SlabsSound' /\ FreeCounted'
  BY <1>1, <1>2 DEF SlabInv, SlabsSound, FreeCounted
<1>6. PagesOwned'
  BY <1>2 DEF SlabInv, PagesOwned
<1> QED
  BY <1>3, <1>4, <1>5, <1>6 DEF SlabInv

\* A page that is not in use is under no slab, no block and no range.
LEMMA ClearPage ==
  ASSUME PhysInv, SlabInv, NEW p \in Managed, p \notin bitmap
  PROVE  /\ \A d \in Caches : p \notin On(d)
         /\ Taken(p) = {} /\ p \notin PagesOf(held) \cup PagesOf(reserved)
<1>1. \A d \in Caches : p \notin On(d)
  BY DEF SlabInv, PagesOwned
<1>2. \A o \in live : o.page # p
  <2> TAKE o \in live
  <2>1. o.cache \in Caches /\ o.page \in On(o.cache)
    BY DEF SlabInv, LiveOnList, SlabTypes, Objects
  <2> QED
    BY <1>1, <2>1
<1>3. p \notin PagesOf(held) \cup PagesOf(reserved)
  BY DEF PhysInv, PagesExclusive
<1> QED
  BY <1>1, <1>2, <1>3 DEF Taken

\* physical_alloc_page, for a slab or for a block of one page.
LEMMA AllocOnePage ==
  ASSUME PhysInv, NEW p \in Managed, physical_alloc_page(p), UNCHANGED <<reserved_pages, reserved>>,
         \/ held' = held
         \/ p # 0 /\ held' = held \cup {[page |-> p, count |-> 1]}
  PROVE  /\ PhysInv' /\ bitmap \subseteq bitmap'
         /\ p # 0 => p \in FreeAtBoot /\ p \notin bitmap /\ p \in bitmap'
         /\ PagesOf(held') \subseteq PagesOf(held) \cup (bitmap' \ bitmap)
<1>1. PICK b : b = [page |-> p, count |-> 1]
  OBVIOUS
<1>2. b.page = p /\ b.count = 1 /\ b \in Blocks
  BY <1>1, PhysMemAssumption DEF Blocks
<1>3. Pages(b) = {p}
  BY <1>2 DEF Pages, Managed
<1>4. physical_alloc_pages(b.count, b.page)
  BY <1>2 DEF physical_alloc_page
<1>5. held' \subseteq held \cup {b} /\ (b.page = 0 => held' = held)
  BY <1>1, <1>2
<1>6. /\ PhysInv'
      /\ \/ b.page = 0 /\ bitmap' = bitmap
         \/ bitmap' = bitmap \cup Pages(b) /\ Pages(b) \subseteq FreeAtBoot /\ Pages(b) \cap bitmap = {}
  BY <1>2, <1>4, <1>5, AllocPages
<1>7. PagesOf(held') \subseteq PagesOf(held) \cup Pages(b)
  BY <1>5, InPagesOf
<1> QED
  BY <1>2, <1>3, <1>5, <1>6, <1>7

\* and a new slab, when both lists are empty.
LEMMA AllocFromNewInv ==
  ASSUME PhysInv, SlabInv, NEW c \in Caches, AllocFromNew(c)
  PROVE  PhysInv' /\ SlabInv'
<1>1. slabs_partial[c] = <<>> /\ slabs_empty[c] = <<>>
  BY DEF AllocFromNew
<1>2. PICK page \in Managed :
          \/ /\ page = 0
             /\ physical_alloc_page(page)
             /\ UNCHANGED <<SlabVars, held, reserved_pages, reserved>>
          \/ UNCHANGED <<SlabVars, PhysVars>>
          \/ /\ page # 0
             /\ physical_alloc_page(page)
             /\ LET n == calc_num_objs(c)
                IN  /\ TakeObject(c, <<page>>,
                                  [free_list EXCEPT ![page] = [i \in 1 .. n |-> i - 1]],
                                  [num_free EXCEPT ![page] = n])
                    /\ num_objs_free' = [num_objs_free EXCEPT ![c] = @ + n - 1]
             /\ UNCHANGED <<slabs_empty, held, reserved_pages, reserved>>
  BY DEF AllocFromNew
<1>3. CASE UNCHANGED <<SlabVars, PhysVars>>
  <2>1. PhysInv'
    BY <1>3 DEF PhysVars, PhysInv, PhysTypeOK, PagesExclusive, FreePagesTracks
  <2>2. UNCHANGED SlabVars /\ \A d \in Caches : /\ On(d) \subseteq bitmap'
                                                /\ On(d) \cap (PagesOf(held') \cup PagesOf(reserved')) = {}
    BY <1>3 DEF PhysVars, SlabInv, PagesOwned
  <2> QED
    BY <2>1, <2>2, SlabsStay
<1>4. CASE /\ page = 0
           /\ physical_alloc_page(page)
           /\ UNCHANGED <<SlabVars, held, reserved_pages, reserved>>
  <2>1. PhysInv' /\ bitmap \subseteq bitmap'
    BY <1>4, AllocOnePage
  <2>2. UNCHANGED SlabVars /\ \A d \in Caches : /\ On(d) \subseteq bitmap'
                                                /\ On(d) \cap (PagesOf(held') \cup PagesOf(reserved')) = {}
    BY <1>4, <2>1 DEF SlabInv, PagesOwned
  <2> QED
    BY <2>1, <2>2, SlabsStay
<1>5. CASE /\ page # 0
           /\ physical_alloc_page(page)
           /\ LET n == calc_num_objs(c)
              IN  /\ TakeObject(c, <<page>>,
                                [free_list EXCEPT ![page] = [i \in 1 .. n |-> i - 1]],
                                [num_free EXCEPT ![page] = n])
                  /\ num_objs_free' = [num_objs_free EXCEPT ![c] = @ + n - 1]
           /\ UNCHANGED <<slabs_empty, held, reserved_pages, reserved>>
  <2>1. PICK n, all, l, objs, nf : /\ n = calc_num_objs(c) /\ all = [i \in 1 .. n |-> i - 1] /\ l = <<page>>
                                   /\ objs = [free_list EXCEPT ![page] = all]
                                   /\ nf = [num_free EXCEPT ![page] = n]
    OBVIOUS
  <2>2. /\ page # 0 /\ physical_alloc_page(page) /\ TakeObject(c, l, objs, nf)
        /\ num_objs_free' = [num_objs_free EXCEPT ![c] = num_objs_free[c] + n - 1]
        /\ slabs_empty' = slabs_empty /\ UNCHANGED <<held, reserved_pages, reserved>>
    BY <1>5, <2>1 DEF SlabInv, SlabTypes
  <2>3. PhysInv' /\ bitmap \subseteq bitmap' /\ page \in FreeAtBoot /\ page \notin bitmap /\ page \in bitmap'
    BY <2>2, AllocOnePage
  <2>4. /\ \A d \in Caches : page \notin On(d)
        /\ Taken(page) = {} /\ page \notin PagesOf(held) \cup PagesOf(reserved)
    BY <2>3, ClearPage
  <2>5. all \in Seq(Nat) /\ all # <<>> /\ Sound(c, all, n, {}) /\ n \in Nat
    BY <2>1, NewSlab, ObjectsPerSlab
  <2>6. /\ objs \in [Managed -> Seq(Nat)] /\ nf \in [Managed -> Nat] /\ objs[page] = all /\ nf[page] = n
        /\ \A q \in Managed \ {page} : objs[q] = free_list[q] /\ nf[q] = num_free[q]
    BY <2>1, <2>5 DEF SlabInv, SlabTypes
  <2>7. l \in Seq(Managed) /\ l # <<>> /\ IsInjective(l) /\ Head(l) = page /\ ToSet(l) = {page}
    <3>1. l \in Seq(Managed) /\ l # <<>> /\ Head(l) = page /\ DOMAIN l = {1} /\ l[1] = page
      BY <2>1
    <3> QED
      BY <3>1 DEF IsInjective, ToSet
  <2>8. Ready(c, l, objs, nf, page)
    <3>1. page \notin ToSet(slabs_full[c]) /\ page \notin ToSet(slabs_empty[c]) /\ ToSet(slabs_partial[c]) = {}
      BY <1>1, <2>4, InToSet DEF On
    <3>2. slabs_empty' \in [Caches -> Seq(Managed)] /\ IsInjective(slabs_empty'[c])
      BY <2>2, CacheLists DEF SlabInv, SlabTypes
    <3> QED
      BY <2>2, <2>4, <2>5, <2>6, <2>7, <3>1, <3>2 DEF Ready
  <2>9. /\ OneSlab(c, page) /\ num_free'[page] = n - 1
        /\ live' \subseteq Objects /\ \A o \in live' : o \in live \/ (o.cache = c /\ o.page = page)
    BY <2>2, <2>6, <2>8, TakeOneSlab
  <2>10. PICK v, old : v = num_objs_free[c] + n - 1 /\ old = 0
    OBVIOUS
  <2>11. v = num_objs_free[c] - old + num_free'[page] /\ old = (IF page \in On(c) THEN num_free[page] ELSE 0)
    BY <2>4, <2>5, <2>9, <2>10, CacheLists
  <2>12. num_objs_free' = [num_objs_free EXCEPT ![c] = v]
    BY <2>2, <2>10
  <2>13. SlabInv'
    BY <2>2, <2>3, <2>4, <2>9, <2>11, <2>12, OneSlabInv
  <2> QED
    BY <2>3, <2>13
<1> QED
  BY <1>2, <1>3, <1>4, <1>5

\* An object goes back: the caller held it, so it is free once.
LEMMA TakenDrop ==
  ASSUME SlabInv, NEW o \in live, live' = live \ {o}
  PROVE  /\ o.cache \in Caches /\ o.page \in On(o.cache) /\ o.obj \in Taken(o.page)
         /\ Taken(o.page)' = Taken(o.page) \ {o.obj} /\ \A q : q # o.page => Taken(q)' = Taken(q)
<1>1. \A r \in live : r.cache \in Caches /\ r.page \in On(r.cache)
                      /\ r = [cache |-> r.cache, page |-> r.page, obj |-> r.obj]
  BY DEF SlabInv, LiveOnList, SlabTypes, Objects
<1>2. ASSUME NEW r \in live, r.page = o.page, r.obj = o.obj PROVE r = o
  <2>1. r.cache = o.cache
    BY <1>1, <1>2 DEF SlabInv, ListsApart
  <2> QED
    BY <1>1, <1>2, <2>1
<1>3. o.obj \in Taken(o.page)
  BY DEF Taken
<1>4. Taken(o.page)' = Taken(o.page) \ {o.obj}
  BY <1>2 DEF Taken
<1>5. ASSUME NEW q, q # o.page PROVE Taken(q)' = Taken(q)
  BY <1>5 DEF Taken
<1> QED
  BY <1>1, <1>3, <1>4, <1>5

\* What slab_free does to the slab, before it moves it.
LEMMA PutSlab ==
  ASSUME SlabInv, NEW o \in live, PutObject(o), NEW c, c = o.cache, NEW p, p = o.page
  PROVE  /\ c \in Caches /\ p \in On(c) /\ p \in Managed
         /\ free_list' \in [Managed -> Seq(Nat)] /\ num_free' \in [Managed -> Nat]
         /\ free_list'[p] # <<>> /\ Len(free_list'[p]) = num_free[p] + 1 /\ num_free'[p] = num_free[p] + 1
         /\ Sound(c, free_list'[p], num_free'[p], Taken(p)')
         /\ \A q \in Managed \ {p} : /\ free_list'[q] = free_list[q] /\ num_free'[q] = num_free[q]
                                     /\ Taken(q)' = Taken(q)
         /\ num_objs_free' = [num_objs_free EXCEPT ![c] = num_objs_free[c] + 1]
         /\ live' \subseteq live /\ bitmap' = bitmap /\ held' = held /\ reserved' = reserved
<1>1. /\ live' = live \ {o} /\ bitmap' = bitmap /\ held' = held /\ reserved' = reserved
  BY DEF PutObject, PhysVars
<1>2. /\ c \in Caches /\ p \in On(c) /\ o.obj \in Taken(p)
      /\ Taken(p)' = Taken(p) \ {o.obj} /\ \A q : q # p => Taken(q)' = Taken(q)
  BY <1>1, TakenDrop
<1>3. /\ p \in Managed /\ Sound(c, free_list[p], num_free[p], Taken(p))
      /\ free_list[p] \in Seq(Nat) /\ num_free[p] \in Nat
  BY <1>2, SlabOn
<1>4. PICK x, objs, n, tk, t : /\ x = o.obj /\ objs = free_list[p] /\ n = num_free[p] /\ tk = Taken(p)
                               /\ t = <<x>> \o objs
  OBVIOUS
<1>5. Sound(c, t, n + 1, tk \ {x}) /\ t # <<>> /\ t \in Seq(Nat) /\ Len(t) = n + 1 /\ n \in Nat
  <2>1. objs \in Seq(Nat) /\ n \in Nat /\ Sound(c, objs, n, tk) /\ x \in tk
    BY <1>2, <1>3, <1>4
  <2>2. /\ Sound(c, <<x>> \o objs, n + 1, tk \ {x})
        /\ <<x>> \o objs # <<>> /\ <<x>> \o objs \in Seq(Nat) /\ Len(<<x>> \o objs) = n + 1
    BY <1>2, <2>1, SoundPut
  <2> QED
    BY <1>4, <2>1, <2>2
<1>6. free_list' = [free_list EXCEPT ![p] = t] /\ num_free' = [num_free EXCEPT ![p] = n + 1]
      /\ num_objs_free' = [num_objs_free EXCEPT ![c] = num_objs_free[c] + 1]
  BY <1>2, <1>3, <1>4 DEF PutObject, SlabInv, SlabTypes
<1>7. /\ free_list' \in [Managed -> Seq(Nat)] /\ free_list'[p] = t
      /\ num_free' \in [Managed -> Nat] /\ num_free'[p] = n + 1
      /\ \A q \in Managed \ {p} : free_list'[q] = free_list[q] /\ num_free'[q] = num_free[q]
  BY <1>3, <1>5, <1>6 DEF SlabInv, SlabTypes
<1>8. Sound(c, free_list'[p], num_free'[p], Taken(p)')
  BY <1>2, <1>4, <1>5, <1>7
<1> QED
  BY <1>1, <1>2, <1>3, <1>4, <1>5, <1>6, <1>7, <1>8

\* The rest of a free, when the lists are in order.
LEMMA PutInv ==
  ASSUME SlabInv, NEW c \in Caches, NEW p \in On(c), OneSlab(c, p), num_free'[p] = num_free[p] + 1,
         num_objs_free' = [num_objs_free EXCEPT ![c] = num_objs_free[c] + 1],
         live' \subseteq live, bitmap' = bitmap, UNCHANGED <<held, reserved>>
  PROVE  SlabInv'
<1>1. p \in Managed
  BY SlabOn
<1>2. PICK v, old : v = num_objs_free[c] + 1 /\ old = num_free[p]
  OBVIOUS
<1>3. v = num_objs_free[c] - old + num_free'[p] /\ old = (IF p \in On(c) THEN num_free[p] ELSE 0)
  <2>1. num_free[p] \in Nat
    BY SlabOn
  <2>2. num_objs_free[c] \in Int
    BY CacheLists
  <2> QED
    BY <1>2, <2>1, <2>2
<1>4. num_objs_free' = [num_objs_free EXCEPT ![c] = v]
  BY <1>2
<1>5. p \in bitmap' \cap FreeAtBoot /\ p \notin PagesOf(held) \cup PagesOf(reserved)
  BY SlabOn
<1>6. live' \subseteq Objects /\ \A r \in live' : r \in live \/ (r.cache = c /\ r.page = p)
  BY DEF SlabInv, SlabTypes
<1>7. bitmap \subseteq bitmap' /\ UNCHANGED <<held, reserved>>
  OBVIOUS
<1> QED
  BY <1>1, <1>3, <1>4, <1>5, <1>6, <1>7, OneSlabInv

\* The search of slab_free along a list.
LEMMA ContainsIs ==
  ASSUME NEW S, NEW s \in Seq(S), NEW x
  PROVE  Contains(s, x) <=> x \in ToSet(s)
<1>1. DOMAIN s = 1 .. Len(s)
  OBVIOUS
<1> QED
  BY <1>1, InToSet DEF Contains

\* One entry moves from a list to the head of another.
LEMMA Relink ==
  ASSUME NEW p \in Managed, NEW a \in Seq(Managed), NEW b \in Seq(Managed), IsInjective(a), IsInjective(b),
         p \notin ToSet(b), NEW a2, a2 = Without(a, p), NEW b2, IsCons(b2, p, b)
  PROVE  /\ a2 \in Seq(Managed) /\ IsInjective(a2) /\ p \notin ToSet(a2) /\ ToSet(a2) \ {p} = ToSet(a) \ {p}
         /\ b2 \in Seq(Managed) /\ IsInjective(b2) /\ p \in ToSet(b2) /\ ToSet(b2) \ {p} = ToSet(b) \ {p}
<1>1. /\ Without(a, p) \in Seq(Managed)
      /\ ToSet(Without(a, p)) = ToSet(a) \ {p}
      /\ IsInjective(a) => IsInjective(Without(a, p))
  BY SetWithout
<1>2. /\ b2 \in Seq(Managed) /\ ToSet(b2) = ToSet(b) \cup {p}
      /\ IsInjective(b) /\ p \notin ToSet(b) => IsInjective(b2)
  BY SetCons
<1> QED
  BY <1>1, <1>2

\* slab_free of an object of a full slab.
LEMMA FreeInFullInv == ASSUME SlabInv, NEW o \in live, FreeInFull(o) PROVE SlabInv'
<1>1. PICK c, p : c = o.cache /\ p = o.page
  OBVIOUS
<1>2. PutObject(o)
  BY DEF FreeInFull
<1>3. /\ c \in Caches /\ p \in On(c) /\ p \in Managed
      /\ free_list' \in [Managed -> Seq(Nat)] /\ num_free' \in [Managed -> Nat]
      /\ free_list'[p] # <<>>
      /\ Sound(c, free_list'[p], num_free'[p], Taken(p)')
      /\ \A q \in Managed \ {p} : /\ free_list'[q] = free_list[q] /\ num_free'[q] = num_free[q]
                                  /\ Taken(q)' = Taken(q)
      /\ num_free'[p] = num_free[p] + 1
      /\ num_objs_free' = [num_objs_free EXCEPT ![c] = num_objs_free[c] + 1]
      /\ live' \subseteq live /\ bitmap' = bitmap /\ held' = held /\ reserved' = reserved
  BY <1>1, <1>2, PutSlab
<1>4. PICK P, F, P2, F2 : /\ P = slabs_partial[c] /\ F = slabs_full[c]
                          /\ P2 = <<p>> \o P /\ F2 = Without(F, p)
  OBVIOUS
<1>5. /\ P \in Seq(Managed) /\ F \in Seq(Managed) /\ IsInjective(P) /\ IsInjective(F)
      /\ ToSet(P) \cap ToSet(F) = {} /\ ToSet(F) \cap ToSet(slabs_empty[c]) = {} /\ IsInjective(slabs_empty[c])
  BY <1>3, <1>4, CacheLists
<1>6. p \in ToSet(F)
  BY <1>1, <1>4, <1>5, ContainsIs DEF FreeInFull
<1>7. /\ F2 \in Seq(Managed) /\ IsInjective(F2) /\ p \notin ToSet(F2) /\ ToSet(F2) \ {p} = ToSet(F) \ {p}
      /\ P2 \in Seq(Managed) /\ IsInjective(P2) /\ p \in ToSet(P2) /\ ToSet(P2) \ {p} = ToSet(P) \ {p}
  <2>1. IsCons(P2, p, P)
    BY <1>4 DEF IsCons
  <2>2. p \notin ToSet(P) /\ F2 = Without(F, p)
    BY <1>4, <1>5, <1>6
  <2> QED
    BY <1>3, <1>5, <2>1, <2>2, Relink
<1>8. /\ slabs_full' = [slabs_full EXCEPT ![c] = F2]
      /\ slabs_partial' = [slabs_partial EXCEPT ![c] = P2]
      /\ slabs_empty' = slabs_empty
  BY <1>1, <1>3, <1>4 DEF FreeInFull, SlabInv, SlabTypes
<1>9. /\ slabs_partial' \in [Caches -> Seq(Managed)] /\ slabs_partial'[c] = P2
      /\ slabs_full' \in [Caches -> Seq(Managed)] /\ slabs_full'[c] = F2
      /\ slabs_empty' \in [Caches -> Seq(Managed)]
      /\ \A d \in Caches \ {c} : slabs_partial'[d] = slabs_partial[d] /\ slabs_full'[d] = slabs_full[d]
  BY <1>3, <1>7, <1>8 DEF SlabInv, SlabTypes
<1>10. \A d \in Caches \ {c} : p \notin On(d)
  BY <1>3, SlabOn
<1>11. p \notin ToSet(slabs_empty[c])
  BY <1>5, <1>6
<1>12. OneSlab(c, p)
  BY <1>3, <1>4, <1>5, <1>7, <1>8, <1>9, <1>10, <1>11 DEF OneSlab
<1> QED
  BY <1>3, <1>12, PutInv

\* slab_free of an object of a partial slab, which may become empty.
LEMMA FreeInPartialInv == ASSUME SlabInv, NEW o \in live, FreeInPartial(o) PROVE SlabInv'
<1>1. PICK c, p : c = o.cache /\ p = o.page
  OBVIOUS
<1>2. PutObject(o)
  BY DEF FreeInPartial
<1>3. /\ c \in Caches /\ p \in On(c) /\ p \in Managed
      /\ free_list' \in [Managed -> Seq(Nat)] /\ num_free' \in [Managed -> Nat]
      /\ free_list'[p] # <<>> /\ Len(free_list'[p]) = num_free[p] + 1
      /\ Sound(c, free_list'[p], num_free'[p], Taken(p)')
      /\ \A q \in Managed \ {p} : /\ free_list'[q] = free_list[q] /\ num_free'[q] = num_free[q]
                                  /\ Taken(q)' = Taken(q)
      /\ num_free'[p] = num_free[p] + 1
      /\ num_objs_free' = [num_objs_free EXCEPT ![c] = num_objs_free[c] + 1]
      /\ live' \subseteq live /\ bitmap' = bitmap /\ held' = held /\ reserved' = reserved
  BY <1>1, <1>2, PutSlab
<1>4. PICK P, E, P2, E2 : /\ P = slabs_partial[c] /\ E = slabs_empty[c]
                          /\ P2 = Without(P, p) /\ E2 = <<p>> \o E
  OBVIOUS
<1>5. /\ P \in Seq(Managed) /\ E \in Seq(Managed) /\ IsInjective(P) /\ IsInjective(E)
      /\ ToSet(P) \cap ToSet(E) = {} /\ ToSet(P) \cap ToSet(slabs_full[c]) = {} /\ IsInjective(slabs_full[c])
  BY <1>3, <1>4, CacheLists
<1>6. p \in ToSet(P)
  BY <1>1, <1>4, <1>5, ContainsIs DEF FreeInPartial
<1>7. p \notin ToSet(E) /\ p \notin ToSet(slabs_full[c])
  BY <1>5, <1>6
<1>8. \A d \in Caches \ {c} : p \notin On(d)
  BY <1>3, SlabOn
<1>9. CASE num_free[p] + 1 = calc_num_objs(c)
  <2>1. /\ P2 \in Seq(Managed) /\ IsInjective(P2) /\ p \notin ToSet(P2) /\ ToSet(P2) \ {p} = ToSet(P) \ {p}
        /\ E2 \in Seq(Managed) /\ IsInjective(E2) /\ p \in ToSet(E2) /\ ToSet(E2) \ {p} = ToSet(E) \ {p}
    <3>1. IsCons(E2, p, E)
      BY <1>4 DEF IsCons
    <3>2. p \notin ToSet(E) /\ P2 = Without(P, p)
      BY <1>4, <1>7
    <3> QED
      BY <1>3, <1>5, <3>1, <3>2, Relink
  <2>2. /\ slabs_partial' = [slabs_partial EXCEPT ![c] = P2]
        /\ slabs_empty' = [slabs_empty EXCEPT ![c] = E2]
        /\ slabs_full' = slabs_full
    BY <1>1, <1>3, <1>4, <1>9 DEF FreeInPartial, SlabInv, SlabTypes
  <2>3. /\ slabs_partial' \in [Caches -> Seq(Managed)] /\ slabs_partial'[c] = P2
        /\ slabs_empty' \in [Caches -> Seq(Managed)] /\ slabs_empty'[c] = E2
        /\ slabs_full' \in [Caches -> Seq(Managed)]
        /\ \A d \in Caches \ {c} : slabs_partial'[d] = slabs_partial[d] /\ slabs_empty'[d] = slabs_empty[d]
    BY <1>3, <2>1, <2>2 DEF SlabInv, SlabTypes
  <2>4. OneSlab(c, p)
    BY <1>3, <1>4, <1>5, <1>7, <1>8, <1>9, <2>1, <2>2, <2>3 DEF OneSlab
  <2> QED
    BY <1>3, <2>4, PutInv
<1>10. CASE num_free[p] + 1 # calc_num_objs(c)
  <2>1. slabs_partial' = slabs_partial /\ slabs_empty' = slabs_empty /\ slabs_full' = slabs_full
    BY <1>1, <1>3, <1>10 DEF FreeInPartial
  <2>2. /\ slabs_partial \in [Caches -> Seq(Managed)] /\ slabs_full \in [Caches -> Seq(Managed)]
        /\ slabs_empty \in [Caches -> Seq(Managed)]
    BY DEF SlabInv, SlabTypes
  <2>3. OneSlab(c, p)
    BY <1>3, <1>4, <1>5, <1>6, <1>7, <1>8, <2>1, <2>2 DEF OneSlab
  <2> QED
    BY <1>3, <2>3, PutInv
<1> QED
  BY <1>9, <1>10

\* An empty slab has no object that a caller holds.
LEMMA EmptyUntaken ==
  ASSUME SlabInv, NEW c \in Caches, NEW p \in ToSet(slabs_empty[c])
  PROVE  Taken(p) = {} /\ num_free[p] = calc_num_objs(c) /\ p \in On(c)
<1>1. p \in On(c)
  BY DEF On
<1>2. Sound(c, free_list[p], num_free[p], Taken(p)) /\ free_list[p] \in Seq(Nat)
  BY <1>1, SlabOn
<1>3. PICK s, n : s = free_list[p] /\ n = calc_num_objs(c)
  OBVIOUS
<1>4. Len(s) = n /\ n \in Nat /\ s \in Seq(Nat)
  BY <1>2, <1>3, ObjectsPerSlab DEF SlabInv, ListsSorted
<1>5. IsInjective(s) /\ ToSet(s) \subseteq 0 .. (n - 1) /\ num_free[p] = Len(s)
  BY <1>2, <1>3 DEF Sound
<1>6. ToSet(s) = 0 .. (n - 1)
  BY <1>4, <1>5, AllListed
<1>7. ToSet(s) \cap Taken(p) = {} /\ ToSet(s) \cup Taken(p) = 0 .. (n - 1)
  BY <1>2, <1>3 DEF Sound
<1> QED
  BY <1>1, <1>3, <1>4, <1>5, <1>6, <1>7

\* What slab_shrink takes off the empty list of a cache, and what it leaves.
LEMMA ShrunkCut ==
  ASSUME SlabInv, NEW c \in Caches
  PROVE  \E e, a, b :
            /\ e = slabs_empty[c] /\ a = Shrunk(c)
            /\ b = SubSeq(slabs_empty[c], Len(Shrunk(c)) + 1, Len(slabs_empty[c]))
            /\ b \in Seq(Managed) /\ IsInjective(b) /\ ToSet(e) = ToSet(a) \cup ToSet(b)
            /\ ToSet(a) \cap ToSet(b) = {} /\ Cardinality(ToSet(a)) = Len(a) /\ Len(a) \in Nat
<1>1. PICK e, a, b : /\ e = slabs_empty[c] /\ a = Shrunk(c)
                     /\ b = SubSeq(slabs_empty[c], Len(Shrunk(c)) + 1, Len(slabs_empty[c]))
  OBVIOUS
<1>2. e \in Seq(Managed) /\ IsInjective(e)
  BY <1>1, CacheLists
<1>3. Len(e) \in Nat
  BY <1>2
<1>4. PICK k : k = IF Len(e) < 4 THEN Len(e) ELSE 4
  OBVIOUS
<1>5. k \in 0 .. Len(e) /\ k \in Nat
  BY <1>3, <1>4
<1>6. IsFront(a, e, k)
  BY <1>1, <1>4 DEF Shrunk, IsFront
<1>7. Len(a) = k
  BY <1>2, <1>5, <1>6 DEF IsFront
<1>8. IsRest(b, e, k)
  BY <1>1, <1>7 DEF IsRest
<1>9. /\ b \in Seq(Managed) /\ ToSet(e) = ToSet(a) \cup ToSet(b)
      /\ ToSet(a) \cap ToSet(b) = {} /\ IsInjective(b) /\ Cardinality(ToSet(a)) = k
  BY <1>2, <1>5, <1>6, <1>8, SetCut
<1> QED
  BY <1>1, <1>5, <1>7, <1>9

\* The pages that slab_shrink gives back, of one cache.
Gone(cs, c) == IF c \in cs THEN ToSet(Shrunk(c)) ELSE {}

\* slab_shrink and slab_reap: only pages under no object go back.
LEMMA ShrinkInv ==
  ASSUME PhysInv, SlabInv, NEW cs \in SUBSET Caches, ShrinkAll(cs)
  PROVE  PhysInv' /\ SlabInv'
<1>1. PICK gone : gone = UNION {ToSet(Shrunk(c)) : c \in cs}
  OBVIOUS
<1>2. /\ FreeRange(gone)
      /\ free_list' = [p \in Managed |-> IF p \in gone THEN <<>> ELSE free_list[p]]
      /\ num_free' = [p \in Managed |-> IF p \in gone THEN 0 ELSE num_free[p]]
      /\ slabs_partial' = slabs_partial /\ slabs_full' = slabs_full /\ live' = live
      /\ held' = held /\ reserved' = reserved /\ reserved_pages' = reserved_pages
      /\ slabs_empty' = [c \in Caches |->
            IF c \in cs THEN SubSeq(slabs_empty[c], Len(Shrunk(c)) + 1, Len(slabs_empty[c]))
                        ELSE slabs_empty[c]]
      /\ num_objs_free' = [c \in Caches |->
            num_objs_free[c] - (IF c \in cs THEN Len(Shrunk(c)) * calc_num_objs(c) ELSE 0)]
  BY <1>1 DEF ShrinkAll, ShrinkCore
<1>3. ASSUME NEW c \in Caches
      PROVE  /\ slabs_empty'[c] \in Seq(Managed) /\ IsInjective(slabs_empty'[c])
             /\ ToSet(slabs_empty[c]) = ToSet(slabs_empty'[c]) \cup Gone(cs, c)
             /\ ToSet(slabs_empty'[c]) \cap Gone(cs, c) = {}
             /\ Cardinality(Gone(cs, c)) \in Nat
             /\ num_objs_free'[c] = num_objs_free[c] - Cardinality(Gone(cs, c)) * calc_num_objs(c)
  <2>1. CASE c \in cs
    <3>1. PICK e, a, b :
             /\ e = slabs_empty[c] /\ a = Shrunk(c)
             /\ b = SubSeq(slabs_empty[c], Len(Shrunk(c)) + 1, Len(slabs_empty[c]))
             /\ b \in Seq(Managed) /\ IsInjective(b) /\ ToSet(e) = ToSet(a) \cup ToSet(b)
             /\ ToSet(a) \cap ToSet(b) = {} /\ Cardinality(ToSet(a)) = Len(a) /\ Len(a) \in Nat
      BY ShrunkCut
    <3>3. slabs_empty'[c] = b /\ Gone(cs, c) = ToSet(a)
      BY <1>2, <2>1, <3>1 DEF Gone
    <3>4. num_objs_free'[c] = num_objs_free[c] - Len(a) * calc_num_objs(c)
      BY <1>2, <2>1, <3>1
    <3> QED
      BY <3>1, <3>3, <3>4
  <2>2. CASE c \notin cs
    <3>1. slabs_empty'[c] = slabs_empty[c] /\ Gone(cs, c) = {} /\ Cardinality({}) = 0
      BY <1>2, <2>2, FS_EmptySet DEF Gone
    <3>2. num_objs_free'[c] = num_objs_free[c] - 0
      BY <1>2, <2>2
    <3>3. 0 * calc_num_objs(c) = 0
      BY ObjectsPerSlab
    <3> QED
      BY <3>1, <3>2, <3>3, CacheLists
  <2> QED
    BY <2>1, <2>2
<1>4. \A c \in Caches : Gone(cs, c) \subseteq ToSet(slabs_empty[c]) /\ Gone(cs, c) \subseteq On(c)
  BY <1>3 DEF On
<1>5. \A p : p \in gone <=> \E c \in Caches : p \in Gone(cs, c)
  BY <1>1 DEF Gone
<1>6. ASSUME NEW c \in Caches PROVE gone \cap On(c) = Gone(cs, c)
  <2>1. \A d \in Caches : d # c => On(d) \cap On(c) = {}
    BY DEF SlabInv, ListsApart
  <2> QED
    BY <1>4, <1>5, <2>1
<1>7. ASSUME NEW c \in Caches PROVE On(c)' = On(c) \ gone /\ On(c) \subseteq Managed
  <2>1. /\ ToSet(slabs_partial[c]) \cap ToSet(slabs_empty[c]) = {}
        /\ ToSet(slabs_full[c]) \cap ToSet(slabs_empty[c]) = {}
    BY CacheLists
  <2>2. On(c)' = ToSet(slabs_partial[c]) \cup ToSet(slabs_full[c]) \cup ToSet(slabs_empty'[c])
    BY <1>2 DEF On
  <2>3. On(c)' = On(c) \ Gone(cs, c)
    BY <1>3, <1>4, <2>1, <2>2 DEF On
  <2> QED
    BY <1>6, <2>3, OnManaged DEF SlabInv
<1>8. \A p \in gone : Taken(p) = {} /\ \E c \in Caches : p \in On(c)
  BY <1>4, <1>5, EmptyUntaken
<1>9. PhysInv' /\ bitmap' = bitmap \ gone
  <2>1. gone \subseteq bitmap \cap FreeAtBoot /\ gone \cap PagesOf(held) = {} /\ gone \cap PagesOf(reserved) = {}
    BY <1>8 DEF SlabInv, PagesOwned
  <2>2. held' \subseteq held /\ gone \cap PagesOf(held') = {} /\ UNCHANGED <<reserved_pages, reserved>>
    BY <1>2, <2>1
  <2> QED
    BY <1>2, <2>1, <2>2, FreePages
<1>10. \A p \in Managed \ gone : free_list'[p] = free_list[p] /\ num_free'[p] = num_free[p]
  BY <1>2
<1>11. SlabTypes'
  <2>1. free_list' \in [Managed -> Seq(Nat)] /\ num_free' \in [Managed -> Nat]
    BY <1>2 DEF SlabInv, SlabTypes
  <2>2. slabs_empty' \in [Caches -> Seq(Managed)]
    BY <1>2, <1>3
  <2>3. num_objs_free' \in [Caches -> Int]
    <3>1. ASSUME NEW c \in Caches PROVE num_objs_free'[c] \in Int
      <4>1. num_objs_free[c] \in Int /\ calc_num_objs(c) \in Int /\ Cardinality(Gone(cs, c)) \in Int
        BY <1>3, CacheLists, ObjectsPerSlab
      <4>2. PICK n, k : n = calc_num_objs(c) /\ k = Cardinality(Gone(cs, c))
        OBVIOUS
      <4>3. n \in Int /\ k \in Int
        BY <4>1, <4>2
      <4>4. k * n \in Int
        BY <4>3
      <4> QED
        BY <1>3, <4>1, <4>2, <4>4
    <3>2. PICK f : f = num_objs_free' /\ f = [c \in Caches |-> f[c]]
      BY <1>2
    <3> QED
      BY <3>1, <3>2
  <2> QED
    BY <1>2, <2>1, <2>2, <2>3 DEF SlabInv, SlabTypes
<1>12. ListsApart'
  <2>1. ASSUME NEW c \in Caches
        PROVE  /\ ToSet(slabs_partial[c]) \cap ToSet(slabs_empty'[c]) = {}
               /\ ToSet(slabs_full[c]) \cap ToSet(slabs_empty'[c]) = {}
    BY <1>3, CacheLists
  <2>2. \A c, d \in Caches : c # d => On(c)' \cap On(d)' = {}
    BY <1>7 DEF SlabInv, ListsApart
  <2> QED
    BY <1>2, <1>3, <2>1, <2>2, CacheLists DEF ListsApart
<1>13. ListsSorted'
  <2>1. ASSUME NEW c \in Caches, NEW p \in On(c)' PROVE free_list'[p] = free_list[p]
    BY <1>7, <1>10, <2>1
  <2>2. ASSUME NEW c \in Caches
        PROVE  /\ ToSet(slabs_full[c]) \subseteq On(c)' /\ ToSet(slabs_partial[c]) \subseteq On(c)'
               /\ ToSet(slabs_empty'[c]) \subseteq On(c)' /\ ToSet(slabs_empty'[c]) \subseteq ToSet(slabs_empty[c])
    BY <1>2, <1>3 DEF On
  <2> QED
    BY <1>2, <2>1, <2>2 DEF SlabInv, ListsSorted
<1>14. SlabsSound'
  <2>1. ASSUME NEW c \in Caches, NEW p \in On(c)' PROVE Sound(c, free_list'[p], num_free'[p], Taken(p)')
    <3>1. /\ p \in On(c) /\ free_list'[p] = free_list[p] /\ num_free'[p] = num_free[p]
      BY <1>7, <1>10, <2>1
    <3>2. Taken(p)' = Taken(p)
      BY <1>2 DEF Taken
    <3>3. Sound(c, free_list[p], num_free[p], Taken(p))
      BY <3>1, SlabOn
    <3> QED
      BY <3>1, <3>2, <3>3
  <2> QED
    BY <2>1 DEF SlabsSound
<1>15. LiveOnList'
  <2>1. ASSUME NEW o \in live PROVE o.page \in On(o.cache)'
    <3>1. o.cache \in Caches /\ o.page \in On(o.cache) /\ o.obj \in Taken(o.page)
      BY DEF SlabInv, LiveOnList, SlabTypes, Objects, Taken
    <3> QED
      BY <1>7, <1>8, <3>1
  <2> QED
    BY <1>2, <2>1 DEF LiveOnList
<1>16. FreeCounted'
  <2>1. ASSUME NEW c \in Caches PROVE num_objs_free'[c] = SumOver(num_free', On(c)')
    <3>1. PICK S, T, n, f, g : /\ S = On(c) /\ T = Gone(cs, c) /\ n = calc_num_objs(c)
                               /\ f = num_free /\ g = num_free'
      OBVIOUS
    <3>2. IsFiniteSet(S) /\ S \subseteq Managed /\ T \in SUBSET S
      BY <1>4, <1>7, <3>1, PagesFinite
    <3>3. n \in Int /\ (\A x \in S : f[x] \in Int) /\ (\A x \in T : f[x] = n)
      <4>1. \A x \in T : f[x] = n
        BY <1>4, <3>1, EmptyUntaken
      <4> QED
        BY <3>1, <3>2, <4>1, ObjectsPerSlab DEF SlabInv, SlabTypes
    <3>4. SumOver(f, S \ T) = SumOver(f, S) - Cardinality(T) * n
      BY <3>2, <3>3, SumEqual
    <3>5. On(c)' = S \ T
      BY <1>6, <1>7, <3>1
    <3>6. PICK R : R = S \ T
      OBVIOUS
    <3>7. IsFiniteSet(R) /\ \A x \in R : f[x] \in Int /\ g[x] = f[x]
      <4>1. IsFiniteSet(R)
        BY <3>2, <3>6, FS_Subset
      <4>2. \A x \in R : x \in Managed \ gone
        BY <1>7, <3>2, <3>5, <3>6
      <4> QED
        BY <1>10, <3>1, <3>3, <3>6, <4>1, <4>2
    <3>8. SumOver(g, R) = SumOver(f, R)
      BY <3>7, SumSame
    <3>9. num_objs_free'[c] = num_objs_free[c] - Cardinality(T) * n
      BY <1>3, <3>1
    <3>10. num_objs_free[c] = SumOver(f, S)
      BY <3>1 DEF SlabInv, FreeCounted
    <3> QED
      BY <3>1, <3>4, <3>5, <3>6, <3>8, <3>9, <3>10
  <2> QED
    BY <2>1 DEF FreeCounted
<1>17. PagesOwned'
  <2>1. ASSUME NEW c \in Caches PROVE /\ On(c)' \subseteq bitmap' \cap FreeAtBoot
                                      /\ On(c)' \cap (PagesOf(held') \cup PagesOf(reserved')) = {}
    BY <1>2, <1>7, <1>9 DEF SlabInv, PagesOwned
  <2> QED
    BY <2>1 DEF PagesOwned
<1> QED
  BY <1>9, <1>11, <1>12, <1>13, <1>14, <1>15, <1>16, <1>17 DEF SlabInv

\* slab_init.
LEMMA SlabInitInv == MemInit => PhysInv /\ SlabInv
<1> SUFFICES ASSUME MemInit PROVE PhysInv /\ SlabInv
  OBVIOUS
<1>1. PhysInv
  BY PhysInitInv DEF MemInit
<1>2. slab_init
  BY DEF MemInit
<1>3. \A c \in Caches : On(c) = {}
  BY <1>2, InToSet DEF slab_init, On
<1>4. \A c \in Caches : /\ ToSet(slabs_partial[c]) = {} /\ ToSet(slabs_full[c]) = {} /\ ToSet(slabs_empty[c]) = {}
  BY <1>3 DEF On
<1>5. SlabTypes
  BY <1>2 DEF slab_init, SlabTypes
<1>6. ListsApart
  <2>1. IsInjective(<<>>)
    BY DEF IsInjective
  <2> QED
    BY <1>2, <1>3, <1>4, <2>1 DEF slab_init, ListsApart
<1>7. FreeCounted
  BY <1>2, <1>3, SumEmpty DEF slab_init, FreeCounted
<1>8. ListsSorted /\ SlabsSound /\ PagesOwned
  BY <1>3, <1>4 DEF ListsSorted, SlabsSound, PagesOwned
<1>9. LiveOnList
  BY <1>2 DEF slab_init, LiveOnList
<1> QED
  BY <1>1, <1>5, <1>6, <1>7, <1>8, <1>9 DEF SlabInv

\* slab_alloc_size, for a size the caches serve and for a larger one.
LEMMA AllocSizeInv ==
  ASSUME PhysInv, SlabInv, NEW size \in Requests, slab_alloc_size(size)
  PROVE  PhysInv' /\ SlabInv'
<1>1. ASSUME slab_cache_lookup(size) # 0 PROVE slab_cache_lookup(size) \in Caches
  <2>1. PICK fits : fits = {c \in Caches : size <= c}
    OBVIOUS
  <2>2. fits # {} /\ fits \in SUBSET Nat
    <3>1. fits # {}
      BY <1>1, <2>1 DEF slab_cache_lookup
    <3>2. Caches \in SUBSET Nat
      BY SlabAssumption DEF SLAB_PAGE_SIZE
    <3> QED
      BY <2>1, <3>1, <3>2
  <2>3. \E i \in fits : \A k \in fits : i <= k
    BY <2>2, LeastElement
  <2>4. slab_cache_lookup(size) = CHOOSE c \in fits : \A d \in fits : c <= d
    BY <2>1, <2>2 DEF slab_cache_lookup
  <2> QED
    BY <2>1, <2>3, <2>4
<1>2. CASE slab_cache_lookup(size) # 0 /\ slab_alloc(slab_cache_lookup(size))
  <2>1. PICK c \in Caches : slab_alloc(c)
    BY <1>1, <1>2
  <2>2. CASE AllocFromNew(c)
    BY <2>2, AllocFromNewInv
  <2>3. CASE AllocFromPartial(c) \/ AllocFromEmpty(c)
    <3>1. SlabInv'
      BY <2>3, AllocFromPartialInv, AllocFromEmptyInv
    <3>2. UNCHANGED PhysVars
      BY <2>3 DEF AllocFromPartial, AllocFromEmpty
    <3> QED
      BY <3>1, <3>2 DEF PhysVars, PhysInv, PhysTypeOK, PagesExclusive, FreePagesTracks
  <2> QED
    BY <2>1, <2>2, <2>3 DEF slab_alloc
<1>3. CASE /\ \E page \in Managed :
                 /\ physical_alloc_page(page)
                 /\ held' = IF page = 0 THEN held ELSE held \cup {[page |-> page, count |-> 1]}
           /\ UNCHANGED <<SlabVars, reserved_pages, reserved>>
  <2>1. PICK p \in Managed :
           /\ physical_alloc_page(p)
           /\ held' = IF p = 0 THEN held ELSE held \cup {[page |-> p, count |-> 1]}
    BY <1>3
  <2>2. held' = held \/ (p # 0 /\ held' = held \cup {[page |-> p, count |-> 1]})
    BY <2>1
  <2>3. /\ PhysInv' /\ bitmap \subseteq bitmap'
        /\ PagesOf(held') \subseteq PagesOf(held) \cup (bitmap' \ bitmap)
    BY <1>3, <2>1, <2>2, AllocOnePage
  <2>4. \A c \in Caches : /\ On(c) \subseteq bitmap'
                          /\ On(c) \cap (PagesOf(held') \cup PagesOf(reserved')) = {}
    BY <1>3, <2>3 DEF SlabInv, PagesOwned
  <2> QED
    BY <1>3, <2>3, <2>4, SlabsStay
<1> QED
  BY <1>2, <1>3 DEF slab_alloc_size

\* SlabPages, cache by cache.
LEMMA InSlabPages ==
  ASSUME SlabInv
  PROVE  /\ \A c \in Caches : ToSet(slabs_partial[c] \o slabs_full[c] \o slabs_empty[c]) = On(c)
         /\ \A p : p \in SlabPages <=> \E c \in Caches : p \in On(c)
<1>1. ASSUME NEW c \in Caches PROVE ToSet(slabs_partial[c] \o slabs_full[c] \o slabs_empty[c]) = On(c)
  <2>1. PICK P, F, E : P = slabs_partial[c] /\ F = slabs_full[c] /\ E = slabs_empty[c]
    OBVIOUS
  <2>2. P \in Seq(Managed) /\ F \in Seq(Managed) /\ E \in Seq(Managed)
    BY <2>1, CacheLists
  <2>3. PICK a : a = P \o F
    OBVIOUS
  <2>4. a \in Seq(Managed) /\ ToSet(a) = ToSet(P) \cup ToSet(F)
    BY <2>2, <2>3, SetConcat
  <2>5. ToSet(a \o E) = ToSet(a) \cup ToSet(E)
    BY <2>2, <2>4, SetConcat
  <2> QED
    BY <2>1, <2>3, <2>4, <2>5 DEF On
<1> QED
  BY <1>1 DEF SlabPages

MemInv == PhysInv /\ SlabInv

\* The invariant is inductive.
LEMMA MemNextInv == MemInv /\ [MemNext]_MemVars => MemInv'
<1> SUFFICES ASSUME PhysInv, SlabInv, [MemNext]_MemVars PROVE PhysInv' /\ SlabInv'
  BY DEF MemInv
<1>1. CASE UNCHANGED MemVars
  <2>1. UNCHANGED SlabVars /\ UNCHANGED PhysVars
    BY <1>1 DEF MemVars
  <2>2. PhysInv'
    BY <2>1 DEF PhysVars, PhysInv, PhysTypeOK, PagesExclusive, FreePagesTracks
  <2>3. \A c \in Caches : /\ On(c) \subseteq bitmap'
                          /\ On(c) \cap (PagesOf(held') \cup PagesOf(reserved')) = {}
    BY <2>1 DEF PhysVars, SlabInv, PagesOwned
  <2> QED
    BY <2>1, <2>2, <2>3, SlabsStay
<1>2. CASE \E size \in Requests : slab_alloc_size(size)
  BY <1>2, AllocSizeInv
<1>3. CASE \E o \in live : slab_free(o)
  <2>1. PICK o \in live : FreeInFull(o) \/ FreeInPartial(o)
    BY <1>3 DEF slab_free
  <2>2. SlabInv'
    BY <2>1, FreeInFullInv, FreeInPartialInv
  <2>3. UNCHANGED PhysVars
    BY <2>1 DEF FreeInFull, FreeInPartial, PutObject
  <2> QED
    BY <2>2, <2>3 DEF PhysVars, PhysInv, PhysTypeOK, PagesExclusive, FreePagesTracks
<1>4. CASE (\E c \in Caches : slab_shrink(c)) \/ slab_reap
  <2>1. PICK cs \in SUBSET Caches : ShrinkAll(cs)
    BY <1>4 DEF slab_shrink, slab_reap
  <2> QED
    BY <2>1, ShrinkInv
<1>5. CASE AllocBlock /\ UNCHANGED SlabVars
  <2>1. PhysInv' /\ bitmap \subseteq bitmap' /\ PagesOf(held') \subseteq PagesOf(held) \cup (bitmap' \ bitmap)
    BY <1>5, AllocInv
  <2>2. reserved' = reserved
    BY <1>5 DEF AllocBlock
  <2>3. \A c \in Caches : /\ On(c) \subseteq bitmap'
                          /\ On(c) \cap (PagesOf(held') \cup PagesOf(reserved')) = {}
    BY <2>1, <2>2 DEF SlabInv, PagesOwned
  <2> QED
    BY <1>5, <2>1, <2>3, SlabsStay
<1>6. CASE physical_free_pages /\ UNCHANGED SlabVars
  <2>1. PhysInv' /\ held' \subseteq held /\ bitmap \ PagesOf(held) \subseteq bitmap'
    BY <1>6, FreeInv
  <2>2. reserved' = reserved
    BY <1>6 DEF physical_free_pages
  <2>3. PagesOf(held') \subseteq PagesOf(held)
    BY <2>1, InPagesOf
  <2>4. \A c \in Caches : /\ On(c) \subseteq bitmap'
                          /\ On(c) \cap (PagesOf(held') \cup PagesOf(reserved')) = {}
    BY <2>1, <2>2, <2>3 DEF SlabInv, PagesOwned
  <2> QED
    BY <1>6, <2>1, <2>4, SlabsStay
<1>7. CASE Reserve(PagesOf(held) \cup SlabPages) /\ UNCHANGED SlabVars
  <2>1. PICK inUse : inUse = PagesOf(held) \cup SlabPages
    OBVIOUS
  <2>2. PagesOf(held) \subseteq inUse /\ Reserve(inUse)
    BY <1>7, <2>1
  <2>3. /\ PhysInv' /\ bitmap \subseteq bitmap' /\ held' = held
        /\ inUse \cap PagesOf(reserved') \subseteq PagesOf(reserved)
    BY <2>2, ReserveInv
  <2>4. \A c \in Caches : On(c) \subseteq inUse
    BY <2>1, InSlabPages
  <2>5. \A c \in Caches : /\ On(c) \subseteq bitmap'
                          /\ On(c) \cap (PagesOf(held') \cup PagesOf(reserved')) = {}
    BY <2>3, <2>4 DEF SlabInv, PagesOwned
  <2> QED
    BY <1>7, <2>3, <2>5, SlabsStay
<1>8. CASE Unreserve /\ UNCHANGED SlabVars
  <2>1. PhysInv' /\ bitmap' = bitmap /\ held' = held /\ PagesOf(reserved') \subseteq PagesOf(reserved)
    BY <1>8, UnreserveInv
  <2>2. \A c \in Caches : /\ On(c) \subseteq bitmap'
                          /\ On(c) \cap (PagesOf(held') \cup PagesOf(reserved')) = {}
    BY <2>1 DEF SlabInv, PagesOwned
  <2> QED
    BY <1>8, <2>1, <2>2, SlabsStay
<1> QED
  BY <1>1, <1>2, <1>3, <1>4, <1>5, <1>6, <1>7, <1>8 DEF MemNext

\* It holds in every reachable state.
LEMMA MemInvariant == MemSpec => []MemInv
<1>1. MemInit => MemInv
  BY SlabInitInv DEF MemInv
<1> QED
  BY <1>1, MemNextInv, PTL DEF MemSpec

\* For every memory size, memory map and request, the page allocator gives no page
\* to two callers, and no reserved page, hole or page of the bitmap to anyone, whether its
\* callers are the kernel's alone or the slab allocator is one of them.
THEOREM PagesAreExclusive == (PhysSpec => []PagesExclusive) /\ (MemSpec => []PagesExclusive)
<1>1. (PhysInv => PagesExclusive) /\ (MemInv => PagesExclusive)
  BY DEF PhysInv, MemInv
<1> QED
  BY <1>1, PhysInvariant, MemInvariant, PTL

\* For every memory size, memory map and request, free_pages follows the bitmap at
\* a constant distance, with and without the slab allocator.
THEOREM FreePagesAreTracked == (PhysSpec => []FreePagesTracks) /\ (MemSpec => []FreePagesTracks)
<1>1. (PhysInv => FreePagesTracks) /\ (MemInv => FreePagesTracks)
  BY DEF PhysInv, MemInv
<1> QED
  BY <1>1, PhysInvariant, MemInvariant, PTL

\* For every memory map, set of cache sizes and run of requests, frees and shrinks, a slab is
\* on one list of one cache and belongs there, so that slab_alloc never takes the head of an
\* empty free list.
THEOREM SlabsAlwaysSorted == MemSpec => []SlabsSorted
<1>1. MemInv => SlabsSorted
  <2> SUFFICES ASSUME SlabInv PROVE SlabsSorted
    BY DEF MemInv
  <2>1. ASSUME NEW c \in Caches PROVE IsInjective(slabs_partial[c] \o slabs_full[c] \o slabs_empty[c])
    <3>1. PICK P, F, E : P = slabs_partial[c] /\ F = slabs_full[c] /\ E = slabs_empty[c]
      OBVIOUS
    <3>2. /\ P \in Seq(Managed) /\ F \in Seq(Managed) /\ E \in Seq(Managed)
          /\ IsInjective(P) /\ IsInjective(F) /\ IsInjective(E)
          /\ ToSet(P) \cap ToSet(F) = {} /\ ToSet(P) \cap ToSet(E) = {} /\ ToSet(F) \cap ToSet(E) = {}
      BY <3>1, CacheLists
    <3>3. PICK a : a = P \o F
      OBVIOUS
    <3>4. a \in Seq(Managed) /\ ToSet(a) = ToSet(P) \cup ToSet(F) /\ IsInjective(a)
      BY <3>2, <3>3, SetConcat
    <3>5. ToSet(a) \cap ToSet(E) = {}
      BY <3>2, <3>4
    <3>6. IsInjective(a \o E)
      BY <3>2, <3>4, <3>5, SetConcat
    <3> QED
      BY <3>1, <3>3, <3>6
  <2>2. \A c \in Caches : ToSet(slabs_partial[c] \o slabs_full[c] \o slabs_empty[c]) = On(c)
    BY InSlabPages
  <2>3. ListsSorted /\ \A c, d \in Caches : c # d => On(c) \cap On(d) = {}
    BY DEF SlabInv, ListsApart
  <2> QED
    BY <2>1, <2>2, <2>3 DEF SlabsSorted, ListsSorted
<1> QED
  BY <1>1, MemInvariant, PTL

\* No object of a slab is ever in two hands, and none is lost: each is held by a caller or on
\* its free list once, and num_free and num_objs_free count the free ones.
THEOREM ObjectsAreExclusive == MemSpec => []ObjectsExclusive
<1>1. MemInv => ObjectsExclusive
  <2> SUFFICES ASSUME SlabInv PROVE ObjectsExclusive
    BY DEF MemInv
  <2>1. ASSUME NEW c \in Caches, NEW slabs, slabs = On(c)
        PROVE  /\ \A p \in slabs :
                     /\ IsInjective(free_list[p])
                     /\ num_free[p] = Len(free_list[p])
                     /\ ToSet(free_list[p]) \cap Taken(p) = {}
                     /\ ToSet(free_list[p]) \cup Taken(p) = 0 .. (calc_num_objs(c) - 1)
               /\ num_objs_free[c] = SumOver(num_free, slabs)
    <3>1. num_objs_free[c] = SumOver(num_free, slabs)
      BY <2>1 DEF SlabInv, FreeCounted
    <3>2. \A p \in slabs : Sound(c, free_list[p], num_free[p], Taken(p))
      BY <2>1, SlabOn
    <3> QED
      BY <3>1, <3>2 DEF Sound
  <2>2. \A c \in Caches : ToSet(slabs_partial[c] \o slabs_full[c] \o slabs_empty[c]) = On(c)
    BY InSlabPages
  <2> QED
    BY <2>1, <2>2 DEF ObjectsExclusive, Taken, SumOver
<1> QED
  BY <1>1, MemInvariant, PTL

\* The page under a slab, and so under every object a caller holds, is never given to anyone
\* else while the slab exists.
THEOREM SlabPagesAreExclusive == MemSpec => []SlabPagesExclusive
<1>1. MemInv => SlabPagesExclusive
  <2> SUFFICES ASSUME SlabInv PROVE SlabPagesExclusive
    BY DEF MemInv
  <2>1. \A p : p \in SlabPages <=> \E c \in Caches : p \in On(c)
    BY InSlabPages
  <2>2. \A o \in live : o.cache \in Caches /\ o.page \in On(o.cache)
    BY DEF SlabInv, LiveOnList, SlabTypes, Objects
  <2> QED
    BY <2>1, <2>2 DEF SlabInv, PagesOwned, SlabPagesExclusive
<1> QED
  BY <1>1, MemInvariant, PTL
=============================================================================
