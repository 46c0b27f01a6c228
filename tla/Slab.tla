-------------------------------- MODULE Slab --------------------------------
(***************************************************************************)
(* The size caches of kernel/mm/slab.c on top of the page allocator.  A    *)
(* slab is one page; its descriptor comes from the bump allocator kmalloc  *)
(* of kernel/lib/datastructures.c, which never takes anything back.  A     *)
(* slab stands for its page, an object for its index in the page, and a    *)
(* cache for its object size.                                              *)
(*                                                                         *)
(* slab_init has created the caches; they have no constructor and no       *)
(* destructor.  Of the statistics, num_objs_free is kept.                  *)
(***************************************************************************)
EXTENDS PhysMem, SequencesExt, SeqFilter

CONSTANTS Caches,       \* the entries of size_cache_sizes in use, e.g. {1024, 2048}
          Requests,     \* the sizes callers ask for
          HeapUnits     \* slab descriptors that fit in the kmalloc heap

SLAB_PAGE_SIZE == 4096

sizeof_slab_t == 48

ASSUME SlabAssumption ==
    /\ Caches \subseteq 1 .. SLAB_PAGE_SIZE
    /\ Requests \subseteq Nat \ {0}
    /\ HeapUnits \in Nat

VARIABLES slabs_partial, slabs_full, slabs_empty,   \* the lists of each cache
          free_list,        \* slab->free_list, by page
          num_free,         \* slab->num_free, by page
          num_objs_free,    \* cache->num_objs_free
          heap_left,        \* what is left of the kmalloc heap, in descriptors
          live              \* the objects callers were given and have not freed

SlabLists == <<slabs_partial, slabs_full, slabs_empty>>
SlabVars == <<SlabLists, free_list, num_free, num_objs_free, heap_left, live>>
MemVars == <<PhysVars, SlabVars>>

calc_num_objs(obj_size) ==
    LET num == (SLAB_PAGE_SIZE - sizeof_slab_t) \div (obj_size + 8)
    IN  IF num > 0 THEN num ELSE 1

\* Where object i of a slab starts in its page.
ObjOffset(obj_size, i) == sizeof_slab_t + i * obj_size

slab_init ==
    /\ slabs_partial = [c \in Caches |-> <<>>]
    /\ slabs_full = [c \in Caches |-> <<>>]
    /\ slabs_empty = [c \in Caches |-> <<>>]
    /\ free_list = [p \in Managed |-> <<>>]
    /\ num_free = [p \in Managed |-> 0]
    /\ num_objs_free = [c \in Caches |-> 0]
    /\ heap_left = HeapUnits
    /\ live = {}

\* Mutant: the free list is not advanced past the object.
TakeObject_keep(c, partial, objs, n) ==
    LET slab == Head(partial)
        obj  == Head(objs[slab])
    IN  /\ free_list' = objs
        /\ num_free' = [n EXCEPT ![slab] = @ - 1]
        /\ live' = live \cup {[cache |-> c, page |-> slab, obj |-> obj]}
        /\ slabs_partial' = [slabs_partial EXCEPT ![c] = partial]
        /\ UNCHANGED slabs_full

\* The first branch of slab_alloc, on the partial list and the free lists as the
\* branches that retry have left them.
TakeObject(c, partial, objs, n) ==
    LET slab == Head(partial)
        obj  == Head(objs[slab])
    IN  /\ free_list' = [objs EXCEPT ![slab] = Tail(@)]
        /\ num_free' = [n EXCEPT ![slab] = @ - 1]
        /\ live' = live \cup {[cache |-> c, page |-> slab, obj |-> obj]}
        /\ IF n[slab] = 1
           THEN /\ slabs_partial' = [slabs_partial EXCEPT ![c] = Tail(partial)]
                /\ slabs_full' = [slabs_full EXCEPT ![c] = <<slab>> \o @]
           ELSE /\ slabs_partial' = [slabs_partial EXCEPT ![c] = partial]
                /\ UNCHANGED slabs_full

AllocFromPartial(c) ==
    /\ slabs_partial[c] # <<>>
    /\ TakeObject(c, slabs_partial[c], free_list, num_free)
    /\ num_objs_free' = [num_objs_free EXCEPT ![c] = @ - 1]
    /\ UNCHANGED <<slabs_empty, heap_left, PhysVars>>

AllocFromEmpty(c) ==
    /\ slabs_partial[c] = <<>>
    /\ slabs_empty[c] # <<>>
    /\ TakeObject(c, <<Head(slabs_empty[c])>>, free_list, num_free)
    /\ slabs_empty' = [slabs_empty EXCEPT ![c] = Tail(@)]
    /\ num_objs_free' = [num_objs_free EXCEPT ![c] = @ - 1]
    /\ UNCHANGED <<heap_left, PhysVars>>

\* kmalloc of one slab descriptor; kfree does nothing.
kmalloc == heap_left > 0 /\ heap_left' = heap_left - 1

\* slab_create, then the retry with the new slab.  It fails when the page allocator
\* returns 0, and gives the page back when kmalloc fails.
AllocFromNew(c) ==
    /\ slabs_partial[c] = <<>>
    /\ slabs_empty[c] = <<>>
    /\ \E page \in Managed :
          \/ /\ page = 0
             /\ physical_alloc_page(page)
             /\ UNCHANGED <<SlabVars, held, reserved_pages, reserved>>
          \/ /\ heap_left = 0
             /\ page # 0
             /\ page = find_first_free(1)   \* taken and given back
             /\ UNCHANGED <<SlabVars, PhysVars>>
          \/ /\ page # 0
             /\ physical_alloc_page(page)
             /\ kmalloc
             /\ LET n == calc_num_objs(c)
                IN  /\ TakeObject(c, <<page>>,
                                  [free_list EXCEPT ![page] = [i \in 1 .. n |-> i - 1]],
                                  [num_free EXCEPT ![page] = n])
                    /\ num_objs_free' = [num_objs_free EXCEPT ![c] = @ + n - 1]
             /\ UNCHANGED <<slabs_empty, held, reserved_pages, reserved>>

slab_alloc(c) == AllocFromPartial(c) \/ AllocFromEmpty(c) \/ AllocFromNew(c)

PutObject(o) ==
    /\ free_list' = [free_list EXCEPT ![o.page] = <<o.obj>> \o @]
    /\ num_free' = [num_free EXCEPT ![o.page] = @ + 1]
    /\ num_objs_free' = [num_objs_free EXCEPT ![o.cache] = @ + 1]
    /\ live' = live \ {o}
    /\ UNCHANGED <<heap_left, PhysVars>>

\* The slab is on the full list: its num_free becomes 1 (SlabsSorted), so it goes to
\* the partial list, even when it holds a single object.
FreeInFull(o) ==
    /\ Contains(slabs_full[o.cache], o.page)
    /\ PutObject(o)
    /\ slabs_full' = [slabs_full EXCEPT ![o.cache] = Without(@, o.page)]
    /\ slabs_partial' = [slabs_partial EXCEPT ![o.cache] = <<o.page>> \o @]
    /\ UNCHANGED slabs_empty

\* Mutant: the slab goes to the empty list one object too early.
FreeInPartial_early(o) ==
    /\ Contains(slabs_partial[o.cache], o.page)
    /\ PutObject(o)
    /\ IF num_free[o.page] + 2 >= calc_num_objs(o.cache)
       THEN /\ slabs_partial' = [slabs_partial EXCEPT ![o.cache] = Without(@, o.page)]
            /\ slabs_empty' = [slabs_empty EXCEPT ![o.cache] = <<o.page>> \o @]
       ELSE UNCHANGED <<slabs_partial, slabs_empty>>
    /\ UNCHANGED slabs_full

FreeInPartial(o) ==
    /\ ~ Contains(slabs_full[o.cache], o.page)
    /\ Contains(slabs_partial[o.cache], o.page)
    /\ PutObject(o)
    /\ IF num_free[o.page] + 1 = calc_num_objs(o.cache)
       THEN /\ slabs_partial' = [slabs_partial EXCEPT ![o.cache] = Without(@, o.page)]
            /\ slabs_empty' = [slabs_empty EXCEPT ![o.cache] = <<o.page>> \o @]
       ELSE UNCHANGED <<slabs_partial, slabs_empty>>
    /\ UNCHANGED slabs_full

slab_free(o) == FreeInFull(o) \/ FreeInPartial(o)

\* The slabs slab_shrink takes off the empty list: up to four.
Shrunk(c) == SubSeq(slabs_empty[c], 1, IF Len(slabs_empty[c]) < 4 THEN Len(slabs_empty[c]) ELSE 4)

\* slab_shrink on the caches cs; the page goes back to the page allocator, and the
\* descriptor with its free list is gone.
ShrinkCore(cs) ==
    LET gone == UNION {ToSet(Shrunk(c)) : c \in cs}
    IN  /\ FreeRange(gone)
        /\ free_list' = [p \in Managed |-> IF p \in gone THEN <<>> ELSE free_list[p]]
        /\ num_free' = [p \in Managed |-> IF p \in gone THEN 0 ELSE num_free[p]]
        /\ UNCHANGED <<slabs_partial, slabs_full, heap_left, live, held, reserved_pages, reserved>>

\* Mutant: the slabs stay on the empty list.
ShrinkAll_linked(cs) ==
    /\ ShrinkCore(cs)
    /\ UNCHANGED <<slabs_empty, num_objs_free>>

ShrinkAll(cs) ==
    /\ ShrinkCore(cs)
    /\ slabs_empty' = [c \in Caches |->
            IF c \in cs THEN SubSeq(slabs_empty[c], Len(Shrunk(c)) + 1, Len(slabs_empty[c]))
                        ELSE slabs_empty[c]]
    /\ num_objs_free' = [c \in Caches |->
            num_objs_free[c] - (IF c \in cs THEN Len(Shrunk(c)) * calc_num_objs(c) ELSE 0)]

slab_shrink(c) == ShrinkAll({c})

slab_reap == ShrinkAll(Caches)

\* The smallest cache that fits; there is none for a size above the largest cache.
slab_cache_lookup(size) ==
    LET fits == {c \in Caches : size <= c}
    IN  IF fits = {} THEN 0 ELSE CHOOSE c \in fits : \A d \in fits : c <= d

\* A size too large for the caches gets one page, however large it is.
slab_alloc_size(size) ==
    \/ slab_cache_lookup(size) # 0 /\ slab_alloc(slab_cache_lookup(size))
    \/ /\ slab_cache_lookup(size) = 0
       /\ \E page \in Managed :
             /\ physical_alloc_page(page)
             /\ held' = IF page = 0 THEN held ELSE held \cup {[page |-> page, count |-> 1]}
       /\ UNCHANGED <<SlabVars, reserved_pages, reserved>>

SlabPages == UNION {ToSet(slabs_partial[c] \o slabs_full[c] \o slabs_empty[c]) : c \in Caches}

MemInit == memory_manager_init /\ slab_init

\* Large blocks of slab_alloc_size are freed by physical_free_page, like any block.
MemNext ==
    \/ \E size \in Requests : slab_alloc_size(size)
    \/ \E o \in live : slab_free(o)
    \/ \E c \in Caches : slab_shrink(c)
    \/ slab_reap
    \/ AllocBlock /\ UNCHANGED SlabVars
    \/ physical_free_pages /\ UNCHANGED SlabVars
    \/ Reserve(PagesOf(held) \cup SlabPages) /\ UNCHANGED SlabVars
    \/ Unreserve /\ UNCHANGED SlabVars

MemSpec == MemInit /\ [][MemNext]_MemVars
-----------------------------------------------------------------------------
Objects == UNION {[cache : {c}, page : Managed, obj : 0 .. (calc_num_objs(c) - 1)] : c \in Caches}

MemTypeOK ==
    /\ PhysTypeOK
    /\ \A l \in {slabs_partial, slabs_full, slabs_empty} : l \in [Caches -> Seq(Managed)]
    /\ free_list \in [Managed -> Seq(Nat)]
    /\ num_free \in [Managed -> Nat]
    /\ num_objs_free \in [Caches -> Nat]
    /\ heap_left \in 0 .. HeapUnits
    /\ live \subseteq Objects

\* A slab is on one list of one cache, once.  A full slab has no free object, an
\* empty one has only free objects, and a partial one has a free object: slab_alloc
\* takes the head of its free list without testing it.
SlabsSorted ==
    /\ \A c, d \in Caches :
          LET all == slabs_partial[c] \o slabs_full[c] \o slabs_empty[c]
          IN  /\ IsInjective(all)
              /\ c # d => ToSet(all) \cap ToSet(slabs_partial[d] \o slabs_full[d] \o slabs_empty[d]) = {}
    /\ \A c \in Caches :
          /\ \A p \in ToSet(slabs_full[c]) : free_list[p] = <<>>
          /\ \A p \in ToSet(slabs_partial[c]) : free_list[p] # <<>>
          /\ \A p \in ToSet(slabs_empty[c]) : Len(free_list[p]) = calc_num_objs(c)

\* An object is either free, once, or held by one caller: no object is handed out
\* twice, none is lost, num_free counts the free ones of a slab, and num_objs_free,
\* which slab_get_stats reports, those of all slabs of the cache.
ObjectsExclusive ==
    \A c \in Caches :
        LET slabs == ToSet(slabs_partial[c] \o slabs_full[c] \o slabs_empty[c])
            taken(p) == {o.obj : o \in {o \in live : o.page = p}}
        IN  /\ \A p \in slabs :
                  /\ IsInjective(free_list[p])
                  /\ num_free[p] = Len(free_list[p])
                  /\ ToSet(free_list[p]) \cap taken(p) = {}
                  /\ ToSet(free_list[p]) \cup taken(p) = 0 .. (calc_num_objs(c) - 1)
            /\ num_objs_free[c] = FoldFunctionOnSet(+, 0, num_free, slabs)

\* A page under a slab, and so under every object a caller holds, is in use and
\* belongs to no other caller of the page allocator until slab_shrink returns it.
SlabPagesExclusive ==
    /\ {o.page : o \in live} \subseteq SlabPages
    /\ SlabPages \subseteq bitmap \cap FreeAtBoot
    /\ SlabPages \cap (PagesOf(held) \cup PagesOf(reserved)) = {}

\* The Makefile reports "kmalloc: OK (works for 8-4096 bytes)": every object handed
\* out lies inside the page of its slab.
ObjectsInsidePage ==
    \A o \in live : ObjOffset(o.cache, o.obj) + o.cache <= SLAB_PAGE_SIZE
=============================================================================
