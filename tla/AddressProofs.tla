--------------------------- MODULE AddressProofs ---------------------------
(***************************************************************************)
(* The address space, for every size of it: the page tables of paging.c    *)
(* translate as mapped, and the red-black tree of vma.c is one and finds   *)
(* every area as long as nothing has been removed from it.                 *)
(*                                                                         *)
(* The page tables need the level of each table and that a page is in one  *)
(* entry at most.  The tree needs for each node the bounds between which   *)
(* its subtree lies and the number of black nodes below it; the bounds of  *)
(* a child are narrower than those of its parent, so that every walk ends. *)
(***************************************************************************)
EXTENDS Machine, BaseLemmas
-----------------------------------------------------------------------------
\* A step of the kernel is a step of the areas and of the page tables, or leaves them.
LEMMA AddressParts ==
  ASSUME [MachineNext]_MachineVars
  PROVE  [VmaNext]_VmaVars /\ [PagingNext]_paging /\ (part = "vma" \/ UNCHANGED VmaVars) /\ part' = part
<1>1. CASE UNCHANGED MachineVars
  BY <1>1 DEF MachineVars
<1>2. CASE NetworkPart /\ UNCHANGED part
  BY <1>2 DEF NetworkPart
<1>3. CASE SchedPart /\ UNCHANGED part
  BY <1>3 DEF SchedPart
<1>4. CASE VmaPart /\ UNCHANGED part
  BY <1>4 DEF VmaPart
<1>5. CASE BlockPart /\ UNCHANGED part
  BY <1>5 DEF BlockPart
<1>6. CASE InputPart /\ UNCHANGED part
  BY <1>6 DEF InputPart
<1>7. CASE SyscallPart /\ UNCHANGED part
  BY <1>7 DEF SyscallPart
<1>8. CASE ContainerPart /\ UNCHANGED part
  BY <1>8 DEF ContainerPart
<1>9. CASE PagingPart /\ UNCHANGED part
  BY <1>9 DEF PagingPart
<1> QED
  BY <1>1, <1>2, <1>3, <1>4, <1>5, <1>6, <1>7, <1>8, <1>9 DEF MachineNext
-----------------------------------------------------------------------------
(***************************************************************************)
(* The page tables.                                                        *)
(***************************************************************************)

PagingStates ==
    [table : [TablePages -> [Entries -> Int]], pool : SUBSET Pool, vmalloc_next : {n \in Nat : n >= VMALLOC_START},
     ok : BOOLEAN, ref : [AddrSpace -> Int]]

\* lev gives the level of each page that is a table, and 4 for the others.
Levelled(tb, free, lev) ==
    /\ lev \in [TablePages -> 0 .. 4]
    /\ \A t \in TablePages : lev[t] = 3 <=> t = BootTable
    /\ \A p \in free : lev[p] = 4
    /\ \A t \in TablePages, i \in Entries :
          lev[t] \in 1 .. 3 => tb[t][i] = NotPresent \/ (tb[t][i] \in Pool /\ lev[tb[t][i]] = lev[t] - 1)

\* A page from the allocator is in one entry at most, and a free one in none.
UsedOnce(tb, free, lev) ==
    /\ \A t \in TablePages, i \in Entries : lev[t] # 4 => PageOf(tb[t][i]) \notin free
    /\ \A t, u \in TablePages, i, j \in Entries :
          (lev[t] # 4 /\ lev[u] # 4 /\ PageOf(tb[t][i]) = PageOf(tb[u][j]) /\ PageOf(tb[t][i]) \in Pool) => t = u /\ i = j

\* No entry has the page.
Unused(tb, lev, p) == \A t \in TablePages, i \in Entries : lev[t] # 4 => PageOf(tb[t][i]) # p

Entry(s, v) == Follow(s, LeafTable(s, v), v, 0)

PagingOk(s, lev) ==
    /\ s \in PagingStates
    /\ Levelled(s.table, s.pool, lev) /\ UsedOnce(s.table, s.pool, lev)
    /\ \A v \in AddrSpace : s.ref[v] = Entry(s, v)

GoodPaging == {s \in PagingStates : \E lev : PagingOk(s, lev)}

\* Numbers with the same quotient and remainder are the same.
LEMMA DivSame ==
  ASSUME NEW n \in Nat \ {0}, NEW v \in Nat, NEW w \in Nat, v \div n = w \div n, v % n = w % n
  PROVE  v = w
OBVIOUS

\* A quotient is smaller when the dividend is below a multiple of the divisor.
LEMMA DivLess ==
  ASSUME NEW n \in Nat \ {0}, NEW v \in Nat, NEW m \in Nat, v < n * m
  PROVE  v \div n \in Nat /\ v \div n < m
<1>1. v \div n \in Nat
  OBVIOUS
<1>2. v \div n < m
  OBVIOUS
<1> QED
  BY <1>1, <1>2

\* The constants of the page tables and their types.
LEMMA PagingConstants ==
  /\ PTE_COUNT \in Nat \ {0} /\ NotPresent \notin TablePages /\ BootTable \in TablePages /\ BootTable \notin Pool
  /\ Pool \subseteq TablePages /\ TablePages \subseteq Nat /\ NotPresent \in Int /\ AddrSpace \subseteq Nat
BY PagingAssumption DEF TablePages, NotPresent, AddrSpace, PageNumbers

\* The page of an entry, with and without PTE_NX.
LEMMA EntryPages ==
  /\ PageOf(NotPresent) = NotPresent /\ \A p \in Pool : PageOf(p) = p
  /\ Pool \subseteq PageNumbers
  /\ \A p \in PageNumbers, nx \in BOOLEAN : make_pte(p, nx) \in Nat /\ PageOf(make_pte(p, nx)) = p
BY PagingAssumption DEF PageOf, make_pte, PageNumbers, NotPresent

\* The index of an address at a level is one of a table.
LEMMA IndexType ==
  ASSUME NEW v \in AddrSpace, NEW level \in 0 .. 3
  PROVE  virt_to_indices(v, level) \in Entries
<1>1. PICK n \in Nat \ {0} : n = PTE_COUNT
  BY PagingConstants
<1>2. v \in Nat
  BY PagingConstants
<1>3. \A x \in Nat : x \div n \in Nat /\ x % n \in 0 .. (n - 1)
  OBVIOUS
<1>4. CASE level = 3
  BY <1>1, <1>2, <1>3, <1>4 DEF virt_to_indices, ShiftOne, Entries
<1>5. CASE level = 2
  BY <1>1, <1>2, <1>3, <1>5 DEF virt_to_indices, ShiftOne, Entries
<1>6. CASE level = 1
  BY <1>1, <1>2, <1>3, <1>6 DEF virt_to_indices, ShiftOne, Entries
<1>7. CASE level = 0
  BY <1>1, <1>2, <1>3, <1>7 DEF virt_to_indices, ShiftOne, Entries
<1> QED
  BY <1>4, <1>5, <1>6, <1>7

\* The indices of an address tell it from every other address.
LEMMA IndicesTell ==
  ASSUME NEW v \in AddrSpace, NEW w \in AddrSpace,
         \A level \in 0 .. 3 : virt_to_indices(v, level) = virt_to_indices(w, level)
  PROVE  v = w
<1>1. PICK n \in Nat \ {0} : n = PTE_COUNT
  BY PagingConstants
<1>2. v \in Nat /\ w \in Nat /\ v < n * (n * (n * n)) /\ w < n * (n * (n * n))
  BY <1>1, PagingConstants DEF AddrSpace
<1>3. PICK n2 \in Nat, n3 \in Nat : n2 = n * n /\ n3 = n * (n * n)
  OBVIOUS
<1>4. PICK v1 \in Nat, w1 \in Nat : v1 = v \div n /\ w1 = w \div n /\ v1 < n3 /\ w1 < n3
  BY <1>2, <1>3, DivLess
<1>5. PICK v2 \in Nat, w2 \in Nat : v2 = v1 \div n /\ w2 = w1 \div n /\ v2 < n2 /\ w2 < n2
  <2>1. v1 < n * n2 /\ w1 < n * n2
    BY <1>3, <1>4
  <2> QED
    BY <2>1, DivLess
<1>6. PICK v3 \in Nat, w3 \in Nat : v3 = v2 \div n /\ w3 = w2 \div n /\ v3 < n /\ w3 < n
  <2>1. v2 < n * n /\ w2 < n * n
    BY <1>3, <1>5
  <2> QED
    BY <2>1, DivLess
<1>7. v3 % n = w3 % n /\ v2 % n = w2 % n /\ v1 % n = w1 % n /\ v % n = w % n
  <2>1. v3 % n = w3 % n
    <3>1. virt_to_indices(v, 3) = virt_to_indices(w, 3)
      OBVIOUS
    <3> QED
      BY <1>1, <1>4, <1>5, <1>6, <3>1 DEF virt_to_indices, ShiftOne
  <2>2. v2 % n = w2 % n
    <3>1. virt_to_indices(v, 2) = virt_to_indices(w, 2)
      OBVIOUS
    <3> QED
      BY <1>1, <1>4, <1>5, <3>1 DEF virt_to_indices, ShiftOne
  <2>3. v1 % n = w1 % n
    <3>1. virt_to_indices(v, 1) = virt_to_indices(w, 1)
      OBVIOUS
    <3> QED
      BY <1>1, <1>4, <3>1 DEF virt_to_indices, ShiftOne
  <2>4. v % n = w % n
    <3>1. virt_to_indices(v, 0) = virt_to_indices(w, 0)
      OBVIOUS
    <3> QED
      BY <1>1, <3>1 DEF virt_to_indices
  <2> QED
    BY <2>1, <2>2, <2>3, <2>4
<1>8. v3 = w3
  <2>1. \A x \in 0 .. (n - 1) : x % n = x
    OBVIOUS
  <2> QED
    BY <1>6, <1>7, <2>1
<1>9. v2 = w2
  BY <1>6, <1>7, <1>8, DivSame
<1>10. v1 = w1
  BY <1>5, <1>7, <1>9, DivSame
<1> QED
  BY <1>2, <1>4, <1>7, <1>10, DivSame
-----------------------------------------------------------------------------
\* A table of the level, or none.
IsAt(lev, x, level) == x = NotPresent \/ (x \in TablePages /\ lev[x] = level)

\* An entry leads one level down, or nowhere.
LEMMA FollowDown ==
  ASSUME NEW s, NEW lev, Levelled(s.table, s.pool, lev), NEW v \in AddrSpace, NEW level \in 1 .. 3,
         NEW x, IsAt(lev, x, level)
  PROVE  IsAt(lev, Follow(s, x, v, level), level - 1)
<1>1. virt_to_indices(v, level) \in Entries
  BY IndexType
<1> QED
  BY <1>1, PagingConstants DEF Follow, IsAt, Levelled

\* Along the way of an address the levels go down one by one.
LEMMA ChainLevels ==
  ASSUME NEW s, NEW lev, Levelled(s.table, s.pool, lev), NEW v \in AddrSpace
  PROVE  /\ IsAt(lev, BootTable, 3) /\ IsAt(lev, Follow(s, BootTable, v, 3), 2)
         /\ IsAt(lev, Follow(s, Follow(s, BootTable, v, 3), v, 2), 1) /\ IsAt(lev, LeafTable(s, v), 0)
<1>1. PICK a2, a1 : a2 = Follow(s, BootTable, v, 3) /\ a1 = Follow(s, a2, v, 2)
  OBVIOUS
<1>2. IsAt(lev, BootTable, 3)
  BY PagingConstants DEF IsAt, Levelled
<1>3. IsAt(lev, a2, 2)
  <2>1. IsAt(lev, Follow(s, BootTable, v, 3), 3 - 1)
    BY <1>2, FollowDown
  <2> QED
    BY <1>1, <2>1
<1>4. IsAt(lev, a1, 1)
  <2>1. IsAt(lev, Follow(s, a2, v, 2), 2 - 1)
    BY <1>3, FollowDown
  <2> QED
    BY <1>1, <2>1
<1>5. IsAt(lev, LeafTable(s, v), 0)
  <2>1. IsAt(lev, Follow(s, a1, v, 1), 1 - 1)
    BY <1>4, FollowDown
  <2> QED
    BY <1>1, <2>1 DEF LeafTable
<1> QED
  BY <1>1, <1>2, <1>3, <1>4, <1>5

\* Addresses that share an entry share the way to it.
LEMMA SameEntry ==
  ASSUME NEW s, NEW lev, Levelled(s.table, s.pool, lev), UsedOnce(s.table, s.pool, lev),
         NEW v \in AddrSpace, NEW w \in AddrSpace, NEW level \in 1 .. 3,
         NEW x, IsAt(lev, x, level), NEW y, IsAt(lev, y, level),
         Follow(s, x, v, level) = Follow(s, y, w, level), Follow(s, x, v, level) # NotPresent
  PROVE  x = y /\ x # NotPresent /\ virt_to_indices(v, level) = virt_to_indices(w, level)
<1>1. PICK i \in Entries, j \in Entries : i = virt_to_indices(v, level) /\ j = virt_to_indices(w, level)
  BY IndexType
<1>2. x \in TablePages /\ y \in TablePages /\ lev[x] = level /\ lev[y] = level
  <2>1. x \in TablePages
    BY DEF Follow
  <2>2. y \in TablePages
    BY DEF Follow
  <2> QED
    BY <2>1, <2>2, PagingConstants DEF IsAt
<1>3. s.table[x][i] = s.table[y][j] /\ s.table[x][i] # NotPresent
  BY <1>1, <1>2 DEF Follow
<1>4. s.table[x][i] \in Pool
  BY <1>2, <1>3 DEF Levelled
<1>5. x = y /\ i = j
  <2>1. PageOf(s.table[x][i]) = PageOf(s.table[y][j]) /\ PageOf(s.table[x][i]) \in Pool
    BY <1>3, <1>4, EntryPages
  <2> QED
    BY <1>2, <2>1 DEF UsedOnce
<1> QED
  BY <1>1, <1>2, <1>5, PagingConstants

\* Two addresses in the same entry of the lowest level are the same.
LEMMA SameLeaf ==
  ASSUME NEW s, NEW lev, Levelled(s.table, s.pool, lev), UsedOnce(s.table, s.pool, lev),
         NEW v \in AddrSpace, NEW w \in AddrSpace, LeafTable(s, v) # NotPresent,
         LeafTable(s, v) = LeafTable(s, w), virt_to_indices(v, 0) = virt_to_indices(w, 0)
  PROVE  v = w
<1>1. PICK a2, a1 : a2 = Follow(s, BootTable, v, 3) /\ a1 = Follow(s, a2, v, 2)
  OBVIOUS
<1>2. PICK b2, b1 : b2 = Follow(s, BootTable, w, 3) /\ b1 = Follow(s, b2, w, 2)
  OBVIOUS
<1>3. IsAt(lev, BootTable, 3) /\ IsAt(lev, a2, 2) /\ IsAt(lev, a1, 1) /\ IsAt(lev, b2, 2) /\ IsAt(lev, b1, 1)
  BY <1>1, <1>2, ChainLevels
<1>4. Follow(s, a1, v, 1) = Follow(s, b1, w, 1) /\ Follow(s, a1, v, 1) # NotPresent
  BY <1>1, <1>2 DEF LeafTable
<1>5. a1 = b1 /\ a1 # NotPresent /\ virt_to_indices(v, 1) = virt_to_indices(w, 1)
  BY <1>3, <1>4, SameEntry
<1>6. a2 = b2 /\ a2 # NotPresent /\ virt_to_indices(v, 2) = virt_to_indices(w, 2)
  <2>1. Follow(s, a2, v, 2) = Follow(s, b2, w, 2) /\ Follow(s, a2, v, 2) # NotPresent
    BY <1>1, <1>2, <1>5
  <2> QED
    BY <1>3, <2>1, SameEntry
<1>7. virt_to_indices(v, 3) = virt_to_indices(w, 3)
  <2>1. Follow(s, BootTable, v, 3) = Follow(s, BootTable, w, 3) /\ Follow(s, BootTable, v, 3) # NotPresent
    BY <1>1, <1>2, <1>6
  <2> QED
    BY <1>3, <2>1, SameEntry
<1>8. \A level \in 0 .. 3 : virt_to_indices(v, level) = virt_to_indices(w, level)
  BY <1>5, <1>6, <1>7
<1> QED
  BY <1>8, IndicesTell
-----------------------------------------------------------------------------
\* The table of a level on the way of an address.
WayTo(s, v, level) ==
    CASE level = 3 -> BootTable
      [] level = 2 -> Follow(s, BootTable, v, 3)
      [] level = 1 -> Follow(s, Follow(s, BootTable, v, 3), v, 2)
      [] level = 0 -> LeafTable(s, v)

\* One more step along the way of an address.
LEMMA WayDown ==
  ASSUME NEW s, NEW v, NEW level \in 1 .. 3
  PROVE  WayTo(s, v, level - 1) = Follow(s, WayTo(s, v, level), v, level)
<1>1. CASE level = 3
  BY <1>1 DEF WayTo
<1>2. CASE level = 2
  BY <1>2 DEF WayTo
<1>3. CASE level = 1
  BY <1>3 DEF WayTo, LeafTable
<1> QED
  BY <1>1, <1>2, <1>3

\* What the way of an address meets at a level is a table of that level, or none.
LEMMA WayLevels ==
  ASSUME NEW s, NEW lev, Levelled(s.table, s.pool, lev), NEW v \in AddrSpace, NEW level \in 0 .. 3
  PROVE  IsAt(lev, WayTo(s, v, level), level)
<1>1. CASE level = 3
  BY <1>1, ChainLevels DEF WayTo
<1>2. CASE level = 2
  BY <1>2, ChainLevels DEF WayTo
<1>3. CASE level = 1
  BY <1>3, ChainLevels DEF WayTo
<1>4. CASE level = 0
  BY <1>4, ChainLevels DEF WayTo
<1> QED
  BY <1>1, <1>2, <1>3, <1>4

\* What allocate_page_table does to the tables.
NewTable(tb, tc, t, i, p) ==
    /\ tc \in [TablePages -> [Entries -> Int]] /\ tc[t][i] = p
    /\ \A j \in Entries : tc[p][j] = NotPresent
    /\ \A u \in TablePages, j \in Entries : u # p /\ (u # t \/ j # i) => tc[u][j] = tb[u][j]

\* What allocate_page_table returns, and what it does to the pool and the tables.
LEMMA AllocIs ==
  ASSUME NEW s \in PagingStates, s.pool # {}, NEW t \in TablePages \ s.pool, NEW i \in Entries,
         NEW p, p = Min(s.pool), NEW z, z = allocate_page_table(s, t, i)
  PROVE  /\ p \in s.pool /\ z \in PagingStates
         /\ z.pool = s.pool \ {p} /\ z.ref = s.ref /\ z.vmalloc_next = s.vmalloc_next /\ z.ok = s.ok
         /\ NewTable(s.table, z.table, t, i, p)
<1>1. p \in s.pool
  <2>1. s.pool \in SUBSET Nat
    BY PagingConstants DEF PagingStates
  <2>2. PICK m \in s.pool : \A k \in s.pool : m <= k
    BY <2>1, LeastElement
  <2> QED
    BY <2>2 DEF Min
<1>2. p \in Pool /\ p \in TablePages /\ p # t /\ p \in Int
  BY <1>1, PagingConstants DEF PagingStates
<1>3. PICK tc : tc = [s.table EXCEPT ![p] = [j \in Entries |-> NotPresent], ![t][i] = p]
  OBVIOUS
<1>4. z = [s EXCEPT !.pool = s.pool \ {p}, !.table = tc]
  BY <1>3 DEF allocate_page_table
<1>5. s.table \in [TablePages -> [Entries -> Int]]
  BY DEF PagingStates
<1>6. tc \in [TablePages -> [Entries -> Int]]
  BY <1>2, <1>3, <1>5, PagingConstants
<1>7. NewTable(s.table, tc, t, i, p)
  BY <1>2, <1>3, <1>5, <1>6 DEF NewTable
<1>8. z.pool = s.pool \ {p} /\ z.ref = s.ref /\ z.vmalloc_next = s.vmalloc_next /\ z.ok = s.ok /\ z.table = tc
  BY <1>4 DEF PagingStates
<1>9. z \in PagingStates
  BY <1>4, <1>6 DEF PagingStates
<1> QED
  BY <1>1, <1>7, <1>8, <1>9

\* With the new table an entry leads where it led, or to the new table from nowhere.
Led(x, y, p) == y = x \/ (x = NotPresent /\ y = p)

\* A new table takes no entry from where it led.
LEMMA AllocLeads ==
  ASSUME NEW s, NEW z, NEW lev, Levelled(s.table, s.pool, lev), NEW p \in s.pool, p \in Pool, NEW t \in TablePages,
         NEW i \in Entries, lev[t] \in 1 .. 3, s.table[t][i] = NotPresent, NewTable(s.table, z.table, t, i, p),
         NEW v \in AddrSpace, NEW level \in 0 .. 3, NEW x, NEW y, IsAt(lev, x, level), Led(x, y, p)
  PROVE  Led(Follow(s, x, v, level), Follow(z, y, v, level), p) /\ (level = 0 => Follow(s, x, v, level) = Follow(z, y, v, level))
<1>1. PICK j \in Entries : j = virt_to_indices(v, level)
  BY IndexType
<1>2. CASE x = NotPresent /\ y = p
  <2>1. Follow(s, x, v, level) = NotPresent
    BY <1>2, PagingConstants DEF Follow
  <2>2. Follow(z, y, v, level) = NotPresent
    BY <1>1, <1>2, PagingConstants DEF Follow, NewTable
  <2> QED
    BY <2>1, <2>2 DEF Led
<1>3. CASE y = x /\ x = NotPresent
  <2>1. Follow(s, x, v, level) = NotPresent /\ Follow(z, y, v, level) = NotPresent
    BY <1>3, PagingConstants DEF Follow
  <2> QED
    BY <2>1 DEF Led
<1>4. CASE y = x /\ x # NotPresent
  <2>1. x \in TablePages /\ lev[x] = level /\ x # p
    BY <1>4, PagingConstants DEF IsAt, Levelled
  <2>2. Follow(s, x, v, level) = s.table[x][j] /\ Follow(z, y, v, level) = z.table[x][j]
    BY <1>1, <1>4, <2>1 DEF Follow
  <2>3. CASE x = t /\ j = i
    <3>1. level # 0
      BY <2>1, <2>3
    <3> QED
      BY <2>2, <2>3, <3>1 DEF Led, NewTable
  <2>4. CASE ~(x = t /\ j = i)
    BY <2>1, <2>2, <2>4 DEF Led, NewTable
  <2> QED
    BY <2>3, <2>4
<1> QED
  BY <1>2, <1>3, <1>4 DEF Led

\* A new table changes no way that was complete.
LEMMA AllocWays ==
  ASSUME NEW s, NEW z, NEW lev, Levelled(s.table, s.pool, lev), NEW p \in s.pool, p \in Pool, NEW t \in TablePages,
         NEW i \in Entries, lev[t] \in 1 .. 3, s.table[t][i] = NotPresent, NewTable(s.table, z.table, t, i, p),
         NEW v \in AddrSpace
  PROVE  /\ \A level \in 0 .. 3 : Led(WayTo(s, v, level), WayTo(z, v, level), p)
         /\ Entry(z, v) = Entry(s, v)
<1>0. ASSUME NEW level \in 1 .. 3, Led(WayTo(s, v, level), WayTo(z, v, level), p)
      PROVE  Led(WayTo(s, v, level - 1), WayTo(z, v, level - 1), p)
  <2>1. PICK x, y : x = WayTo(s, v, level) /\ y = WayTo(z, v, level)
    OBVIOUS
  <2>2. IsAt(lev, x, level) /\ Led(x, y, p)
    BY <1>0, <2>1, WayLevels
  <2>3. Led(Follow(s, x, v, level), Follow(z, y, v, level), p)
    BY <2>2, AllocLeads
  <2> QED
    BY <2>1, <2>3, WayDown
<1>1. Led(WayTo(s, v, 3), WayTo(z, v, 3), p)
  BY DEF WayTo, Led
<1>2. Led(WayTo(s, v, 2), WayTo(z, v, 2), p)
  <2>1. Led(WayTo(s, v, 3 - 1), WayTo(z, v, 3 - 1), p)
    BY <1>0, <1>1
  <2> QED
    BY <2>1
<1>3. Led(WayTo(s, v, 1), WayTo(z, v, 1), p)
  <2>1. Led(WayTo(s, v, 2 - 1), WayTo(z, v, 2 - 1), p)
    BY <1>0, <1>2
  <2> QED
    BY <2>1
<1>4. Led(WayTo(s, v, 0), WayTo(z, v, 0), p)
  <2>1. Led(WayTo(s, v, 1 - 1), WayTo(z, v, 1 - 1), p)
    BY <1>0, <1>3
  <2> QED
    BY <2>1
<1>5. Entry(z, v) = Entry(s, v)
  <2>1. PICK x, y : x = LeafTable(s, v) /\ y = LeafTable(z, v)
    OBVIOUS
  <2>0. WayTo(s, v, 0) = x /\ WayTo(z, v, 0) = y
    BY <2>1 DEF WayTo
  <2>2. IsAt(lev, x, 0) /\ Led(x, y, p)
    BY <1>4, <2>0, WayLevels
  <2>3. Follow(s, x, v, 0) = Follow(z, y, v, 0)
    BY <2>2, AllocLeads
  <2> QED
    BY <2>1, <2>3 DEF Entry
<1> QED
  BY <1>1, <1>2, <1>3, <1>4, <1>5

\* What an entry may be given: a caller's page, or one of the allocator's that is in no
\* entry and not free.
MayMap(s, lev, q) ==
    q \in Nat /\ (PageOf(q) \in Pool => PageOf(q) \notin s.pool /\ Unused(s.table, lev, PageOf(q)))

\* A new table keeps the levels and the single use of every page.
LEMMA AllocKeeps ==
  ASSUME NEW s, NEW lev, PagingOk(s, lev), s.pool # {}, NEW t \in TablePages, NEW i \in Entries,
         lev[t] \in 1 .. 3, s.table[t][i] = NotPresent, NEW q, MayMap(s, lev, q),
         NEW z, z = allocate_page_table(s, t, i)
  PROVE  /\ \E lex : PagingOk(z, lex) /\ MayMap(z, lex, q)
         /\ z.ref = s.ref
         /\ \A v \in AddrSpace, level \in 0 .. 3 :
               WayTo(s, v, level) # NotPresent => WayTo(z, v, level) = WayTo(s, v, level)
<1>0. s \in PagingStates /\ Levelled(s.table, s.pool, lev) /\ UsedOnce(s.table, s.pool, lev)
  BY DEF PagingOk
<1>1. PICK p : p = Min(s.pool)
  OBVIOUS
<1>2. t \in TablePages \ s.pool
  BY <1>0 DEF Levelled
<1>3. /\ p \in s.pool /\ z \in PagingStates
      /\ z.pool = s.pool \ {p} /\ z.ref = s.ref /\ NewTable(s.table, z.table, t, i, p)
  BY <1>0, <1>1, <1>2, AllocIs
<1>4. p \in Pool /\ p \in TablePages /\ p # t /\ p # BootTable /\ lev[p] = 4 /\ p # PageOf(q)
  BY <1>0, <1>2, <1>3, PagingConstants DEF PagingStates, Levelled, MayMap
<1>5. PICK lex : lex = [lev EXCEPT ![p] = lev[t] - 1]
  OBVIOUS
<1>6. PICK tb, tc : tb = s.table /\ tc = z.table
  OBVIOUS
<1>7. lev \in [TablePages -> 0 .. 4]
  BY <1>0 DEF Levelled
<1>8. lex \in [TablePages -> 0 .. 4] /\ lex[p] = lev[t] - 1 /\ \A u \in TablePages : u # p => lex[u] = lev[u]
  BY <1>4, <1>5, <1>7
<1>9. Levelled(tc, z.pool, lex)
  <2>1. \A u \in TablePages : lex[u] = 3 <=> u = BootTable
    <3>1. lex[p] # 3
      BY <1>8
    <3> QED
      BY <1>0, <1>4, <1>8, <3>1 DEF Levelled
  <2>2. \A u \in z.pool : lex[u] = 4
    BY <1>0, <1>3, <1>8, PagingConstants DEF Levelled, PagingStates
  <2>3. ASSUME NEW u \in TablePages, NEW j \in Entries, lex[u] \in 1 .. 3
        PROVE  tc[u][j] = NotPresent \/ (tc[u][j] \in Pool /\ lex[tc[u][j]] = lex[u] - 1)
    <3>1. CASE u = p
      BY <1>3, <1>6, <3>1 DEF NewTable
    <3>2. CASE u = t /\ j = i
      BY <1>3, <1>4, <1>6, <1>8, <3>2 DEF NewTable
    <3>3. CASE u # p /\ ~(u = t /\ j = i)
      <4>1. tc[u][j] = tb[u][j]
        BY <1>3, <1>6, <3>3 DEF NewTable
      <4>2. lev[u] = lex[u]
        BY <1>8, <3>3
      <4>3. tb[u][j] = NotPresent \/ (tb[u][j] \in Pool /\ lev[tb[u][j]] = lev[u] - 1)
        BY <1>0, <1>6, <2>3, <4>2 DEF Levelled
      <4>4. CASE tb[u][j] \in Pool /\ lev[tb[u][j]] = lev[u] - 1
        <5>1. lev[tb[u][j]] # 4 /\ tb[u][j] # p
          BY <1>4, <2>3, <4>2, <4>4
        <5>2. tb[u][j] \in TablePages
          BY <4>4, PagingConstants
        <5>3. lex[tb[u][j]] = lev[tb[u][j]]
          BY <1>8, <5>1, <5>2
        <5> QED
          BY <4>1, <4>2, <4>4, <5>3
      <4> QED
        BY <4>1, <4>3, <4>4
    <3> QED
      BY <3>1, <3>2, <3>3
  <2> QED
    BY <1>8, <2>1, <2>2, <2>3 DEF Levelled
<1>10. ASSUME NEW u \in TablePages, NEW j \in Entries, lex[u] # 4
       PROVE  (u = t /\ j = i /\ tc[u][j] = p) \/ tc[u][j] = NotPresent
                \/ (lev[u] # 4 /\ u # p /\ tc[u][j] = tb[u][j] /\ PageOf(tb[u][j]) # p)
  <2>1. CASE u = p
    BY <1>3, <1>6, <2>1 DEF NewTable
  <2>2. CASE u = t /\ j = i
    BY <1>3, <1>6, <2>2 DEF NewTable
  <2>3. CASE u # p /\ ~(u = t /\ j = i)
    <3>1. tc[u][j] = tb[u][j] /\ lev[u] = lex[u]
      BY <1>3, <1>6, <1>8, <2>3 DEF NewTable
    <3>2. PageOf(tb[u][j]) # p
      BY <1>0, <1>3, <1>6, <1>10, <3>1 DEF UsedOnce
    <3> QED
      BY <1>10, <2>3, <3>1, <3>2
  <2> QED
    BY <2>1, <2>2, <2>3
<1>11. UsedOnce(tc, z.pool, lex)
  <2>1. ASSUME NEW u \in TablePages, NEW j \in Entries, lex[u] # 4
        PROVE  PageOf(tc[u][j]) \notin z.pool
    <3>1. PageOf(NotPresent) \notin z.pool /\ PageOf(p) = p
      BY <1>3, <1>4, PagingConstants, EntryPages DEF PagingStates
    <3>2. lev[u] # 4 => PageOf(tb[u][j]) \notin s.pool
      BY <1>0, <1>6 DEF UsedOnce
    <3> QED
      BY <1>3, <1>10, <2>1, <3>1, <3>2
  <2>2. ASSUME NEW u \in TablePages, NEW x \in TablePages, NEW j \in Entries, NEW k \in Entries,
               lex[u] # 4, lex[x] # 4, PageOf(tc[u][j]) = PageOf(tc[x][k]), PageOf(tc[u][j]) \in Pool
        PROVE  u = x /\ j = k
    <3>0. PageOf(NotPresent) \notin Pool /\ PageOf(p) = p
      BY <1>4, PagingConstants, EntryPages
    <3>1. (u = t /\ j = i /\ tc[u][j] = p) \/ (lev[u] # 4 /\ tc[u][j] = tb[u][j] /\ PageOf(tb[u][j]) # p)
      BY <1>10, <2>2, <3>0
    <3>2. (x = t /\ k = i /\ tc[x][k] = p) \/ (lev[x] # 4 /\ tc[x][k] = tb[x][k] /\ PageOf(tb[x][k]) # p)
      BY <1>10, <2>2, <3>0
    <3>3. CASE PageOf(tc[u][j]) = p
      BY <2>2, <3>0, <3>1, <3>2, <3>3
    <3>4. CASE PageOf(tc[u][j]) # p
      <4>1. lev[u] # 4 /\ lev[x] # 4 /\ PageOf(tb[u][j]) = PageOf(tb[x][k]) /\ PageOf(tb[u][j]) \in Pool
        BY <2>2, <3>0, <3>1, <3>2, <3>4
      <4> QED
        BY <1>0, <1>6, <4>1 DEF UsedOnce
    <3> QED
      BY <3>3, <3>4
  <2> QED
    BY <2>1, <2>2 DEF UsedOnce
<1>12. MayMap(z, lex, q)
  <2>1. ASSUME PageOf(q) \in Pool PROVE Unused(tc, lex, PageOf(q))
    <3>1. Unused(tb, lev, PageOf(q))
      BY <1>6, <2>1 DEF MayMap
    <3>2. PageOf(q) # PageOf(NotPresent) /\ PageOf(p) = p
      BY <1>4, <2>1, PagingConstants, EntryPages
    <3> QED
      BY <1>4, <1>10, <3>1, <3>2 DEF Unused
  <2> QED
    BY <1>3, <1>6, <2>1 DEF MayMap
<1>13. ASSUME NEW v \in AddrSpace
       PROVE  /\ \A level \in 0 .. 3 : Led(WayTo(s, v, level), WayTo(z, v, level), p)
              /\ Entry(z, v) = Entry(s, v)
  BY <1>0, <1>3, <1>4, AllocWays
<1>14. \A v \in AddrSpace : z.ref[v] = Entry(z, v)
  BY <1>3, <1>13 DEF PagingOk
<1>15. PagingOk(z, lex)
  BY <1>3, <1>6, <1>9, <1>11, <1>14 DEF PagingOk
<1> QED
  BY <1>3, <1>12, <1>13, <1>15 DEF Led

\* The page of the walk is the way's, or none.
Walked(w, v, level) == w.at = NotPresent \/ w.at = WayTo(w.s, v, level)

\* One turn of the walk of map_page, with the table it may have to make.
LEMMA DownOneKeeps ==
  ASSUME NEW w, NEW lev, PagingOk(w.s, lev), NEW q, MayMap(w.s, lev, q), NEW v \in AddrSpace,
         NEW level \in 1 .. 3, Walked(w, v, level), w = [s |-> w.s, at |-> w.at], NEW x, x = DownOne(w, v, level)
  PROVE  /\ \E lex : PagingOk(x.s, lex) /\ MayMap(x.s, lex, q)
         /\ x.s.ref = w.s.ref /\ Walked(x, v, level - 1) /\ x = [s |-> x.s, at |-> x.at]
<1>1. PICK s, t, i : s = w.s /\ t = w.at /\ i = virt_to_indices(v, level) /\ i \in Entries
  BY IndexType
<1>2. CASE t \notin TablePages \/ (s.table[t][i] = NotPresent /\ s.pool = {})
  <2>1. x = [w EXCEPT !.at = NotPresent]
    BY <1>1, <1>2 DEF DownOne
  <2>2. x.s = w.s /\ x.at = NotPresent /\ x = [s |-> x.s, at |-> x.at]
    BY <2>1
  <2> QED
    BY <2>2 DEF Walked
<1>3. CASE t \in TablePages /\ ~(s.table[t][i] = NotPresent /\ s.pool = {})
  <2>1. t = WayTo(s, v, level) /\ lev[t] = level
    <3>1. t = WayTo(s, v, level)
      BY <1>1, <1>3, PagingConstants DEF Walked
    <3>2. IsAt(lev, t, level)
      BY <1>1, <3>1, WayLevels DEF PagingOk
    <3> QED
      BY <1>3, <3>1, <3>2, PagingConstants DEF IsAt
  <2>2. CASE s.table[t][i] # NotPresent
    <3>1. x = [s |-> s, at |-> s.table[t][i]]
      BY <1>1, <1>3, <2>2 DEF DownOne
    <3>2. WayTo(s, v, level - 1) = Follow(s, t, v, level)
      BY <2>1, WayDown
    <3>3. Follow(s, t, v, level) = s.table[t][i]
      BY <1>1, <1>3 DEF Follow
    <3> QED
      BY <1>1, <3>1, <3>2, <3>3 DEF Walked
  <2>3. CASE s.table[t][i] = NotPresent
    <3>1. PICK z : z = allocate_page_table(s, t, i)
      OBVIOUS
    <3>2. x = [s |-> z, at |-> z.table[t][i]]
      BY <1>1, <1>3, <2>3, <3>1 DEF DownOne
    <3>3. /\ \E lex : PagingOk(z, lex) /\ MayMap(z, lex, q)
          /\ z.ref = s.ref
          /\ \A vv \in AddrSpace, ll \in 0 .. 3 :
                WayTo(s, vv, ll) # NotPresent => WayTo(z, vv, ll) = WayTo(s, vv, ll)
      BY <1>1, <1>3, <2>1, <2>3, <3>1, AllocKeeps
    <3>4. WayTo(z, v, level) = t
      BY <1>3, <2>1, <3>3, PagingConstants
    <3>5. WayTo(z, v, level - 1) = Follow(z, t, v, level)
      BY <3>4, WayDown
    <3>6. Follow(z, t, v, level) = z.table[t][i]
      BY <1>1, <1>3 DEF Follow
    <3> QED
      BY <1>1, <3>2, <3>3, <3>5, <3>6 DEF Walked
  <2> QED
    BY <2>2, <2>3
<1> QED
  BY <1>2, <1>3

\* Pages that leave the pool, vmalloc_next and ok have nothing to do with the tables.
LEMMA FewerFree ==
  ASSUME NEW s, NEW lev, PagingOk(s, lev), NEW z \in PagingStates, z.table = s.table, z.ref = s.ref,
         z.pool \subseteq s.pool
  PROVE  /\ PagingOk(z, lev) /\ z \in GoodPaging
         /\ \A p \in s.pool, nx \in BOOLEAN : p \notin z.pool => MayMap(z, lev, make_pte(p, nx))
<1>1. Levelled(z.table, z.pool, lev)
  BY DEF PagingOk, Levelled
<1>2. UsedOnce(z.table, z.pool, lev)
  BY DEF PagingOk, UsedOnce
<1>3. \A v \in AddrSpace : Entry(z, v) = Entry(s, v)
  BY DEF Entry, LeafTable, Follow
<1>4. PagingOk(z, lev)
  BY <1>1, <1>2, <1>3 DEF PagingOk
<1>5. \A p \in s.pool, nx \in BOOLEAN : p \notin z.pool => MayMap(z, lev, make_pte(p, nx))
  <2>1. ASSUME NEW p \in s.pool, NEW nx \in BOOLEAN, p \notin z.pool PROVE MayMap(z, lev, make_pte(p, nx))
    <3>1. p \in PageNumbers
      BY EntryPages DEF PagingOk, PagingStates
    <3>2. PICK q : q = make_pte(p, nx) /\ q \in Nat /\ PageOf(q) = p
      BY <3>1, EntryPages
    <3>3. Unused(z.table, lev, p)
      BY <2>1 DEF PagingOk, UsedOnce, Unused
    <3> QED
      BY <2>1, <3>2, <3>3 DEF MayMap
  <2> QED
    BY <2>1
<1> QED
  BY <1>4, <1>5 DEF GoodPaging

\* The last entry of the way of an address is written.
LEMMA LeafWritten ==
  ASSUME NEW s, NEW lev, PagingOk(s, lev), NEW v \in AddrSpace, NEW t, t = LeafTable(s, v), t # NotPresent,
         NEW i, i = virt_to_indices(v, 0), NEW q, q = NotPresent \/ MayMap(s, lev, q), NEW z \in PagingStates, z.pool = s.pool,
         z.table = [s.table EXCEPT ![t][i] = q], z.ref = [s.ref EXCEPT ![v] = q]
  PROVE  z \in GoodPaging
<1>1. s \in PagingStates /\ Levelled(s.table, s.pool, lev) /\ UsedOnce(s.table, s.pool, lev)
  BY DEF PagingOk
<1>2. i \in Entries /\ t \in TablePages /\ lev[t] = 0
  BY <1>1, IndexType, ChainLevels DEF IsAt
<1>3. PICK tb, tc : tb = s.table /\ tc = z.table /\ tb \in [TablePages -> [Entries -> Int]]
  BY <1>1 DEF PagingStates
<1>4. tc[t][i] = q /\ \A u \in TablePages, j \in Entries : ~(u = t /\ j = i) => tc[u][j] = tb[u][j]
  BY <1>2, <1>3
<1>5. Levelled(tc, z.pool, lev)
  <2>1. ASSUME NEW u \in TablePages, NEW j \in Entries, lev[u] \in 1 .. 3
        PROVE  tc[u][j] = NotPresent \/ (tc[u][j] \in Pool /\ lev[tc[u][j]] = lev[u] - 1)
    <3>1. u # t
      BY <1>2, <2>1
    <3>2. tc[u][j] = tb[u][j]
      BY <1>4, <3>1
    <3> QED
      BY <1>1, <1>3, <2>1, <3>2 DEF Levelled
  <2> QED
    BY <1>1, <2>1 DEF Levelled
<1>6. PageOf(q) \notin z.pool
  BY <1>1, PagingConstants, EntryPages DEF MayMap, PagingStates
<1>7. UsedOnce(tc, z.pool, lev)
  <2>1. ASSUME NEW u \in TablePages, NEW j \in Entries, lev[u] # 4
        PROVE  PageOf(tc[u][j]) \notin z.pool
    BY <1>1, <1>3, <1>4, <1>6, <2>1 DEF UsedOnce
  <2>2. ASSUME NEW u \in TablePages, NEW x \in TablePages, NEW j \in Entries, NEW k \in Entries,
               lev[u] # 4, lev[x] # 4, PageOf(tc[u][j]) = PageOf(tc[x][k]), PageOf(tc[u][j]) \in Pool
        PROVE  u = x /\ j = k
    <3>1. PageOf(q) \in Pool => Unused(tb, lev, PageOf(q))
      BY <1>3, PagingConstants, EntryPages DEF MayMap
    <3>2. PageOf(q) \in Pool => PageOf(tb[u][j]) # PageOf(q) /\ PageOf(tb[x][k]) # PageOf(q)
      BY <2>2, <3>1 DEF Unused
    <3>3. CASE u = t /\ j = i
      BY <1>4, <2>2, <3>2, <3>3
    <3>4. CASE x = t /\ k = i
      BY <1>4, <2>2, <3>2, <3>4
    <3>5. CASE ~(u = t /\ j = i) /\ ~(x = t /\ k = i)
      <4>1. PageOf(tb[u][j]) = PageOf(tb[x][k]) /\ PageOf(tb[u][j]) \in Pool
        BY <1>4, <2>2, <3>5
      <4> QED
        BY <1>1, <1>3, <2>2, <4>1 DEF UsedOnce
    <3> QED
      BY <3>3, <3>4, <3>5
  <2> QED
    BY <2>1, <2>2 DEF UsedOnce
<1>8. ASSUME NEW w \in AddrSpace, NEW level \in 1 .. 3, NEW x, IsAt(lev, x, level)
      PROVE  Follow(z, x, w, level) = Follow(s, x, w, level)
  <2>1. virt_to_indices(w, level) \in Entries
    BY IndexType
  <2>2. x # t
    BY <1>2, <1>8, PagingConstants DEF IsAt
  <2> QED
    BY <1>3, <1>4, <2>1, <2>2 DEF Follow
<1>9. ASSUME NEW w \in AddrSpace PROVE LeafTable(z, w) = LeafTable(s, w)
  <2>1. PICK a2, a1 : a2 = Follow(s, BootTable, w, 3) /\ a1 = Follow(s, a2, w, 2)
    OBVIOUS
  <2>2. IsAt(lev, BootTable, 3) /\ IsAt(lev, a2, 2) /\ IsAt(lev, a1, 1)
    BY <1>1, <2>1, ChainLevels
  <2>3. Follow(z, BootTable, w, 3) = a2 /\ Follow(z, a2, w, 2) = a1 /\ Follow(z, a1, w, 1) = Follow(s, a1, w, 1)
    BY <1>8, <2>1, <2>2
  <2> QED
    BY <2>1, <2>3 DEF LeafTable
<1>10. ASSUME NEW w \in AddrSpace PROVE z.ref[w] = Entry(z, w)
  <2>1. PICK u, j : u = LeafTable(s, w) /\ j = virt_to_indices(w, 0) /\ j \in Entries
    BY IndexType
  <2>2. Entry(z, w) = (IF u \notin TablePages THEN NotPresent ELSE tc[u][j])
    BY <1>3, <1>9, <2>1 DEF Entry, Follow
  <2>3. Entry(s, w) = (IF u \notin TablePages THEN NotPresent ELSE tb[u][j])
    BY <1>3, <2>1 DEF Entry, Follow
  <2>4. s.ref[w] = Entry(s, w) /\ s.ref \in [AddrSpace -> Int]
    BY <1>1 DEF PagingOk, PagingStates
  <2>5. CASE w = v
    BY <1>2, <1>4, <2>1, <2>2, <2>4, <2>5
  <2>6. CASE w # v
    <3>1. ~(u = t /\ j = i)
      BY <1>1, <2>1, <2>6, SameLeaf
    <3>2. z.ref[w] = s.ref[w]
      BY <2>4, <2>6
    <3>3. u \in TablePages => tc[u][j] = tb[u][j]
      BY <1>4, <2>1, <3>1
    <3> QED
      BY <2>2, <2>3, <2>4, <3>2, <3>3
  <2> QED
    BY <2>5, <2>6
<1> QED
  BY <1>3, <1>5, <1>7, <1>10 DEF PagingOk, GoodPaging

\* map_page, the failure for want of a table included.
LEMMA MapPageKeeps ==
  ASSUME NEW s, NEW lev, PagingOk(s, lev), NEW v \in AddrSpace, NEW p, NEW nx,
         NEW q, q = make_pte(p, nx), MayMap(s, lev, q)
  PROVE  MapPage(s, v, p, nx) \in GoodPaging
<1>1. PICK w3, w2, w1, w0 : /\ w3 = [s |-> s, at |-> BootTable] /\ w2 = DownOne(w3, v, 3)
                            /\ w1 = DownOne(w2, v, 2) /\ w0 = DownOne(w1, v, 1)
  OBVIOUS
<1>2. w3.s = s /\ w3 = [s |-> w3.s, at |-> w3.at] /\ Walked(w3, v, 3)
  BY <1>1 DEF Walked, WayTo
<1>3. /\ \E lex : PagingOk(w2.s, lex) /\ MayMap(w2.s, lex, q)
      /\ Walked(w2, v, 2) /\ w2 = [s |-> w2.s, at |-> w2.at]
  <2>1. PagingOk(w3.s, lev) /\ MayMap(w3.s, lev, q)
    BY <1>2
  <2>2. /\ \E lex : PagingOk(w2.s, lex) /\ MayMap(w2.s, lex, q)
        /\ Walked(w2, v, 3 - 1) /\ w2 = [s |-> w2.s, at |-> w2.at]
    BY <1>1, <1>2, <2>1, DownOneKeeps
  <2> QED
    BY <2>2
<1>4. /\ \E lex : PagingOk(w1.s, lex) /\ MayMap(w1.s, lex, q)
      /\ Walked(w1, v, 1) /\ w1 = [s |-> w1.s, at |-> w1.at]
  <2>1. PICK lex : PagingOk(w2.s, lex) /\ MayMap(w2.s, lex, q)
    BY <1>3
  <2>2. /\ \E ley : PagingOk(w1.s, ley) /\ MayMap(w1.s, ley, q)
        /\ Walked(w1, v, 2 - 1) /\ w1 = [s |-> w1.s, at |-> w1.at]
    BY <1>1, <1>3, <2>1, DownOneKeeps
  <2> QED
    BY <2>2
<1>5. /\ \E lex : PagingOk(w0.s, lex) /\ MayMap(w0.s, lex, q)
      /\ Walked(w0, v, 0)
  <2>1. PICK lex : PagingOk(w1.s, lex) /\ MayMap(w1.s, lex, q)
    BY <1>4
  <2>2. /\ \E ley : PagingOk(w0.s, ley) /\ MayMap(w0.s, ley, q)
        /\ Walked(w0, v, 1 - 1)
    BY <1>1, <1>4, <2>1, DownOneKeeps
  <2> QED
    BY <2>2
<1>6. PICK lex : PagingOk(w0.s, lex) /\ MayMap(w0.s, lex, q)
  BY <1>5
<1>7. PICK x, t, i : x = w0.s /\ t = w0.at /\ i = virt_to_indices(v, 0)
  OBVIOUS
<1>8. x \in PagingStates /\ PagingOk(x, lex) /\ MayMap(x, lex, q)
  BY <1>6, <1>7 DEF PagingOk
<1>9. PICK m : m = MapPage(s, v, p, nx)
  OBVIOUS
<1>10. CASE t = NotPresent
  <2>1. m = [x EXCEPT !.ok = FALSE]
    BY <1>1, <1>7, <1>9, <1>10 DEF MapPage
  <2>2. m \in PagingStates /\ m.table = x.table /\ m.ref = x.ref /\ m.pool = x.pool
    BY <1>8, <2>1 DEF PagingStates
  <2> QED
    BY <1>8, <1>9, <2>2, FewerFree
<1>11. CASE t # NotPresent
  <2>1. t = LeafTable(x, v) /\ i \in Entries /\ q \in Int
    BY <1>5, <1>7, <1>8, <1>11, IndexType DEF Walked, WayTo, MayMap
  <2>2. t \in TablePages
    BY <1>8, <1>11, <2>1, ChainLevels DEF PagingOk, IsAt
  <2>3. m = [x EXCEPT !.table[t][i] = q, !.ref[v] = q, !.ok = TRUE]
    BY <1>1, <1>7, <1>9, <1>11 DEF MapPage
  <2>4. PICK tc, rc : tc = [x.table EXCEPT ![t][i] = q] /\ rc = [x.ref EXCEPT ![v] = q]
    OBVIOUS
  <2>5. m = [x EXCEPT !.table = tc, !.ref = rc, !.ok = TRUE]
    BY <1>8, <2>3, <2>4 DEF PagingStates
  <2>6. tc \in [TablePages -> [Entries -> Int]] /\ rc \in [AddrSpace -> Int]
    BY <1>8, <2>1, <2>2, <2>4 DEF PagingStates
  <2>7. m \in PagingStates /\ m.pool = x.pool /\ m.table = tc /\ m.ref = rc
    BY <1>8, <2>5, <2>6 DEF PagingStates
  <2>8. m.table = [x.table EXCEPT ![t][i] = q] /\ m.ref = [x.ref EXCEPT ![v] = q]
    BY <2>4, <2>7
  <2> QED
    BY <1>7, <1>8, <1>9, <1>11, <2>1, <2>7, <2>8, LeafWritten
<1> QED
  BY <1>10, <1>11

\* unmap_page.
LEMMA UnmapPageKeeps ==
  ASSUME NEW s, NEW lev, PagingOk(s, lev), NEW v \in AddrSpace
  PROVE  UnmapPage(s, v) \in GoodPaging
<1>1. PICK t, i : t = LeafTable(s, v) /\ i = virt_to_indices(v, 0) /\ i \in Entries
  BY IndexType
<1>2. PICK m : m = UnmapPage(s, v)
  OBVIOUS
<1>3. s \in PagingStates /\ NotPresent \in Int
  BY PagingConstants DEF PagingOk
<1>4. CASE Follow(s, t, v, 0) = NotPresent
  <2>1. m = s
    BY <1>1, <1>2, <1>4 DEF UnmapPage
  <2> QED
    BY <1>2, <1>3, <2>1 DEF GoodPaging
<1>5. CASE Follow(s, t, v, 0) # NotPresent
  <2>1. t \in TablePages /\ t # NotPresent
    BY <1>5, PagingConstants DEF Follow
  <2>2. m = [s EXCEPT !.table[t][i] = NotPresent, !.ref[v] = NotPresent]
    BY <1>1, <1>2, <1>5 DEF UnmapPage
  <2>4. PICK tc, rc : tc = [s.table EXCEPT ![t][i] = NotPresent] /\ rc = [s.ref EXCEPT ![v] = NotPresent]
    OBVIOUS
  <2>5. m = [s EXCEPT !.table = tc, !.ref = rc]
    BY <1>3, <2>2, <2>4 DEF PagingStates
  <2>6. tc \in [TablePages -> [Entries -> Int]] /\ rc \in [AddrSpace -> Int]
    BY <1>1, <1>3, <2>1, <2>4 DEF PagingStates
  <2>7. m \in PagingStates /\ m.pool = s.pool /\ m.table = tc /\ m.ref = rc
    BY <1>3, <2>5, <2>6 DEF PagingStates
  <2>8. m.table = [s.table EXCEPT ![t][i] = NotPresent] /\ m.ref = [s.ref EXCEPT ![v] = NotPresent]
    BY <2>4, <2>7
  <2> QED
    BY <1>1, <1>2, <2>1, <2>7, <2>8, LeafWritten
<1> QED
  BY <1>4, <1>5

\* A page taken from the allocator and mapped, or none left to take.
LEMMA BackPageKeeps ==
  ASSUME NEW s, NEW lev, PagingOk(s, lev), NEW v \in AddrSpace
  PROVE  BackPage(s, v) \in GoodPaging
<1>1. s \in PagingStates
  BY DEF PagingOk
<1>2. PICK m : m = BackPage(s, v)
  OBVIOUS
<1>3. CASE s.pool = {}
  <2>1. m = [s EXCEPT !.ok = FALSE]
    BY <1>2, <1>3 DEF BackPage
  <2>2. m \in PagingStates /\ m.table = s.table /\ m.ref = s.ref /\ m.pool = s.pool
    BY <1>1, <2>1 DEF PagingStates
  <2> QED
    BY <1>2, <2>2, FewerFree
<1>4. CASE s.pool # {}
  <2>1. PICK p, x, y : p = Min(s.pool) /\ x = [s EXCEPT !.pool = s.pool \ {p}] /\ y = MapPage(x, v, p, TRUE)
    OBVIOUS
  <2>2. p \in s.pool
    <3>1. s.pool \in SUBSET Nat
      BY <1>1, PagingConstants DEF PagingStates
    <3>2. PICK k \in s.pool : \A l \in s.pool : k <= l
      BY <1>4, <3>1, LeastElement
    <3> QED
      BY <2>1, <3>2 DEF Min
  <2>3. x \in PagingStates /\ x.table = s.table /\ x.ref = s.ref /\ x.pool = s.pool \ {p}
    BY <1>1, <2>1 DEF PagingStates
  <2>4. PICK q : q = make_pte(p, TRUE) /\ PagingOk(x, lev) /\ MayMap(x, lev, q)
    BY <2>2, <2>3, FewerFree
  <2>5. y \in GoodPaging
    BY <2>1, <2>4, MapPageKeeps
  <2>6. PICK ley : PagingOk(y, ley) /\ y \in PagingStates
    BY <2>5 DEF GoodPaging
  <2>7. m = [y EXCEPT !.ok = TRUE]
    BY <1>2, <1>4, <2>1 DEF BackPage
  <2>8. m \in PagingStates /\ m.table = y.table /\ m.ref = y.ref /\ m.pool = y.pool
    BY <2>6, <2>7 DEF PagingStates
  <2> QED
    BY <1>2, <2>6, <2>8, FewerFree
<1> QED
  BY <1>3, <1>4

\* An address below an address is one.
LEMMA AddrBelow ==
  ASSUME NEW b \in AddrSpace, NEW a \in Nat, a <= b
  PROVE  a \in AddrSpace
<1>1. PICK n \in Nat : n = PTE_COUNT
  BY PagingConstants
<1>2. PICK m : m = n * n * n * n /\ m \in Nat
  BY <1>1
<1>3. AddrSpace = 0 .. (m - 1)
  BY <1>1, <1>2 DEF AddrSpace
<1>4. b \in 0 .. (m - 1)
  BY <1>3
<1>5. a \in 0 .. (m - 1)
  <2>1. m \in Nat
    BY <1>2
  <2>2. b \in Int /\ b <= m - 1
    BY <1>4, <2>1
  <2> QED
    BY <2>1, <2>2
<1> QED
  BY <1>3, <1>5

\* The loop that maps a range page by page.
LEMMA MapRangeKeeps ==
  ASSUME paging \in GoodPaging, NEW v \in MapAddrs, NEW n \in MapCounts, NEW p \in CallerPages \cup {v},
         NEW nx \in BOOLEAN, p .. (p + n - 1) \subseteq PageNumbers \ Pool, paging_map_range(v, p, n, nx)
  PROVE  paging' \in GoodPaging
<1> DEFINE T == GoodPaging
           x == [paging EXCEPT !.ok = TRUE]
           step(i, c) == IF ~c.ok THEN c ELSE MapPage(c, v + i - 1, p + i - 1, nx)
           g == [e \in (1 .. n) \X T |-> step(e[1], e[2])]
           after[i \in 0 .. n] ==
            IF i = 0 THEN [paging EXCEPT !.ok = TRUE]
            ELSE IF ~after[i - 1].ok THEN after[i - 1] ELSE MapPage(after[i - 1], v + i - 1, p + i - 1, nx)
<1>1. n \in Nat /\ v \in Nat /\ p \in Nat /\ (n > 0 => v + n - 1 \in AddrSpace)
  BY PagingAssumption, PagingConstants DEF paging_map_range, PageNumbers
<1>2. x \in T
  <2>1. PICK lev : PagingOk(paging, lev) /\ paging \in PagingStates
    BY DEF GoodPaging
  <2>2. x \in PagingStates /\ x.table = paging.table /\ x.ref = paging.ref /\ x.pool = paging.pool
    BY <2>1 DEF PagingStates
  <2> HIDE DEF x
  <2> QED
    BY <2>1, <2>2, FewerFree
<1>3. ASSUME NEW i \in 1 .. n, NEW c \in T PROVE step(i, c) \in T
  <2>1. PICK lev : PagingOk(c, lev) /\ c \in PagingStates
    BY <1>3 DEF GoodPaging
  <2>2. v + i - 1 \in AddrSpace
    <3>1. v + n - 1 \in AddrSpace /\ v + i - 1 \in Nat /\ v + i - 1 <= v + n - 1
      BY <1>1, <1>3
    <3> QED
      BY <3>1, AddrBelow
  <2>3. p + i - 1 \in PageNumbers \ Pool
    <3>1. p + i - 1 \in p .. (p + n - 1)
      BY <1>1, <1>3
    <3> QED
      BY <3>1
  <2>4. PICK q : q = make_pte(p + i - 1, nx) /\ MayMap(c, lev, q)
    <3>1. PICK y : y = p + i - 1 /\ y \in PageNumbers \ Pool
      BY <2>3
    <3>2. make_pte(y, nx) \in Nat /\ PageOf(make_pte(y, nx)) = y
      BY <3>1, EntryPages
    <3> QED
      BY <3>1, <3>2 DEF MayMap
  <2>5. MapPage(c, v + i - 1, p + i - 1, nx) \in T
    BY <2>1, <2>2, <2>4, MapPageKeeps
  <2> QED
    BY <2>5
<1>4. paging' = after[n]
  BY DEF paging_map_range
<1>5. after = CHOOSE f : f = [i \in 0 .. n |-> IF i = 0 THEN x ELSE step(i, f[i - 1])]
  BY DEF after
<1> HIDE DEF after, x, T
<1>6. g \in [(1 .. n) \X T -> T]
  <2> HIDE DEF step
  <2> QED
    BY <1>3
<1>7. PICK f : IsIterate(f, T, g, x, n)
  <2> HIDE DEF g
  <2> QED
    BY <1>1, <1>2, <1>6, IterateExists
<1> HIDE DEF step
<1>8. f \in [0 .. n -> T] /\ f[0] = x /\ \A i \in 1 .. n : f[i] = step(i, f[i - 1])
  <2>1. f \in [0 .. n -> T] /\ f[0] = x
    BY <1>7 DEF IsIterate
  <2>2. ASSUME NEW i \in 1 .. n PROVE f[i] = step(i, f[i - 1])
    <3>1. i - 1 \in 0 .. n
      BY <1>1
    <3>2. f[i - 1] \in T /\ f[i] = g[<<i, f[i - 1]>>]
      BY <1>7, <3>1 DEF IsIterate
    <3> QED
      BY <3>2
  <2> QED
    BY <2>1, <2>2
<1> HIDE DEF g
<1>9. f = [i \in 0 .. n |-> IF i = 0 THEN x ELSE step(i, f[i - 1])]
  <2>1. \A i \in 0 .. n : f[i] = IF i = 0 THEN x ELSE step(i, f[i - 1])
    BY <1>1, <1>8
  <2> QED
    BY <1>8, <2>1
<1>10. after = [i \in 0 .. n |-> IF i = 0 THEN x ELSE step(i, after[i - 1])]
  BY <1>5, <1>9, Zenon
<1> DEFINE G == {i \in 0 .. n : after[i] \in T}
<1>11. 0 \in G
  BY <1>1, <1>2, <1>10
<1>12. ASSUME NEW i \in 1 .. n, i - 1 \in G PROVE i \in G
  BY <1>1, <1>3, <1>10, <1>12
<1>13. \A i \in 0 .. n : i \in G
  <2> HIDE DEF G
  <2> QED
    BY <1>1, <1>11, <1>12, UpTo
<1> QED
  BY <1>1, <1>4, <1>13 DEF T

\* The loop that unmaps a range page by page.
LEMMA UnmapRangeKeeps ==
  ASSUME paging \in GoodPaging, NEW v \in MapAddrs, NEW n \in MapCounts, paging_unmap_range(v, n)
  PROVE  paging' \in GoodPaging
<1> DEFINE T == GoodPaging
           x == paging
           step(i, c) == UnmapPage(c, v + i - 1)
           g == [e \in (1 .. n) \X T |-> step(e[1], e[2])]
           after[i \in 0 .. n] == IF i = 0 THEN paging ELSE UnmapPage(after[i - 1], v + i - 1)
<1>1. n \in Nat /\ v \in Nat /\ (n > 0 => v + n - 1 \in AddrSpace)
  BY PagingAssumption, PagingConstants DEF paging_unmap_range
<1>2. x \in T
  OBVIOUS
<1>3. ASSUME NEW i \in 1 .. n, NEW c \in T PROVE step(i, c) \in T
  <2>1. PICK lev : PagingOk(c, lev) /\ c \in PagingStates
    BY <1>3 DEF GoodPaging
  <2>2. v + i - 1 \in AddrSpace
    <3>1. v + n - 1 \in AddrSpace /\ v + i - 1 \in Nat /\ v + i - 1 <= v + n - 1
      BY <1>1, <1>3
    <3> QED
      BY <3>1, AddrBelow
  <2> QED
    BY <2>1, <2>2, UnmapPageKeeps
<1>4. paging' = after[n]
  BY DEF paging_unmap_range
<1>5. after = CHOOSE f : f = [i \in 0 .. n |-> IF i = 0 THEN x ELSE step(i, f[i - 1])]
  BY DEF after
<1> HIDE DEF after, x, T
<1>6. g \in [(1 .. n) \X T -> T]
  <2> HIDE DEF step
  <2> QED
    BY <1>3
<1>7. PICK f : IsIterate(f, T, g, x, n)
  <2> HIDE DEF g
  <2> QED
    BY <1>1, <1>2, <1>6, IterateExists
<1> HIDE DEF step
<1>8. f \in [0 .. n -> T] /\ f[0] = x /\ \A i \in 1 .. n : f[i] = step(i, f[i - 1])
  <2>1. f \in [0 .. n -> T] /\ f[0] = x
    BY <1>7 DEF IsIterate
  <2>2. ASSUME NEW i \in 1 .. n PROVE f[i] = step(i, f[i - 1])
    <3>1. i - 1 \in 0 .. n
      BY <1>1
    <3>2. f[i - 1] \in T /\ f[i] = g[<<i, f[i - 1]>>]
      BY <1>7, <3>1 DEF IsIterate
    <3> QED
      BY <3>2
  <2> QED
    BY <2>1, <2>2
<1> HIDE DEF g
<1>9. f = [i \in 0 .. n |-> IF i = 0 THEN x ELSE step(i, f[i - 1])]
  <2>1. \A i \in 0 .. n : f[i] = IF i = 0 THEN x ELSE step(i, f[i - 1])
    BY <1>1, <1>8
  <2> QED
    BY <1>8, <2>1
<1>10. after = [i \in 0 .. n |-> IF i = 0 THEN x ELSE step(i, after[i - 1])]
  BY <1>5, <1>9, Zenon
<1> DEFINE G == {i \in 0 .. n : after[i] \in T}
<1>11. 0 \in G
  BY <1>1, <1>2, <1>10
<1>12. ASSUME NEW i \in 1 .. n, i - 1 \in G PROVE i \in G
  BY <1>1, <1>3, <1>10, <1>12
<1>13. \A i \in 0 .. n : i \in G
  <2> HIDE DEF G
  <2> QED
    BY <1>1, <1>11, <1>12, UpTo
<1> QED
  BY <1>1, <1>4, <1>13 DEF T

\* The loop of vmalloc over the pages of a region.
LEMMA VmallocMapKeeps ==
  ASSUME paging \in GoodPaging, NEW n \in MapCounts, vmalloc_map(n)
  PROVE  paging' \in GoodPaging
<1> DEFINE T == GoodPaging
           v == paging.vmalloc_next
           x == [paging EXCEPT !.vmalloc_next = @ + n, !.ok = TRUE, !.pool = @ \ {Min(@)}]
           step(i, c) == IF ~c.ok THEN c ELSE BackPage(c, v + i - 1)
           g == [e \in (1 .. n) \X T |-> step(e[1], e[2])]
           after[i \in 0 .. n] ==
            IF i = 0 THEN [paging EXCEPT !.vmalloc_next = @ + n, !.ok = TRUE, !.pool = @ \ {Min(@)}]
            ELSE IF ~after[i - 1].ok THEN after[i - 1] ELSE BackPage(after[i - 1], v + i - 1)
<1>0. PICK lov : PagingOk(paging, lov) /\ paging \in PagingStates
  BY DEF GoodPaging
<1>1. n \in Nat /\ v \in Nat /\ v >= VMALLOC_START /\ VMALLOC_START \in Nat /\ v + n <= vmalloc_end /\ vmalloc_end - 1 \in AddrSpace
      /\ vmalloc_end \in Nat
  BY <1>0, PagingAssumption, PagingConstants DEF vmalloc_map, PagingStates, vmalloc_end
<1>2. x \in T
  <2>1. x \in PagingStates /\ x.table = paging.table /\ x.ref = paging.ref /\ x.pool \subseteq paging.pool
    <3>1. PICK P, w : P = paging.pool \ {Min(paging.pool)} /\ w = paging.vmalloc_next + n
      OBVIOUS
    <3>2. P \subseteq paging.pool /\ w \in Nat /\ w >= VMALLOC_START
      BY <1>1, <3>1
    <3>3. x = [paging EXCEPT !.vmalloc_next = w, !.ok = TRUE, !.pool = P]
      BY <1>0, <3>1 DEF PagingStates
    <3> HIDE DEF x
    <3> QED
      BY <1>0, <3>2, <3>3 DEF PagingStates
  <2> HIDE DEF x
  <2> QED
    BY <1>0, <2>1, FewerFree
<1>3. ASSUME NEW i \in 1 .. n, NEW c \in T PROVE step(i, c) \in T
  <2>1. PICK lev : PagingOk(c, lev) /\ c \in PagingStates
    BY <1>3 DEF GoodPaging
  <2>2. v + i - 1 \in AddrSpace
    <3>1. v + i - 1 \in Nat /\ v + i - 1 <= vmalloc_end - 1
      BY <1>1, <1>3
    <3> QED
      BY <1>1, <3>1, AddrBelow
  <2>3. BackPage(c, v + i - 1) \in T
    BY <2>1, <2>2, BackPageKeeps
  <2> QED
    BY <2>3
<1>4. paging' = after[n]
  BY DEF vmalloc_map
<1>5. after = CHOOSE f : f = [i \in 0 .. n |-> IF i = 0 THEN x ELSE step(i, f[i - 1])]
  BY DEF after
<1> HIDE DEF after, x, T, v
<1>6. g \in [(1 .. n) \X T -> T]
  <2> HIDE DEF step
  <2> QED
    BY <1>3
<1>7. PICK f : IsIterate(f, T, g, x, n)
  <2> HIDE DEF g
  <2> QED
    BY <1>1, <1>2, <1>6, IterateExists
<1> HIDE DEF step
<1>8. f \in [0 .. n -> T] /\ f[0] = x /\ \A i \in 1 .. n : f[i] = step(i, f[i - 1])
  <2>1. f \in [0 .. n -> T] /\ f[0] = x
    BY <1>7 DEF IsIterate
  <2>2. ASSUME NEW i \in 1 .. n PROVE f[i] = step(i, f[i - 1])
    <3>1. i - 1 \in 0 .. n
      BY <1>1
    <3>2. f[i - 1] \in T /\ f[i] = g[<<i, f[i - 1]>>]
      BY <1>7, <3>1 DEF IsIterate
    <3> QED
      BY <3>2
  <2> QED
    BY <2>1, <2>2
<1> HIDE DEF g
<1>9. f = [i \in 0 .. n |-> IF i = 0 THEN x ELSE step(i, f[i - 1])]
  <2>1. \A i \in 0 .. n : f[i] = IF i = 0 THEN x ELSE step(i, f[i - 1])
    BY <1>1, <1>8
  <2> QED
    BY <1>8, <2>1
<1>10. after = [i \in 0 .. n |-> IF i = 0 THEN x ELSE step(i, after[i - 1])]
  BY <1>5, <1>9, Zenon
<1> DEFINE G == {i \in 0 .. n : after[i] \in T}
<1>11. 0 \in G
  BY <1>1, <1>2, <1>10
<1>12. ASSUME NEW i \in 1 .. n, i - 1 \in G PROVE i \in G
  BY <1>1, <1>3, <1>10, <1>12
<1>13. \A i \in 0 .. n : i \in G
  <2> HIDE DEF G
  <2> QED
    BY <1>1, <1>11, <1>12, UpTo
<1> QED
  BY <1>1, <1>4, <1>13 DEF T


\* Every call keeps the invariant.
LEMMA PagingStepKeeps ==
  ASSUME paging \in GoodPaging, [PagingNext]_paging
  PROVE  paging' \in GoodPaging
<1>1. CASE UNCHANGED paging
  BY <1>1
<1>2. ASSUME NEW v \in MapAddrs, NEW n \in MapCounts, NEW p \in CallerPages \cup {v}, NEW nx \in BOOLEAN,
             p .. (p + n - 1) \subseteq PageNumbers \ Pool, paging_map_range(v, p, n, nx)
      PROVE  paging' \in GoodPaging
  BY <1>2, MapRangeKeeps
<1>3. ASSUME NEW v \in MapAddrs, NEW n \in MapCounts, paging_unmap_range(v, n) PROVE paging' \in GoodPaging
  BY <1>3, UnmapRangeKeeps
<1>4. ASSUME NEW n \in MapCounts, vmalloc(n) PROVE paging' \in GoodPaging
  <2>1. PICK lev : PagingOk(paging, lev) /\ paging \in PagingStates
    BY DEF GoodPaging
  <2>2. PICK x : x = paging'
    OBVIOUS
  <2>3. n \in Nat /\ VMALLOC_START \in Nat
    BY PagingAssumption
  <2>4. x = [paging EXCEPT !.vmalloc_next = paging.vmalloc_next + n]
    BY <1>4, <2>2 DEF vmalloc
  <2>5. x \in PagingStates /\ x.table = paging.table /\ x.ref = paging.ref /\ x.pool = paging.pool
    BY <2>1, <2>3, <2>4 DEF PagingStates
  <2> QED
    BY <2>1, <2>2, <2>5, FewerFree
<1>5. ASSUME NEW n \in MapCounts, vmalloc_map(n) PROVE paging' \in GoodPaging
  BY <1>5, VmallocMapKeeps
<1>6. ASSUME NEW v \in VMALLOC_START .. (vmalloc_end - 1), page_fault_handler(v) PROVE paging' \in GoodPaging
  <2>1. PICK lev : PagingOk(paging, lev)
    BY DEF GoodPaging
  <2>2. v \in AddrSpace
    <3>1. vmalloc_end - 1 \in AddrSpace /\ v \in Nat /\ v <= vmalloc_end - 1
      BY PagingAssumption DEF vmalloc_end
    <3> QED
      BY <3>1, AddrBelow
  <2> QED
    BY <1>6, <2>1, <2>2, BackPageKeeps DEF page_fault_handler
<1> QED
  BY <1>1, <1>2, <1>3, <1>4, <1>5, <1>6 DEF PagingNext

\* The tables that paging_init leaves satisfy the invariant.
LEMMA PagingStart ==
  ASSUME paging_init
  PROVE  paging \in GoodPaging
<1>1. PICK lev : lev = [p \in TablePages |-> IF p = BootTable THEN 3 ELSE 4]
  OBVIOUS
<1>2. PICK tb : tb = [p \in TablePages |-> [i \in Entries |-> IF p = BootTable THEN NotPresent ELSE BootTable]]
  OBVIOUS
<1>3. tb \in [TablePages -> [Entries -> Int]]
  BY <1>2, PagingConstants
<1>4. /\ paging.table = tb /\ paging.pool = Pool /\ paging.ref = [v \in AddrSpace |-> NotPresent]
      /\ paging \in PagingStates
  <2>1. PICK rf : rf = [v \in AddrSpace |-> NotPresent]
    OBVIOUS
  <2>2. rf \in [AddrSpace -> Int]
    BY <2>1, PagingConstants DEF NotPresent
  <2>3. paging = [table |-> tb, pool |-> Pool, vmalloc_next |-> VMALLOC_START, ok |-> TRUE, ref |-> rf]
    BY <1>2, <2>1 DEF paging_init
  <2>4. VMALLOC_START \in Nat
    BY PagingAssumption
  <2>5. paging \in PagingStates
    BY <1>3, <2>2, <2>3, <2>4 DEF PagingStates
  <2> QED
    BY <2>1, <2>3, <2>5
<1>5. \A t \in TablePages : lev[t] = (IF t = BootTable THEN 3 ELSE 4)
  BY <1>1
<1>6. \A i \in Entries : tb[BootTable][i] = NotPresent
  BY <1>2, PagingConstants
<1>7. Levelled(tb, Pool, lev)
  BY <1>1, <1>5, <1>6, PagingConstants DEF Levelled
<1>8. UsedOnce(tb, Pool, lev)
  BY <1>5, <1>6, PagingConstants, EntryPages DEF UsedOnce
<1>9. ASSUME NEW v \in AddrSpace PROVE paging.ref[v] = Entry(paging, v)
  <2>1. PICK a : a = Follow(paging, BootTable, v, 3)
    OBVIOUS
  <2>2. virt_to_indices(v, 3) \in Entries
    BY IndexType
  <2>3. a = NotPresent
    BY <1>4, <1>6, <2>1, <2>2, PagingConstants DEF Follow
  <2>4. Follow(paging, NotPresent, v, 2) = NotPresent /\ Follow(paging, NotPresent, v, 1) = NotPresent
        /\ Follow(paging, NotPresent, v, 0) = NotPresent
    BY PagingConstants DEF Follow
  <2>5. Entry(paging, v) = NotPresent
    BY <2>1, <2>3, <2>4 DEF Entry, LeafTable
  <2> QED
    BY <1>4, <2>5
<1>10. PagingOk(paging, lev)
  BY <1>4, <1>7, <1>8, <1>9 DEF PagingOk
<1> QED
  BY <1>4, <1>10 DEF GoodPaging

\* A table in an entry of a level belongs to the next lower one.
LEMMA LowerLevel ==
  ASSUME NEW lev, Levelled(paging.table, paging.pool, lev), NEW level \in 1 .. 3, NEW S,
         \A t \in S : t \in TablePages /\ lev[t] = level
  PROVE  \A t \in LowerTables(S) : t \in TablePages /\ lev[t] = level - 1
<1>1. ASSUME NEW u \in LowerTables(S) PROVE u \in TablePages /\ lev[u] = level - 1
  <2>1. PICK t \in S \cap TablePages, i \in Entries : u = paging.table[t][i] /\ u # NotPresent
    BY <1>1 DEF LowerTables
  <2>2. t \in TablePages /\ lev[t] = level /\ lev[t] \in 1 .. 3
    BY <2>1
  <2>3. u \in Pool /\ lev[u] = lev[t] - 1
    BY <2>1, <2>2 DEF Levelled
  <2> QED
    BY <2>2, <2>3, PagingConstants DEF TablePages
<1> QED
  BY <1>1

\* The invariant says what TranslatesAsMapped says.
LEMMA PagingTranslates ==
  ASSUME paging \in GoodPaging
  PROVE  TranslatesAsMapped
<1>1. PICK lev : PagingOk(paging, lev)
  BY DEF GoodPaging
<1>2. Levelled(paging.table, paging.pool, lev) /\ UsedOnce(paging.table, paging.pool, lev)
  BY <1>1 DEF PagingOk
<1>3. ASSUME NEW v \in AddrSpace
      PROVE  paging_virt_to_phys(v) = IF paging.ref[v] = NotPresent THEN 0 ELSE paging.ref[v]
  <2>1. paging.ref[v] = Entry(paging, v)
    BY <1>1, <1>3 DEF PagingOk
  <2> QED
    BY <2>1 DEF paging_virt_to_phys, Entry
<1>4. PICK high, mid, low, all : /\ high = LowerTables({BootTable}) /\ mid = LowerTables(high)
                                 /\ low = LowerTables(mid) /\ all = {BootTable} \cup high \cup mid \cup low
  OBVIOUS
<1>5. \A t \in all : t \in TablePages /\ lev[t] # 4
  <2>0. PICK S : S = {BootTable}
    OBVIOUS
  <2>1. \A t \in S : t \in TablePages /\ lev[t] = 3
    BY <1>2, <2>0, PagingConstants DEF Levelled
  <2>2. \A t \in high : t \in TablePages /\ lev[t] = 3 - 1
    BY <1>2, <1>4, <2>0, <2>1, LowerLevel
  <2>3. \A t \in mid : t \in TablePages /\ lev[t] = 2 - 1
    <3>1. \A t \in high : t \in TablePages /\ lev[t] = 2
      BY <2>2
    <3> QED
      BY <1>2, <1>4, <3>1, LowerLevel
  <2>4. \A t \in low : t \in TablePages /\ lev[t] = 1 - 1
    <3>1. PICK k : k = 1 /\ k \in 1 .. 3 /\ k - 1 = 1 - 1
      OBVIOUS
    <3>2. \A t \in mid : t \in TablePages /\ lev[t] = k
      BY <2>3, <3>1
    <3>3. \A t \in low : t \in TablePages /\ lev[t] = k - 1
      BY <1>2, <1>4, <3>1, <3>2, LowerLevel
    <3> QED
      BY <3>1, <3>3
  <2> QED
    BY <1>4, <2>0, <2>1, <2>2, <2>3, <2>4
<1>6. ASSUME NEW p \in Pool, NEW uses, uses = {e \in (all \cap TablePages) \X Entries : PageOf(paging.table[e[1]][e[2]]) = p}
      PROVE  Cardinality(uses) <= (IF p \in paging.pool THEN 0 ELSE 1)
  <2>1. ASSUME NEW e \in uses, NEW f \in uses PROVE e = f
    <3>1. PICK t \in all, i \in Entries : e = <<t, i>> /\ PageOf(paging.table[t][i]) = p
      BY <1>6, <2>1
    <3>2. PICK u \in all, j \in Entries : f = <<u, j>> /\ PageOf(paging.table[u][j]) = p
      BY <1>6, <2>1
    <3>3. t = u /\ i = j
      BY <1>2, <1>5, <3>1, <3>2 DEF UsedOnce
    <3> QED
      BY <3>1, <3>2, <3>3
  <2>2. ASSUME p \in paging.pool PROVE uses = {}
    <3>1. ASSUME NEW e \in uses PROVE FALSE
      <4>1. PICK t \in all, i \in Entries : e = <<t, i>> /\ PageOf(paging.table[t][i]) = p
        BY <1>6, <3>1
      <4> QED
        BY <1>2, <1>5, <2>2, <4>1 DEF UsedOnce
    <3> QED
      BY <3>1
  <2>3. CASE uses = {}
    <3>1. Cardinality(uses) = 0
      BY <2>3, FS_EmptySet
    <3> QED
      BY <3>1
  <2>4. CASE uses # {}
    <3>1. PICK e : uses = {e}
      BY <2>1, <2>4
    <3>2. Cardinality(uses) = 1
      BY <3>1, FS_Singleton
    <3> QED
      BY <2>2, <2>4, <3>2
  <2> QED
    BY <2>3, <2>4
<1>7. \A p \in Pool : Cardinality({e \in (all \cap TablePages) \X Entries : PageOf(paging.table[e[1]][e[2]]) = p})
                        <= (IF p \in paging.pool THEN 0 ELSE 1)
  BY <1>6
<1> QED
  BY <1>3, <1>4, <1>7 DEF TranslatesAsMapped

\* For every size of the tables and every set of free pages, after any sequence of calls,
\* failures for want of memory on the way included: every address translates to the page
\* mapped last there, with PTE_NX left in the result where it was mapped with NX, and no
\* page of the allocator is in two entries or in one and free.
THEOREM PagingAlwaysTranslates == MachineSpec => []TranslatesAsMapped
<1>1. MachineInit => paging \in GoodPaging
  BY PagingStart DEF MachineInit
<1>2. paging \in GoodPaging /\ [MachineNext]_MachineVars => (paging \in GoodPaging)'
  <2>1. SUFFICES ASSUME paging \in GoodPaging, [MachineNext]_MachineVars PROVE paging' \in GoodPaging
    BY DEF GoodPaging, PagingStates, PagingOk, Levelled, UsedOnce, Entry, LeafTable, Follow
  <2> QED
    BY <2>1, PagingStepKeeps, AddressParts
<1>3. paging \in GoodPaging => TranslatesAsMapped
  BY PagingTranslates
<1> QED
  BY <1>1, <1>2, <1>3, PTL DEF MachineSpec
-----------------------------------------------------------------------------
(***************************************************************************)
(* The red-black tree of the areas.                                        *)
(***************************************************************************)
Links == Keys \cup {NilNode}
TreeNodes == [end : Keys, ch : [Sides -> Links], parent : Links, red : BOOLEAN]
Trees == [root : Links, n : [Keys -> TreeNodes]]

\* What the fields of a node say.
Ch(t, k, d) == t.n[k].ch[d]
Par(t, k) == t.n[k].parent
Red(t, k) == t.n[k].red
End(t, k) == t.n[k].end

\* Only the children, only the parents, only the colours have changed.
SameParents(t, z) == \A k \in Keys : Par(z, k) = Par(t, k)
SameColours(t, z) == \A k \in Keys : Red(z, k) = Red(t, k)
SameChildren(t, z) == \A k \in Keys, d \in Sides : Ch(z, k, d) = Ch(t, k, d)
SameEnds(t, z) == \A k \in Keys : End(z, k) = End(t, k)

\* The constants of the areas and their types.
LEMMA VmaConstants ==
  /\ AddrBound \in Nat /\ Keys = 0 .. AddrBound /\ Keys \subseteq Nat /\ NilNode \notin Keys
  /\ Steps = AddrBound + 1 /\ Steps \in Nat
BY VmaAssumption DEF Keys, Steps

\* There are two sides.
LEMMA SidesOther ==
  ASSUME NEW d \in Sides
  PROVE  Other(d) \in Sides /\ Other(d) # d /\ Other(Other(d)) = d /\ \A e \in Sides : e = d \/ e = Other(d)
BY DEF Sides, Other

\* The types of the fields.
LEMMA TreeFields ==
  ASSUME NEW t \in Trees
  PROVE  /\ t.root \in Links
         /\ \A k \in Keys : Par(t, k) \in Links /\ Red(t, k) \in BOOLEAN /\ End(t, k) \in Keys
         /\ \A k \in Keys, d \in Sides : Ch(t, k, d) \in Links
BY DEF Trees, TreeNodes, Par, Red, End, Ch

ChildIsSet(t, z, x, d, y) ==
    /\ z \in Trees /\ z.root = t.root /\ SameParents(t, z) /\ SameColours(t, z) /\ SameEnds(t, z)
    /\ \A k \in Keys, e \in Sides : Ch(z, k, e) = IF k = x /\ e = d THEN y ELSE Ch(t, k, e)

ParentIsSet(t, z, x, p) ==
    /\ z \in Trees /\ z.root = t.root /\ SameChildren(t, z) /\ SameColours(t, z) /\ SameEnds(t, z)
    /\ \A k \in Keys : Par(z, k) = IF k = x THEN p ELSE Par(t, k)

ColourIsSet(t, z, x, r) ==
    /\ z \in Trees /\ z.root = t.root /\ SameChildren(t, z) /\ SameParents(t, z) /\ SameEnds(t, z)
    /\ \A k \in Keys : Red(z, k) = IF k = x THEN r ELSE Red(t, k)

\* What SetChild, SetParent and Paint change, and what they leave.
LEMMA ChildSet ==
  ASSUME NEW t \in Trees, NEW x \in Keys, NEW d \in Sides, NEW y \in Links
  PROVE  ChildIsSet(t, SetChild(t, x, d, y), x, d, y)
<1>0. PICK z : z = SetChild(t, x, d, y)
  OBVIOUS
<1>1. PICK c : c = [t.n[x].ch EXCEPT ![d] = y]
  OBVIOUS
<1>2. PICK r : r = [t.n[x] EXCEPT !.ch = c]
  OBVIOUS
<1>3. t.n[x] \in TreeNodes /\ t.n \in [Keys -> TreeNodes]
  BY DEF Trees
<1>4. c \in [Sides -> Links] /\ \A e \in Sides : c[e] = IF e = d THEN y ELSE t.n[x].ch[e]
  BY <1>1, <1>3 DEF TreeNodes
<1>5. r \in TreeNodes /\ r.ch = c /\ r.parent = t.n[x].parent /\ r.red = t.n[x].red /\ r.end = t.n[x].end
  BY <1>2, <1>3, <1>4 DEF TreeNodes
<1>6. z = [t EXCEPT !.n = [t.n EXCEPT ![x] = r]]
  BY <1>0, <1>1, <1>2, <1>3 DEF Trees, TreeNodes, SetChild
<1>7. z.root = t.root /\ z.n = [t.n EXCEPT ![x] = r] /\ z \in Trees
  BY <1>3, <1>5, <1>6 DEF Trees
<1>8. \A k \in Keys : z.n[k] = IF k = x THEN r ELSE t.n[k]
  BY <1>3, <1>7
<1>9. SameParents(t, z)
  BY <1>5, <1>8 DEF SameParents, Par
<1>10. SameColours(t, z)
  BY <1>5, <1>8 DEF SameColours, Red
<1>11. SameEnds(t, z)
  BY <1>5, <1>8 DEF SameEnds, End
<1>12. \A k \in Keys, e \in Sides : Ch(z, k, e) = IF k = x /\ e = d THEN y ELSE Ch(t, k, e)
  <2> TAKE k \in Keys, e \in Sides
  <2>1. CASE k = x
    BY <1>4, <1>5, <1>8, <2>1 DEF Ch
  <2>2. CASE k # x
    BY <1>8, <2>2 DEF Ch
  <2> QED
    BY <2>1, <2>2
<1> QED
  BY <1>0, <1>7, <1>9, <1>10, <1>11, <1>12 DEF ChildIsSet

\* The same for the parent of a node.
LEMMA ParentSet ==
  ASSUME NEW t \in Trees, NEW x \in Keys, NEW p \in Links
  PROVE  ParentIsSet(t, SetParent(t, x, p), x, p)
<1>0. PICK z : z = SetParent(t, x, p)
  OBVIOUS
<1>2. PICK r : r = [t.n[x] EXCEPT !.parent = p]
  OBVIOUS
<1>3. t.n[x] \in TreeNodes /\ t.n \in [Keys -> TreeNodes]
  BY DEF Trees
<1>5. r \in TreeNodes /\ r.ch = t.n[x].ch /\ r.parent = p /\ r.red = t.n[x].red /\ r.end = t.n[x].end
  BY <1>2, <1>3 DEF TreeNodes
<1>6. z = [t EXCEPT !.n = [t.n EXCEPT ![x] = r]]
  BY <1>0, <1>2, <1>3, VmaConstants DEF Trees, TreeNodes, SetParent
<1>7. z.root = t.root /\ z.n = [t.n EXCEPT ![x] = r] /\ z \in Trees
  BY <1>3, <1>5, <1>6 DEF Trees
<1>8. \A k \in Keys : z.n[k] = IF k = x THEN r ELSE t.n[k]
  BY <1>3, <1>7
<1>9. SameChildren(t, z)
  BY <1>5, <1>8 DEF SameChildren, Ch
<1>10. SameColours(t, z)
  BY <1>5, <1>8 DEF SameColours, Red
<1>11. SameEnds(t, z)
  BY <1>5, <1>8 DEF SameEnds, End
<1>12. \A k \in Keys : Par(z, k) = IF k = x THEN p ELSE Par(t, k)
  BY <1>5, <1>8 DEF Par
<1> QED
  BY <1>0, <1>7, <1>9, <1>10, <1>11, <1>12 DEF ParentIsSet

\* The same for its colour.
LEMMA ColourSet ==
  ASSUME NEW t \in Trees, NEW x \in Keys, NEW r \in BOOLEAN
  PROVE  ColourIsSet(t, Paint(t, x, r), x, r)
<1>0. PICK z : z = Paint(t, x, r)
  OBVIOUS
<1>2. PICK m : m = [t.n[x] EXCEPT !.red = r]
  OBVIOUS
<1>3. t.n[x] \in TreeNodes /\ t.n \in [Keys -> TreeNodes]
  BY DEF Trees
<1>5. m \in TreeNodes /\ m.ch = t.n[x].ch /\ m.parent = t.n[x].parent /\ m.red = r /\ m.end = t.n[x].end
  BY <1>2, <1>3 DEF TreeNodes
<1>6. z = [t EXCEPT !.n = [t.n EXCEPT ![x] = m]]
  BY <1>0, <1>2, <1>3 DEF Trees, TreeNodes, Paint
<1>7. z.root = t.root /\ z.n = [t.n EXCEPT ![x] = m] /\ z \in Trees
  BY <1>3, <1>5, <1>6 DEF Trees
<1>8. \A k \in Keys : z.n[k] = IF k = x THEN m ELSE t.n[k]
  BY <1>3, <1>7
<1>9. SameChildren(t, z)
  BY <1>5, <1>8 DEF SameChildren, Ch
<1>10. SameParents(t, z)
  BY <1>5, <1>8 DEF SameParents, Par
<1>11. SameEnds(t, z)
  BY <1>5, <1>8 DEF SameEnds, End
<1>12. \A k \in Keys : Red(z, k) = IF k = x THEN r ELSE Red(t, k)
  BY <1>5, <1>8 DEF Red
<1> QED
  BY <1>0, <1>7, <1>9, <1>10, <1>11, <1>12 DEF ColourIsSet

\* The same for the root.
LEMMA RootSet ==
  ASSUME NEW t \in Trees, NEW y \in Links, NEW z, z = [t EXCEPT !.root = y]
  PROVE  z \in Trees /\ z.root = y /\ SameChildren(t, z) /\ SameParents(t, z) /\ SameColours(t, z) /\ SameEnds(t, z)
<1>1. z.root = y /\ z.n = t.n /\ z \in Trees
  BY DEF Trees
<1> QED
  BY <1>1 DEF SameChildren, SameParents, SameColours, SameEnds, Ch, Par, Red, End

\* What a rotation does: the side of p on which x was has y, x goes down on side d of
\* y, and the subtree b between them changes sides.
SideOf(t, p, x) == IF Ch(t, p, "left") = x THEN "left" ELSE "right"

Rotated(t, z, x, y, b, p, d) ==
    /\ z \in Trees /\ SameColours(t, z) /\ SameEnds(t, z)
    /\ z.root = IF p = NilNode THEN y ELSE t.root
    /\ Par(z, x) = y /\ Par(z, y) = p /\ (b # NilNode => Par(z, b) = x)
    /\ \A k \in Keys : k \notin {x, y, b} => Par(z, k) = Par(t, k)
    /\ Ch(z, x, Other(d)) = b /\ Ch(z, x, d) = Ch(t, x, d)
    /\ Ch(z, y, d) = x /\ Ch(z, y, Other(d)) = Ch(t, y, Other(d))
    /\ \A k \in Keys, e \in Sides :
          k \notin {x, y} => Ch(z, k, e) = IF k = p /\ e = SideOf(t, p, x) THEN y ELSE Ch(t, k, e)

\* A rotation of nodes that are different does that.
LEMMA RotateIs ==
  ASSUME NEW t \in Trees, NEW x \in Keys, NEW y \in Keys, NEW d \in Sides, y = Ch(t, x, Other(d)),
         NEW b \in Links, b = Ch(t, y, d), NEW p \in Links, p = Par(t, x),
         x # y, b # x, b # y, p # x, p # y,
         NEW z, z = vma_rb_rotate(t, x, d)
  PROVE  Rotated(t, z, x, y, b, p, d)
<1>0. PICK o : o = Other(d) /\ o \in Sides /\ o # d /\ \A e \in Sides : e = d \/ e = o
  BY SidesOther
<1>n. NilNode \notin Keys
  BY VmaConstants
<1>1. PICK ta : ta = SetChild(t, x, o, b)
  OBVIOUS
<1>2. PICK tb : tb = SetParent(ta, b, x)
  OBVIOUS
<1>3. PICK tc : tc = SetParent(tb, y, p)
  OBVIOUS
<1>4. PICK td : td = Replace(tc, p, x, y)
  OBVIOUS
<1>5. PICK te : te = SetChild(td, y, d, x)
  OBVIOUS
<1>6. z = SetParent(te, x, y)
  <2>1. z = SetParent(SetChild(Replace(SetParent(SetParent(SetChild(t, x, o, b), b, x), y, p), p, x, y), y, d, x), x, y)
    BY <1>0 DEF vma_rb_rotate, Ch, Par
  <2> QED
    BY <1>1, <1>2, <1>3, <1>4, <1>5, <2>1
<1>l. x \in Links /\ y \in Links
  BY DEF Links
<1>a. ChildIsSet(t, ta, x, o, b)
  BY <1>0, <1>1, ChildSet
<1>b. ta \in Trees /\ tb \in Trees
      /\ tb.root = ta.root /\ SameChildren(ta, tb) /\ SameColours(ta, tb) /\ SameEnds(ta, tb)
      /\ \A k \in Keys : Par(tb, k) = IF k = b THEN x ELSE Par(ta, k)
  <2>0. ta \in Trees
    BY <1>a DEF ChildIsSet
  <2>1. CASE b = NilNode
    <3>1. tb = ta
      BY <1>2, <2>1 DEF SetParent
    <3> QED
      BY <1>n, <2>0, <2>1, <3>1 DEF SameChildren, SameColours, SameEnds
  <2>2. CASE b # NilNode
    <3>1. b \in Keys
      BY <2>2 DEF Links
    <3>2. ParentIsSet(ta, tb, b, x)
      BY <1>2, <1>l, <2>0, <3>1, ParentSet
    <3> QED
      BY <2>0, <3>2 DEF ParentIsSet
  <2> QED
    BY <2>1, <2>2
<1>c. tb \in Trees /\ tc \in Trees /\ ParentIsSet(tb, tc, y, p)
  <2>1. ParentIsSet(tb, tc, y, p)
    BY <1>b, <1>3, ParentSet
  <2> QED
    BY <1>b, <2>1 DEF ParentIsSet
<1>d. /\ td \in Trees /\ td.root = (IF p = NilNode THEN y ELSE tc.root)
      /\ SameParents(tc, td) /\ SameColours(tc, td) /\ SameEnds(tc, td)
      /\ \A k \in Keys, e \in Sides : Ch(td, k, e) = IF k = p /\ e = SideOf(t, p, x) THEN y ELSE Ch(tc, k, e)
  <2>1. CASE p = NilNode
    <3>1. td = [tc EXCEPT !.root = y]
      BY <1>4, <2>1 DEF Replace
    <3>2. td \in Trees /\ td.root = y /\ SameChildren(tc, td) /\ SameParents(tc, td) /\ SameColours(tc, td) /\ SameEnds(tc, td)
      BY <1>c, <1>l, <3>1, RootSet
    <3> QED
      BY <1>n, <2>1, <3>2 DEF SameChildren
  <2>2. CASE p # NilNode
    <3>1. p \in Keys /\ p # x
      BY <2>2 DEF Links
    <3>2. PICK e : e = SideOf(t, p, x) /\ e \in Sides
      BY DEF SideOf, Sides
    <3>3. Ch(tc, p, "left") = Ch(t, p, "left")
      <4>1. "left" \in Sides
        BY DEF Sides
      <4> QED
        BY <1>a, <1>b, <1>c, <3>1, <4>1 DEF SameChildren, ChildIsSet, ParentIsSet
    <3>4. td = SetChild(tc, p, e, y)
      BY <1>4, <2>2, <3>2, <3>3 DEF Replace, SideOf, Ch
    <3>5. ChildIsSet(tc, td, p, e, y)
      BY <1>c, <1>l, <3>1, <3>2, <3>4, ChildSet
    <3> QED
      BY <2>2, <3>2, <3>5 DEF ChildIsSet
  <2> QED
    BY <2>1, <2>2
<1>e. ChildIsSet(td, te, y, d, x)
  BY <1>d, <1>5, <1>l, ChildSet
<1>f. te \in Trees /\ ParentIsSet(te, z, x, y)
  <2>1. te \in Trees
    BY <1>e DEF ChildIsSet
  <2> QED
    BY <1>6, <1>l, <2>1, ParentSet
<1>7. SameColours(t, z) /\ SameEnds(t, z)
  BY <1>a, <1>b, <1>c, <1>d, <1>e, <1>f DEF SameColours, SameEnds, ChildIsSet, ParentIsSet
<1>8. z.root = IF p = NilNode THEN y ELSE t.root
  BY <1>a, <1>b, <1>c, <1>d, <1>e, <1>f DEF ChildIsSet, ParentIsSet
<1>9. \A k \in Keys : Par(z, k) = IF k = x THEN y ELSE IF k = y THEN p ELSE IF k = b THEN x ELSE Par(t, k)
  BY <1>a, <1>b, <1>c, <1>d, <1>e, <1>f DEF SameParents, ChildIsSet, ParentIsSet
<1>10. \A k \in Keys, e \in Sides :
          Ch(z, k, e) = IF k = y /\ e = d THEN x ELSE IF k = p /\ e = SideOf(t, p, x) THEN y
                        ELSE IF k = x /\ e = o THEN b ELSE Ch(t, k, e)
  BY <1>a, <1>b, <1>c, <1>d, <1>e, <1>f DEF SameChildren, ChildIsSet, ParentIsSet
<1>11. Par(z, x) = y /\ Par(z, y) = p /\ (b # NilNode => Par(z, b) = x)
       /\ \A k \in Keys : k \notin {x, y, b} => Par(z, k) = Par(t, k)
  BY <1>9 DEF Links
<1>12. Ch(z, x, o) = b /\ Ch(z, x, d) = Ch(t, x, d) /\ Ch(z, y, d) = x /\ Ch(z, y, o) = Ch(t, y, o)
  BY <1>0, <1>10
<1>13. \A k \in Keys, e \in Sides :
          k \notin {x, y} => Ch(z, k, e) = IF k = p /\ e = SideOf(t, p, x) THEN y ELSE Ch(t, k, e)
  BY <1>10
<1> QED
  BY <1>0, <1>f, <1>7, <1>8, <1>11, <1>12, <1>13 DEF Rotated, ParentIsSet
-----------------------------------------------------------------------------
\* bd gives each node the bounds between which its subtree lies.
Bounds == [Keys -> [Sides -> (-1) .. (AddrBound + 1)]]
Within(bd, k, m) == bd[k]["left"] < m /\ m < bd[k]["right"]
BoundsBelow(bd, k, d, c) == bd[c][d] = bd[k][d] /\ bd[c][Other(d)] = k

RootIs(t, S, bd) ==
    IF S = {} THEN t.root = NilNode
    ELSE t.root \in S /\ Par(t, t.root) = NilNode /\ bd[t.root]["left"] = -1 /\ bd[t.root]["right"] = AddrBound + 1

ChildOk(t, S, bd, k, d) ==
    Ch(t, k, d) # NilNode =>
        Ch(t, k, d) \in S /\ Par(t, Ch(t, k, d)) = k /\ BoundsBelow(bd, k, d, Ch(t, k, d))

ParentOk(t, S, k) == k # t.root => Par(t, k) \in S /\ \E d \in Sides : Ch(t, Par(t, k), d) = k

\* S is the set of the nodes of the search tree t.
Shape(t, S, bd) ==
    /\ t \in Trees /\ S \subseteq Keys /\ bd \in Bounds
    /\ RootIs(t, S, bd)
    /\ \A k \in S : Within(bd, k, k) /\ k < End(t, k) /\ ParentOk(t, S, k)
    /\ \A k \in S, d \in Sides : ChildOk(t, S, bd, k, d)

\* Bounds are addresses or one beyond.
LEMMA BoundsType ==
  ASSUME NEW bd \in Bounds, NEW k \in Keys
  PROVE  /\ bd[k]["left"] \in Int /\ bd[k]["right"] \in Int /\ bd[k]["left"] >= -1 /\ bd[k]["right"] <= AddrBound + 1
         /\ \A d \in Sides : bd[k][d] \in Int
<1>1. bd[k] \in [Sides -> (-1) .. (AddrBound + 1)] /\ AddrBound \in Nat /\ "left" \in Sides /\ "right" \in Sides
  BY VmaConstants DEF Bounds, Sides
<1>2. \A d \in Sides : bd[k][d] \in (-1) .. (AddrBound + 1)
  BY <1>1
<1> QED
  BY <1>1, <1>2

\* What is within the bounds of a child is within those of its parent, on that side.
LEMMA ChildInside ==
  ASSUME NEW t, NEW S, NEW bd, Shape(t, S, bd), NEW k \in S, NEW d \in Sides, NEW c, c = Ch(t, k, d), c # NilNode
  PROVE  /\ c \in S /\ Par(t, c) = k /\ c # k /\ Within(bd, k, c)
         /\ \A m \in Int : Within(bd, c, m) => Within(bd, k, m) /\ m # k /\ (d = "left" <=> m < k)
         /\ bd[c]["right"] - bd[c]["left"] < bd[k]["right"] - bd[k]["left"]
<1>1. c \in S /\ Par(t, c) = k /\ BoundsBelow(bd, k, d, c)
  BY DEF Shape, ChildOk
<1>2. k \in Keys /\ c \in Keys /\ bd \in Bounds /\ Within(bd, c, c) /\ Within(bd, k, k) /\ c \in Int /\ k \in Int
  BY <1>1, VmaConstants DEF Shape
<1>3. PICK lk, rk, lc, rc \in Int : lk = bd[k]["left"] /\ rk = bd[k]["right"] /\ lc = bd[c]["left"] /\ rc = bd[c]["right"]
  BY <1>2, BoundsType
<1>4. lc < c /\ c < rc /\ lk < k /\ k < rk
  BY <1>2, <1>3 DEF Within
<1>5. CASE d = "left"
  <2>1. lc = lk /\ rc = k
    BY <1>1, <1>3, <1>5 DEF BoundsBelow, Other
  <2> QED
    BY <1>1, <1>2, <1>3, <1>4, <1>5, <2>1 DEF Within
<1>6. CASE d = "right"
  <2>1. lc = k /\ rc = rk
    BY <1>1, <1>3, <1>6 DEF BoundsBelow, Other
  <2> QED
    BY <1>1, <1>2, <1>3, <1>4, <1>6, <2>1 DEF Within
<1> QED
  BY <1>5, <1>6 DEF Sides

\* The side of a node is the one where the parent has it.
LEMMA SideIs ==
  ASSUME NEW t, NEW S, NEW bd, Shape(t, S, bd), NEW k \in S, NEW d \in Sides, NEW c, c = Ch(t, k, d), c # NilNode
  PROVE  SideOf(t, k, c) = d /\ \A e \in Sides : Ch(t, k, e) = c => e = d
<1>1. ASSUME NEW e \in Sides, Ch(t, k, e) = c PROVE e = d
  <2>0. c \in S
    BY ChildInside
  <2>1. c \in S /\ c \in Int /\ Within(bd, c, c)
    BY <2>0, VmaConstants DEF Shape
  <2>2. d = "left" <=> c < k
    BY <2>1, ChildInside
  <2>3. e = "left" <=> c < k
    BY <1>1, <2>1, ChildInside
  <2> QED
    BY <2>2, <2>3 DEF Sides
<1> QED
  BY <1>1 DEF SideOf, Sides

\* The bounds after a rotation.
RotatedBounds(bd, be, x, y, d) ==
    /\ be \in Bounds /\ be[y] = bd[x] /\ be[x][d] = bd[x][d] /\ be[x][Other(d)] = y
    /\ \A k \in Keys : k \notin {x, y} => be[k] = bd[k]

\* There are such bounds.
LEMMA RotatedBoundsExist ==
  ASSUME NEW bd \in Bounds, NEW x \in Keys, NEW y \in Keys, x # y, NEW d \in Sides
  PROVE  \E be : RotatedBounds(bd, be, x, y, d)
<1>1. PICK o : o = Other(d) /\ o \in Sides /\ o # d
  BY SidesOther
<1>2. PICK B : B = (-1) .. (AddrBound + 1)
  OBVIOUS
<1>3. y \in B /\ bd \in [Keys -> [Sides -> B]]
  BY <1>2, VmaConstants DEF Bounds
<1>4. PICK b : b = [bd[x] EXCEPT ![o] = y]
  OBVIOUS
<1>5. b \in [Sides -> B] /\ b[o] = y /\ b[d] = bd[x][d]
  BY <1>1, <1>3, <1>4
<1>6. PICK be : be = [k \in Keys |-> IF k = y THEN bd[x] ELSE IF k = x THEN b ELSE bd[k]]
  OBVIOUS
<1>7. be \in [Keys -> [Sides -> B]]
  BY <1>3, <1>5, <1>6
<1>8. be \in Bounds
  BY <1>2, <1>7 DEF Bounds
<1>9. be[y] = bd[x] /\ be[x] = b /\ \A k \in Keys : k \notin {x, y} => be[k] = bd[k]
  BY <1>6
<1> QED
  BY <1>1, <1>5, <1>8, <1>9 DEF RotatedBounds

\* In a search tree the nodes of a rotation are different, and the parent has x on one side.
LEMMA RotateApart ==
  ASSUME NEW t, NEW S, NEW bd, Shape(t, S, bd), NEW x \in S, NEW d \in Sides,
         NEW y, y = Ch(t, x, Other(d)), y # NilNode, NEW b, b = Ch(t, y, d), NEW p, p = Par(t, x)
  PROVE  /\ x \in Keys /\ y \in Keys /\ b \in Links /\ p \in Links /\ y \in S /\ (b # NilNode => b \in S) /\ Par(t, y) = x
         /\ x # y /\ b # x /\ b # y /\ p # x /\ p # y /\ (p = NilNode <=> x = t.root)
         /\ (p # NilNode => p \in S /\ Ch(t, p, SideOf(t, p, x)) = x /\ p # b)
<1>0. PICK o : o = Other(d) /\ o \in Sides /\ Other(o) = d
  BY SidesOther
<1>1. t \in Trees /\ S \subseteq Keys /\ S \subseteq Int /\ NilNode \notin Keys /\ RootIs(t, S, bd)
  BY VmaConstants DEF Shape
<1>2. /\ y \in S /\ Par(t, y) = x /\ x # y /\ Within(bd, x, y)
      /\ \A m \in Int : Within(bd, y, m) => Within(bd, x, m) /\ m # x
  BY <1>0, ChildInside
<1>3. b # NilNode => b \in S /\ b # y /\ Within(bd, y, b)
  BY <1>2, ChildInside
<1>4. x \in Keys /\ y \in Keys /\ b \in Links /\ p \in Links
  BY <1>1, <1>2, TreeFields
<1>5. b # NilNode => b # x /\ Within(bd, x, b)
  BY <1>1, <1>2, <1>3
<1>6. p = NilNode => x = t.root
  BY <1>1 DEF Shape, ParentOk
<1>7. x = t.root => p = NilNode
  BY <1>1 DEF RootIs
<1>8. ASSUME p # NilNode PROVE p \in S /\ Ch(t, p, SideOf(t, p, x)) = x /\ p # x /\ p # y /\ p # b
  <2>1. p \in S /\ \E e \in Sides : Ch(t, p, e) = x
    BY <1>7, <1>8 DEF Shape, ParentOk
  <2>2. PICK e \in Sides : Ch(t, p, e) = x
    BY <2>1
  <2>3. x # NilNode
    BY <1>1
  <2>4. x # p /\ \A m \in Int : Within(bd, x, m) => m # p
    BY <2>1, <2>2, <2>3, ChildInside
  <2>5. SideOf(t, p, x) = e
    BY <2>1, <2>2, <2>3, SideIs
  <2>6. b # NilNode => b \in Int
    BY <1>1, <1>3
  <2> QED
    BY <1>1, <1>2, <1>5, <1>8, <2>1, <2>2, <2>4, <2>5, <2>6
<1>9. p # x /\ p # y
  BY <1>1, <1>4, <1>8
<1>10. b # x /\ b # y
  BY <1>1, <1>3, <1>4, <1>5
<1> QED
  BY <1>2, <1>3, <1>4, <1>6, <1>7, <1>8, <1>9, <1>10

\* A rotation keeps a search tree and its nodes.
LEMMA RotateShape ==
  ASSUME NEW t, NEW S, NEW bd, Shape(t, S, bd), NEW x \in S, NEW d \in Sides,
         NEW y, y = Ch(t, x, Other(d)), y # NilNode, NEW b, b = Ch(t, y, d), NEW p, p = Par(t, x),
         NEW z, Rotated(t, z, x, y, b, p, d), NEW be, RotatedBounds(bd, be, x, y, d)
  PROVE  Shape(z, S, be)
<1>0. PICK o : o = Other(d) /\ o \in Sides /\ Other(o) = d /\ o # d /\ \A e \in Sides : e = d \/ e = o
  BY SidesOther
<1>1. t \in Trees /\ S \subseteq Keys /\ S \subseteq Int /\ NilNode \notin Keys /\ RootIs(t, S, bd) /\ bd \in Bounds
  BY VmaConstants DEF Shape
<1>2. /\ x \in Keys /\ y \in Keys /\ b \in Links /\ p \in Links /\ y \in S /\ (b # NilNode => b \in S) /\ Par(t, y) = x
      /\ x # y /\ b # x /\ b # y /\ p # x /\ p # y /\ (p = NilNode <=> x = t.root)
      /\ (p # NilNode => p \in S /\ Ch(t, p, SideOf(t, p, x)) = x /\ p # b)
  BY RotateApart
<1>3. be \in Bounds /\ be[y] = bd[x] /\ be[x][d] = bd[x][d] /\ be[x][o] = y /\ \A k \in Keys : k \notin {x, y} => be[k] = bd[k]
  BY <1>0 DEF RotatedBounds
<1>4. z \in Trees /\ \A k \in S : End(z, k) = End(t, k)
  BY <1>1 DEF Rotated, SameEnds
<1>5. RootIs(z, S, be)
  <2>1. CASE p = NilNode
    BY <1>1, <1>2, <1>3, <2>1 DEF RootIs, Rotated
  <2>2. CASE p # NilNode
    <3>1. z.root = t.root /\ t.root \in S /\ t.root \notin {x, y, b}
      <4>1. t.root \in S /\ Par(t, t.root) = NilNode
        BY <1>1 DEF RootIs
      <4>2. t.root # x /\ t.root # y
        BY <1>1, <1>2, <2>2, <4>1
      <4>3. t.root # b
        <5>1. b # NilNode => Par(t, b) = y
          BY <1>2, ChildInside
        <5> QED
          BY <1>1, <1>2, <4>1, <5>1
      <4> QED
        BY <2>2, <4>1, <4>2, <4>3 DEF Rotated
    <3>2. Par(z, z.root) = Par(t, t.root) /\ be[z.root] = bd[t.root]
      BY <1>1, <1>3, <3>1 DEF Rotated
    <3> QED
      BY <1>1, <3>1, <3>2 DEF RootIs
  <2> QED
    BY <2>1, <2>2
<1>6. ASSUME NEW k \in S PROVE Within(be, k, k)
  <2>1. Within(bd, k, k)
    BY DEF Shape
  <2>2. CASE k = y
    <3>1. Within(bd, x, y)
      BY <1>0, ChildInside
    <3> QED
      BY <1>3, <2>2, <3>1 DEF Within
  <2>3. CASE k = x
    <3>1. Within(bd, x, x) /\ Within(bd, y, y) /\ y \in Int /\ x \in Int
      BY <1>1, <1>2 DEF Shape
    <3>2. o = "left" <=> y < x
      BY <1>0, <1>2, <3>1, ChildInside
    <3>3. CASE d = "left"
      <4>1. o = "right" /\ x < y
        BY <1>0, <1>2, <3>1, <3>2, <3>3 DEF Other
      <4> QED
        BY <1>3, <2>3, <3>1, <3>3, <4>1 DEF Within
    <3>4. CASE d = "right"
      <4>1. o = "left" /\ y < x
        BY <1>0, <1>2, <3>1, <3>2, <3>4 DEF Other
      <4> QED
        BY <1>3, <2>3, <3>1, <3>4, <4>1 DEF Within
    <3> QED
      BY <3>3, <3>4 DEF Sides
  <2>4. CASE k \notin {x, y}
    BY <1>1, <1>3, <2>1, <2>4 DEF Within
  <2> QED
    BY <2>2, <2>3, <2>4
<1>7. ASSUME NEW k \in S PROVE ParentOk(z, S, k)
  <2>0. ParentOk(t, S, k) /\ k \in Keys
    BY <1>1 DEF Shape
  <2>1. CASE k = x
    BY <1>0, <1>2, <2>1 DEF ParentOk, Rotated
  <2>2. CASE k = y
    <3>1. CASE p = NilNode
      BY <2>2, <3>1 DEF ParentOk, Rotated
    <3>2. CASE p # NilNode
      <4>1. SideOf(t, p, x) \in Sides
        BY DEF SideOf, Sides
      <4>2. Ch(z, p, SideOf(t, p, x)) = y
        BY <1>1, <1>2, <3>2, <4>1 DEF Rotated
      <4> QED
        BY <1>2, <2>2, <3>2, <4>1, <4>2 DEF ParentOk, Rotated
    <3> QED
      BY <3>1, <3>2
  <2>3. CASE k = b
    <3>1. b # NilNode
      BY <1>1, <2>3
    <3> QED
      BY <1>0, <2>3, <3>1 DEF ParentOk, Rotated
  <2>4. CASE k \notin {x, y, b}
    <3>1. SUFFICES ASSUME k # z.root PROVE Par(z, k) \in S /\ \E e \in Sides : Ch(z, Par(z, k), e) = k
      BY DEF ParentOk
    <3>2. Par(z, k) = Par(t, k)
      BY <2>0, <2>4 DEF Rotated
    <3>3. k # t.root
      BY <1>2, <2>4, <3>1 DEF Rotated
    <3>4. PICK e \in Sides : Ch(t, Par(t, k), e) = k
      BY <2>0, <3>3 DEF ParentOk
    <3>5. PICK q : q = Par(t, k) /\ q \in S
      BY <2>0, <3>3 DEF ParentOk
    <3>6. Ch(z, q, e) = k
      <4>1. CASE q = x
        <5>1. e = d
          BY <1>0, <2>4, <3>4, <3>5, <4>1
        <5> QED
          BY <3>4, <3>5, <4>1, <5>1 DEF Rotated
      <4>2. CASE q = y
        <5>1. e = o
          BY <1>0, <2>4, <3>4, <3>5, <4>2
        <5> QED
          BY <1>0, <3>4, <3>5, <4>2, <5>1 DEF Rotated
      <4>3. CASE q \notin {x, y}
        <5>1. ~(q = p /\ e = SideOf(t, p, x))
          BY <1>1, <1>2, <2>4, <3>4, <3>5
        <5> QED
          BY <1>1, <3>4, <3>5, <4>3, <5>1 DEF Rotated
      <4> QED
        BY <4>1, <4>2, <4>3
    <3> QED
      BY <3>2, <3>5, <3>6
  <2> QED
    BY <2>1, <2>2, <2>3, <2>4
<1>8. ASSUME NEW k \in S, NEW e \in Sides PROVE ChildOk(z, S, be, k, e)
  <2> DEFINE c == Ch(z, k, e)
  <2>1. SUFFICES ASSUME c # NilNode
                 PROVE  c \in S /\ Par(z, c) = k /\ be[c][e] = be[k][e] /\ be[c][Other(e)] = k
    BY DEF ChildOk, BoundsBelow
  <2>b. /\ bd[y][o] = bd[x][o] /\ bd[y][d] = x
        /\ b # NilNode => Par(t, b) = y /\ bd[b][d] = bd[y][d] /\ bd[b][o] = y
    BY <1>0, <1>2 DEF Shape, ChildOk, BoundsBelow
  <2>2. CASE k = x /\ e = o
    <3>1. c = b /\ b # NilNode /\ b \in Keys
      BY <1>0, <1>2, <2>1, <2>2 DEF Rotated, Links
    <3>2. be[b] = bd[b] /\ Par(z, b) = x
      BY <1>2, <1>3, <3>1 DEF Rotated
    <3> QED
      BY <1>0, <1>2, <1>3, <2>2, <2>b, <3>1, <3>2
  <2>3. CASE k = y /\ e = d
    <3>1. c = x
      BY <2>3 DEF Rotated
    <3> QED
      BY <1>0, <1>2, <1>3, <2>3, <3>1 DEF Rotated
  <2>4. CASE k = p /\ e = SideOf(t, p, x)
    <3>1. p # NilNode /\ p \in S /\ c = y /\ p \notin {x, y}
      BY <1>1, <1>2, <2>4 DEF Rotated
    <3>2. Ch(t, p, e) = x /\ x # NilNode
      BY <1>1, <1>2, <2>4, <3>1
    <3>3. bd[x][e] = bd[p][e] /\ bd[x][Other(e)] = p
      BY <3>1, <3>2 DEF Shape, ChildOk, BoundsBelow
    <3> QED
      BY <1>1, <1>2, <1>3, <2>4, <3>1, <3>3 DEF Rotated
  <2>5. CASE ~(k = x /\ e = o) /\ ~(k = y /\ e = d) /\ ~(k = p /\ e = SideOf(t, p, x))
    <3>1. c = Ch(t, k, e)
      <4>1. CASE k = x
        BY <1>0, <2>5, <4>1 DEF Rotated
      <4>2. CASE k = y
        BY <1>0, <2>5, <4>2 DEF Rotated
      <4>3. CASE k \notin {x, y}
        BY <1>1, <2>5, <4>3 DEF Rotated
      <4> QED
        BY <4>1, <4>2, <4>3
    <3>2. c \in S /\ Par(t, c) = k /\ bd[c][e] = bd[k][e] /\ bd[c][Other(e)] = k
      BY <2>1, <3>1 DEF Shape, ChildOk, BoundsBelow
    <3>3. c # x
      <4>1. ASSUME c = x PROVE FALSE
        <5>1. k = p /\ p # NilNode
          BY <1>1, <3>2, <4>1
        <5>2. Ch(t, p, e) = x /\ x # NilNode /\ p \in S
          BY <1>1, <1>2, <3>1, <4>1, <5>1
        <5>3. SideOf(t, p, x) = e
          BY <5>2, SideIs
        <5> QED
          BY <2>5, <5>1, <5>3
      <4> QED
        BY <4>1
    <3>4. c # y
      <4>1. ASSUME c = y PROVE FALSE
        <5>1. k = x /\ e = d
          BY <1>0, <1>2, <2>5, <3>2, <4>1
        <5>2. Ch(t, x, d) = y
          BY <3>1, <4>1, <5>1
        <5> QED
          BY <1>0, <1>2, <5>2, SideIs
      <4> QED
        BY <4>1
    <3>5. c # b
      <4>1. ASSUME c = b PROVE FALSE
        <5>1. k = y /\ e = o
          BY <1>0, <2>1, <2>5, <2>b, <3>2, <4>1
        <5>2. Ch(t, y, o) = b /\ b # NilNode
          BY <2>1, <3>1, <4>1, <5>1
        <5> QED
          BY <1>0, <1>2, <5>2, SideIs
      <4> QED
        BY <4>1
    <3>6. Par(z, c) = k /\ be[c] = bd[c]
      BY <1>1, <1>3, <3>2, <3>3, <3>4, <3>5 DEF Rotated
    <3>7. be[k][e] = bd[k][e]
      <4>1. CASE k = x
        BY <1>0, <1>3, <2>5, <4>1
      <4>2. CASE k = y
        BY <1>0, <1>3, <2>5, <2>b, <4>2
      <4>3. CASE k \notin {x, y}
        BY <1>1, <1>3, <4>3
      <4> QED
        BY <4>1, <4>2, <4>3
    <3> QED
      BY <3>2, <3>6, <3>7
  <2> QED
    BY <2>2, <2>3, <2>4, <2>5
<1>9. \A k \in S : k < End(z, k)
  BY <1>4 DEF Shape
<1> QED
  BY <1>1, <1>3, <1>4, <1>5, <1>6, <1>7, <1>8, <1>9 DEF Shape
-----------------------------------------------------------------------------
\* The colours have nothing to do with the shape.
LEMMA ShapeSame ==
  ASSUME NEW t, NEW S, NEW bd, Shape(t, S, bd), NEW z \in Trees, z.root = t.root,
         SameChildren(t, z), SameParents(t, z), SameEnds(t, z)
  PROVE  Shape(z, S, bd)
<1>1. S \subseteq Keys /\ (S # {} => t.root \in S)
  BY DEF Shape, RootIs
<1>2. RootIs(z, S, bd)
  BY <1>1 DEF Shape, RootIs, SameParents
<1>3. \A k \in S : ParentOk(z, S, k)
  <2> TAKE k \in S
  <2>1. ParentOk(t, S, k) /\ k \in Keys /\ Par(z, k) = Par(t, k)
    BY <1>1 DEF Shape, SameParents
  <2> QED
    BY <1>1, <2>1 DEF ParentOk, SameChildren
<1>4. \A k \in S, d \in Sides : ChildOk(z, S, bd, k, d)
  <2> TAKE k \in S, d \in Sides
  <2>1. ChildOk(t, S, bd, k, d) /\ k \in Keys /\ Ch(z, k, d) = Ch(t, k, d)
    BY <1>1 DEF Shape, SameChildren
  <2> QED
    BY <1>1, <2>1 DEF ChildOk, SameParents
<1>5. \A k \in S : End(z, k) = End(t, k)
  BY <1>1 DEF SameEnds
<1> QED
  BY <1>2, <1>3, <1>4, <1>5 DEF Shape

\* bh gives each node the number of black nodes on every way down from it.
Weight(t, k) == IF Red(t, k) THEN 0 ELSE 1
BlackOf(bh, c) == IF c = NilNode THEN 0 ELSE bh[c]
Blacks(t, S, bh) ==
    /\ bh \in [Keys -> Int]
    /\ \A k \in S, d \in Sides : bh[k] = BlackOf(bh, Ch(t, k, d)) + Weight(t, k)

\* A rotation at x whose child y is red, with their colours exchanged.
LEMMA RotateBlacks ==
  ASSUME NEW t, NEW S, NEW bd, Shape(t, S, bd), NEW bh, Blacks(t, S, bh), NEW x \in S, NEW d \in Sides,
         NEW y, y = Ch(t, x, Other(d)), y # NilNode, Red(t, y), NEW b, b = Ch(t, y, d), NEW p, p = Par(t, x),
         NEW z \in Trees, Red(z, x), Red(z, y) = Red(t, x), \A k \in S \ {x, y} : Red(z, k) = Red(t, k),
         NEW u, SameChildren(u, t), SameParents(u, t), Rotated(u, z, x, y, b, p, d)
  PROVE  \E bi : Blacks(z, S, bi)
<1>0. PICK o : o = Other(d) /\ o \in Sides /\ Other(o) = d /\ o # d /\ \A e \in Sides : e = d \/ e = o
  BY SidesOther
<1>1. S \subseteq Keys /\ NilNode \notin Keys /\ bh \in [Keys -> Int]
  BY VmaConstants DEF Shape, Blacks
<1>2. /\ x \in Keys /\ y \in Keys /\ b \in Links /\ y \in S /\ Par(t, y) = x
      /\ x # y /\ b # x /\ b # y /\ p # x /\ p # y
      /\ (p # NilNode => p \in S /\ Ch(t, p, SideOf(t, p, x)) = x)
  BY RotateApart
<1>3. PICK bi : bi = [k \in Keys |-> IF k = y THEN bh[x] ELSE IF k = x THEN bh[y] ELSE bh[k]]
  OBVIOUS
<1>4. bi \in [Keys -> Int] /\ bi[y] = bh[x] /\ bi[x] = bh[y] /\ \A k \in Keys : k \notin {x, y} => bi[k] = bh[k]
  BY <1>1, <1>2, <1>3
<1>5. PICK hx, hy, a, c, e1, w \in Int :
        /\ hx = bh[x] /\ hy = bh[y] /\ w = Weight(t, x)
        /\ a = BlackOf(bh, Ch(t, x, d)) /\ c = BlackOf(bh, b) /\ e1 = BlackOf(bh, Ch(t, y, o))
  <2>1. \A k \in S, e \in Sides : Ch(t, k, e) \in Links /\ BlackOf(bh, Ch(t, k, e)) \in Int
    <3>1. \A k \in S, e \in Sides : Ch(t, k, e) \in Links
      BY <1>1, TreeFields DEF Shape
    <3> QED
      BY <1>1, <3>1 DEF BlackOf, Links
  <2>2. Weight(t, x) \in Int
    BY DEF Weight
  <2> QED
    BY <1>0, <1>1, <1>2, <2>1, <2>2
<1>6. hx = a + w /\ hx = hy + w /\ hy = c /\ hy = e1
  <2>1. Weight(t, y) = 0 /\ BlackOf(bh, y) = hy
    BY <1>5 DEF Weight, BlackOf
  <2>2. /\ hx = BlackOf(bh, Ch(t, x, d)) + Weight(t, x) /\ hx = BlackOf(bh, Ch(t, x, o)) + Weight(t, x)
        /\ hy = BlackOf(bh, Ch(t, y, d)) + Weight(t, y) /\ hy = BlackOf(bh, Ch(t, y, o)) + Weight(t, y)
    BY <1>0, <1>2, <1>5 DEF Blacks
  <2> QED
    BY <1>0, <1>5, <2>1, <2>2
<1>7. \A k \in Keys : k \notin {x, y} => BlackOf(bi, k) = BlackOf(bh, k)
  BY <1>4 DEF BlackOf
<1>8. ASSUME NEW k \in S, NEW e \in Sides, Ch(t, k, e) \in {x, y}
      PROVE  (k = x /\ e = o) \/ (k = p /\ e = SideOf(t, p, x))
  <2>1. Par(t, Ch(t, k, e)) = k /\ Ch(t, k, e) # NilNode
    BY <1>1, <1>2, <1>8, ChildInside
  <2>2. CASE Ch(t, k, e) = x
    BY <2>1, <2>2, SideIs
  <2>3. CASE Ch(t, k, e) = y
    <3>1. k = x
      BY <1>2, <2>1, <2>3
    <3> QED
      BY <1>0, <2>1, <2>3, <3>1, SideIs
  <2> QED
    BY <1>8, <2>2, <2>3
<1>9. /\ Ch(z, x, o) = b /\ Ch(z, x, d) = Ch(t, x, d) /\ Ch(z, y, d) = x /\ Ch(z, y, o) = Ch(t, y, o)
      /\ \A k \in S, e \in Sides :
            k \notin {x, y} => Ch(z, k, e) = IF k = p /\ e = SideOf(t, p, x) THEN y ELSE Ch(t, k, e)
  <2>1. SideOf(u, p, x) = SideOf(t, p, x) \/ p = NilNode
    <3>1. p # NilNode => p \in Keys /\ "left" \in Sides
      BY <1>1, <1>2 DEF Sides
    <3> QED
      BY <3>1 DEF SideOf, SameChildren
  <2> QED
    BY <1>0, <1>1, <1>2, <2>1 DEF Rotated, SameChildren
<1>10. BlackOf(bi, NilNode) = 0 /\ BlackOf(bh, NilNode) = 0
  BY DEF BlackOf
<1>11. \A k \in S, e \in Sides : Ch(t, k, e) \in Links
  BY <1>1, TreeFields DEF Shape
<1>12. ASSUME NEW k \in S, NEW e \in Sides PROVE bi[k] = BlackOf(bi, Ch(z, k, e)) + Weight(z, k)
  <2>1. CASE k = x
    <3>1. Weight(z, x) = 0
      BY DEF Weight
    <3>2. CASE e = o
      <4>1. BlackOf(bi, b) = c
        BY <1>2, <1>5, <1>7, <1>10 DEF Links
      <4> QED
        BY <1>4, <1>5, <1>6, <1>9, <2>1, <3>1, <3>2, <4>1
    <3>3. CASE e = d
      <4>1. Ch(t, x, d) \notin {x, y}
        BY <1>0, <1>2, <1>8
      <4>2. BlackOf(bi, Ch(t, x, d)) = a
        BY <1>5, <1>7, <1>10, <1>11, <4>1 DEF Links
      <4>3. hy = a
        BY <1>6
      <4>4. bi[k] = a /\ Ch(z, k, e) = Ch(t, x, d) /\ Weight(z, k) = 0
        BY <1>4, <1>5, <1>9, <2>1, <3>1, <3>3, <4>3
      <4> QED
        BY <4>2, <4>4
    <3> QED
      BY <1>0, <3>2, <3>3
  <2>2. CASE k = y
    <3>1. Weight(z, y) = w
      BY <1>5 DEF Weight
    <3>2. CASE e = d
      <4>1. BlackOf(bi, x) = hy
        BY <1>1, <1>2, <1>4, <1>5 DEF BlackOf
      <4> QED
        BY <1>4, <1>5, <1>6, <1>9, <2>2, <3>1, <3>2, <4>1
    <3>3. CASE e = o
      <4>1. Ch(t, y, o) \notin {x, y}
        BY <1>0, <1>2, <1>8
      <4>2. BlackOf(bi, Ch(t, y, o)) = e1
        BY <1>0, <1>2, <1>5, <1>7, <1>10, <1>11, <4>1 DEF Links
      <4> QED
        BY <1>4, <1>5, <1>6, <1>9, <2>2, <3>1, <3>3, <4>2
    <3> QED
      BY <1>0, <3>2, <3>3
  <2>3. CASE k \notin {x, y}
    <3>1. bi[k] = bh[k] /\ Weight(z, k) = Weight(t, k)
      BY <1>1, <1>4, <2>3 DEF Weight
    <3>2. bh[k] = BlackOf(bh, Ch(t, k, e)) + Weight(t, k)
      BY DEF Blacks
    <3>3. CASE k = p /\ e = SideOf(t, p, x)
      <4>1. p # NilNode
        BY <1>1, <3>3
      <4>2. Ch(t, k, e) = x /\ Ch(z, k, e) = y
        BY <1>2, <1>9, <2>3, <3>3, <4>1
      <4>3. BlackOf(bi, y) = BlackOf(bh, x)
        BY <1>1, <1>2, <1>4 DEF BlackOf
      <4> QED
        BY <3>1, <3>2, <4>2, <4>3
    <3>4. CASE ~(k = p /\ e = SideOf(t, p, x))
      <4>1. Ch(z, k, e) = Ch(t, k, e) /\ Ch(t, k, e) \notin {x, y}
        BY <1>8, <1>9, <2>3, <3>4
      <4>2. BlackOf(bi, Ch(t, k, e)) = BlackOf(bh, Ch(t, k, e))
        BY <1>7, <1>10, <1>11, <4>1 DEF Links
      <4> QED
        BY <3>1, <3>2, <4>1, <4>2
    <3> QED
      BY <3>3, <3>4
  <2> QED
    BY <2>1, <2>2, <2>3
<1> QED
  BY <1>4, <1>12 DEF Blacks

\* At most the node z is red below a red parent or at the root.
OnlyRedAt(t, S, z) == \A k \in S : Red(t, k) /\ k # z => k # t.root /\ ~Red(t, Par(t, k))

RedTree(t, S, z) ==
    /\ z \in S /\ Red(t, z) /\ OnlyRedAt(t, S, z)
    /\ \E bd, bh : Shape(t, S, bd) /\ Blacks(t, S, bh)

\* The last turn: the parent p of z, on the same side d of its parent g, takes its place.
LEMMA OuterTurn ==
  ASSUME NEW t, NEW S, NEW z, RedTree(t, S, z), NEW d \in Sides, NEW p \in S, NEW g \in S, Ch(t, g, d) = p, Ch(t, p, d) = z,
         Red(t, p), NEW q, q = Ch(t, g, Other(d)), q # NilNode => ~Red(t, q),
         NEW r, r = vma_rb_rotate(Paint(Paint(t, p, FALSE), g, TRUE), g, Other(d))
  PROVE  RedTree(r, S, z) /\ ~RedParent(r, z)
<1>0. PICK o : o = Other(d) /\ o \in Sides /\ Other(o) = d /\ o # d /\ \A e \in Sides : e = d \/ e = o
  BY SidesOther
<1>1. PICK bd, bh : Shape(t, S, bd) /\ Blacks(t, S, bh)
  BY DEF RedTree
<1>2. t \in Trees /\ S \subseteq Keys /\ NilNode \notin Keys /\ z \in S /\ Red(t, z) /\ OnlyRedAt(t, S, z)
  BY <1>1, VmaConstants DEF Shape, RedTree
<1>3. p # g /\ z # p /\ z # NilNode /\ p # NilNode /\ Par(t, p) = g /\ Par(t, z) = p
  BY <1>1, <1>2, ChildInside
<1>4. ~Red(t, g) /\ p # t.root
  <2>1. p # z
    BY <1>3
  <2> QED
    BY <1>2, <1>3, <2>1 DEF OnlyRedAt
<1>5. PICK u : u = Paint(Paint(t, p, FALSE), g, TRUE)
  OBVIOUS
<1>6. /\ u \in Trees /\ u.root = t.root /\ SameChildren(t, u) /\ SameParents(t, u) /\ SameEnds(t, u)
      /\ \A k \in Keys : Red(u, k) = IF k = g THEN TRUE ELSE IF k = p THEN FALSE ELSE Red(t, k)
  <2>1. PICK v : v = Paint(t, p, FALSE)
    OBVIOUS
  <2>2. ColourIsSet(t, v, p, FALSE) /\ v \in Trees
    <3>1. ColourIsSet(t, v, p, FALSE)
      BY <1>2, <2>1, ColourSet
    <3> QED
      BY <3>1 DEF ColourIsSet
  <2>3. ColourIsSet(v, u, g, TRUE)
    BY <1>2, <1>5, <2>1, <2>2, ColourSet
  <2> QED
    BY <2>2, <2>3 DEF ColourIsSet, SameChildren, SameParents, SameEnds
<1>7. Shape(u, S, bd)
  BY <1>1, <1>6, ShapeSame
<1>8. PICK b, pp : b = Ch(t, p, o) /\ pp = Par(t, g)
  OBVIOUS
<1>9. Ch(u, g, d) = p /\ Ch(u, p, o) = b /\ Par(u, g) = pp /\ Ch(u, g, o) = q
  BY <1>0, <1>2, <1>6, <1>8 DEF SameChildren, SameParents
<1>10. /\ g \in Keys /\ p \in Keys /\ b \in Links /\ pp \in Links /\ (b # NilNode => b \in S)
       /\ g # p /\ b # g /\ b # p /\ pp # g /\ pp # p /\ (pp = NilNode <=> g = u.root)
  BY <1>0, <1>3, <1>7, <1>9, RotateApart
<1>11. Rotated(u, r, g, p, b, pp, o)
  BY <1>0, <1>5, <1>6, <1>9, <1>10, RotateIs
<1>12. PICK be : RotatedBounds(bd, be, g, p, o)
  BY <1>0, <1>1, <1>10, RotatedBoundsExist DEF Shape
<1>13. Shape(r, S, be)
  BY <1>0, <1>3, <1>7, <1>9, <1>11, <1>12, RotateShape
<1>14. r \in Trees /\ \A k \in S : Red(r, k) = IF k = g THEN TRUE ELSE IF k = p THEN FALSE ELSE Red(t, k)
  BY <1>2, <1>6, <1>11 DEF Rotated, SameColours
<1>15. \E bi : Blacks(r, S, bi)
  <2>0. Red(t, g) = FALSE
    BY <1>2, <1>4, TreeFields
  <2>1. Red(r, g) /\ Red(r, p) = Red(t, g) /\ \A k \in S \ {g, p} : Red(r, k) = Red(t, k)
    BY <1>3, <1>14, <2>0
  <2>2. SameChildren(u, t) /\ SameParents(u, t)
    BY <1>6 DEF SameChildren, SameParents
  <2>3. p = Ch(t, g, Other(o)) /\ p # NilNode /\ r \in Trees
    BY <1>0, <1>3, <1>14
  <2> QED
    BY <1>0, <1>1, <1>8, <1>11, <2>1, <2>2, <2>3, RotateBlacks
<1>16. z # g
  BY <1>2, <1>4
<1>17. b # NilNode => ~Red(t, b) /\ b # z
  <2>1. ASSUME b # NilNode PROVE b \in S /\ Par(t, b) = p /\ b # z
    BY <1>0, <1>1, <1>3, <1>8, <2>1, ChildInside, SideIs
  <2> QED
    BY <1>2, <2>1 DEF OnlyRedAt
<1>18. OnlyRedAt(r, S, z)
  <2>1. ASSUME NEW k \in S, Red(r, k), k # z PROVE k # r.root /\ ~Red(r, Par(r, k))
    <3>0. r.root = IF pp = NilNode THEN p ELSE t.root
      BY <1>6, <1>11 DEF Rotated
    <3>1. CASE k = g
      <4>1. Par(r, g) = p /\ ~Red(r, p)
        BY <1>3, <1>11, <1>14 DEF Rotated
      <4>2. g # r.root
        BY <1>3, <1>6, <1>10, <3>0
      <4> QED
        BY <3>1, <4>1, <4>2
    <3>2. CASE k # g
      <4>1. k # p /\ Red(t, k)
        BY <1>14, <2>1, <3>2
      <4>2. k # t.root /\ ~Red(t, Par(t, k)) /\ k # b
        BY <1>2, <1>17, <2>1, <4>1 DEF OnlyRedAt
      <4>3. Par(r, k) = Par(t, k)
        BY <1>2, <1>6, <1>11, <3>2, <4>1, <4>2 DEF Rotated, SameParents
      <4>4. Par(t, k) \in S /\ \E e \in Sides : Ch(t, Par(t, k), e) = k
        BY <1>1, <4>2 DEF Shape, ParentOk
      <4>5. Par(t, k) # g
        BY <1>0, <1>2, <2>1, <4>1, <4>4
      <4>6. ~Red(r, Par(t, k))
        BY <1>14, <4>2, <4>4, <4>5
      <4> QED
        BY <3>0, <4>1, <4>2, <4>3, <4>6
    <3> QED
      BY <3>1, <3>2
  <2> QED
    BY <2>1 DEF OnlyRedAt
<1>19. Red(r, z) /\ Par(r, z) = p /\ ~Red(r, p)
  <2>1. Par(r, z) = Par(u, z)
    BY <1>2, <1>3, <1>11, <1>16, <1>17 DEF Rotated
  <2> QED
    BY <1>2, <1>3, <1>6, <1>14, <1>16, <2>1 DEF SameParents
<1> QED
  BY <1>2, <1>13, <1>15, <1>18, <1>19 DEF RedTree, RedParent, Red, Par

\* The turn before it: z, on the other side of its parent p, changes places with it.
LEMMA InnerTurn ==
  ASSUME NEW t, NEW S, NEW z, RedTree(t, S, z), NEW d \in Sides, NEW p \in S, NEW g \in S,
         Ch(t, g, d) = p, Ch(t, p, Other(d)) = z, Red(t, p), NEW r, r = vma_rb_rotate(t, p, d)
  PROVE  /\ RedTree(r, S, p) /\ Ch(r, g, d) = z /\ Ch(r, z, d) = p /\ Red(r, z) /\ SameColours(t, r)
         /\ Ch(r, g, Other(d)) = Ch(t, g, Other(d))
<1>0. PICK o : o = Other(d) /\ o \in Sides /\ Other(o) = d /\ o # d /\ \A e \in Sides : e = d \/ e = o
  BY SidesOther
<1>1. PICK bd, bh : Shape(t, S, bd) /\ Blacks(t, S, bh)
  BY DEF RedTree
<1>2. t \in Trees /\ S \subseteq Keys /\ NilNode \notin Keys /\ z \in S /\ Red(t, z) /\ OnlyRedAt(t, S, z)
  BY <1>1, VmaConstants DEF Shape, RedTree
<1>3. p # g /\ z # p /\ z # NilNode /\ p # NilNode /\ Par(t, p) = g /\ Par(t, z) = p
  BY <1>0, <1>1, <1>2, ChildInside
<1>4. ~Red(t, g) /\ p # t.root
  <2>1. p # z
    BY <1>3
  <2> QED
    BY <1>2, <1>3, <2>1 DEF OnlyRedAt
<1>5. PICK b : b = Ch(t, z, d)
  OBVIOUS
<1>6. /\ p \in Keys /\ z \in Keys /\ b \in Links /\ g \in Links /\ (b # NilNode => b \in S)
      /\ p # z /\ b # p /\ b # z /\ g # p /\ g # z /\ (g # NilNode => g # b)
  BY <1>0, <1>1, <1>3, <1>5, RotateApart
<1>7. Rotated(t, r, p, z, b, g, d)
  BY <1>0, <1>2, <1>3, <1>5, <1>6, RotateIs
<1>8. PICK be : RotatedBounds(bd, be, p, z, d)
  BY <1>0, <1>1, <1>6, RotatedBoundsExist DEF Shape
<1>9. Shape(r, S, be)
  BY <1>0, <1>1, <1>3, <1>5, <1>7, <1>8, RotateShape
<1>10. r \in Trees /\ SameColours(t, r) /\ \A k \in S : Red(r, k) = Red(t, k)
  BY <1>2, <1>7 DEF Rotated, SameColours
<1>11. \E bi : Blacks(r, S, bi)
  <2>1. Red(r, p) /\ Red(r, z) = Red(t, p) /\ \A k \in S \ {p, z} : Red(r, k) = Red(t, k)
    <3>1. Red(t, z) = TRUE /\ Red(t, p) = TRUE
      BY <1>2, TreeFields
    <3> QED
      BY <1>2, <1>10, <3>1
  <2>2. SameChildren(t, t) /\ SameParents(t, t)
    BY DEF SameChildren, SameParents
  <2>3. z = Ch(t, p, Other(d)) /\ z # NilNode /\ r \in Trees /\ g = Par(t, p)
    BY <1>3, <1>10
  <2> QED
    BY <1>1, <1>2, <1>5, <1>7, <2>1, <2>2, <2>3, RotateBlacks
<1>12. SideOf(t, g, p) = d
  BY <1>1, <1>3, SideIs
<1>13. Ch(r, g, d) = z /\ Ch(r, z, d) = p /\ Ch(r, g, o) = Ch(t, g, o) /\ Par(r, z) = g /\ Par(r, p) = z
  BY <1>0, <1>2, <1>6, <1>7, <1>12 DEF Rotated
<1>14. r.root = t.root
  BY <1>2, <1>7 DEF Rotated
<1>15. OnlyRedAt(r, S, p)
  <2>1. ASSUME NEW k \in S, Red(r, k), k # p PROVE k # r.root /\ ~Red(r, Par(r, k))
    <3>0. Red(t, k)
      BY <1>10, <2>1
    <3>1. CASE k = z
      <4>1. z # t.root
        BY <1>1, <1>2, <1>3 DEF Shape, RootIs
      <4> QED
        BY <1>4, <1>10, <1>13, <1>14, <3>1, <4>1
    <3>2. CASE k # z
      <4>1. k # t.root /\ ~Red(t, Par(t, k))
        BY <1>2, <3>0, <3>2 DEF OnlyRedAt
      <4>2. k # b
        <5>1. b # NilNode => Par(t, b) = z
          BY <1>1, <1>2, <1>5, ChildInside
        <5> QED
          BY <1>2, <4>1, <5>1
      <4>3. Par(r, k) = Par(t, k)
        BY <1>2, <1>7, <2>1, <3>2, <4>2 DEF Rotated
      <4>4. Par(t, k) \in S
        BY <1>1, <4>1 DEF Shape, ParentOk
      <4> QED
        BY <1>10, <1>14, <4>1, <4>3, <4>4
    <3> QED
      BY <3>1, <3>2
  <2> QED
    BY <2>1 DEF OnlyRedAt
<1> QED
  BY <1>0, <1>2, <1>9, <1>10, <1>11, <1>13, <1>15 DEF RedTree

\* The turn with a red uncle q: it and the parent become black, and g red.
LEMMA UncleTurn ==
  ASSUME NEW t, NEW S, NEW bd, NEW bh, Shape(t, S, bd), Blacks(t, S, bh), NEW z \in S, OnlyRedAt(t, S, z),
         NEW d \in Sides, NEW p \in S, NEW g \in S, Ch(t, g, d) = p, Par(t, z) = p, Red(t, p),
         NEW q, q = Ch(t, g, Other(d)), q # NilNode, Red(t, q),
         NEW r, r = Paint(Paint(Paint(t, q, FALSE), p, FALSE), g, TRUE)
  PROVE  RedTree(r, S, g) /\ Shape(r, S, bd)
<1>0. PICK o : o = Other(d) /\ o \in Sides /\ Other(o) = d /\ o # d /\ \A e \in Sides : e = d \/ e = o
  BY SidesOther
<1>2. t \in Trees /\ S \subseteq Keys /\ NilNode \notin Keys /\ bh \in [Keys -> Int]
  BY VmaConstants DEF Shape, Blacks
<1>3. p # g /\ p # NilNode /\ Par(t, p) = g /\ q \in S /\ q # g /\ Par(t, q) = g /\ q # p
  <2>1. p # g /\ p # NilNode /\ Par(t, p) = g
    BY <1>2, ChildInside
  <2>2. q \in S /\ q # g /\ Par(t, q) = g
    BY <1>0, ChildInside
  <2>3. q # p
    BY <1>0, <2>1, SideIs
  <2> QED
    BY <2>1, <2>2, <2>3
<1>z. z # t.root /\ z # p /\ z # g
  <2>1. z # t.root
    BY <1>2 DEF Shape, RootIs
  <2>2. \E e \in Sides : Ch(t, p, e) = z
    BY <2>1 DEF Shape, ParentOk
  <2>3. z # p
    BY <1>2, <2>2, ChildInside
  <2>4. z # g
    <3>1. ASSUME z = g PROVE FALSE
      <4>1. PICK e \in Sides : Ch(t, p, e) = g
        BY <2>2, <3>1
      <4>2. p \in Int /\ Within(bd, p, p)
        BY <1>2, VmaConstants DEF Shape
      <4>3. Within(bd, p, g) /\ bd[p]["right"] - bd[p]["left"] < bd[g]["right"] - bd[g]["left"]
            /\ bd[g]["right"] - bd[g]["left"] < bd[p]["right"] - bd[p]["left"]
        BY <1>2, <1>3, <4>1, ChildInside
      <4>4. PICK a, b, c, e1 \in Int : a = bd[p]["right"] /\ b = bd[p]["left"] /\ c = bd[g]["right"] /\ e1 = bd[g]["left"]
        BY <1>2, BoundsType DEF Shape
      <4> QED
        BY <4>3, <4>4
    <3> QED
      BY <3>1
  <2> QED
    BY <2>1, <2>3, <2>4
<1>4. ~Red(t, g) /\ p # t.root
  BY <1>3, <1>z DEF OnlyRedAt
<1>6. /\ r \in Trees /\ r.root = t.root /\ SameChildren(t, r) /\ SameParents(t, r) /\ SameEnds(t, r)
      /\ \A k \in Keys : Red(r, k) = IF k = g THEN TRUE ELSE IF k \in {p, q} THEN FALSE ELSE Red(t, k)
  <2>1. PICK v, u : v = Paint(t, q, FALSE) /\ u = Paint(v, p, FALSE)
    OBVIOUS
  <2>2. ColourIsSet(t, v, q, FALSE) /\ v \in Trees
    <3>1. ColourIsSet(t, v, q, FALSE)
      BY <1>2, <1>3, <2>1, ColourSet
    <3> QED
      BY <3>1 DEF ColourIsSet
  <2>3. ColourIsSet(v, u, p, FALSE) /\ u \in Trees
    <3>1. ColourIsSet(v, u, p, FALSE)
      BY <1>2, <2>1, <2>2, ColourSet
    <3> QED
      BY <3>1 DEF ColourIsSet
  <2>4. ColourIsSet(u, r, g, TRUE)
    BY <1>2, <2>1, <2>3, ColourSet
  <2> QED
    BY <2>2, <2>3, <2>4 DEF ColourIsSet, SameChildren, SameParents, SameEnds
<1>7. Shape(r, S, bd)
  BY <1>6, ShapeSame
<1>8. /\ \A k \in S : Par(r, k) = Par(t, k) /\ Red(r, k) = IF k = g THEN TRUE ELSE IF k \in {p, q} THEN FALSE ELSE Red(t, k)
      /\ \A k \in S, e \in Sides : Ch(r, k, e) = Ch(t, k, e)
  BY <1>2, <1>6 DEF SameParents, SameChildren
<1>9. OnlyRedAt(r, S, g)
  <2>1. ASSUME NEW k \in S, Red(r, k), k # g PROVE k # r.root /\ ~Red(r, Par(r, k))
    <3>1. k \notin {p, q} /\ Red(t, k)
      BY <1>8, <2>1
    <3>2. k # t.root
      BY <1>z, <3>1 DEF OnlyRedAt
    <3>3. Par(t, k) \in S /\ \E e \in Sides : Ch(t, Par(t, k), e) = k
      BY <3>2 DEF Shape, ParentOk
    <3>4. Par(t, k) # g
      BY <1>0, <3>1, <3>3
    <3>5. k = z \/ ~Red(t, Par(t, k))
      BY <3>1 DEF OnlyRedAt
    <3>6. ~Red(r, Par(t, k))
      BY <1>8, <1>3, <3>3, <3>4, <3>5
    <3> QED
      BY <1>6, <1>8, <3>2, <3>6
  <2> QED
    BY <2>1 DEF OnlyRedAt
<1>10. PICK hp, hq, hg \in Int : hp = bh[p] /\ hq = bh[q] /\ hg = bh[g]
  BY <1>2, <1>3
<1>11. PICK bi : bi = [k \in Keys |-> IF k = p THEN hp + 1 ELSE IF k = q THEN hq + 1 ELSE bh[k]]
  OBVIOUS
<1>12. bi \in [Keys -> Int] /\ bi[p] = hp + 1 /\ bi[q] = hq + 1 /\ \A k \in Keys : k \notin {p, q} => bi[k] = bh[k]
  BY <1>2, <1>3, <1>10, <1>11
<1>13. hg = hp + 1 /\ hg = hq + 1
  <2>1. Weight(t, g) = 1 /\ BlackOf(bh, p) = hp /\ BlackOf(bh, q) = hq
    BY <1>3, <1>4, <1>10 DEF Weight, BlackOf
  <2>2. hg = BlackOf(bh, Ch(t, g, d)) + Weight(t, g) /\ hg = BlackOf(bh, Ch(t, g, o)) + Weight(t, g)
    BY <1>0, <1>10 DEF Blacks
  <2> QED
    BY <1>0, <2>1, <2>2
<1>14. \A k \in S, e \in Sides : Ch(t, k, e) \in Links
  BY <1>2, TreeFields
<1>15. ASSUME NEW k \in S, NEW e \in Sides PROVE bi[k] = BlackOf(bi, Ch(r, k, e)) + Weight(r, k)
  <2>0. Ch(r, k, e) = Ch(t, k, e) /\ bh[k] = BlackOf(bh, Ch(t, k, e)) + Weight(t, k) /\ k \in Keys
    BY <1>2, <1>8 DEF Blacks
  <2>1. CASE k = g
    <3>1. Weight(r, k) = 0 /\ bi[k] = hg
      BY <1>2, <1>3, <1>8, <1>10, <1>12, <2>1 DEF Weight
    <3>2. Ch(t, g, e) = p \/ Ch(t, g, e) = q
      BY <1>0
    <3>3. BlackOf(bi, Ch(t, g, e)) = hg
      BY <1>3, <1>12, <1>13, <3>2 DEF BlackOf
    <3>4. BlackOf(bi, Ch(r, k, e)) = hg
      BY <2>0, <2>1, <3>3
    <3>5. hg + 0 = hg
      BY <1>10
    <3> QED
      BY <3>1, <3>4, <3>5, Zenon
  <2>2. CASE k # g
    <3>1. Ch(t, k, e) \notin {p, q}
      <4>1. ASSUME Ch(t, k, e) \in {p, q} PROVE FALSE
        <5>1. Par(t, Ch(t, k, e)) = k
          BY <1>3, <4>1, ChildInside
        <5> QED
          BY <1>3, <2>2, <4>1, <5>1
      <4> QED
        BY <4>1
    <3>2. BlackOf(bi, Ch(t, k, e)) = BlackOf(bh, Ch(t, k, e))
      BY <1>12, <1>14, <3>1 DEF BlackOf, Links
    <3>3. PICK c \in Int : c = BlackOf(bh, Ch(t, k, e))
      BY <1>2, <1>14 DEF BlackOf, Links
    <3>4. CASE k \in {p, q}
      <4>1. Weight(r, k) = 1 /\ Weight(t, k) = 0 /\ bi[k] = bh[k] + 1 /\ bh[k] \in Int
        BY <1>2, <1>8, <1>10, <1>12, <2>2, <3>4 DEF Weight
      <4>2. bh[k] = c + 0
        BY <2>0, <3>3, <4>1
      <4>3. bi[k] = c + 1
        BY <3>3, <4>1, <4>2
      <4>4. BlackOf(bi, Ch(r, k, e)) = c
        BY <2>0, <3>2, <3>3
      <4> QED
        BY <4>1, <4>3, <4>4
    <3>5. CASE k \notin {p, q}
      <4>1. Weight(r, k) = Weight(t, k) /\ bi[k] = bh[k]
        BY <1>8, <1>12, <2>0, <2>2, <3>5 DEF Weight
      <4> QED
        BY <2>0, <3>2, <4>1
    <3> QED
      BY <3>4, <3>5
  <2> QED
    BY <2>1, <2>2
<1>16. Blacks(r, S, bi)
  BY <1>12, <1>15 DEF Blacks
<1>17. Red(r, g)
  BY <1>8
<1> QED
  BY <1>7, <1>9, <1>16, <1>17 DEF RedTree

\* How far the loop has come after i turns: z has climbed, or the loop is at its end.
Size(bd, z) == bd[z]["right"] - bd[z]["left"]
Fixing(f, S, i) ==
    /\ f = [t |-> f.t, z |-> f.z] /\ RedTree(f.t, S, f.z)
    /\ RedParent(f.t, f.z) => \E bd : Shape(f.t, S, bd) /\ Size(bd, f.z) >= i + 2

\* A turn of vma_rb_insert_fixup keeps all but the colour at one node, and climbs unless it is the last.
LEMMA FixTurnKeeps ==
  ASSUME NEW f, NEW S, NEW i \in Nat, Fixing(f, S, i), RedParent(f.t, f.z)
  PROVE  Fixing(FixTurn(f), S, i + 1)
<1>1. PICK t, z : t = f.t /\ z = f.z
  OBVIOUS
<1>2. RedTree(t, S, z) /\ RedParent(t, z)
  BY <1>1 DEF Fixing
<1>3. PICK bd : Shape(t, S, bd) /\ Size(bd, z) >= i + 2
  BY <1>1 DEF Fixing
<1>4. PICK p, g, d, q : p = Par(t, z) /\ g = Par(t, p) /\ d = SideOf(t, g, p) /\ q = Ch(t, g, Other(d))
  OBVIOUS
<1>5. t \in Trees /\ S \subseteq Keys /\ NilNode \notin Keys /\ z \in S /\ OnlyRedAt(t, S, z) /\ RootIs(t, S, bd)
  BY <1>2, <1>3, VmaConstants DEF Shape, RedTree
<1>6. p # NilNode /\ Red(t, p)
  BY <1>2, <1>4 DEF RedParent, Par, Red
<1>7. p \in S /\ \E e \in Sides : Ch(t, p, e) = z
  <2>1. z # t.root
    BY <1>4, <1>5, <1>6 DEF RootIs
  <2> QED
    BY <1>3, <1>4, <1>5, <2>1 DEF Shape, ParentOk
<1>8. PICK e \in Sides : Ch(t, p, e) = z
  BY <1>7
<1>9. p # z
  BY <1>3, <1>5, <1>7, <1>8, ChildInside
<1>10. g \in S /\ \E e1 \in Sides : Ch(t, g, e1) = p
  <2>1. p # t.root
    BY <1>5, <1>6, <1>7, <1>9 DEF OnlyRedAt
  <2> QED
    BY <1>3, <1>4, <1>7, <2>1 DEF Shape, ParentOk
<1>11. Ch(t, g, d) = p /\ d \in Sides
  <2>1. PICK e1 \in Sides : Ch(t, g, e1) = p
    BY <1>10
  <2> QED
    BY <1>3, <1>4, <1>6, <1>10, <2>1, SideIs
<1>12. CASE q # NilNode /\ Red(t, q)
  <2>1. PICK r : r = Paint(Paint(Paint(t, q, FALSE), p, FALSE), g, TRUE)
    OBVIOUS
  <2>2. FixTurn(f) = [t |-> r, z |-> g]
    BY <1>1, <1>4, <1>12, <2>1 DEF FixTurn, Par, SideOf, Ch, Red
  <2>3. PICK bd1, bh : Shape(t, S, bd1) /\ Blacks(t, S, bh)
    BY <1>2 DEF RedTree
  <2>4. RedTree(r, S, g) /\ Shape(r, S, bd)
    BY <1>3, <1>4, <1>5, <1>6, <1>7, <1>10, <1>11, <1>12, <2>1, <2>3, UncleTurn
  <2>5. Size(bd, g) >= i + 1 + 2
    <3>1. Size(bd, z) < Size(bd, p) /\ Size(bd, p) < Size(bd, g)
      BY <1>3, <1>5, <1>6, <1>7, <1>8, <1>10, <1>11, ChildInside DEF Size
    <3>2. Size(bd, z) \in Int /\ Size(bd, p) \in Int /\ Size(bd, g) \in Int
      BY <1>3, <1>5, <1>7, <1>10, BoundsType DEF Shape, Size
    <3> QED
      BY <1>3, <3>1, <3>2
  <2>6. PICK h : h = FixTurn(f)
    OBVIOUS
  <2>7. h = [t |-> h.t, z |-> h.z] /\ h.t = r /\ h.z = g
    BY <2>2, <2>6
  <2> QED
    BY <2>4, <2>5, <2>6, <2>7 DEF Fixing
<1>13. CASE ~(q # NilNode /\ Red(t, q))
  <2>1. ASSUME NEW r, NEW z1, FixTurn(f) = [t |-> r, z |-> z1], RedTree(r, S, z1), ~RedParent(r, z1)
        PROVE  Fixing(FixTurn(f), S, i + 1)
    <3>1. PICK h : h = FixTurn(f)
      OBVIOUS
    <3>2. h = [t |-> h.t, z |-> h.z] /\ h.t = r /\ h.z = z1
      BY <2>1, <3>1
    <3> QED
      BY <2>1, <3>1, <3>2 DEF Fixing
  <2>2. CASE Ch(t, p, Other(d)) = z
    <3>1. PICK t1 : t1 = vma_rb_rotate(t, p, d)
      OBVIOUS
    <3>2. PICK r : r = vma_rb_rotate(Paint(Paint(t1, z, FALSE), g, TRUE), g, Other(d))
      OBVIOUS
    <3>3. FixTurn(f) = [t |-> r, z |-> p]
      BY <1>1, <1>4, <1>13, <2>2, <3>1, <3>2 DEF FixTurn, Par, SideOf, Ch, Red
    <3>4. /\ RedTree(t1, S, p) /\ Ch(t1, g, d) = z /\ Ch(t1, z, d) = p /\ Red(t1, z) /\ SameColours(t, t1)
          /\ Ch(t1, g, Other(d)) = q
      BY <1>2, <1>4, <1>6, <1>7, <1>10, <1>11, <2>2, <3>1, InnerTurn
    <3>5. q # NilNode => ~Red(t1, q)
      <4>1. q # NilNode => q \in Keys
        BY <1>3, <1>4, <1>5, <1>10, <1>11, SidesOther, TreeFields DEF Links
      <4> QED
        BY <1>13, <3>4, <4>1 DEF SameColours
    <3>6. RedTree(r, S, p) /\ ~RedParent(r, p)
      BY <1>5, <1>10, <1>11, <3>2, <3>4, <3>5, OuterTurn
    <3> QED
      BY <2>1, <3>3, <3>6
  <2>3. CASE Ch(t, p, Other(d)) # z
    <3>1. PICK r : r = vma_rb_rotate(Paint(Paint(t, p, FALSE), g, TRUE), g, Other(d))
      OBVIOUS
    <3>2. FixTurn(f) = [t |-> r, z |-> z]
      BY <1>1, <1>4, <1>13, <2>3, <3>1 DEF FixTurn, Par, SideOf, Ch, Red
    <3>3. Ch(t, p, d) = z
      BY <1>8, <1>11, <2>3, SidesOther
    <3>4. RedTree(r, S, z) /\ ~RedParent(r, z)
      BY <1>2, <1>4, <1>6, <1>7, <1>10, <1>11, <1>13, <3>1, <3>3, OuterTurn
    <3> QED
      BY <2>1, <3>2, <3>4
  <2> QED
    BY <2>2, <2>3
<1> QED
  BY <1>12, <1>13

\* No red node is the root or has a red parent.
Coloured(t, S) == \A k \in S : Red(t, k) => k # t.root /\ ~Red(t, Par(t, k))
TreeOk(t, S) == Coloured(t, S) /\ \E bd, bh : Shape(t, S, bd) /\ Blacks(t, S, bh)

\* With the root painted black no red node is left at a red one or at the root.
LEMMA RootPainted ==
  ASSUME NEW t, NEW S, NEW z, RedTree(t, S, z), ~RedParent(t, z), NEW r, r = Paint(t, t.root, FALSE)
  PROVE  TreeOk(r, S)
<1>1. PICK bd, bh : Shape(t, S, bd) /\ Blacks(t, S, bh)
  BY DEF RedTree
<1>2. PICK x : x = t.root
  OBVIOUS
<1>3. /\ t \in Trees /\ S \subseteq Keys /\ NilNode \notin Keys /\ z \in S /\ OnlyRedAt(t, S, z)
      /\ x \in S /\ Par(t, x) = NilNode /\ bh \in [Keys -> Int]
  BY <1>1, <1>2, VmaConstants DEF Shape, RedTree, RootIs, Blacks
<1>4. ColourIsSet(t, r, x, FALSE)
  BY <1>2, <1>3, ColourSet
<1>5. Shape(r, S, bd)
  BY <1>1, <1>4, ShapeSame DEF ColourIsSet
<1>6. /\ \A k \in S : Par(r, k) = Par(t, k) /\ Red(r, k) = IF k = x THEN FALSE ELSE Red(t, k)
      /\ \A k \in S, e \in Sides : Ch(r, k, e) = Ch(t, k, e)
      /\ r.root = x
  BY <1>2, <1>3, <1>4 DEF ColourIsSet, SameParents, SameChildren
<1>7. Coloured(r, S)
  <2>1. ASSUME NEW k \in S, Red(r, k) PROVE k # r.root /\ ~Red(r, Par(r, k))
    <3>1. k # x /\ Red(t, k)
      BY <1>6, <2>1
    <3>2. Par(t, k) \in S
      BY <1>1, <1>2, <3>1 DEF Shape, ParentOk
    <3>3. ~Red(t, Par(t, k))
      <4>1. CASE k = z
        BY <1>3, <3>2, <4>1 DEF RedParent, Par, Red
      <4>2. CASE k # z
        BY <1>3, <3>1, <4>2 DEF OnlyRedAt
      <4> QED
        BY <4>1, <4>2
    <3> QED
      BY <1>6, <3>1, <3>2, <3>3
  <2> QED
    BY <2>1 DEF Coloured
<1>8. PICK h, w \in Int : h = bh[x] /\ w = Weight(t, x)
  BY <1>3 DEF Weight
<1>9. PICK bi : bi = [k \in Keys |-> IF k = x THEN h + 1 - w ELSE bh[k]]
  OBVIOUS
<1>10. bi \in [Keys -> Int] /\ bi[x] = h + 1 - w /\ \A k \in Keys : k # x => bi[k] = bh[k]
  BY <1>3, <1>8, <1>9
<1>11. \A k \in S, e \in Sides : Ch(t, k, e) \in Links
  BY <1>3, TreeFields
<1>12. ASSUME NEW k \in S, NEW e \in Sides PROVE bi[k] = BlackOf(bi, Ch(r, k, e)) + Weight(r, k)
  <2>0. Ch(r, k, e) = Ch(t, k, e) /\ bh[k] = BlackOf(bh, Ch(t, k, e)) + Weight(t, k) /\ k \in Keys
    BY <1>1, <1>3, <1>6 DEF Blacks
  <2>1. Ch(t, k, e) # x
    BY <1>1, <1>3, ChildInside
  <2>2. BlackOf(bi, Ch(t, k, e)) = BlackOf(bh, Ch(t, k, e))
    BY <1>10, <1>11, <2>1 DEF BlackOf, Links
  <2>3. PICK c \in Int : c = BlackOf(bh, Ch(t, k, e))
    BY <1>3, <1>11 DEF BlackOf, Links
  <2>4. CASE k = x
    <3>1. Weight(r, k) = 1
      BY <1>6, <2>4 DEF Weight
    <3>2. h = c + w
      BY <1>8, <2>0, <2>3, <2>4
    <3>3. bi[k] = c + 1
      BY <1>8, <1>10, <2>3, <2>4, <3>2
    <3> QED
      BY <2>0, <2>2, <2>3, <3>1, <3>3, Zenon
  <2>5. CASE k # x
    <3>1. Weight(r, k) = Weight(t, k) /\ bi[k] = bh[k]
      BY <1>6, <1>10, <2>0, <2>5 DEF Weight
    <3> QED
      BY <2>0, <2>2, <3>1
  <2> QED
    BY <2>4, <2>5
<1>13. Blacks(r, S, bi)
  BY <1>10, <1>12 DEF Blacks
<1> QED
  BY <1>5, <1>7, <1>13 DEF TreeOk

\* vma_rb_insert_fixup ends, and makes a red-black tree of one with a red node too many.
LEMMA FixupKeeps ==
  ASSUME NEW t, NEW S, NEW node, RedTree(t, S, node)
  PROVE  TreeOk(vma_rb_insert_fixup(t, node), S)
<1> DEFINE n == Steps
           T == {f \in [t : Trees, z : S] : Fixing(f, S, 0)}
           x == [t |-> t, z |-> node]
           step(i, f) == IF RedParent(f.t, f.z) THEN FixTurn(f) ELSE f
           g == [e \in (1 .. n) \X T |-> step(e[1], e[2])]
           turn[i \in 0 .. Steps] ==
            IF i = 0 THEN [t |-> t, z |-> node]
            ELSE LET f == turn[i - 1] IN IF RedParent(f.t, f.z) THEN FixTurn(f) ELSE f
<1>0. ASSUME NEW f, NEW i \in Nat, Fixing(f, S, i) PROVE f \in T
  <2>1. RedTree(f.t, S, f.z) /\ f = [t |-> f.t, z |-> f.z]
    BY <1>0 DEF Fixing
  <2>2. f.t \in Trees /\ f.z \in S
    BY <2>1 DEF RedTree, Shape
  <2>3. f \in [t : Trees, z : S]
    BY <2>1, <2>2
  <2>4. ASSUME NEW bd, Shape(f.t, S, bd) PROVE Size(bd, f.z) >= 0 + 2
    <3>0. PICK z \in S : z = f.z
      BY <2>2
    <3>1. z \in Keys /\ bd \in Bounds /\ Within(bd, z, z)
      BY <2>4 DEF Shape
    <3>2. z \in Int
      BY <3>1, VmaConstants
    <3> QED
      BY <3>0, <3>1, <3>2, BoundsType DEF Within, Size
  <2>5. \E bd : Shape(f.t, S, bd)
    BY <2>1 DEF RedTree
  <2>6. Fixing(f, S, 0)
    BY <2>1, <2>4, <2>5 DEF Fixing
  <2> QED
    BY <2>3, <2>6
<1>1. n \in Nat
  BY VmaConstants
<1>2. Fixing(x, S, 0) /\ x \in T
  <2>1. x.t = t /\ x.z = node /\ x = [t |-> x.t, z |-> x.z]
    OBVIOUS
  <2>2. PICK bd : Shape(t, S, bd)
    BY DEF RedTree
  <2>3. node \in Keys /\ bd \in Bounds /\ Within(bd, node, node) /\ node \in Int
    BY <2>2, VmaConstants DEF Shape, RedTree
  <2>4. Size(bd, node) >= 0 + 2
    BY <2>3, BoundsType DEF Within, Size
  <2> HIDE DEF x, T
  <2>5. Fixing(x, S, 0)
    BY <2>1, <2>2, <2>4 DEF Fixing
  <2> QED
    BY <1>0, <2>5
<1>3. ASSUME NEW f, NEW i \in Nat, NEW j \in 1 .. n, Fixing(f, S, i) PROVE Fixing(step(j, f), S, i + 1)
  <2>1. CASE RedParent(f.t, f.z)
    BY <1>3, <2>1, FixTurnKeeps
  <2>2. CASE ~RedParent(f.t, f.z)
    BY <1>3, <2>2 DEF Fixing
  <2> QED
    BY <2>1, <2>2
<1>4. ASSUME NEW i \in 1 .. n, NEW f \in T PROVE step(i, f) \in T
  <2>1. Fixing(f, S, 0)
    OBVIOUS
  <2> HIDE DEF T, step
  <2>2. Fixing(step(i, f), S, 0 + 1)
    BY <1>3, <2>1
  <2>3. 0 + 1 \in Nat
    OBVIOUS
  <2> QED
    BY <1>0, <2>2, <2>3
<1>5. PICK done : done = turn[n].t /\ vma_rb_insert_fixup(t, node) = Paint(done, done.root, FALSE)
  BY DEF vma_rb_insert_fixup
<1>6. turn = CHOOSE f : f = [i \in 0 .. n |-> IF i = 0 THEN x ELSE step(i, f[i - 1])]
  BY DEF turn
<1>7. n = AddrBound + 1 /\ AddrBound \in Nat
  BY VmaConstants
<1> HIDE DEF turn, x, T, n
<1>8. g \in [(1 .. n) \X T -> T]
  <2> HIDE DEF step
  <2> QED
    BY <1>4
<1>9. PICK f : IsIterate(f, T, g, x, n)
  <2> HIDE DEF g
  <2> QED
    BY <1>1, <1>2, <1>8, IterateExists
<1> HIDE DEF step
<1>10. f \in [0 .. n -> T] /\ f[0] = x /\ \A i \in 1 .. n : f[i] = step(i, f[i - 1])
  <2>1. f \in [0 .. n -> T] /\ f[0] = x
    BY <1>9 DEF IsIterate
  <2>2. ASSUME NEW i \in 1 .. n PROVE f[i] = step(i, f[i - 1])
    <3>1. i - 1 \in 0 .. n
      BY <1>1
    <3>2. f[i - 1] \in T /\ f[i] = g[<<i, f[i - 1]>>]
      BY <1>9, <3>1 DEF IsIterate
    <3> QED
      BY <3>2
  <2> QED
    BY <2>1, <2>2
<1> HIDE DEF g
<1>11. f = [i \in 0 .. n |-> IF i = 0 THEN x ELSE step(i, f[i - 1])]
  <2>1. \A i \in 0 .. n : f[i] = IF i = 0 THEN x ELSE step(i, f[i - 1])
    BY <1>1, <1>10
  <2> QED
    BY <1>10, <2>1
<1>12. turn = [i \in 0 .. n |-> IF i = 0 THEN x ELSE step(i, turn[i - 1])]
  BY <1>6, <1>11, Zenon
<1> DEFINE G == {i \in 0 .. n : Fixing(turn[i], S, i)}
<1>13. 0 \in G
  BY <1>1, <1>2, <1>12
<1>14. ASSUME NEW i \in 1 .. n, i - 1 \in G PROVE i \in G
  <2>1. PICK j \in Nat : j = i - 1 /\ i = j + 1 /\ Fixing(turn[j], S, j)
    BY <1>1, <1>14
  <2>2. turn[i] = step(i, turn[j])
    BY <1>1, <1>12, <2>1
  <2>3. Fixing(step(i, turn[j]), S, j + 1)
    BY <1>3, <2>1
  <2> QED
    BY <1>1, <2>1, <2>2, <2>3
<1>15. \A i \in 0 .. n : i \in G
  <2> HIDE DEF G
  <2> QED
    BY <1>1, <1>13, <1>14, UpTo
<1>16. Fixing(turn[n], S, n)
  BY <1>1, <1>15
<1>17. PICK h : h = turn[n]
  OBVIOUS
<1>18. RedTree(h.t, S, h.z) /\ ~RedParent(h.t, h.z)
  <2>1. RedTree(h.t, S, h.z)
    BY <1>16, <1>17 DEF Fixing
  <2>2. ASSUME RedParent(h.t, h.z) PROVE FALSE
    <3>1. PICK bd : Shape(h.t, S, bd) /\ Size(bd, h.z) >= n + 2
      BY <1>16, <1>17, <2>2 DEF Fixing
    <3>2. h.z \in Keys /\ bd \in Bounds
      BY <2>1, <3>1 DEF Shape, RedTree
    <3> QED
      BY <1>7, <3>1, <3>2, BoundsType DEF Size
  <2> QED
    BY <2>1, <2>2
<1> QED
  BY <1>5, <1>17, <1>18, RootPainted
-----------------------------------------------------------------------------
Toward(m, a) == IF m < a THEN "left" ELSE "right"

\* A walk toward m meets every node whose bounds m is within.
LEMMA WalkMeets ==
  ASSUME NEW t, NEW S, NEW bd, Shape(t, S, bd), NEW m \in Int, NEW A, S # {} => t.root \in A,
         \A a \in A \cap S : a # m /\ Ch(t, a, Toward(m, a)) # NilNode => Ch(t, a, Toward(m, a)) \in A
  PROVE  \A k \in S : Within(bd, k, m) => k \in A
<1>1. S \subseteq Keys /\ AddrBound \in Nat /\ NilNode \notin Keys /\ bd \in Bounds
  BY VmaConstants DEF Shape
<1>2. \A k \in S : Size(bd, k) \in Int /\ Size(bd, k) <= AddrBound + 2 /\ Size(bd, k) >= 2
  <2> TAKE k \in S
  <2>1. k \in Keys /\ k \in Int /\ Within(bd, k, k)
    BY <1>1, VmaConstants DEF Shape
  <2> QED
    BY <1>1, <2>1, BoundsType DEF Size, Within
<1> DEFINE N == AddrBound + 2
           G == {i \in 0 .. N : \A k \in S : Within(bd, k, m) /\ Size(bd, k) >= N - i => k \in A}
<1>3. ASSUME NEW k \in S, k # t.root, Within(bd, k, m)
      PROVE  \E q \in S : Size(bd, q) > Size(bd, k) /\ Within(bd, q, m) /\ (q \in A => k \in A)
  <2>1. PICK q \in S, e \in Sides : Ch(t, q, e) = k
    BY <1>3 DEF Shape, ParentOk
  <2>2. k # NilNode
    BY <1>1
  <2>3. Within(bd, q, m) /\ m # q /\ (e = "left" <=> m < q) /\ Size(bd, k) < Size(bd, q)
    BY <1>3, <2>1, <2>2, ChildInside DEF Size
  <2>4. Toward(m, q) = e
    BY <2>3 DEF Toward, Sides
  <2>5. q \in A => k \in A
    BY <2>1, <2>2, <2>3, <2>4
  <2>6. Size(bd, q) > Size(bd, k)
    BY <1>2, <2>3
  <2> QED
    BY <2>3, <2>5, <2>6
<1>4. 0 \in G
  <2>1. ASSUME NEW k \in S, Within(bd, k, m), Size(bd, k) >= N - 0 PROVE k \in A
    <3>1. k = t.root
      <4>1. ASSUME k # t.root PROVE FALSE
        <5>1. PICK q \in S : Size(bd, q) > Size(bd, k)
          BY <1>3, <2>1, <4>1
        <5> QED
          BY <1>1, <1>2, <2>1, <5>1
      <4> QED
        BY <4>1
    <3> QED
      BY <3>1
  <2> QED
    BY <1>1, <2>1
<1>5. ASSUME NEW i \in 1 .. N, i - 1 \in G PROVE i \in G
  <2>1. ASSUME NEW k \in S, Within(bd, k, m), Size(bd, k) >= N - i PROVE k \in A
    <3>1. CASE k = t.root
      BY <3>1
    <3>2. CASE k # t.root
      <4>1. PICK q \in S : Size(bd, q) > Size(bd, k) /\ Within(bd, q, m) /\ (q \in A => k \in A)
        BY <1>3, <2>1, <3>2
      <4>2. Size(bd, q) >= N - (i - 1)
        BY <1>1, <1>2, <2>1, <4>1
      <4> QED
        BY <1>5, <4>1, <4>2
    <3> QED
      BY <3>1, <3>2
  <2> QED
    BY <1>1, <2>1
<1>6. \A i \in 0 .. N : i \in G
  <2>1. N \in Nat
    BY <1>1
  <2> HIDE DEF G, N
  <2> QED
    BY <1>4, <1>5, <2>1, UpTo
<1>7. ASSUME NEW k \in S, Within(bd, k, m) PROVE k \in A
  <2>1. N \in G /\ Size(bd, k) >= N - N
    BY <1>1, <1>2, <1>6
  <2> QED
    BY <1>7, <2>1
<1> QED
  BY <1>7

\* Where the walk of vma_rb_insert is after i steps.
Descended(t, S, bd, start, w, i) ==
    /\ w = [y |-> w.y, x |-> w.x] /\ w.x \in S \cup {NilNode} /\ w.y \in S \cup {NilNode}
    /\ w.y = NilNode => w.x = t.root
    /\ w.y # NilNode => w.y # start /\ Within(bd, w.y, start) /\ Ch(t, w.y, Toward(start, w.y)) = w.x
    /\ w.x \notin {NilNode, start} => Within(bd, w.x, start) /\ Size(bd, w.x) <= AddrBound + 2 - i

\* The walk of vma_rb_insert ends at the node it looks for, or at the place for it.
LEMMA DescendIs ==
  ASSUME NEW t, NEW S, NEW bd, Shape(t, S, bd), NEW start \in Keys
  PROVE  LET w == Descend(t, start)
         IN  /\ w.x = IF start \in S THEN start ELSE NilNode
             /\ w.y \in S \cup {NilNode} /\ (w.y = NilNode => w.x = t.root)
             /\ w.y # NilNode => w.y # start /\ Within(bd, w.y, start) /\ Ch(t, w.y, Toward(start, w.y)) = w.x
<1> DEFINE n == Steps
           T == [y : S \cup {NilNode}, x : S \cup {NilNode}]
           x == [y |-> NilNode, x |-> t.root]
           step(i, w) == IF w.x \in {NilNode, start} THEN w
                         ELSE [y |-> w.x, x |-> t.n[w.x].ch[IF start < w.x THEN "left" ELSE "right"]]
           g == [e \in (1 .. n) \X T |-> step(e[1], e[2])]
           walk[i \in 0 .. Steps] ==
            IF i = 0 THEN [y |-> NilNode, x |-> t.root]
            ELSE LET w == walk[i - 1] IN
                 IF w.x \in {NilNode, start} THEN w
                 ELSE [y |-> w.x, x |-> t.n[w.x].ch[IF start < w.x THEN "left" ELSE "right"]]
<1>1. n \in Nat /\ n = AddrBound + 1 /\ AddrBound \in Nat
  BY VmaConstants
<1>0. /\ S \subseteq Keys /\ S \subseteq Int /\ NilNode \notin Keys /\ bd \in Bounds /\ start \in Int /\ t.root \in S \cup {NilNode}
      /\ -1 < start /\ start < AddrBound + 1
  BY VmaConstants DEF Shape, RootIs
<1>c. ASSUME NEW a \in S PROVE Toward(start, a) \in Sides /\ Ch(t, a, Toward(start, a)) \in S \cup {NilNode}
  BY DEF Shape, ChildOk, Toward, Sides
<1>2. x \in T
  BY <1>0
<1>s. \A i, w : step(i, w) = IF w.x \in {NilNode, start} THEN w ELSE [y |-> w.x, x |-> Ch(t, w.x, Toward(start, w.x))]
  BY DEF Ch, Toward
<1>4. ASSUME NEW i \in 1 .. n, NEW w \in T PROVE step(i, w) \in T
  <2> HIDE DEF step
  <2>1. CASE w.x \in {NilNode, start}
    BY <1>4, <1>s, <2>1
  <2>2. CASE w.x \notin {NilNode, start}
    <3>1. w.x \in S /\ step(i, w) = [y |-> w.x, x |-> Ch(t, w.x, Toward(start, w.x))]
      BY <1>4, <1>s, <2>2
    <3> QED
      BY <1>c, <3>1
  <2> QED
    BY <2>1, <2>2
<1>5. Descend(t, start) = walk[n]
  BY DEF Descend
<1>6. walk = CHOOSE f : f = [i \in 0 .. n |-> IF i = 0 THEN x ELSE step(i, f[i - 1])]
  BY DEF walk
<1>t. \A w \in T : w = [y |-> w.y, x |-> w.x] /\ w.x \in S \cup {NilNode} /\ w.y \in S \cup {NilNode}
  OBVIOUS
<1>x. x.y = NilNode /\ x.x = t.root
  OBVIOUS
<1> HIDE DEF walk, x, T, n
<1>8. g \in [(1 .. n) \X T -> T]
  <2> HIDE DEF step
  <2> QED
    BY <1>4
<1>9. PICK f : IsIterate(f, T, g, x, n)
  <2> HIDE DEF g
  <2> QED
    BY <1>1, <1>2, <1>8, IterateExists
<1> HIDE DEF step
<1>10. f \in [0 .. n -> T] /\ f[0] = x /\ \A i \in 1 .. n : f[i] = step(i, f[i - 1])
  <2>1. f \in [0 .. n -> T] /\ f[0] = x
    BY <1>9 DEF IsIterate
  <2>2. ASSUME NEW i \in 1 .. n PROVE f[i] = step(i, f[i - 1])
    <3>1. i - 1 \in 0 .. n
      BY <1>1
    <3>2. f[i - 1] \in T /\ f[i] = g[<<i, f[i - 1]>>]
      BY <1>9, <3>1 DEF IsIterate
    <3> QED
      BY <3>2
  <2> QED
    BY <2>1, <2>2
<1> HIDE DEF g
<1>11. f = [i \in 0 .. n |-> IF i = 0 THEN x ELSE step(i, f[i - 1])]
  <2>1. \A i \in 0 .. n : f[i] = IF i = 0 THEN x ELSE step(i, f[i - 1])
    BY <1>1, <1>10
  <2> QED
    BY <1>10, <2>1
<1>12. walk = [i \in 0 .. n |-> IF i = 0 THEN x ELSE step(i, walk[i - 1])]
  BY <1>6, <1>11, Zenon
<1>w. walk[0] = x /\ \A i \in 1 .. n : walk[i] = step(i, walk[i - 1])
  BY <1>1, <1>12
<1> DEFINE G == {i \in 0 .. n : walk[i] \in T /\ Descended(t, S, bd, start, walk[i], i)}
<1>13. 0 \in G
  <2>1. S # {} => bd[t.root]["left"] = -1 /\ bd[t.root]["right"] = AddrBound + 1
    BY DEF Shape, RootIs
  <2>2. ASSUME t.root \notin {NilNode, start} PROVE Within(bd, t.root, start) /\ Size(bd, t.root) <= AddrBound + 2 - 0
    BY <1>0, <1>1, <2>1, <2>2 DEF Within, Size
  <2>3. walk[0] = x /\ 0 \in 0 .. n
    BY <1>1, <1>w
  <2> QED
    BY <1>2, <1>t, <1>x, <2>2, <2>3 DEF Descended
<1>14. ASSUME NEW i \in 1 .. n, i - 1 \in G PROVE i \in G
  <2>1. PICK j, w, v : j = i - 1 /\ j \in Nat /\ i = j + 1 /\ w = walk[j] /\ v = walk[i]
    BY <1>1
  <2>2. w \in T /\ Descended(t, S, bd, start, w, j) /\ v = step(i, w) /\ v \in T
    BY <1>4, <1>14, <1>w, <2>1
  <2>3. CASE w.x \in {NilNode, start}
    <3>1. v = w
      BY <1>s, <2>2, <2>3
    <3>2. Descended(t, S, bd, start, w, i)
      BY <2>2, <2>3 DEF Descended
    <3>7. i \in 0 .. n
      BY <1>1
    <3>8. walk[i] \in T /\ Descended(t, S, bd, start, walk[i], i)
      BY <2>1, <2>2, <3>1, <3>2, Zenon
    <3> QED
      BY <3>7, <3>8
  <2>4. CASE w.x \notin {NilNode, start}
    <3>1. PICK a, c : a = w.x /\ a \in S /\ c = Ch(t, a, Toward(start, a)) /\ c \in S \cup {NilNode}
      BY <1>c, <2>2, <2>4 DEF Descended
    <3>2. v = [y |-> a, x |-> c]
      BY <1>s, <2>2, <2>4, <3>1
    <3>3. v.y = a /\ v.x = c
      BY <3>2
    <3>4. Within(bd, a, start) /\ Size(bd, a) <= AddrBound + 2 - j /\ a # start /\ a # NilNode
      BY <2>2, <2>4, <3>1 DEF Descended
    <3>5. ASSUME c # NilNode PROVE Within(bd, c, start) /\ Size(bd, c) <= AddrBound + 2 - i
      <4>1. PICK d \in Sides : d = Toward(start, a)
        BY <1>c, <3>1
      <4>2. c \in S /\ Size(bd, c) < Size(bd, a) /\ BoundsBelow(bd, a, d, c)
        <5>1. c = Ch(t, a, d) /\ a \in S
          BY <3>1, <4>1
        <5>2. ChildOk(t, S, bd, a, d)
          BY <4>1, <5>1 DEF Shape
        <5>3. c \in S /\ BoundsBelow(bd, a, d, c)
          BY <3>5, <5>1, <5>2 DEF ChildOk
        <5>4. Size(bd, c) < Size(bd, a)
          BY <3>5, <5>1, ChildInside DEF Size
        <5> QED
          BY <5>3, <5>4
      <4>3. Size(bd, c) \in Int /\ Size(bd, a) \in Int
        <5>1. a \in Keys /\ c \in Keys
          BY <1>0, <3>1, <4>2
        <5> QED
          BY <1>0, <5>1, BoundsType DEF Size
      <4>4. Size(bd, c) <= AddrBound + 2 - i
        BY <1>1, <2>1, <3>4, <4>2, <4>3
      <4>5. Within(bd, c, start)
        <5>1. a \in Int
          BY <1>0, <3>1
        <5>2. CASE start < a
          <6>1. d = "left" /\ Other(d) = "right"
            BY <4>1, <5>2 DEF Toward, Other
          <6> QED
            BY <3>4, <4>2, <5>2, <6>1 DEF BoundsBelow, Within
        <5>3. CASE start > a
          <6>1. d = "right" /\ Other(d) = "left"
            BY <1>0, <4>1, <5>1, <5>3 DEF Toward, Other
          <6> QED
            BY <3>4, <4>2, <5>3, <6>1 DEF BoundsBelow, Within
        <5> QED
          BY <1>0, <3>4, <5>1, <5>2, <5>3
      <4> QED
        BY <4>4, <4>5
    <3>6. Descended(t, S, bd, start, v, i)
      <4>1. v = [y |-> v.y, x |-> v.x]
        BY <1>t, <2>2
      <4> QED
        BY <3>1, <3>3, <3>4, <3>5, <4>1 DEF Descended
    <3>7. i \in 0 .. n
      BY <1>1
    <3>8. walk[i] \in T /\ Descended(t, S, bd, start, walk[i], i)
      BY <2>1, <2>2, <3>6, Zenon
    <3> QED
      BY <3>7, <3>8
  <2> QED
    BY <2>3, <2>4
<1>15. \A i \in 0 .. n : i \in G
  <2> HIDE DEF G
  <2> QED
    BY <1>1, <1>13, <1>14, UpTo
<1>16. PICK w : w = walk[n]
  OBVIOUS
<1>17. Descended(t, S, bd, start, w, n)
  BY <1>1, <1>15, <1>16
<1>18. w.x \in {NilNode, start}
  <2>1. ASSUME w.x \notin {NilNode, start} PROVE FALSE
    <3>1. PICK a \in S : a = w.x /\ Size(bd, a) <= AddrBound + 2 - n
      BY <1>17, <2>1 DEF Descended
    <3>2. a \in Keys /\ a \in Int /\ Within(bd, a, a)
      BY <1>0 DEF Shape
    <3> QED
      BY <1>0, <1>1, <3>1, <3>2, BoundsType DEF Size, Within
  <2> QED
    BY <2>1
<1>19. ASSUME start \in S PROVE w.x = start
  <2> DEFINE A == {walk[i].x : i \in 0 .. n}
  <2>1. t.root \in A
    BY <1>1, <1>w, <1>x
  <2>2. ASSUME NEW a \in A \cap S, a # start, Ch(t, a, Toward(start, a)) # NilNode
        PROVE  Ch(t, a, Toward(start, a)) \in A
    <3>1. PICK i \in 0 .. n : a = walk[i].x
      BY <2>2
    <3>2. a # NilNode
      BY <1>0, <2>2
    <3>3. i # n
      BY <1>16, <1>18, <2>2, <3>1, <3>2
    <3>4. i + 1 \in 1 .. n /\ (i + 1) - 1 = i /\ i + 1 \in 0 .. n
      BY <1>1, <3>3
    <3>5. walk[i + 1] = step(i + 1, walk[i])
      BY <1>w, <3>4
    <3>6. walk[i + 1] = [y |-> a, x |-> Ch(t, a, Toward(start, a))]
      BY <1>s, <2>2, <3>1, <3>2, <3>5
    <3>7. walk[i + 1].x = Ch(t, a, Toward(start, a))
      BY <3>6
    <3> QED
      BY <3>4, <3>7
  <2>3. start \in A
    <3>1. Within(bd, start, start)
      BY <1>19 DEF Shape
    <3> HIDE DEF A
    <3> QED
      BY <1>0, <1>19, <2>1, <2>2, <3>1, WalkMeets
  <2>4. PICK i \in 0 .. n : walk[i].x = start
    BY <2>3
  <2> DEFINE H == {j \in 0 .. n : j >= i => walk[j].x = start}
  <2>5. 0 \in H
    BY <1>1, <2>4
  <2>6. ASSUME NEW j \in 1 .. n, j - 1 \in H PROVE j \in H
    <3>1. CASE j = i
      BY <1>1, <2>4, <3>1
    <3>2. CASE j < i
      BY <1>1, <3>2
    <3>3. CASE j > i
      <4>1. walk[j - 1].x = start
        BY <1>1, <2>6, <3>3
      <4>2. walk[j] = walk[j - 1]
        BY <1>s, <1>w, <4>1
      <4> QED
        BY <1>1, <4>1, <4>2
    <3> QED
      BY <1>1, <3>1, <3>2, <3>3
  <2>7. \A j \in 0 .. n : j \in H
    <3> HIDE DEF H
    <3> QED
      BY <1>1, <2>5, <2>6, UpTo
  <2> QED
    BY <1>1, <1>16, <2>7
<1>20. start \notin S => w.x = NilNode
  BY <1>17, <1>18 DEF Descended
<1> QED
  BY <1>5, <1>16, <1>17, <1>19, <1>20 DEF Descended
-----------------------------------------------------------------------------
\* A new red node hangs on y, on the side of its start address, or is the root.
Hung(t, z, start, end, y) ==
    /\ z \in Trees /\ z.root = IF y = NilNode THEN start ELSE t.root
    /\ Par(z, start) = y /\ Red(z, start) = TRUE /\ End(z, start) = end
    /\ \A e \in Sides : Ch(z, start, e) = NilNode
    /\ \A k \in Keys : k # start => Par(z, k) = Par(t, k) /\ Red(z, k) = Red(t, k) /\ End(z, k) = End(t, k)
    /\ \A k \in Keys, e \in Sides :
          k # start => Ch(z, k, e) = IF k = y /\ e = Toward(start, y) THEN start ELSE Ch(t, k, e)

\* That is what vma_rb_insert does before the fixup.
LEMMA HungIs ==
  ASSUME NEW t \in Trees, NEW start \in Keys, NEW end \in Keys, NEW y \in Links, y # start,
         NEW t1, t1 = [t EXCEPT !.n[start] = [NewNode(end) EXCEPT !.parent = y]],
         NEW z, z = IF y = NilNode THEN [t1 EXCEPT !.root = start]
                    ELSE SetChild(t1, y, IF start < y THEN "left" ELSE "right", start)
  PROVE  Hung(t, z, start, end, y)
<1>1. PICK r : r = [NewNode(end) EXCEPT !.parent = y]
  OBVIOUS
<1>0. NilNode \notin Keys /\ NilNode \in Links /\ start \in Links
  BY VmaConstants DEF Links
<1>2. r \in TreeNodes /\ r.parent = y /\ r.red = TRUE /\ r.end = end /\ \A e \in Sides : r.ch[e] = NilNode
  BY <1>0, <1>1 DEF NewNode, TreeNodes
<1>3. t.n \in [Keys -> TreeNodes]
  BY DEF Trees
<1>4. t1.root = t.root /\ t1.n = [t.n EXCEPT ![start] = r] /\ t1 \in Trees
  BY <1>1, <1>2, <1>3 DEF Trees
<1>5. \A k \in Keys : t1.n[k] = IF k = start THEN r ELSE t.n[k]
  BY <1>3, <1>4
<1>6. /\ Par(t1, start) = y /\ Red(t1, start) = TRUE /\ End(t1, start) = end
      /\ \A e \in Sides : Ch(t1, start, e) = NilNode
      /\ \A k \in Keys : k # start => Par(t1, k) = Par(t, k) /\ Red(t1, k) = Red(t, k) /\ End(t1, k) = End(t, k)
      /\ \A k \in Keys, e \in Sides : k # start => Ch(t1, k, e) = Ch(t, k, e)
  BY <1>2, <1>5 DEF Par, Red, End, Ch
<1>7. CASE y = NilNode
  <2>1. z = [t1 EXCEPT !.root = start]
    BY <1>7
  <2>2. z \in Trees /\ z.root = start /\ SameChildren(t1, z) /\ SameParents(t1, z) /\ SameColours(t1, z) /\ SameEnds(t1, z)
    BY <1>0, <1>4, <2>1, RootSet
  <2> QED
    BY <1>0, <1>6, <1>7, <2>2 DEF Hung, SameChildren, SameParents, SameColours, SameEnds
<1>8. CASE y # NilNode
  <2>1. y \in Keys
    BY <1>8 DEF Links
  <2>2. PICK d : d = Toward(start, y) /\ d \in Sides
    BY DEF Toward, Sides
  <2>3. z = SetChild(t1, y, d, start)
    BY <1>8, <2>2 DEF Toward
  <2>4. ChildIsSet(t1, z, y, d, start)
    BY <1>0, <1>4, <2>1, <2>2, <2>3, ChildSet
  <2>5. z \in Trees /\ z.root = t.root
    BY <1>4, <2>4 DEF ChildIsSet
  <2>6. \A k \in Keys : Par(z, k) = Par(t1, k) /\ Red(z, k) = Red(t1, k) /\ End(z, k) = End(t1, k)
    BY <2>4 DEF ChildIsSet, SameParents, SameColours, SameEnds
  <2>7. \A k \in Keys, e \in Sides : Ch(z, k, e) = IF k = y /\ e = d THEN start ELSE Ch(t1, k, e)
    BY <2>4 DEF ChildIsSet
  <2>8. \A e \in Sides : Ch(z, start, e) = NilNode
    BY <1>6, <2>7
  <2>9. \A k \in Keys, e \in Sides :
          k # start => Ch(z, k, e) = IF k = y /\ e = Toward(start, y) THEN start ELSE Ch(t, k, e)
    BY <1>6, <2>2, <2>7
  <2> QED
    BY <1>6, <1>8, <2>5, <2>6, <2>8, <2>9 DEF Hung
<1> QED
  BY <1>7, <1>8

\* The bounds of the new node.
HungBounds(bd, be, start, y) ==
    /\ be \in Bounds /\ Within(be, start, start)
    /\ \A k \in Keys : k # start => be[k] = bd[k]
    /\ y = NilNode => be[start]["left"] = -1 /\ be[start]["right"] = AddrBound + 1
    /\ y # NilNode => BoundsBelow(be, y, Toward(start, y), start)

\* There are bounds for the new node.
LEMMA HungBoundsExist ==
  ASSUME NEW bd \in Bounds, NEW start \in Keys, NEW y \in Links, y # start, y # NilNode => Within(bd, y, start)
  PROVE  \E be : HungBounds(bd, be, start, y)
<1>1. PICK B : B = (-1) .. (AddrBound + 1)
  OBVIOUS
<1>2. bd \in [Keys -> [Sides -> B]] /\ AddrBound \in Nat /\ start \in Int /\ -1 < start /\ start < AddrBound + 1 /\ NilNode \notin Keys
  BY <1>1, VmaConstants DEF Bounds
<1>3. ASSUME NEW b \in [Sides -> B], b["left"] < start, start < b["right"],
             y = NilNode => b["left"] = -1 /\ b["right"] = AddrBound + 1,
             y # NilNode => b[Toward(start, y)] = bd[y][Toward(start, y)] /\ b[Other(Toward(start, y))] = y
      PROVE  \E be : HungBounds(bd, be, start, y)
  <2>1. PICK be : be = [k \in Keys |-> IF k = start THEN b ELSE bd[k]]
    OBVIOUS
  <2>2. be \in [Keys -> [Sides -> B]] /\ be[start] = b /\ \A k \in Keys : k # start => be[k] = bd[k]
    BY <1>2, <1>3, <2>1
  <2>3. be \in Bounds
    BY <1>1, <2>2 DEF Bounds
  <2>4. y # NilNode => be[y] = bd[y]
    BY <2>2 DEF Links
  <2>5. HungBounds(bd, be, start, y)
    BY <1>3, <2>2, <2>3, <2>4 DEF HungBounds, Within, BoundsBelow
  <2> QED
    BY <2>5
<1>4. CASE y = NilNode
  <2>1. PICK b : b = [e \in Sides |-> IF e = "left" THEN -1 ELSE AddrBound + 1]
    OBVIOUS
  <2>2. b \in [Sides -> B] /\ b["left"] = -1 /\ b["right"] = AddrBound + 1
    BY <1>1, <1>2, <2>1 DEF Sides
  <2> QED
    BY <1>2, <1>3, <1>4, <2>2
<1>5. CASE y # NilNode
  <2>1. y \in Keys /\ y \in Int /\ Within(bd, y, start)
    BY <1>5, VmaConstants DEF Links
  <2>2. PICK d : d = Toward(start, y) /\ d \in Sides
    BY DEF Toward, Sides
  <2>3. PICK b : b = [e \in Sides |-> IF e = d THEN bd[y][d] ELSE y]
    OBVIOUS
  <2>4. y \in B /\ bd[y][d] \in B
    BY <1>1, <1>2, <2>1, <2>2, VmaConstants
  <2>5. b \in [Sides -> B] /\ b[d] = bd[y][d] /\ b[Other(d)] = y
    BY <2>2, <2>3, <2>4, SidesOther
  <2>6. b["left"] < start /\ start < b["right"]
    <3>1. CASE start < y
      <4>1. d = "left" /\ Other(d) = "right"
        BY <2>2, <3>1 DEF Toward, Other
      <4> QED
        BY <2>1, <2>5, <3>1, <4>1 DEF Within
    <3>2. CASE start > y
      <4>1. d = "right" /\ Other(d) = "left"
        BY <1>2, <2>1, <2>2, <3>2 DEF Toward, Other
      <4> QED
        BY <2>1, <2>5, <3>2, <4>1 DEF Within
    <3> QED
      BY <1>2, <2>1, <3>1, <3>2
  <2> QED
    BY <1>3, <1>5, <2>2, <2>5, <2>6
<1> QED
  BY <1>4, <1>5

\* With it the tree is a search tree of one node more.
LEMMA HungShape ==
  ASSUME NEW t, NEW S, NEW bd, Shape(t, S, bd), NEW start \in Keys, start \notin S, NEW end \in Keys, start < end,
         NEW y \in S \cup {NilNode}, y = NilNode => t.root = NilNode, y # NilNode => Ch(t, y, Toward(start, y)) = NilNode,
         NEW z, Hung(t, z, start, end, y), NEW be, HungBounds(bd, be, start, y)
  PROVE  Shape(z, S \cup {start}, be)
<1>0. PICK V : V = S \cup {start}
  OBVIOUS
<1>1. /\ t \in Trees /\ S \subseteq Keys /\ NilNode \notin Keys /\ V \subseteq Keys /\ RootIs(t, S, bd) /\ start \in V /\ S \subseteq V
      /\ \A k \in V : k = start \/ k \in S
  BY <1>0, VmaConstants DEF Shape
<1>2. y = NilNode <=> S = {}
  BY <1>1 DEF RootIs
<1>3. z \in Trees /\ be \in Bounds
  BY DEF Hung, HungBounds
<1>4. RootIs(z, V, be)
  <2>1. CASE y = NilNode
    BY <1>1, <1>2, <2>1 DEF RootIs, Hung, HungBounds
  <2>2. CASE y # NilNode
    <3>1. t.root \in S /\ z.root = t.root
      BY <1>1, <1>2, <2>2 DEF RootIs, Hung
    <3>2. t.root \in Keys /\ t.root # start
      BY <1>1, <3>1
    <3>3. Par(z, t.root) = Par(t, t.root) /\ be[t.root] = bd[t.root]
      BY <3>2 DEF Hung, HungBounds
    <3> QED
      BY <1>1, <1>2, <2>2, <3>1, <3>3 DEF RootIs
  <2> QED
    BY <2>1, <2>2
<1>5. ASSUME NEW k \in V PROVE Within(be, k, k) /\ k < End(z, k) /\ ParentOk(z, V, k)
  <2>1. CASE k = start
    <3>1. Within(be, k, k) /\ k < End(z, k)
      BY <2>1 DEF Hung, HungBounds
    <3>2. ParentOk(z, V, k)
      <4>1. CASE y = NilNode
        BY <2>1, <4>1 DEF ParentOk, Hung
      <4>2. CASE y # NilNode
        <5>1. y \in S /\ y # start /\ y \in Keys /\ Toward(start, y) \in Sides
          BY <1>1, <4>2 DEF Toward, Sides
        <5>2. Par(z, k) = y /\ Ch(z, y, Toward(start, y)) = k
          BY <2>1, <5>1 DEF Hung
        <5> QED
          BY <1>1, <5>1, <5>2 DEF ParentOk
      <4> QED
        BY <4>1, <4>2
    <3> QED
      BY <3>1, <3>2
  <2>2. CASE k # start
    <3>1. k \in S /\ k \in Keys
      BY <1>1, <2>2
    <3>2. Within(bd, k, k) /\ k < End(t, k) /\ ParentOk(t, S, k)
      BY <3>1 DEF Shape
    <3>3. Within(be, k, k) /\ k < End(z, k) /\ Par(z, k) = Par(t, k)
      BY <2>2, <3>1, <3>2 DEF Hung, HungBounds, Within
    <3>4. z.root = t.root
      BY <1>2, <3>1 DEF Hung
    <3>5. ASSUME k # t.root PROVE Par(t, k) \in V /\ \E d \in Sides : Ch(z, Par(t, k), d) = k
      <4>1. PICK q, d : q = Par(t, k) /\ q \in S /\ d \in Sides /\ Ch(t, q, d) = k
        BY <3>2, <3>5 DEF ParentOk
      <4>2. k # NilNode /\ q # start /\ q \in Keys
        BY <1>1, <3>1, <4>1
      <4>3. ~(q = y /\ d = Toward(start, y))
        BY <1>1, <4>1, <4>2
      <4>4. Ch(z, q, d) = k
        BY <4>1, <4>2, <4>3 DEF Hung
      <4> QED
        BY <1>1, <4>1, <4>4
    <3> QED
      BY <3>3, <3>4, <3>5 DEF ParentOk
  <2> QED
    BY <2>1, <2>2
<1>6. ASSUME NEW k \in V, NEW d \in Sides PROVE ChildOk(z, V, be, k, d)
  <2>1. CASE k = start
    BY <2>1 DEF ChildOk, Hung
  <2>2. CASE k # start
    <3>1. k \in S /\ k \in Keys
      BY <1>1, <2>2
    <3>2. CASE k = y /\ d = Toward(start, y)
      <4>1. Ch(z, k, d) = start /\ Par(z, start) = k /\ y # NilNode
        BY <1>1, <2>2, <3>1, <3>2 DEF Hung
      <4>2. BoundsBelow(be, k, d, start)
        BY <3>2, <4>1 DEF HungBounds
      <4> QED
        BY <1>1, <4>1, <4>2 DEF ChildOk
    <3>3. CASE ~(k = y /\ d = Toward(start, y))
      <4>1. PICK c : c = Ch(t, k, d) /\ Ch(z, k, d) = c
        BY <2>2, <3>1, <3>3 DEF Hung
      <4>2. ASSUME c # NilNode PROVE c \in V /\ Par(z, c) = k /\ BoundsBelow(be, k, d, c)
        <5>1. c \in S /\ Par(t, c) = k /\ BoundsBelow(bd, k, d, c)
          BY <3>1, <4>1, <4>2 DEF Shape, ChildOk
        <5>2. c \in Keys /\ c # start
          BY <1>1, <5>1
        <5>3. Par(z, c) = k /\ be[c] = bd[c] /\ be[k] = bd[k]
          BY <2>2, <3>1, <5>1, <5>2 DEF Hung, HungBounds
        <5> QED
          BY <1>1, <5>1, <5>3 DEF BoundsBelow
      <4> QED
        BY <4>1, <4>2 DEF ChildOk
    <3> QED
      BY <3>2, <3>3
  <2> QED
    BY <2>1, <2>2
<1> QED
  BY <1>0, <1>1, <1>3, <1>4, <1>5, <1>6 DEF Shape

\* All but the colour of the new node is in order.
LEMMA HungRedTree ==
  ASSUME NEW t, NEW S, TreeOk(t, S), NEW start \in Keys, start \notin S, NEW end \in Keys, start < end,
         NEW y, NEW z, NEW bd, Shape(t, S, bd), y \in S \cup {NilNode}, y = NilNode => t.root = NilNode,
         y # NilNode => Within(bd, y, start) /\ Ch(t, y, Toward(start, y)) = NilNode, Hung(t, z, start, end, y)
  PROVE  RedTree(z, S \cup {start}, start)
<1>0. PICK V : V = S \cup {start}
  OBVIOUS
<1>1. /\ t \in Trees /\ S \subseteq Keys /\ NilNode \notin Keys /\ V \subseteq Keys /\ bd \in Bounds /\ start \in V
      /\ y \in Links /\ y # start /\ RootIs(t, S, bd)
      /\ \A k \in V : k = start \/ k \in S
  BY <1>0, VmaConstants DEF Shape, Links
<1>2. PICK be : HungBounds(bd, be, start, y)
  BY <1>1, HungBoundsExist
<1>3. Shape(z, V, be)
  BY <1>0, <1>2, HungShape
<1>4. PICK bh : Blacks(t, S, bh)
  BY DEF TreeOk
<1>5. PICK bi : bi = [k \in Keys |-> IF k = start THEN 0 ELSE bh[k]]
  OBVIOUS
<1>6. bh \in [Keys -> Int] /\ bi \in [Keys -> Int] /\ bi[start] = 0 /\ \A k \in Keys : k # start => bi[k] = bh[k]
  BY <1>4, <1>5 DEF Blacks
<1>7. ASSUME NEW k \in V, NEW e \in Sides PROVE bi[k] = BlackOf(bi, Ch(z, k, e)) + Weight(z, k)
  <2>1. CASE k = start
    <3>1. Ch(z, k, e) = NilNode /\ Weight(z, k) = 0
      BY <2>1 DEF Hung, Weight
    <3> QED
      BY <1>6, <2>1, <3>1 DEF BlackOf
  <2>2. CASE k # start
    <3>1. k \in S /\ k \in Keys
      BY <1>1, <2>2
    <3>2. bh[k] = BlackOf(bh, Ch(t, k, e)) + Weight(t, k) /\ Weight(z, k) = Weight(t, k) /\ bi[k] = bh[k]
      BY <1>4, <1>6, <2>2, <3>1 DEF Blacks, Hung, Weight
    <3>3. BlackOf(bi, Ch(z, k, e)) = BlackOf(bh, Ch(t, k, e))
      <4>1. CASE k = y /\ e = Toward(start, y)
        <5>1. Ch(z, k, e) = start /\ Ch(t, k, e) = NilNode
          BY <1>1, <2>2, <3>1, <4>1 DEF Hung
        <5> QED
          BY <1>1, <1>6, <5>1 DEF BlackOf
      <4>2. CASE ~(k = y /\ e = Toward(start, y))
        <5>1. Ch(z, k, e) = Ch(t, k, e)
          BY <2>2, <3>1, <4>2 DEF Hung
        <5>2. Ch(t, k, e) # NilNode => Ch(t, k, e) \in S
          BY <3>1, ChildInside
        <5>3. Ch(t, k, e) # NilNode => Ch(t, k, e) \in Keys /\ Ch(t, k, e) # start
          BY <1>1, <5>2
        <5> QED
          BY <1>6, <5>1, <5>3 DEF BlackOf
      <4> QED
        BY <4>1, <4>2
    <3> QED
      BY <3>2, <3>3
  <2> QED
    BY <2>1, <2>2
<1>8. Blacks(z, V, bi)
  BY <1>6, <1>7 DEF Blacks
<1>9. OnlyRedAt(z, V, start)
  <2>1. ASSUME NEW k \in V, Red(z, k), k # start PROVE k # z.root /\ ~Red(z, Par(z, k))
    <3>1. k \in S /\ k \in Keys /\ y # NilNode
      BY <1>1, <2>1 DEF RootIs
    <3>2. Red(t, k) /\ Par(z, k) = Par(t, k) /\ z.root = t.root
      BY <2>1, <3>1 DEF Hung
    <3>3. k # t.root /\ ~Red(t, Par(t, k))
      BY <3>1, <3>2 DEF TreeOk, Coloured
    <3>4. Par(t, k) \in S
      BY <3>1, <3>3 DEF Shape, ParentOk
    <3>5. Par(t, k) \in Keys /\ Par(t, k) # start
      BY <1>1, <3>4
    <3>6. Red(z, Par(t, k)) = Red(t, Par(t, k))
      BY <3>5 DEF Hung
    <3> QED
      BY <3>2, <3>3, <3>6
  <2> QED
    BY <2>1 DEF OnlyRedAt
<1>10. Red(z, start)
  BY DEF Hung
<1> QED
  BY <1>0, <1>1, <1>3, <1>8, <1>9, <1>10 DEF RedTree

\* vma_rb_insert keeps a red-black tree, with the new area in it.
LEMMA InsertKeeps ==
  ASSUME NEW t, NEW S, TreeOk(t, S), NEW start \in Keys, start \notin S, NEW end \in Keys, start < end
  PROVE  TreeOk(vma_rb_insert(t, start, end), S \cup {start})
<1>1. PICK bd, bh : Shape(t, S, bd) /\ Blacks(t, S, bh)
  BY DEF TreeOk
<1>2. PICK w : w = Descend(t, start)
  OBVIOUS
<1>3. PICK y : y = w.y
  OBVIOUS
<1>4. /\ y \in S \cup {NilNode} /\ (y = NilNode => t.root = NilNode)
      /\ y # NilNode => Within(bd, y, start) /\ Ch(t, y, Toward(start, y)) = NilNode
  BY <1>1, <1>2, <1>3, DescendIs
<1>5. PICK t1 : t1 = [t EXCEPT !.n[start] = [NewNode(end) EXCEPT !.parent = y]]
  OBVIOUS
<1>6. PICK z : z = IF y = NilNode THEN [t1 EXCEPT !.root = start]
                   ELSE SetChild(t1, y, IF start < y THEN "left" ELSE "right", start)
  OBVIOUS
<1>7. vma_rb_insert(t, start, end) = vma_rb_insert_fixup(z, start)
  BY <1>2, <1>3, <1>5, <1>6 DEF vma_rb_insert
<1>8. t \in Trees /\ y \in Links /\ y # start
  BY <1>1, <1>4, VmaConstants DEF Shape, Links
<1>9. Hung(t, z, start, end, y)
  BY <1>5, <1>6, <1>8, HungIs
<1>10. RedTree(z, S \cup {start}, start)
  BY <1>1, <1>4, <1>9, HungRedTree
<1> QED
  BY <1>7, <1>10, FixupKeeps
-----------------------------------------------------------------------------
\* The tree without areas.
LEMMA EmptyTreeOk == TreeOk(EmptyTree, {})
<1>1. NilNode \in Links /\ Keys \subseteq Links /\ AddrBound \in Nat
  BY VmaConstants DEF Links
<1>2. \A k \in Keys : NewNode(k) \in TreeNodes
  BY <1>1 DEF NewNode, TreeNodes
<1>3. EmptyTree \in Trees /\ EmptyTree.root = NilNode
  BY <1>1, <1>2 DEF EmptyTree, Trees
<1>4. PICK bd : bd = [k \in Keys |-> [d \in Sides |-> 0]]
  OBVIOUS
<1>5. bd \in Bounds
  BY <1>1, <1>4 DEF Bounds
<1>6. Shape(EmptyTree, {}, bd)
  BY <1>3, <1>5 DEF Shape, RootIs
<1>7. PICK bh : bh = [k \in Keys |-> 0]
  OBVIOUS
<1>8. Blacks(EmptyTree, {}, bh)
  BY <1>7 DEF Blacks
<1> QED
  BY <1>6, <1>8 DEF TreeOk, Coloured

\* The areas that vma_init has inserted after i of them.
BootStarts(i) == {BootAreas[j][1] : j \in 1 .. i}

\* Every area at boot starts where none before it does.
LEMMA BootStartsGrow ==
  ASSUME NEW i \in 1 .. Len(BootAreas), NEW a, a = BootAreas[i][1], NEW b, b = BootAreas[i][2]
  PROVE  /\ a \in Keys /\ b \in Keys /\ a < b /\ a \notin BootStarts(i - 1)
         /\ BootStarts(i) = BootStarts(i - 1) \cup {a}
<1>1. /\ BootAreas \in Seq(Keys \X Keys) /\ \A j \in DOMAIN BootAreas : BootAreas[j][1] < BootAreas[j][2]
      /\ \A j, k \in DOMAIN BootAreas : j # k => BootAreas[j][1] # BootAreas[k][1]
  BY VmaAssumption
<1>2. DOMAIN BootAreas = 1 .. Len(BootAreas) /\ Len(BootAreas) \in Nat /\ BootAreas[i] \in Keys \X Keys
  BY <1>1
<1>3. a \in Keys /\ b \in Keys /\ a < b
  BY <1>1, <1>2
<1>4. \A j \in 1 .. (i - 1) : BootAreas[j][1] # a
  BY <1>1, <1>2
<1>5. 1 .. i = (1 .. (i - 1)) \cup {i}
  BY <1>2
<1> QED
  BY <1>3, <1>4, <1>5 DEF BootStarts

\* vma_init leaves a red-black tree of its areas.
LEMMA VmaStartOk ==
  \E S : TreeOk(VmaStart, S) /\ IsFiniteSet(S) /\ Cardinality(S) = Len(BootAreas)
<1> DEFINE n == Len(BootAreas)
           ins[i \in 0 .. Len(BootAreas)] ==
            IF i = 0 THEN EmptyTree ELSE vma_rb_insert(ins[i - 1], BootAreas[i][1], BootAreas[i][2])
           x == EmptyTree
           step(i, t) == vma_rb_insert(t, BootAreas[i][1], BootAreas[i][2])
           H == {m \in 0 .. n : \E f : f = [i \in 0 .. m |-> IF i = 0 THEN x ELSE step(i, f[i - 1])]}
<1>n. n \in Nat
  BY VmaAssumption
<1>1. VmaStart = ins[n]
  BY DEF VmaStart
<1>c. ins = CHOOSE f : f = [i \in 0 .. n |-> IF i = 0 THEN x ELSE step(i, f[i - 1])]
  BY DEF ins
<1>s. \A i, t : step(i, t) = vma_rb_insert(t, BootAreas[i][1], BootAreas[i][2])
  OBVIOUS
<1> HIDE DEF ins, x, n, step
<1>f1. 0 \in H
  <2>1. PICK r : r = [i \in 0 .. 0 |-> x]
    OBVIOUS
  <2>2. r = [i \in 0 .. 0 |-> IF i = 0 THEN x ELSE step(i, r[i - 1])]
    BY <2>1
  <2>3. 0 \in 0 .. n
    BY <1>n
  <2> QED
    BY <2>2, <2>3
<1>f2. ASSUME NEW j \in 1 .. n, j - 1 \in H PROVE j \in H
  <2>1. PICK o : o = j - 1 /\ o \in Nat /\ j = o + 1
    BY <1>n
  <2>2. PICK r : r = [i \in 0 .. o |-> IF i = 0 THEN x ELSE step(i, r[i - 1])]
    BY <1>f2, <2>1
  <2>3. PICK h : h = [i \in 0 .. j |-> IF i = j THEN step(j, r[o]) ELSE r[i]]
    OBVIOUS
  <2>4. ASSUME NEW i \in 0 .. j PROVE h[i] = IF i = 0 THEN x ELSE step(i, h[i - 1])
    <3>1. CASE i = j
      <4>0. i # 0 /\ i - 1 = o /\ o \in 0 .. j /\ o # j
        BY <2>1, <3>1
      <4>1. h[i] = step(j, r[o]) /\ h[o] = r[o] /\ i # 0 /\ i - 1 = o
        BY <2>3, <3>1, <4>0
      <4> QED
        BY <3>1, <4>1
    <3>2. CASE i # j
      <4>1. i \in 0 .. o /\ h[i] = r[i] /\ (i # 0 => i - 1 \in 0 .. j /\ i - 1 # j /\ h[i - 1] = r[i - 1])
        BY <2>1, <2>3, <3>2
      <4>2. r[i] = IF i = 0 THEN x ELSE step(i, r[i - 1])
        BY <2>2, <4>1
      <4> QED
        BY <4>1, <4>2
    <3> QED
      BY <3>1, <3>2
  <2>5. h = [i \in 0 .. j |-> h[i]]
    BY <2>3
  <2>6. h = [i \in 0 .. j |-> IF i = 0 THEN x ELSE step(i, h[i - 1])]
    BY <2>4, <2>5
  <2> QED
    BY <1>n, <2>6
<1>f3. \A j \in 0 .. n : j \in H
  <2> HIDE DEF H
  <2> QED
    BY <1>n, <1>f1, <1>f2, UpTo
<1>f4. \E r : r = [i \in 0 .. n |-> IF i = 0 THEN x ELSE step(i, r[i - 1])]
  BY <1>n, <1>f3
<1>f5. ins = [i \in 0 .. n |-> IF i = 0 THEN x ELSE step(i, ins[i - 1])]
  BY <1>c, <1>f4, Zenon
<1>w. ins[0] = x /\ \A i \in 1 .. n : ins[i] = step(i, ins[i - 1])
  BY <1>n, <1>f5
<1> DEFINE G == {i \in 0 .. n : TreeOk(ins[i], BootStarts(i)) /\ IsFiniteSet(BootStarts(i)) /\ Cardinality(BootStarts(i)) = i}
<1>2. 0 \in G
  <2>1. BootStarts(0) = {} /\ x = EmptyTree /\ ins[0] = x
    BY <1>n, <1>w DEF BootStarts, x
  <2> QED
    BY <1>n, <2>1, EmptyTreeOk, FS_EmptySet
<1>3. ASSUME NEW i \in 1 .. n, i - 1 \in G PROVE i \in G
  <2>1. PICK a, b : a = BootAreas[i][1] /\ b = BootAreas[i][2]
    OBVIOUS
  <2>2. PICK V, W : V = BootStarts(i - 1) /\ W = BootStarts(i)
    OBVIOUS
  <2>3. a \in Keys /\ b \in Keys /\ a < b /\ a \notin V /\ W = V \cup {a}
    BY <2>1, <2>2, BootStartsGrow DEF n
  <2>4. PICK t : t = ins[i - 1]
    OBVIOUS
  <2>5. ins[i] = vma_rb_insert(t, a, b)
    BY <1>s, <1>w, <2>1, <2>4
  <2>6. TreeOk(t, V) /\ IsFiniteSet(V) /\ Cardinality(V) = i - 1
    BY <1>3, <2>2, <2>4
  <2>7. TreeOk(ins[i], W)
    BY <2>3, <2>5, <2>6, InsertKeeps
  <2>8. IsFiniteSet(W) /\ Cardinality(W) = i
    BY <1>n, <2>3, <2>6, FS_AddElement
  <2> QED
    BY <1>n, <2>2, <2>7, <2>8
<1>4. \A i \in 0 .. n : i \in G
  <2> HIDE DEF G
  <2> QED
    BY <1>n, <1>2, <1>3, UpTo
<1>5. n \in G
  BY <1>n, <1>4
<1> QED
  BY <1>1, <1>5 DEF n

\* The search for a free region ends at an address.
LEMMA FreeRegionType ==
  ASSUME NEW t, NEW S, NEW bd, Shape(t, S, bd), NEW len
  PROVE  FreeRegion(t, len) \in Nat
<1> DEFINE n == Steps
           T == [at : Links, start : Nat]
           x == [at |-> t.root, start |-> USER_VIRT_START]
           step(i, w) == IF w.at = NilNode \/ w.at < w.start \/ w.at - w.start >= len THEN w
                         ELSE [at |-> t.n[w.at].ch["right"], start |-> t.n[w.at].end]
           g == [e \in (1 .. n) \X T |-> step(e[1], e[2])]
           walk[i \in 0 .. Steps] ==
            IF i = 0 THEN [at |-> t.root, start |-> USER_VIRT_START]
            ELSE LET w == walk[i - 1] IN
                 IF w.at = NilNode \/ w.at < w.start \/ w.at - w.start >= len THEN w
                 ELSE [at |-> t.n[w.at].ch["right"], start |-> t.n[w.at].end]
<1>n. n \in Nat
  BY VmaConstants
<1>0. /\ t.root \in Links /\ "right" \in Sides /\ Keys \subseteq Nat
      /\ \A k \in Keys : End(t, k) \in Keys /\ Ch(t, k, "right") \in Links
  BY TreeFields, VmaConstants DEF Shape, Sides
<1>x. x \in T
  BY <1>0, VmaAssumption
<1>t. ASSUME NEW i \in 1 .. n, NEW w \in T PROVE step(i, w) \in T
  <2>1. CASE w.at = NilNode
    BY <2>1
  <2>2. CASE w.at # NilNode
    <3>1. PICK a \in Keys : a = w.at
      BY <2>2 DEF Links
    <3>2. t.n[a].ch["right"] \in Links /\ t.n[a].end \in Nat
      BY <1>0 DEF End, Ch
    <3> QED
      BY <3>1, <3>2
  <2> QED
    BY <2>1, <2>2
<1>1. FreeRegion(t, len) = walk[n].start
  BY DEF FreeRegion
<1>c. walk = CHOOSE f : f = [i \in 0 .. n |-> IF i = 0 THEN x ELSE step(i, f[i - 1])]
  BY DEF walk
<1>2. \A w \in T : w.start \in Nat
  OBVIOUS
<1> HIDE DEF walk, x, T, n
<1>l1. g \in [(1 .. n) \X T -> T]
  <2> HIDE DEF step
  <2> QED
    BY <1>t
<1>l2. PICK f : IsIterate(f, T, g, x, n)
  <2> HIDE DEF g
  <2> QED
    BY <1>n, <1>x, <1>l1, IterateExists
<1> HIDE DEF step
<1>l3. f \in [0 .. n -> T] /\ f[0] = x /\ \A i \in 1 .. n : f[i] = step(i, f[i - 1])
  <2>1. f \in [0 .. n -> T] /\ f[0] = x
    BY <1>l2 DEF IsIterate
  <2>2. ASSUME NEW i \in 1 .. n PROVE f[i] = step(i, f[i - 1])
    <3>1. i - 1 \in 0 .. n
      BY <1>n
    <3>2. f[i - 1] \in T /\ f[i] = g[<<i, f[i - 1]>>]
      BY <1>l2, <3>1 DEF IsIterate
    <3> QED
      BY <3>2
  <2> QED
    BY <2>1, <2>2
<1> HIDE DEF g
<1>l4. f = [i \in 0 .. n |-> IF i = 0 THEN x ELSE step(i, f[i - 1])]
  <2>1. \A i \in 0 .. n : f[i] = IF i = 0 THEN x ELSE step(i, f[i - 1])
    BY <1>n, <1>l3
  <2> QED
    BY <1>l3, <2>1
<1>l5. walk = [i \in 0 .. n |-> IF i = 0 THEN x ELSE step(i, walk[i - 1])]
  BY <1>c, <1>l4, Zenon
<1>w. walk[0] = x /\ \A i \in 1 .. n : walk[i] = step(i, walk[i - 1])
  BY <1>n, <1>l5
<1> DEFINE G == {i \in 0 .. n : walk[i] \in T}
<1>3. 0 \in G
  BY <1>n, <1>x, <1>w
<1>4. ASSUME NEW i \in 1 .. n, i - 1 \in G PROVE i \in G
  BY <1>n, <1>4, <1>t, <1>w
<1>5. \A i \in 0 .. n : i \in G
  <2> HIDE DEF G
  <2> QED
    BY <1>n, <1>3, <1>4, UpTo
<1> QED
  BY <1>n, <1>1, <1>2, <1>5
-----------------------------------------------------------------------------
\* A tree of as many areas as are counted.
AreaTree(t, num) == \E S : TreeOk(t, S) /\ IsFiniteSet(S) /\ Cardinality(S) = num

\* vma_mmap, where the address is taken or the space is full included.
LEMMA MapKeeps ==
  ASSUME AreaTree(vt, num_vmas), NEW len \in AreaLengths, NEW addr \in Hints, NEW fixed, vma_mmap(addr, len, fixed)
  PROVE  AreaTree(vt', num_vmas') /\ unmaps' = unmaps
<1>0. PICK start : start = IF addr = 0 \/ fixed THEN FreeRegion(vt, len) ELSE addr
  OBVIOUS
<1>1. PICK S : TreeOk(vt, S) /\ IsFiniteSet(S) /\ Cardinality(S) = num_vmas
  BY DEF AreaTree
<1>2. PICK bd : Shape(vt, S, bd)
  BY <1>1 DEF TreeOk
<1>3. /\ USER_VIRT_END \in Nat /\ AddrBound \in Nat /\ USER_VIRT_END <= AddrBound
      /\ len \in Nat /\ len >= 1 /\ addr \in Nat
  BY VmaAssumption DEF Keys
<1>4. start \in Nat /\ start < USER_VIRT_END - len
  BY <1>0, <1>2, <1>3, FreeRegionType DEF vma_mmap
<1>5. start \in Keys /\ start + len \in Keys /\ start < start + len
  BY <1>3, <1>4 DEF Keys
<1>6. unmaps' = unmaps
  BY DEF vma_mmap
<1>7. CASE Descend(vt, start).x \notin {NilNode, start}
  BY <1>0, <1>6, <1>7 DEF vma_mmap
<1>8. CASE Descend(vt, start).x \in {NilNode, start}
  <2>1. Descend(vt, start).x = NilNode /\ vt' = vma_rb_insert(vt, start, start + len) /\ num_vmas' = num_vmas + 1
    BY <1>0, <1>8 DEF vma_mmap
  <2>2. start \notin S
    BY <1>2, <1>5, <2>1, DescendIs, VmaConstants
  <2>3. PICK end : end = start + len
    OBVIOUS
  <2>4. TreeOk(vt', S \cup {start})
    BY <1>1, <1>5, <2>1, <2>2, <2>3, InsertKeeps
  <2>5. IsFiniteSet(S \cup {start}) /\ Cardinality(S \cup {start}) = num_vmas'
    BY <1>1, <2>1, <2>2, FS_AddElement
  <2> QED
    BY <1>6, <2>4, <2>5 DEF AreaTree
<1> QED
  BY <1>7, <1>8

\* A call of vma_munmap that removes nothing leaves the tree as it is.
LEMMA UnmapCounts ==
  ASSUME unmaps \in Nat, NEW len, NEW addr, vma_munmap(addr, len)
  PROVE  unmaps' \in Nat /\ (unmaps' = 0 => unmaps = 0 /\ vt' = vt /\ (num_vmas \in Nat => num_vmas' = num_vmas))
<1> DEFINE n == Steps
           end == addr + len
           first == vma_rb_find(vt, vt.root, addr)
           x == [t |-> vt, mapped |-> mapped, count |-> 0, node |-> first.found, stuck |-> first.at # NilNode]
           step(i, u) == IF u.stuck \/ u.node = NilNode \/ u.node >= end THEN u ELSE UnmapTurn(u, addr, end)
           turn[i \in 0 .. Steps] ==
            IF i = 0 THEN [t |-> vt, mapped |-> mapped, count |-> 0, node |-> first.found, stuck |-> first.at # NilNode]
            ELSE LET u == turn[i - 1] IN
                 IF u.stuck \/ u.node = NilNode \/ u.node >= end THEN u ELSE UnmapTurn(u, addr, end)
           H == {m \in 0 .. n : \E f : f = [i \in 0 .. m |-> IF i = 0 THEN x ELSE step(i, f[i - 1])]}
<1>n. n \in Nat
  BY VmaConstants
<1>1. vt' = turn[n].t /\ num_vmas' = num_vmas - turn[n].count /\ unmaps' = unmaps + (IF turn[n].count > 0 THEN 1 ELSE 0)
  BY DEF vma_munmap
<1>c. turn = CHOOSE f : f = [i \in 0 .. n |-> IF i = 0 THEN x ELSE step(i, f[i - 1])]
  BY DEF turn
<1>2. x.t = vt /\ x.count = 0
  OBVIOUS
<1>3. \A i, u : step(i, u) = u \/ step(i, u) = UnmapTurn(u, addr, end)
  OBVIOUS
<1>4. \A u : UnmapTurn(u, addr, end).count = u.count + 1
  BY DEF UnmapTurn
<1> HIDE DEF turn, x, n, step, end, first
<1>f1. 0 \in H
  <2>1. PICK r : r = [i \in 0 .. 0 |-> x]
    OBVIOUS
  <2>2. r = [i \in 0 .. 0 |-> IF i = 0 THEN x ELSE step(i, r[i - 1])]
    BY <2>1
  <2>3. 0 \in 0 .. n
    BY <1>n
  <2> QED
    BY <2>2, <2>3
<1>f2. ASSUME NEW j \in 1 .. n, j - 1 \in H PROVE j \in H
  <2>1. PICK o : o = j - 1 /\ o \in Nat /\ j = o + 1
    BY <1>n
  <2>2. PICK r : r = [i \in 0 .. o |-> IF i = 0 THEN x ELSE step(i, r[i - 1])]
    BY <1>f2, <2>1
  <2>3. PICK h : h = [i \in 0 .. j |-> IF i = j THEN step(j, r[o]) ELSE r[i]]
    OBVIOUS
  <2>4. ASSUME NEW i \in 0 .. j PROVE h[i] = IF i = 0 THEN x ELSE step(i, h[i - 1])
    <3>1. CASE i = j
      <4>0. i # 0 /\ i - 1 = o /\ o \in 0 .. j /\ o # j
        BY <2>1, <3>1
      <4>1. h[i] = step(j, r[o]) /\ h[o] = r[o] /\ i # 0 /\ i - 1 = o
        BY <2>3, <3>1, <4>0
      <4> QED
        BY <3>1, <4>1
    <3>2. CASE i # j
      <4>1. i \in 0 .. o /\ h[i] = r[i] /\ (i # 0 => i - 1 \in 0 .. j /\ i - 1 # j /\ h[i - 1] = r[i - 1])
        BY <2>1, <2>3, <3>2
      <4>2. r[i] = IF i = 0 THEN x ELSE step(i, r[i - 1])
        BY <2>2, <4>1
      <4> QED
        BY <4>1, <4>2
    <3> QED
      BY <3>1, <3>2
  <2>5. h = [i \in 0 .. j |-> h[i]]
    BY <2>3
  <2>6. h = [i \in 0 .. j |-> IF i = 0 THEN x ELSE step(i, h[i - 1])]
    BY <2>4, <2>5
  <2> QED
    BY <1>n, <2>6
<1>f3. \A j \in 0 .. n : j \in H
  <2> HIDE DEF H
  <2> QED
    BY <1>n, <1>f1, <1>f2, UpTo
<1>f4. \E r : r = [i \in 0 .. n |-> IF i = 0 THEN x ELSE step(i, r[i - 1])]
  BY <1>n, <1>f3
<1>f5. turn = [i \in 0 .. n |-> IF i = 0 THEN x ELSE step(i, turn[i - 1])]
  BY <1>c, <1>f4, Zenon
<1>w. turn[0] = x /\ \A i \in 1 .. n : turn[i] = step(i, turn[i - 1])
  BY <1>n, <1>f5
<1> DEFINE G == {i \in 0 .. n : turn[i].count \in Nat /\ (turn[i].count = 0 => turn[i].t = vt)}
<1>5. 0 \in G
  BY <1>n, <1>w, <1>2
<1>6. ASSUME NEW i \in 1 .. n, i - 1 \in G PROVE i \in G
  <2>1. PICK u, v : u = turn[i - 1] /\ v = turn[i] /\ u.count \in Nat /\ (u.count = 0 => u.t = vt)
    BY <1>6
  <2>2. v = step(i, u)
    BY <1>w, <2>1
  <2>3. v.count \in Nat /\ (v.count = 0 => v.t = vt)
    <3>1. CASE v = u
      BY <2>1, <3>1
    <3>2. CASE v = UnmapTurn(u, addr, end)
      BY <1>4, <2>1, <3>2
    <3> QED
      BY <1>3, <2>2, <3>1, <3>2
  <2>4. i \in 0 .. n
    BY <1>n
  <2> QED
    BY <2>1, <2>3, <2>4
<1>7. \A i \in 0 .. n : i \in G
  <2> HIDE DEF G
  <2> QED
    BY <1>n, <1>5, <1>6, UpTo
<1>8. turn[n].count \in Nat /\ (turn[n].count = 0 => turn[n].t = vt)
  BY <1>n, <1>7
<1> QED
  BY <1>1, <1>8

\* The invariant: until something is removed the areas are a red-black tree.
VmaInv ==
    /\ unmaps \in Nat
    /\ part = "vma" => (unmaps = 0 => AreaTree(vt, num_vmas))
    /\ part # "vma" => vt.root = NilNode /\ num_vmas = 0

\* The invariant holds at boot.
LEMMA VmaInvStart == MachineInit => VmaInv
<1>0. SUFFICES ASSUME IF part = "vma" THEN vma_init ELSE VmaUnset PROVE VmaInv
  BY DEF MachineInit
<1>1. CASE part = "vma"
  <2>1. vt = VmaStart /\ num_vmas = Len(BootAreas) /\ unmaps = 0
    BY <1>0, <1>1 DEF vma_init
  <2>2. AreaTree(vt, num_vmas)
    BY <2>1, VmaStartOk DEF AreaTree
  <2> QED
    BY <1>1, <2>1, <2>2 DEF VmaInv
<1>2. CASE part # "vma"
  BY <1>0, <1>2 DEF VmaUnset, VmaInv
<1> QED
  BY <1>1, <1>2

\* Every step of the kernel keeps it.
LEMMA VmaInvStep == VmaInv /\ [MachineNext]_MachineVars => VmaInv'
<1> SUFFICES ASSUME VmaInv, [MachineNext]_MachineVars PROVE VmaInv'
  OBVIOUS
<1>1. [VmaNext]_VmaVars /\ (part = "vma" \/ UNCHANGED VmaVars) /\ part' = part
  BY AddressParts
<1>2. CASE UNCHANGED VmaVars
  BY <1>1, <1>2 DEF VmaVars, VmaInv, AreaTree
<1>3. CASE part = "vma" /\ VmaNext
  <2>1. PICK len \in AreaLengths, addr \in Hints : (\E fixed \in BOOLEAN : vma_mmap(addr, len, fixed)) \/ vma_munmap(addr, len)
    BY <1>3 DEF VmaNext
  <2>2. ASSUME NEW fixed, vma_mmap(addr, len, fixed) PROVE VmaInv'
    <3>1. unmaps' = unmaps
      BY <2>2 DEF vma_mmap
    <3>2. unmaps = 0 => AreaTree(vt', num_vmas')
      BY <1>3, <2>2, MapKeeps DEF VmaInv
    <3> QED
      BY <1>1, <1>3, <3>1, <3>2 DEF VmaInv, AreaTree
  <2>3. CASE vma_munmap(addr, len)
    <3>1. unmaps' \in Nat /\ (unmaps' = 0 => unmaps = 0 /\ vt' = vt /\ (num_vmas \in Nat => num_vmas' = num_vmas))
      BY <2>3, UnmapCounts DEF VmaInv
    <3>2. ASSUME unmaps' = 0 PROVE AreaTree(vt', num_vmas')
      <4>1. PICK S : TreeOk(vt, S) /\ IsFiniteSet(S) /\ Cardinality(S) = num_vmas
        BY <1>3, <3>1, <3>2 DEF VmaInv, AreaTree
      <4>2. num_vmas \in Nat
        BY <4>1, FS_CardinalityType
      <4> QED
        BY <3>1, <3>2, <4>1, <4>2 DEF AreaTree
    <3> QED
      BY <1>1, <1>3, <3>1, <3>2 DEF VmaInv, AreaTree
  <2> QED
    BY <2>1, <2>2, <2>3
<1> QED
  BY <1>1, <1>2, <1>3
-----------------------------------------------------------------------------
\* The bounds of a node leave room for it.
LEMMA SizeType ==
  ASSUME NEW t, NEW S, NEW bd, Shape(t, S, bd), NEW k \in S
  PROVE  Size(bd, k) \in Int /\ Size(bd, k) >= 2 /\ Size(bd, k) <= AddrBound + 2
<1>1. k \in Keys /\ k \in Int /\ Within(bd, k, k) /\ bd \in Bounds /\ AddrBound \in Nat
  BY VmaConstants DEF Shape
<1> QED
  BY <1>1, BoundsType DEF Size, Within

\* One step up: the parent has wider bounds.
LEMMA StepUp ==
  ASSUME NEW t, NEW S, NEW bd, Shape(t, S, bd), NEW k \in S, k # t.root, NEW q, q = Par(t, k)
  PROVE  /\ q \in S /\ q # NilNode /\ Size(bd, q) > Size(bd, k) /\ \E e \in Sides : Ch(t, q, e) = k
         /\ \A m \in Int : Within(bd, k, m) => Within(bd, q, m)
<1>1. NilNode \notin Keys /\ S \subseteq Keys
  BY VmaConstants DEF Shape
<1>2. q \in S /\ \E e \in Sides : Ch(t, q, e) = k
  BY DEF Shape, ParentOk
<1>3. PICK e \in Sides : Ch(t, q, e) = k
  BY <1>2
<1>4. k # NilNode /\ q # NilNode
  BY <1>1, <1>2
<1>5. Size(bd, k) < Size(bd, q) /\ \A m \in Int : Within(bd, k, m) => Within(bd, q, m)
  BY <1>2, <1>3, <1>4, ChildInside DEF Size
<1>6. Size(bd, k) \in Int /\ Size(bd, q) \in Int
  BY <1>2, SizeType
<1> QED
  BY <1>2, <1>4, <1>5, <1>6

\* A tree, or one that vma_init has not made yet.
Rooted(t, S, bd) == Shape(t, S, bd) \/ (S = {} /\ t.root = NilNode)

\* The nodes that a walk from the root reaches are those of the tree.
LEMMA NodesAre ==
  ASSUME NEW S, NEW bd, Rooted(vt, S, bd)
  PROVE  VmaNodes = S
<1> DEFINE n == Steps
           x == {vt.root} \ {NilNode}
           step(i, r) == r \cup ({vt.n[k].ch[d] : k \in r, d \in Sides} \ {NilNode})
           reach[i \in 0 .. Steps] ==
            IF i = 0 THEN {vt.root} \ {NilNode}
            ELSE LET r == reach[i - 1] IN r \cup ({vt.n[k].ch[d] : k \in r, d \in Sides} \ {NilNode})
           H == {m \in 0 .. n : \E f : f = [i \in 0 .. m |-> IF i = 0 THEN x ELSE step(i, f[i - 1])]}
           N == AddrBound + 2
<1>n. n \in Nat /\ n = AddrBound + 1 /\ AddrBound \in Nat
  BY VmaConstants
<1>1. VmaNodes = reach[n]
  BY DEF VmaNodes
<1>c. reach = CHOOSE f : f = [i \in 0 .. n |-> IF i = 0 THEN x ELSE step(i, f[i - 1])]
  BY DEF reach
<1>s. \A i, r : step(i, r) = r \cup ({Ch(vt, k, d) : k \in r, d \in Sides} \ {NilNode})
  BY DEF Ch
<1>2. /\ vt.root \in S \cup {NilNode} /\ NilNode \notin S /\ (S # {} => vt.root \in S /\ Shape(vt, S, bd))
      /\ \A k \in S, d \in Sides : Ch(vt, k, d) \in S \cup {NilNode}
  <2>1. CASE Shape(vt, S, bd)
    BY <2>1, VmaConstants DEF Shape, RootIs, ChildOk
  <2>2. CASE S = {} /\ vt.root = NilNode
    BY <2>2
  <2> QED
    BY <2>1, <2>2 DEF Rooted
<1>x. x = {vt.root} \ {NilNode}
  OBVIOUS
<1> HIDE DEF reach, x, n, step
<1>f1. 0 \in H
  <2>1. PICK r : r = [i \in 0 .. 0 |-> x]
    OBVIOUS
  <2>2. r = [i \in 0 .. 0 |-> IF i = 0 THEN x ELSE step(i, r[i - 1])]
    BY <2>1
  <2>3. 0 \in 0 .. n
    BY <1>n
  <2> QED
    BY <2>2, <2>3
<1>f2. ASSUME NEW j \in 1 .. n, j - 1 \in H PROVE j \in H
  <2>1. PICK o : o = j - 1 /\ o \in Nat /\ j = o + 1
    BY <1>n
  <2>2. PICK r : r = [i \in 0 .. o |-> IF i = 0 THEN x ELSE step(i, r[i - 1])]
    BY <1>f2, <2>1
  <2>3. PICK h : h = [i \in 0 .. j |-> IF i = j THEN step(j, r[o]) ELSE r[i]]
    OBVIOUS
  <2>4. ASSUME NEW i \in 0 .. j PROVE h[i] = IF i = 0 THEN x ELSE step(i, h[i - 1])
    <3>1. CASE i = j
      <4>0. i # 0 /\ i - 1 = o /\ o \in 0 .. j /\ o # j
        BY <2>1, <3>1
      <4>1. h[i] = step(j, r[o]) /\ h[o] = r[o] /\ i # 0 /\ i - 1 = o
        BY <2>3, <3>1, <4>0
      <4> QED
        BY <3>1, <4>1
    <3>2. CASE i # j
      <4>1. i \in 0 .. o /\ h[i] = r[i] /\ (i # 0 => i - 1 \in 0 .. j /\ i - 1 # j /\ h[i - 1] = r[i - 1])
        BY <2>1, <2>3, <3>2
      <4>2. r[i] = IF i = 0 THEN x ELSE step(i, r[i - 1])
        BY <2>2, <4>1
      <4> QED
        BY <4>1, <4>2
    <3> QED
      BY <3>1, <3>2
  <2>5. h = [i \in 0 .. j |-> h[i]]
    BY <2>3
  <2>6. h = [i \in 0 .. j |-> IF i = 0 THEN x ELSE step(i, h[i - 1])]
    BY <2>4, <2>5
  <2> QED
    BY <1>n, <2>6
<1>f3. \A j \in 0 .. n : j \in H
  <2> HIDE DEF H
  <2> QED
    BY <1>n, <1>f1, <1>f2, UpTo
<1>f4. \E r : r = [i \in 0 .. n |-> IF i = 0 THEN x ELSE step(i, r[i - 1])]
  BY <1>n, <1>f3
<1>f5. reach = [i \in 0 .. n |-> IF i = 0 THEN x ELSE step(i, reach[i - 1])]
  BY <1>c, <1>f4, Zenon
<1>w. reach[0] = x /\ \A i \in 1 .. n : reach[i] = step(i, reach[i - 1])
  BY <1>n, <1>f5
<1> DEFINE G == {i \in 0 .. n : reach[i] \subseteq S /\ \A k \in S : Size(bd, k) >= N - i => k \in reach[i]}
<1>3. ASSUME NEW k \in S PROVE Size(bd, k) \in Int /\ Size(bd, k) >= 2 /\ Size(bd, k) <= N
  BY <1>2, SizeType
<1>4. 0 \in G
  <2>1. reach[0] \subseteq S
    BY <1>2, <1>w, <1>x
  <2>2. ASSUME NEW k \in S, Size(bd, k) >= N - 0 PROVE k \in reach[0]
    <3>1. CASE k = vt.root
      BY <1>2, <1>w, <1>x, <3>1
    <3>2. CASE k # vt.root
      <4>1. PICK q : q = Par(vt, k)
        OBVIOUS
      <4>2. q \in S /\ Size(bd, q) > Size(bd, k)
        BY <1>2, <3>2, <4>1, StepUp
      <4> QED
        BY <1>n, <1>3, <2>2, <4>2
    <3> QED
      BY <3>1, <3>2
  <2> QED
    BY <1>n, <2>1, <2>2
<1>5. ASSUME NEW i \in 1 .. n, i - 1 \in G PROVE i \in G
  <2>1. PICK j, r : j = i - 1 /\ r = reach[j] /\ r \subseteq S /\ (\A k \in S : Size(bd, k) >= N - j => k \in r)
    BY <1>5
  <2>2. reach[i] = r \cup ({Ch(vt, k, d) : k \in r, d \in Sides} \ {NilNode})
    BY <1>s, <1>w, <2>1
  <2>3. reach[i] \subseteq S
    BY <1>2, <2>1, <2>2
  <2>4. ASSUME NEW k \in S, Size(bd, k) >= N - i PROVE k \in reach[i]
    <3>1. CASE k = vt.root
      <4>1. bd[vt.root]["left"] = -1 /\ bd[vt.root]["right"] = AddrBound + 1
        BY <1>2 DEF Shape, RootIs
      <4>2. Size(bd, k) >= N - j
        BY <1>n, <2>1, <3>1, <4>1 DEF Size
      <4> QED
        BY <2>1, <2>2, <4>2
    <3>2. CASE k # vt.root
      <4>1. PICK q : q = Par(vt, k)
        OBVIOUS
      <4>2. q \in S /\ Size(bd, q) > Size(bd, k) /\ \E e \in Sides : Ch(vt, q, e) = k
        BY <1>2, <3>2, <4>1, StepUp
      <4>3. Size(bd, q) >= N - j
        BY <1>n, <1>3, <2>1, <2>4, <4>2
      <4>4. q \in r
        BY <2>1, <4>2, <4>3
      <4> QED
        BY <1>2, <2>2, <4>2, <4>4
    <3> QED
      BY <3>1, <3>2
  <2>5. i \in 0 .. n
    BY <1>n
  <2> QED
    BY <2>3, <2>4, <2>5
<1>6. \A i \in 0 .. n : i \in G
  <2> HIDE DEF G
  <2> QED
    BY <1>n, <1>4, <1>5, UpTo
<1>7. n \in G
  BY <1>n, <1>6
<1>8. \A k \in S : k \in reach[n]
  BY <1>n, <1>3, <1>7
<1> QED
  BY <1>1, <1>7, <1>8

\* What is below a node on one side is smaller, on the other greater.
LEMMA BelowSide ==
  ASSUME NEW S, NEW bd, Shape(vt, S, bd), NEW k \in S, NEW d \in Sides, NEW m \in Below(k, d)
  PROVE  m # k /\ (d = "left" <=> m < k)
<1> DEFINE n == Steps
           x == m
           step(i, u) == IF u \in {NilNode, vt.n[k].ch[d]} THEN u ELSE vt.n[u].parent
           up[i \in 0 .. Steps] ==
                IF i = 0 THEN m
                ELSE LET u == up[i - 1] IN IF u \in {NilNode, vt.n[k].ch[d]} THEN u ELSE vt.n[u].parent
           H == {j \in 0 .. n : \E f : f = [i \in 0 .. j |-> IF i = 0 THEN x ELSE step(i, f[i - 1])]}
<1>n. n \in Nat /\ n = AddrBound + 1 /\ AddrBound \in Nat
  BY VmaConstants
<1>1. m \in S /\ up[n] # NilNode
  <2>1. VmaNodes = S
    BY NodesAre DEF Rooted
  <2> QED
    BY <2>1 DEF Below
<1>c. up = CHOOSE f : f = [i \in 0 .. n |-> IF i = 0 THEN x ELSE step(i, f[i - 1])]
  BY DEF up
<1>2. PICK c : c = Ch(vt, k, d)
  OBVIOUS
<1>s. \A i, u : step(i, u) = IF u \in {NilNode, c} THEN u ELSE Par(vt, u)
  BY <1>2 DEF Ch, Par
<1>3. /\ S \subseteq Keys /\ NilNode \notin S /\ m \in Int /\ k \in Int /\ (vt.root \in S => Par(vt, vt.root) = NilNode)
      /\ Within(bd, m, m)
  <2>1. S \subseteq Keys /\ RootIs(vt, S, bd) /\ Within(bd, m, m) /\ Keys \subseteq Int /\ NilNode \notin Keys
    BY <1>1, VmaConstants DEF Shape
  <2> QED
    BY <1>1, <2>1 DEF RootIs
<1>x. x = m
  OBVIOUS
<1> HIDE DEF up, x, n, step
<1>f1. 0 \in H
  <2>1. PICK r : r = [i \in 0 .. 0 |-> x]
    OBVIOUS
  <2>2. r = [i \in 0 .. 0 |-> IF i = 0 THEN x ELSE step(i, r[i - 1])]
    BY <2>1
  <2>3. 0 \in 0 .. n
    BY <1>n
  <2> QED
    BY <2>2, <2>3
<1>f2. ASSUME NEW j \in 1 .. n, j - 1 \in H PROVE j \in H
  <2>1. PICK o : o = j - 1 /\ o \in Nat /\ j = o + 1
    BY <1>n
  <2>2. PICK r : r = [i \in 0 .. o |-> IF i = 0 THEN x ELSE step(i, r[i - 1])]
    BY <1>f2, <2>1
  <2>3. PICK h : h = [i \in 0 .. j |-> IF i = j THEN step(j, r[o]) ELSE r[i]]
    OBVIOUS
  <2>4. ASSUME NEW i \in 0 .. j PROVE h[i] = IF i = 0 THEN x ELSE step(i, h[i - 1])
    <3>1. CASE i = j
      <4>0. i # 0 /\ i - 1 = o /\ o \in 0 .. j /\ o # j
        BY <2>1, <3>1
      <4>1. h[i] = step(j, r[o]) /\ h[o] = r[o] /\ i # 0 /\ i - 1 = o
        BY <2>3, <3>1, <4>0
      <4> QED
        BY <3>1, <4>1
    <3>2. CASE i # j
      <4>1. i \in 0 .. o /\ h[i] = r[i] /\ (i # 0 => i - 1 \in 0 .. j /\ i - 1 # j /\ h[i - 1] = r[i - 1])
        BY <2>1, <2>3, <3>2
      <4>2. r[i] = IF i = 0 THEN x ELSE step(i, r[i - 1])
        BY <2>2, <4>1
      <4> QED
        BY <4>1, <4>2
    <3> QED
      BY <3>1, <3>2
  <2>5. h = [i \in 0 .. j |-> h[i]]
    BY <2>3
  <2>6. h = [i \in 0 .. j |-> IF i = 0 THEN x ELSE step(i, h[i - 1])]
    BY <2>4, <2>5
  <2> QED
    BY <1>n, <2>6
<1>f3. \A j \in 0 .. n : j \in H
  <2> HIDE DEF H
  <2> QED
    BY <1>n, <1>f1, <1>f2, UpTo
<1>f4. \E r : r = [i \in 0 .. n |-> IF i = 0 THEN x ELSE step(i, r[i - 1])]
  BY <1>n, <1>f3
<1>f5. up = [i \in 0 .. n |-> IF i = 0 THEN x ELSE step(i, up[i - 1])]
  BY <1>c, <1>f4, Zenon
<1>w. up[0] = x /\ \A i \in 1 .. n : up[i] = step(i, up[i - 1])
  BY <1>n, <1>f5
<1> DEFINE G == {i \in 0 .. n : /\ up[i] \in S \cup {NilNode}
                                /\ up[i] # NilNode => Within(bd, up[i], m)
                                /\ up[i] \notin {NilNode, c} => Size(bd, up[i]) >= 2 + i}
<1>4. 0 \in G
  <2>1. Size(bd, m) >= 2 + 0
    BY <1>1, SizeType
  <2> QED
    BY <1>n, <1>1, <1>3, <1>w, <1>x, <2>1
<1>5. ASSUME NEW i \in 1 .. n, i - 1 \in G PROVE i \in G
  <2>1. PICK j, u, v : /\ j = i - 1 /\ j \in Nat /\ i = j + 1 /\ u = up[j] /\ v = up[i]
                       /\ u \in S \cup {NilNode} /\ (u # NilNode => Within(bd, u, m))
                       /\ (u \notin {NilNode, c} => Size(bd, u) >= 2 + j)
    BY <1>n, <1>5
  <2>2. v = IF u \in {NilNode, c} THEN u ELSE Par(vt, u)
    BY <1>s, <1>w, <2>1
  <2>3. v \in S \cup {NilNode} /\ (v # NilNode => Within(bd, v, m)) /\ (v \notin {NilNode, c} => Size(bd, v) >= 2 + i)
    <3>1. CASE u \in {NilNode, c}
      BY <2>1, <2>2, <3>1
    <3>2. CASE u \notin {NilNode, c} /\ u = vt.root
      BY <1>3, <2>1, <2>2, <3>2
    <3>3. CASE u \notin {NilNode, c} /\ u # vt.root
      <4>1. u \in S /\ v = Par(vt, u)
        BY <2>1, <2>2, <3>3
      <4>2. v \in S /\ v # NilNode /\ Size(bd, v) > Size(bd, u) /\ Within(bd, v, m)
        BY <1>3, <2>1, <3>3, <4>1, StepUp
      <4>3. Size(bd, v) \in Int /\ Size(bd, u) \in Int
        BY <4>1, <4>2, SizeType
      <4>4. Size(bd, v) >= 2 + i
        BY <2>1, <3>3, <4>2, <4>3
      <4> QED
        BY <4>2, <4>4
    <3> QED
      BY <3>1, <3>2, <3>3
  <2>4. i \in 0 .. n
    BY <1>n
  <2> QED
    BY <2>1, <2>3, <2>4
<1>6. \A i \in 0 .. n : i \in G
  <2> HIDE DEF G
  <2> QED
    BY <1>n, <1>4, <1>5, UpTo
<1>7. PICK u : u = up[n]
  OBVIOUS
<1>8. u \in S /\ Within(bd, u, m) /\ (u # c => Size(bd, u) >= 2 + n)
  BY <1>n, <1>1, <1>6, <1>7
<1>9. u = c
  BY <1>n, <1>8, SizeType
<1>10. c # NilNode /\ Within(bd, c, m)
  BY <1>3, <1>8, <1>9
<1> QED
  BY <1>2, <1>3, <1>10, ChildInside

\* From a node without both children, the black nodes up to the root are those that bh counts for the root.
LEMMA BlackDepthIs ==
  ASSUME NEW S, NEW bd, NEW bh, Shape(vt, S, bd), Blacks(vt, S, bh), NEW k \in S,
         NEW d \in Sides, Ch(vt, k, d) = NilNode
  PROVE  BlackDepth(k) = bh[vt.root]
<1> DEFINE n == Steps
           x == [at |-> k, n |-> 0]
           step(i, u) == IF u.at = NilNode THEN u
                         ELSE [at |-> vt.n[u.at].parent, n |-> u.n + (IF vt.n[u.at].red THEN 0 ELSE 1)]
           up[i \in 0 .. Steps] ==
            IF i = 0 THEN [at |-> k, n |-> 0]
            ELSE LET u == up[i - 1] IN
                 IF u.at = NilNode THEN u
                 ELSE [at |-> vt.n[u.at].parent, n |-> u.n + (IF vt.n[u.at].red THEN 0 ELSE 1)]
           H == {j \in 0 .. n : \E f : f = [i \in 0 .. j |-> IF i = 0 THEN x ELSE step(i, f[i - 1])]}
<1>n. n \in Nat /\ n = AddrBound + 1 /\ AddrBound \in Nat
  BY VmaConstants
<1>1. BlackDepth(k) = up[n].n
  BY DEF BlackDepth
<1>c. up = CHOOSE f : f = [i \in 0 .. n |-> IF i = 0 THEN x ELSE step(i, f[i - 1])]
  BY DEF up
<1>s. \A i, u : step(i, u) = IF u.at = NilNode THEN u ELSE [at |-> Par(vt, u.at), n |-> u.n + Weight(vt, u.at)]
  BY DEF Par, Weight, Red
<1>2. /\ S \subseteq Keys /\ NilNode \notin S /\ (vt.root \in S => Par(vt, vt.root) = NilNode)
      /\ bh \in [Keys -> Int] /\ \A a \in S : bh[a] \in Int
  BY VmaConstants DEF Shape, RootIs, Blacks
<1>x. x.at = k /\ x.n = 0
  OBVIOUS
<1> HIDE DEF up, x, n, step
<1>f1. 0 \in H
  <2>1. PICK r : r = [i \in 0 .. 0 |-> x]
    OBVIOUS
  <2>2. r = [i \in 0 .. 0 |-> IF i = 0 THEN x ELSE step(i, r[i - 1])]
    BY <2>1
  <2>3. 0 \in 0 .. n
    BY <1>n
  <2> QED
    BY <2>2, <2>3
<1>f2. ASSUME NEW j \in 1 .. n, j - 1 \in H PROVE j \in H
  <2>1. PICK o : o = j - 1 /\ o \in Nat /\ j = o + 1
    BY <1>n
  <2>2. PICK r : r = [i \in 0 .. o |-> IF i = 0 THEN x ELSE step(i, r[i - 1])]
    BY <1>f2, <2>1
  <2>3. PICK h : h = [i \in 0 .. j |-> IF i = j THEN step(j, r[o]) ELSE r[i]]
    OBVIOUS
  <2>4. ASSUME NEW i \in 0 .. j PROVE h[i] = IF i = 0 THEN x ELSE step(i, h[i - 1])
    <3>1. CASE i = j
      <4>0. i # 0 /\ i - 1 = o /\ o \in 0 .. j /\ o # j
        BY <2>1, <3>1
      <4>1. h[i] = step(j, r[o]) /\ h[o] = r[o] /\ i # 0 /\ i - 1 = o
        BY <2>3, <3>1, <4>0
      <4> QED
        BY <3>1, <4>1
    <3>2. CASE i # j
      <4>1. i \in 0 .. o /\ h[i] = r[i] /\ (i # 0 => i - 1 \in 0 .. j /\ i - 1 # j /\ h[i - 1] = r[i - 1])
        BY <2>1, <2>3, <3>2
      <4>2. r[i] = IF i = 0 THEN x ELSE step(i, r[i - 1])
        BY <2>2, <4>1
      <4> QED
        BY <4>1, <4>2
    <3> QED
      BY <3>1, <3>2
  <2>5. h = [i \in 0 .. j |-> h[i]]
    BY <2>3
  <2>6. h = [i \in 0 .. j |-> IF i = 0 THEN x ELSE step(i, h[i - 1])]
    BY <2>4, <2>5
  <2> QED
    BY <1>n, <2>6
<1>f3. \A j \in 0 .. n : j \in H
  <2> HIDE DEF H
  <2> QED
    BY <1>n, <1>f1, <1>f2, UpTo
<1>f4. \E r : r = [i \in 0 .. n |-> IF i = 0 THEN x ELSE step(i, r[i - 1])]
  BY <1>n, <1>f3
<1>f5. up = [i \in 0 .. n |-> IF i = 0 THEN x ELSE step(i, up[i - 1])]
  BY <1>c, <1>f4, Zenon
<1>w. up[0] = x /\ \A i \in 1 .. n : up[i] = step(i, up[i - 1])
  BY <1>n, <1>f5
<1> DEFINE Climbed(u, i) == /\ u.at \in S \cup {NilNode} /\ u.n \in Int
                            /\ u.at = NilNode => u.n = bh[vt.root]
                            /\ u.at # NilNode => u.n + Weight(vt, u.at) = bh[u.at] /\ Size(bd, u.at) >= 2 + i
           G == {i \in 0 .. n : Climbed(up[i], i)}
<1>3. 0 \in G
  <2>1. Size(bd, k) >= 2 + 0
    BY SizeType
  <2>2. bh[k] = 0 + Weight(vt, k)
    BY DEF Blacks, BlackOf
  <2> QED
    BY <1>n, <1>2, <1>w, <1>x, <2>1, <2>2
<1>4. ASSUME NEW i \in 1 .. n, i - 1 \in G PROVE i \in G
  <2>1. PICK j, u, v : j = i - 1 /\ j \in Nat /\ i = j + 1 /\ u = up[j] /\ v = up[i] /\ Climbed(u, j)
    BY <1>n, <1>4
  <2>2. v = IF u.at = NilNode THEN u ELSE [at |-> Par(vt, u.at), n |-> u.n + Weight(vt, u.at)]
    BY <1>s, <1>w, <2>1
  <2>3. Climbed(v, i)
    <3>1. CASE u.at = NilNode
      BY <2>1, <2>2, <3>1
    <3>2. CASE u.at # NilNode
      <4>1. PICK a, q : a = u.at /\ q = Par(vt, a) /\ a \in S /\ u.n + Weight(vt, a) = bh[a] /\ Size(bd, a) >= 2 + j
        BY <2>1, <3>2
      <4>2. v.at = q /\ v.n = bh[a] /\ bh[a] \in Int
        BY <1>2, <2>2, <3>2, <4>1
      <4>3. CASE a = vt.root
        BY <1>2, <4>1, <4>2, <4>3
      <4>4. CASE a # vt.root
        <5>1. q \in S /\ q # NilNode /\ Size(bd, q) > Size(bd, a) /\ \E e \in Sides : Ch(vt, q, e) = a
          BY <4>1, <4>4, StepUp
        <5>2. PICK e \in Sides : Ch(vt, q, e) = a
          BY <5>1
        <5>3. bh[q] = bh[a] + Weight(vt, q)
          <6>1. bh[q] = BlackOf(bh, Ch(vt, q, e)) + Weight(vt, q)
            BY <5>1 DEF Blacks
          <6>2. BlackOf(bh, Ch(vt, q, e)) = bh[a]
            BY <1>2, <4>1, <5>2 DEF BlackOf
          <6> QED
            BY <6>1, <6>2
        <5>4. Size(bd, q) \in Int /\ Size(bd, a) \in Int
          BY <4>1, <5>1, SizeType
        <5>5. Size(bd, q) >= 2 + i
          BY <2>1, <4>1, <5>1, <5>4
        <5> QED
          BY <4>2, <5>1, <5>3, <5>5
      <4> QED
        BY <4>3, <4>4
    <3> QED
      BY <3>1, <3>2
  <2>4. i \in 0 .. n
    BY <1>n
  <2> HIDE DEF Climbed
  <2> QED
    BY <2>1, <2>3, <2>4
<1>5. \A i \in 0 .. n : i \in G
  <2> HIDE DEF G
  <2> QED
    BY <1>n, <1>3, <1>4, UpTo
<1>6. PICK u : u = up[n]
  OBVIOUS
<1>7. Climbed(u, n)
  <2> HIDE DEF Climbed
  <2> QED
    BY <1>n, <1>5, <1>6
<1>8. u.at = NilNode
  <2>1. ASSUME u.at # NilNode PROVE FALSE
    <3>1. PICK a \in S : a = u.at /\ Size(bd, a) >= 2 + n
      BY <1>7, <2>1
    <3> QED
      BY <1>n, <3>1, SizeType
  <2> QED
    BY <2>1
<1> QED
  BY <1>1, <1>6, <1>7, <1>8
-----------------------------------------------------------------------------
\* Whether the area at k contains an address.
AreaHas(t, k, addr) == k <= addr /\ addr < End(t, k)

\* Where the walk of vma_rb_find is after i steps.
Searched(t, S, bd, addr, w, i) ==
    /\ w.at \in S \cup {NilNode} /\ w.found \in S \cup {NilNode}
    /\ w.at # NilNode => Size(bd, w.at) <= AddrBound + 2 - i
    /\ w.found # NilNode => AreaHas(t, w.found, addr)

\* Areas that contain a common address are the same.
Apart(t, S) == \A k, m \in S : (\E a \in Int : AreaHas(t, k, a) /\ AreaHas(t, m, a)) => k = m

\* The walk of vma_rb_find ends, and meets the one area that contains the address.
LEMMA FindIs ==
  ASSUME NEW t, NEW S, NEW bd, Rooted(t, S, bd), Apart(t, S), NEW addr \in Keys,
         NEW f, f = vma_rb_find(t, t.root, addr)
  PROVE  /\ f.at = NilNode /\ f.found \in S \cup {NilNode}
         /\ f.found # NilNode => AreaHas(t, f.found, addr)
         /\ \A k \in S : AreaHas(t, k, addr) => f.found # NilNode
<1> DEFINE n == Steps
           x == [at |-> t.root, found |-> NilNode]
           side(a) == IF AreaHas(t, a, addr) \/ addr < a THEN "left" ELSE "right"
           step(i, w) ==
                 IF w.at = NilNode THEN w
                 ELSE LET hit == w.at <= addr /\ addr < t.n[w.at].end
                      IN  [at |-> t.n[w.at].ch[IF hit \/ addr < w.at THEN "left" ELSE "right"],
                           found |-> IF hit THEN w.at ELSE w.found]
           walk[i \in 0 .. Steps] ==
            IF i = 0 THEN [at |-> t.root, found |-> NilNode]
            ELSE LET w == walk[i - 1] IN
                 IF w.at = NilNode THEN w
                 ELSE LET hit == w.at <= addr /\ addr < t.n[w.at].end
                      IN  [at |-> t.n[w.at].ch[IF hit \/ addr < w.at THEN "left" ELSE "right"],
                           found |-> IF hit THEN w.at ELSE w.found]
           H == {j \in 0 .. n : \E h : h = [i \in 0 .. j |-> IF i = 0 THEN x ELSE step(i, h[i - 1])]}
<1>n. n \in Nat /\ n = AddrBound + 1 /\ AddrBound \in Nat
  BY VmaConstants
<1>1. f = walk[n]
  BY DEF vma_rb_find
<1>c. walk = CHOOSE h : h = [i \in 0 .. n |-> IF i = 0 THEN x ELSE step(i, h[i - 1])]
  BY DEF walk
<1>s. \A i, w : step(i, w) = IF w.at = NilNode THEN w
                             ELSE [at |-> Ch(t, w.at, side(w.at)),
                                   found |-> IF AreaHas(t, w.at, addr) THEN w.at ELSE w.found]
  BY DEF Ch, End, AreaHas
<1>d. \A a : side(a) \in Sides
  BY DEF Sides
<1>x. x.at = t.root /\ x.found = NilNode
  OBVIOUS
<1>2. /\ S \subseteq Int /\ NilNode \notin S /\ addr \in Int /\ t.root \in S \cup {NilNode}
      /\ S # {} => Shape(t, S, bd) /\ t.root \in S
      /\ \A a \in S, d \in Sides : Ch(t, a, d) \in S \cup {NilNode}
  <2>0. addr \in Int
    BY VmaConstants
  <2>1. CASE Shape(t, S, bd)
    <3>1. S \subseteq Keys /\ RootIs(t, S, bd) /\ Keys \subseteq Int /\ NilNode \notin Keys
      BY <2>1, VmaConstants DEF Shape
    <3>2. \A a \in S, d \in Sides : Ch(t, a, d) \in S \cup {NilNode}
      BY <2>1 DEF Shape, ChildOk
    <3> QED
      BY <2>0, <2>1, <3>1, <3>2 DEF RootIs
  <2>2. CASE S = {} /\ t.root = NilNode
    BY <2>0, <2>2
  <2> QED
    BY <2>1, <2>2 DEF Rooted
<1> HIDE DEF walk, x, n, step, side
<1>f1. 0 \in H
  <2>1. PICK r : r = [i \in 0 .. 0 |-> x]
    OBVIOUS
  <2>2. r = [i \in 0 .. 0 |-> IF i = 0 THEN x ELSE step(i, r[i - 1])]
    BY <2>1
  <2>3. 0 \in 0 .. n
    BY <1>n
  <2> QED
    BY <2>2, <2>3
<1>f2. ASSUME NEW j \in 1 .. n, j - 1 \in H PROVE j \in H
  <2>1. PICK o : o = j - 1 /\ o \in Nat /\ j = o + 1
    BY <1>n
  <2>2. PICK r : r = [i \in 0 .. o |-> IF i = 0 THEN x ELSE step(i, r[i - 1])]
    BY <1>f2, <2>1
  <2>3. PICK h : h = [i \in 0 .. j |-> IF i = j THEN step(j, r[o]) ELSE r[i]]
    OBVIOUS
  <2>4. ASSUME NEW i \in 0 .. j PROVE h[i] = IF i = 0 THEN x ELSE step(i, h[i - 1])
    <3>1. CASE i = j
      <4>0. i # 0 /\ i - 1 = o /\ o \in 0 .. j /\ o # j
        BY <2>1, <3>1
      <4>1. h[i] = step(j, r[o]) /\ h[o] = r[o] /\ i # 0 /\ i - 1 = o
        BY <2>3, <3>1, <4>0
      <4> QED
        BY <3>1, <4>1
    <3>2. CASE i # j
      <4>1. i \in 0 .. o /\ h[i] = r[i] /\ (i # 0 => i - 1 \in 0 .. j /\ i - 1 # j /\ h[i - 1] = r[i - 1])
        BY <2>1, <2>3, <3>2
      <4>2. r[i] = IF i = 0 THEN x ELSE step(i, r[i - 1])
        BY <2>2, <4>1
      <4> QED
        BY <4>1, <4>2
    <3> QED
      BY <3>1, <3>2
  <2>5. h = [i \in 0 .. j |-> h[i]]
    BY <2>3
  <2>6. h = [i \in 0 .. j |-> IF i = 0 THEN x ELSE step(i, h[i - 1])]
    BY <2>4, <2>5
  <2> QED
    BY <1>n, <2>6
<1>f3. \A j \in 0 .. n : j \in H
  <2> HIDE DEF H
  <2> QED
    BY <1>n, <1>f1, <1>f2, UpTo
<1>f4. \E r : r = [i \in 0 .. n |-> IF i = 0 THEN x ELSE step(i, r[i - 1])]
  BY <1>n, <1>f3
<1>f5. walk = [i \in 0 .. n |-> IF i = 0 THEN x ELSE step(i, walk[i - 1])]
  BY <1>c, <1>f4, Zenon
<1>w. walk[0] = x /\ \A i \in 1 .. n : walk[i] = step(i, walk[i - 1])
  BY <1>n, <1>f5
<1>u. ASSUME NEW i \in 1 .. n, NEW w, w = walk[i - 1], NEW v, v = walk[i]
      PROVE  /\ w.at = NilNode => v = w
             /\ w.at # NilNode => v.at = Ch(t, w.at, side(w.at)) /\ v.found = IF AreaHas(t, w.at, addr) THEN w.at ELSE w.found
  <2>1. v = step(i, w)
    BY <1>u, <1>w
  <2> QED
    BY <1>s, <2>1
<1> DEFINE G == {i \in 0 .. n : Searched(t, S, bd, addr, walk[i], i)}
<1>3. 0 \in G
  <2>1. ASSUME t.root # NilNode PROVE Size(bd, t.root) <= AddrBound + 2 - 0
    BY <1>n, <1>2, <2>1, SizeType
  <2>2. Searched(t, S, bd, addr, x, 0)
    BY <1>2, <1>x, <2>1 DEF Searched
  <2> QED
    BY <1>n, <1>w, <2>2
<1>4. ASSUME NEW i \in 1 .. n, i - 1 \in G PROVE i \in G
  <2>1. PICK j, w, v : j = i - 1 /\ j \in Nat /\ i = j + 1 /\ w = walk[j] /\ v = walk[i] /\ Searched(t, S, bd, addr, w, j)
    BY <1>n, <1>4
  <2>2. Searched(t, S, bd, addr, v, i)
    <3>1. CASE w.at = NilNode
      <4>1. v = w
        BY <1>u, <2>1, <3>1
      <4> QED
        BY <2>1, <3>1, <4>1 DEF Searched
    <3>2. CASE w.at # NilNode
      <4>1. PICK a, c : a = w.at /\ c = Ch(t, a, side(a)) /\ a \in S /\ Size(bd, a) <= AddrBound + 2 - j /\ c \in S \cup {NilNode}
        BY <1>2, <1>d, <2>1, <3>2 DEF Searched
      <4>2. v.at = c /\ v.found = IF AreaHas(t, a, addr) THEN a ELSE w.found
        BY <1>u, <2>1, <3>2, <4>1
      <4>3. ASSUME c # NilNode PROVE Size(bd, c) <= AddrBound + 2 - i
        <5>1. PICK d \in Sides : d = side(a)
          BY <1>d
        <5>2. Shape(t, S, bd) /\ c \in S
          BY <1>2, <4>1, <4>3
        <5>3. Size(bd, c) < Size(bd, a)
          BY <4>1, <4>3, <5>1, <5>2, ChildInside DEF Size
        <5>4. Size(bd, c) \in Int /\ Size(bd, a) \in Int
          BY <4>1, <5>2, SizeType
        <5> QED
          BY <1>n, <2>1, <4>1, <5>3, <5>4
      <4> QED
        BY <2>1, <4>1, <4>2, <4>3 DEF Searched
    <3> QED
      BY <3>1, <3>2
  <2>3. i \in 0 .. n
    BY <1>n
  <2> QED
    BY <2>1, <2>2, <2>3
<1>5. \A i \in 0 .. n : i \in G
  <2> HIDE DEF G
  <2> QED
    BY <1>n, <1>3, <1>4, UpTo
<1>6. Searched(t, S, bd, addr, f, n)
  BY <1>n, <1>1, <1>5
<1>7. f.at = NilNode
  <2>1. ASSUME f.at # NilNode PROVE FALSE
    <3>1. PICK a \in S : a = f.at /\ Size(bd, a) <= AddrBound + 2 - n
      BY <1>6, <2>1 DEF Searched
    <3> QED
      BY <1>n, <1>2, <3>1, SizeType
  <2> QED
    BY <2>1
<1>8. ASSUME NEW k \in S, AreaHas(t, k, addr) PROVE f.found # NilNode
  <2> DEFINE A == {walk[i].at : i \in 0 .. n}
  <2>0. Shape(t, S, bd) /\ k \in Int /\ t.root \in S
    BY <1>2
  <2>1. t.root \in A
    BY <1>n, <1>w, <1>x
  <2>2. ASSUME NEW a \in A \cap S, a # k, Ch(t, a, Toward(k, a)) # NilNode
        PROVE  Ch(t, a, Toward(k, a)) \in A
    <3>1. PICK i \in 0 .. n : a = walk[i].at
      BY <2>2
    <3>2. a # NilNode /\ a \in Int /\ a < End(t, a) /\ k < End(t, k)
      BY <1>2, <2>0, <2>2 DEF Shape
    <3>3. i # n
      BY <1>1, <1>7, <3>1, <3>2
    <3>4. i + 1 \in 1 .. n /\ (i + 1) - 1 = i /\ i + 1 \in 0 .. n
      BY <1>n, <3>3
    <3>5. walk[i + 1].at = Ch(t, a, side(a))
      BY <1>u, <3>1, <3>2, <3>4
    <3>6. side(a) = Toward(k, a)
      <4>1. ~AreaHas(t, a, addr)
        BY <1>2, <1>8, <2>2 DEF Apart
      <4>2. CASE addr < a
        BY <1>2, <1>8, <2>0, <3>2, <4>2 DEF side, Toward, AreaHas
      <4>3. CASE ~(addr < a)
        <5>1. End(t, k) \in Int
          <6>1. k \in Keys /\ t \in Trees /\ Keys \subseteq Int
            BY <2>0, VmaConstants DEF Shape
          <6> QED
            BY <6>1, TreeFields
        <5>2. ~(k < a)
          <6>1. ASSUME k < a PROVE FALSE
            <7>1. AreaHas(t, k, a) /\ AreaHas(t, a, a)
              BY <1>2, <1>8, <2>0, <3>2, <4>3, <5>1, <6>1 DEF AreaHas
            <7> QED
              BY <2>2, <3>2, <7>1 DEF Apart
          <6> QED
            BY <6>1
        <5> QED
          BY <4>1, <4>3, <5>2 DEF side, Toward
      <4> QED
        BY <4>2, <4>3
    <3> QED
      BY <3>4, <3>5, <3>6
  <2>3. k \in A
    <3>1. Within(bd, k, k)
      BY <2>0 DEF Shape
    <3> HIDE DEF A
    <3> QED
      BY <2>0, <2>1, <2>2, <3>1, WalkMeets
  <2>4. PICK i \in 0 .. n : walk[i].at = k
    BY <2>3
  <2>5. i # n /\ k # NilNode
    BY <1>1, <1>2, <1>7, <2>4
  <2> DEFINE B == {j \in 0 .. n : j > i => walk[j].found # NilNode}
  <2>6. 0 \in B
    BY <1>n
  <2>7. ASSUME NEW j \in 1 .. n, j - 1 \in B PROVE j \in B
    <3>1. PICK w, v : w = walk[j - 1] /\ v = walk[j]
      OBVIOUS
    <3>2. Searched(t, S, bd, addr, w, j - 1)
      BY <1>n, <1>5, <3>1
    <3>3. ASSUME j > i PROVE v.found # NilNode
      <4>1. CASE j - 1 = i
        <5>1. w.at = k
          BY <2>4, <3>1, <4>1
        <5> QED
          BY <1>8, <1>u, <2>5, <3>1, <5>1
      <4>2. CASE j - 1 > i
        <5>1. w.found # NilNode
          BY <2>7, <3>1, <4>2
        <5> QED
          BY <1>u, <3>1, <5>1
      <4> QED
        BY <3>3, <4>1, <4>2
    <3>4. j \in 0 .. n
      BY <1>n
    <3> QED
      BY <3>1, <3>3, <3>4
  <2>8. \A j \in 0 .. n : j \in B
    <3> HIDE DEF B
    <3> QED
      BY <1>n, <2>6, <2>7, UpTo
  <2> QED
    BY <1>n, <1>1, <2>5, <2>8
<1> QED
  BY <1>6, <1>7, <1>8 DEF Searched
-----------------------------------------------------------------------------
\* What the invariant says when nothing has been removed.
LEMMA VmaInvTree ==
  ASSUME VmaInv, unmaps = 0
  PROVE  \E S, bd : Rooted(vt, S, bd) /\ IsFiniteSet(S) /\ Cardinality(S) = num_vmas /\ (S = {} \/ TreeOk(vt, S))
<1>1. CASE part = "vma"
  <2>1. PICK S : TreeOk(vt, S) /\ IsFiniteSet(S) /\ Cardinality(S) = num_vmas
    BY <1>1 DEF VmaInv, AreaTree
  <2>2. PICK bd : Shape(vt, S, bd)
    BY <2>1 DEF TreeOk
  <2> QED
    BY <2>1, <2>2 DEF Rooted
<1>2. CASE part # "vma"
  <2>1. vt.root = NilNode /\ num_vmas = 0
    BY <1>2 DEF VmaInv
  <2>2. Rooted(vt, {}, 0)
    BY <2>1 DEF Rooted
  <2> QED
    BY <2>1, <2>2, FS_EmptySet
<1> QED
  BY <1>1, <1>2

\* What a red-black tree is, as TreeBalanced says it.
LEMMA TreeOkBalanced ==
  ASSUME NEW S, TreeOk(vt, S), VmaNodes = S
  PROVE  /\ \A k \in VmaNodes :
              /\ \A d \in Sides : vt.n[k].ch[d] # NilNode => vt.n[vt.n[k].ch[d]].parent = k
              /\ \A m \in Below(k, "left") : m < k
              /\ \A m \in Below(k, "right") : m > k
              /\ ~(vt.n[k].red /\ RedParent(vt, k))
         /\ \A k, m \in {j \in VmaNodes : \E d \in Sides : vt.n[j].ch[d] = NilNode} : BlackDepth(k) = BlackDepth(m)
<1>1. PICK bd, bh : Shape(vt, S, bd) /\ Blacks(vt, S, bh)
  BY DEF TreeOk
<1>2. ASSUME NEW k \in S, NEW d \in Sides, vt.n[k].ch[d] # NilNode PROVE vt.n[vt.n[k].ch[d]].parent = k
  <2>1. PICK c : c = Ch(vt, k, d)
    OBVIOUS
  <2>2. c # NilNode
    BY <1>2, <2>1 DEF Ch
  <2>3. Par(vt, c) = k
    BY <1>1, <2>1, <2>2, ChildInside
  <2> QED
    BY <2>1, <2>3 DEF Ch, Par
<1>3. ASSUME NEW k \in S, NEW d \in Sides, NEW m \in Below(k, d) PROVE m # k /\ (d = "left" <=> m < k) /\ m \in Int /\ k \in Int
  <2>1. m # k /\ (d = "left" <=> m < k)
    BY <1>1, <1>3, BelowSide
  <2>2. m \in S
    BY <1>3 DEF Below
  <2>3. S \subseteq Int
    BY <1>1, VmaConstants DEF Shape
  <2> QED
    BY <2>1, <2>2, <2>3
<1>4. ASSUME NEW k \in S PROVE /\ \A m \in Below(k, "left") : m < k
                               /\ \A m \in Below(k, "right") : m > k
  <2>1. "left" \in Sides /\ "right" \in Sides
    BY DEF Sides
  <2>2. ASSUME NEW m \in Below(k, "left") PROVE m < k
    BY <1>3, <2>1
  <2>3. ASSUME NEW m \in Below(k, "right") PROVE m > k
    <3>1. m # k /\ ~(m < k) /\ m \in Int /\ k \in Int
      BY <1>3, <2>1
    <3> QED
      BY <3>1
  <2> QED
    BY <2>2, <2>3
<1>5. ASSUME NEW k \in S PROVE ~(vt.n[k].red /\ RedParent(vt, k))
  BY DEF TreeOk, Coloured, RedParent, Red, Par
<1>6. ASSUME NEW k \in S, NEW d \in Sides, vt.n[k].ch[d] = NilNode PROVE BlackDepth(k) = bh[vt.root]
  <2>1. Ch(vt, k, d) = NilNode
    BY <1>6 DEF Ch
  <2> QED
    BY <1>1, <2>1, BlackDepthIs
<1>7. \A k, m \in {j \in VmaNodes : \E d \in Sides : vt.n[j].ch[d] = NilNode} : BlackDepth(k) = BlackDepth(m)
  BY <1>6
<1> QED
  BY <1>2, <1>4, <1>5, <1>7

\* The invariant implies TreeBalanced.
LEMMA VmaInvBalanced == VmaInv => TreeBalanced
<1> SUFFICES ASSUME VmaInv, unmaps = 0
             PROVE  /\ Cardinality(VmaNodes) = num_vmas
                    /\ \A k \in VmaNodes :
                          /\ \A d \in Sides : vt.n[k].ch[d] # NilNode => vt.n[vt.n[k].ch[d]].parent = k
                          /\ \A m \in Below(k, "left") : m < k
                          /\ \A m \in Below(k, "right") : m > k
                          /\ ~(vt.n[k].red /\ RedParent(vt, k))
                    /\ \A k, m \in {j \in VmaNodes : \E d \in Sides : vt.n[j].ch[d] = NilNode} : BlackDepth(k) = BlackDepth(m)
  BY DEF TreeBalanced
<1>1. PICK S, bd : Rooted(vt, S, bd) /\ Cardinality(S) = num_vmas /\ (S = {} \/ TreeOk(vt, S))
  BY VmaInvTree
<1>2. VmaNodes = S
  BY <1>1, NodesAre
<1>3. CASE S = {}
  BY <1>1, <1>2, <1>3
<1>4. CASE TreeOk(vt, S)
  BY <1>1, <1>2, <1>4, TreeOkBalanced
<1> QED
  BY <1>1, <1>3, <1>4

\* The invariant implies FindsTheArea.
LEMMA VmaInvFinds == VmaInv => FindsTheArea
<1> DEFINE area(k) == k .. (vt.n[k].end - 1)
<1>0. SUFFICES ASSUME VmaInv, unmaps = 0, \A k, m \in VmaNodes : k # m => area(k) \cap area(m) = {},
                      NEW addr \in Keys, NEW f, f = vma_rb_find(vt, vt.root, addr)
               PROVE  f.at = NilNode /\ {f.found} \ {NilNode} = {k \in VmaNodes : addr \in area(k)}
  BY DEF FindsTheArea
<1>1. PICK S, bd : Rooted(vt, S, bd)
  BY <1>0, VmaInvTree
<1>2. VmaNodes = S
  BY <1>1, NodesAre
<1>3. ASSUME NEW k \in S PROVE k \in Int /\ End(vt, k) \in Int /\ k # NilNode
  <2>1. Shape(vt, S, bd)
    BY <1>1 DEF Rooted
  <2>2. k \in Keys /\ vt \in Trees /\ Keys \subseteq Int /\ NilNode \notin Keys
    BY <2>1, VmaConstants DEF Shape
  <2> QED
    BY <2>2, TreeFields
<1>4. ASSUME NEW k \in S, NEW a \in Int PROVE AreaHas(vt, k, a) <=> a \in area(k)
  <2>1. k \in Int /\ End(vt, k) \in Int
    BY <1>3
  <2> QED
    BY <2>1 DEF AreaHas, End
<1> HIDE DEF area
<1>5. Apart(vt, S)
  BY <1>0, <1>2, <1>4 DEF Apart
<1>6. addr \in Int
  BY VmaConstants
<1>7. /\ f.at = NilNode /\ f.found \in S \cup {NilNode}
      /\ f.found # NilNode => AreaHas(vt, f.found, addr)
      /\ \A k \in S : AreaHas(vt, k, addr) => f.found # NilNode
  BY <1>0, <1>1, <1>5, FindIs
<1>8. ASSUME NEW k \in S PROVE addr \in area(k) <=> (f.found = k /\ k # NilNode)
  BY <1>3, <1>4, <1>5, <1>6, <1>7 DEF Apart
<1> QED
  BY <1>2, <1>7, <1>8

\* For every address space, every list of areas at boot and every sequence of calls that has removed
\* nothing: the areas are a red-black tree of as many nodes as num_vmas counts.
THEOREM VmaAlwaysBalanced == MachineSpec => []TreeBalanced
<1> QED
  BY VmaInvStart, VmaInvStep, VmaInvBalanced, PTL DEF MachineSpec

\* In the same states, as long as areas do not overlap, vma_find finds for every address the area
\* that contains it, and none when none does.
THEOREM VmaAlwaysFinds == MachineSpec => []FindsTheArea
<1> QED
  BY VmaInvStart, VmaInvStep, VmaInvFinds, PTL DEF MachineSpec
=============================================================================
