-------------------------------- MODULE Vma --------------------------------
(***************************************************************************)
(* kernel/mm/vma.c: the areas of the address space in a red-black tree by  *)
(* start address, with vma_mmap and vma_munmap.  Addresses are counted in  *)
(* pages.  A node is named by its start: a second one with the same start  *)
(* is refused, and kfree keeps no memory for reuse.  Flags and names are   *)
(* left out.  A walk that never ends, or that follows NULL, is `stuck'.    *)
(* The mirror images of the code, left and right, are one definition with  *)
(* a side as its parameter.                                                *)
(***************************************************************************)
EXTENDS Integers, Sequences, FiniteSets

CONSTANTS USER_VIRT_START, USER_VIRT_END,
          AddrBound,        \* the end of the address space: 2^64 in the code
          BootAreas,        \* the areas of vma_init, in its order: <<start, end>>
          Hints,            \* bound: the addresses of calls; 0 is no hint
          AreaLengths,      \* bound: the lengths of calls
          MaxVmas,          \* bound on the areas
          MaxUnmaps,        \* bound on the calls of vma_munmap that remove something
          NilNode

VARIABLES vt,         \* root, and the nodes by start
          num_vmas,
          mapped,     \* the pages mapped for areas
          stuck,
          unmaps,     \* history: how often vma_munmap has removed something
          kept        \* history: areas that no vma_munmap was asked to remove

VmaVars == <<vt, num_vmas, mapped, stuck, unmaps, kept>>

Sides == {"left", "right"}
Other(d) == IF d = "left" THEN "right" ELSE "left"
Keys == 0 .. AddrBound
Steps == AddrBound + 1      \* the number of keys: a longer walk goes in a circle

ASSUME VmaAssumption ==
    /\ AddrBound \in Nat /\ {USER_VIRT_START, USER_VIRT_END} \subseteq Keys
    /\ BootAreas \in Seq(Keys \X Keys)
    /\ \A i \in DOMAIN BootAreas : BootAreas[i][1] < BootAreas[i][2]
    /\ \A i, j \in DOMAIN BootAreas : i # j => BootAreas[i][1] # BootAreas[j][1]
    /\ Hints \subseteq 0 .. USER_VIRT_END /\ AreaLengths \subseteq 1 .. USER_VIRT_END
    /\ NilNode \notin Keys /\ MaxVmas \in Nat /\ MaxUnmaps \in Nat

NewNode(end) == [end |-> end, ch |-> [d \in Sides |-> NilNode], parent |-> NilNode, red |-> TRUE]
EmptyTree == [root |-> NilNode, n |-> [k \in Keys |-> NewNode(k)]]

SetChild(t, x, d, y) == [t EXCEPT !.n[x].ch[d] = y]
SetParent(t, x, p) == IF x = NilNode THEN t ELSE [t EXCEPT !.n[x].parent = p]
Paint(t, x, red) == [t EXCEPT !.n[x].red = red]

\* The pointer to x, in the root or in its parent p, becomes y.
Replace(t, p, x, y) ==
    IF p = NilNode THEN [t EXCEPT !.root = y]
    ELSE SetChild(t, p, IF t.n[p].ch["left"] = x THEN "left" ELSE "right", y)

\* Mutant: the subtree that changes sides keeps its parent.
vma_rb_rotate_orphan(t, x, d) ==
    LET y  == t.n[x].ch[Other(d)]
        p  == t.n[x].parent
        t1 == SetChild(t, x, Other(d), t.n[y].ch[d])
        t2 == Replace(SetParent(t1, y, p), p, x, y)
    IN  SetParent(SetChild(t2, y, d, x), x, y)

\* vma_rb_rotate_left and vma_rb_rotate_right: x goes down on side d.
vma_rb_rotate(t, x, d) ==
    LET y  == t.n[x].ch[Other(d)]
        b  == t.n[y].ch[d]
        p  == t.n[x].parent
        t1 == SetParent(SetChild(t, x, Other(d), b), b, x)
        t2 == Replace(SetParent(t1, y, p), p, x, y)
    IN  SetParent(SetChild(t2, y, d, x), x, y)

RedParent(t, z) == t.n[z].parent # NilNode /\ t.n[t.n[z].parent].red

\* One turn of the loop of vma_rb_insert_fixup, from node f.z of tree f.t.
FixTurn(f) ==
    LET t == f.t
        p == t.n[f.z].parent
        g == t.n[p].parent
        d == IF t.n[g].ch["left"] = p THEN "left" ELSE "right"
        uncle == t.n[g].ch[Other(d)]
        inner == t.n[p].ch[Other(d)] = f.z
        t1  == IF inner THEN vma_rb_rotate(t, p, d) ELSE t
        top == IF inner THEN f.z ELSE p
        z1  == IF inner THEN p ELSE f.z
    IN  IF uncle # NilNode /\ t.n[uncle].red
        THEN [t |-> Paint(Paint(Paint(t, uncle, FALSE), p, FALSE), g, TRUE), z |-> g]
        ELSE [t |-> vma_rb_rotate(Paint(Paint(t1, top, FALSE), g, TRUE), g, Other(d)), z |-> z1]

vma_rb_insert_fixup(t, node) ==
    LET turn[i \in 0 .. Steps] ==
            IF i = 0 THEN [t |-> t, z |-> node]
            ELSE LET f == turn[i - 1] IN IF RedParent(f.t, f.z) THEN FixTurn(f) ELSE f
        done == turn[Steps].t
    IN  Paint(done, done.root, FALSE)

\* The walk down to the parent of a new start address; `dup' when it is there already.
Descend(t, start) ==
    LET walk[i \in 0 .. Steps] ==
            IF i = 0 THEN [y |-> NilNode, x |-> t.root]
            ELSE LET w == walk[i - 1] IN
                 IF w.x \in {NilNode, start} THEN w
                 ELSE [y |-> w.x, x |-> t.n[w.x].ch[IF start < w.x THEN "left" ELSE "right"]]
    IN  walk[Steps]

vma_rb_insert(t, start, end) ==
    LET y  == Descend(t, start).y
        t1 == [t EXCEPT !.n[start] = [NewNode(end) EXCEPT !.parent = y]]
        t2 == IF y = NilNode THEN [t1 EXCEPT !.root = start]
              ELSE SetChild(t1, y, IF start < y THEN "left" ELSE "right", start)
    IN  vma_rb_insert_fixup(t2, start)

\* Mutant: the page behind an area belongs to it.
vma_rb_find_end(t, from, addr) ==
    LET walk[i \in 0 .. Steps] ==
            IF i = 0 THEN [at |-> from, found |-> NilNode]
            ELSE LET w == walk[i - 1]
                     hit == w.at <= addr /\ addr <= t.n[w.at].end IN
                 IF w.at = NilNode THEN w
                 ELSE [at |-> t.n[w.at].ch[IF hit \/ addr < w.at THEN "left" ELSE "right"],
                       found |-> IF hit THEN w.at ELSE w.found]
    IN  walk[Steps]

\* The last area met that contains the address; the walk goes on to the left of it.
vma_rb_find(t, from, addr) ==
    LET walk[i \in 0 .. Steps] ==
            IF i = 0 THEN [at |-> from, found |-> NilNode]
            ELSE LET w == walk[i - 1] IN
                 IF w.at = NilNode THEN w
                 ELSE LET hit == w.at <= addr /\ addr < t.n[w.at].end
                      IN  [at |-> t.n[w.at].ch[IF hit \/ addr < w.at THEN "left" ELSE "right"],
                           found |-> IF hit THEN w.at ELSE w.found]
    IN  walk[Steps]

\* Down the left children; a walk in a circle stops at a node that has one.
vma_rb_min(t, node) ==
    LET walk[i \in 0 .. Steps] ==
            IF i = 0 THEN node
            ELSE LET w == walk[i - 1] IN IF t.n[w].ch["left"] = NilNode THEN w ELSE t.n[w].ch["left"]
    IN  walk[Steps]

\* A node with at most one child: the child takes its place and becomes black.
EraseLeaf(t, old) ==
    LET e == t.n[old]
        child == IF e.ch["left"] # NilNode THEN e.ch["left"] ELSE e.ch["right"]
        t1 == Replace(SetParent(t, child, e.parent), e.parent, old, child)
    IN  IF child = NilNode THEN t1 ELSE Paint(t1, child, FALSE)

\* A node with two: the leftmost of its right subtree takes its place.  When that is
\* its right child, the copied right pointer is a pointer to itself.
EraseInner(t, old) ==
    LET e == t.n[old]
        node  == vma_rb_min(t, e.ch["right"])
        child == t.n[node].ch["right"]
        parent == IF t.n[node].parent = old THEN node ELSE t.n[node].parent
        t1 == SetParent(Replace(t, e.parent, old, node), child, parent)
        t2 == [t1 EXCEPT !.n[parent].ch = [d \in Sides |-> IF @[d] = node THEN child ELSE @[d]]]
        t3 == [t2 EXCEPT !.n[node] = [@ EXCEPT !.parent = e.parent, !.ch = t2.n[old].ch, !.red = e.red]]
    IN  SetParent(SetParent(t3, t3.n[old].ch["left"], node), t3.n[old].ch["right"], node)

vma_rb_erase(t, node) ==
    IF \E d \in Sides : t.n[node].ch[d] = NilNode THEN EraseLeaf(t, node) ELSE EraseInner(t, node)
-----------------------------------------------------------------------------
VmaStart ==
    LET ins[i \in 0 .. Len(BootAreas)] ==
            IF i = 0 THEN EmptyTree ELSE vma_rb_insert(ins[i - 1], BootAreas[i][1], BootAreas[i][2])
    IN  ins[Len(BootAreas)]

vma_init ==
    /\ vt = VmaStart
    /\ num_vmas = Len(BootAreas)
    /\ mapped = {} /\ stuck = FALSE /\ unmaps = 0
    /\ kept = {BootAreas[i][1] : i \in DOMAIN BootAreas}

\* Before vma_init.
VmaUnset ==
    /\ vt = [root |-> NilNode, n |-> <<>>]
    /\ num_vmas = 0 /\ mapped = {} /\ stuck = FALSE /\ unmaps = 0 /\ kept = {}

\* The search for a free region: from USER_VIRT_START along the right children.
\* The difference of the addresses is unsigned.
FreeRegion(t, len) ==
    LET walk[i \in 0 .. Steps] ==
            IF i = 0 THEN [at |-> t.root, start |-> USER_VIRT_START]
            ELSE LET w == walk[i - 1] IN
                 IF w.at = NilNode \/ w.at < w.start \/ w.at - w.start >= len THEN w
                 ELSE [at |-> t.n[w.at].ch["right"], start |-> t.n[w.at].end]
    IN  walk[Steps].start

\* Pages come from physical_alloc_page, which has enough of them here.
vma_mmap(addr, len, fixed) ==
    LET start == IF addr = 0 \/ fixed THEN FreeRegion(vt, len) ELSE addr
        place == Descend(vt, start) IN
    /\ ~stuck /\ num_vmas < MaxVmas
    /\ start < USER_VIRT_END - len
    /\ IF place.x \notin {NilNode, start} THEN stuck' = TRUE /\ UNCHANGED <<vt, num_vmas, mapped, kept>>
       ELSE /\ place.x = NilNode
            /\ vt' = vma_rb_insert(vt, start, start + len)
            /\ num_vmas' = num_vmas + 1
            /\ mapped' = mapped \cup start .. (start + len - 1)
            /\ kept' = kept \cup {start}
            /\ UNCHANGED stuck
    /\ UNCHANGED unmaps

\* The in-order successor of a node, and the node that the search for it stops at:
\* without a right child the search climbs with the same variable.
Successor(t, node) ==
    LET climb[i \in 0 .. Steps] ==
            IF i = 0 THEN [node |-> node, next |-> t.n[node].parent]
            ELSE LET w == climb[i - 1] IN
                 IF w.next = NilNode \/ t.n[w.next].ch["right"] # w.node THEN w
                 ELSE [node |-> w.next, next |-> t.n[w.next].parent]
    IN  IF t.n[node].ch["right"] # NilNode THEN [node |-> node, next |-> vma_rb_min(t, t.n[node].ch["right"])]
        ELSE climb[Steps]

\* One turn of the loop of vma_munmap over [start, end).
UnmapTurn(u, start, end) ==
    LET e == u.t.n[u.node]
        pages == (IF u.node < start THEN start ELSE u.node) .. ((IF e.end > end THEN end ELSE e.end) - 1)
        s == Successor(u.t, u.node)
        t1 == vma_rb_erase(u.t, s.node)
        f == vma_rb_find(t1, s.next, start)
    IN  [t |-> t1, mapped |-> u.mapped \ pages, count |-> u.count + 1,
         node |-> IF s.next = NilNode THEN NilNode ELSE f.found,
         stuck |-> s.next # NilNode /\ f.at # NilNode]

vma_munmap(addr, len) ==
    LET end == addr + len
        first == vma_rb_find(vt, vt.root, addr)
        turn[i \in 0 .. Steps] ==
            IF i = 0 THEN [t |-> vt, mapped |-> mapped, count |-> 0, node |-> first.found, stuck |-> first.at # NilNode]
            ELSE LET u == turn[i - 1] IN
                 IF u.stuck \/ u.node = NilNode \/ u.node >= end THEN u ELSE UnmapTurn(u, addr, end)
        done == turn[Steps] IN
    /\ ~stuck
    /\ vt' = done.t /\ mapped' = done.mapped /\ stuck' = done.stuck
    /\ num_vmas' = num_vmas - done.count
    /\ unmaps' = unmaps + (IF done.count > 0 THEN 1 ELSE 0) /\ unmaps' <= MaxUnmaps
    /\ kept' = {k \in kept : vt.n[k].end <= addr \/ k >= end}

VmaNext ==
    \E len \in AreaLengths, addr \in Hints :
        \/ \E fixed \in BOOLEAN : vma_mmap(addr, len, fixed)
        \/ vma_munmap(addr, len)

VmaSpec == vma_init /\ [][VmaNext]_VmaVars
-----------------------------------------------------------------------------
\* The nodes below the root, as far as a walk can go.
VmaNodes ==
    LET reach[i \in 0 .. Steps] ==
            IF i = 0 THEN {vt.root} \ {NilNode}
            ELSE LET r == reach[i - 1] IN r \cup ({vt.n[k].ch[d] : k \in r, d \in Sides} \ {NilNode})
    IN  reach[Steps]

\* The nodes of the subtree on side d of node k, by the parents of the nodes.
Below(k, d) ==
    {m \in VmaNodes :
        LET up[i \in 0 .. Steps] ==
                IF i = 0 THEN m
                ELSE LET u == up[i - 1] IN IF u \in {NilNode, vt.n[k].ch[d]} THEN u ELSE vt.n[u].parent
        IN  up[Steps] # NilNode}

\* The number of black nodes from k to the root.
BlackDepth(k) ==
    LET up[i \in 0 .. Steps] ==
            IF i = 0 THEN [at |-> k, n |-> 0]
            ELSE LET u == up[i - 1] IN
                 IF u.at = NilNode THEN u
                 ELSE [at |-> vt.n[u.at].parent, n |-> u.n + (IF vt.n[u.at].red THEN 0 ELSE 1)]
    IN  up[Steps].n

\* Areas inserted in any order, before anything is removed: every parent knows its
\* children and they know it, left is below and right is above, no red node has a
\* red child, and the black nodes on every way down are equally many, so that a
\* lookup is logarithmic.
TreeBalanced ==
    unmaps = 0 =>
        /\ Cardinality(VmaNodes) = num_vmas
        /\ \A k \in VmaNodes :
              /\ \A d \in Sides : vt.n[k].ch[d] # NilNode => vt.n[vt.n[k].ch[d]].parent = k
              /\ \A m \in Below(k, "left") : m < k
              /\ \A m \in Below(k, "right") : m > k
              /\ ~(vt.n[k].red /\ RedParent(vt, k))
        /\ \A k, m \in {j \in VmaNodes : \E d \in Sides : vt.n[j].ch[d] = NilNode} : BlackDepth(k) = BlackDepth(m)

\* As long as areas do not overlap, vma_find finds for every address the area that
\* contains it, and none when none does.
FindsTheArea ==
    LET area(k) == k .. (vt.n[k].end - 1)
    IN  (unmaps = 0 /\ \A k, m \in VmaNodes : k # m => area(k) \cap area(m) = {}) =>
            \A addr \in Keys :
                LET f == vma_rb_find(vt, vt.root, addr)
                IN  /\ f.at = NilNode
                    /\ {f.found} \ {NilNode} = {k \in VmaNodes : addr \in area(k)}

\* vma_munmap removes the areas in the range: an area outside it stays in the tree.
UnmapSparesOthers == ~stuck => kept \subseteq VmaNodes
=============================================================================
