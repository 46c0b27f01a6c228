----------------------------- MODULE Containers -----------------------------
(***************************************************************************)
(* kernel/lib/datastructures.c: the vector, the doubly linked list, the    *)
(* ring buffer and the two hash tables, each beside the sequence or the    *)
(* function it stands for.  kmalloc does not fail here and kfree keeps     *)
(* nothing; the red-black tree that the header declares has no code.       *)
(* An index comes from the hash function, which is the constant HashOf.    *)
(***************************************************************************)
EXTENDS Integers, Sequences, SequencesExt, FiniteSets, LinkedList

CONSTANTS Items,              \* what the containers hold
          VECTOR_INITIAL_CAPACITY, RingCapacity, HashCapacity,
          MaxItems,           \* bound on the items in the vector and the list
          HashKeys, HashOf,       \* the keys of the tables, and the index of each
          NoItem, NoNode

ASSUME ContainersAssumption ==
    /\ {VECTOR_INITIAL_CAPACITY, RingCapacity, HashCapacity, MaxItems} \subseteq Nat \ {0}
    /\ HashOf \in [HashKeys -> 0 .. (HashCapacity - 1)]
    /\ NoItem \notin Items \cup HashKeys \cup Nat /\ NoNode \notin Nat

VARIABLES vector, list, rbuf, table, strtable,
          seqref,   \* history: the sequences that vector, list and ring stand for
          mapref    \* history: the functions that the tables stand for, the keys that a
                    \* put entered a second time, and the places that str_hash_remove freed

VectorVars == <<vector, list, rbuf>>
TableVars == <<table, strtable>>
ContainerVars == <<VectorVars, TableVars, seqref, mapref>>

Nodes == 1 .. MaxItems
EmptyEntry == [key |-> NoItem, value |-> NoItem, occupied |-> FALSE, deleted |-> FALSE]
EmptyList == [node |-> [n \in Nodes |-> [next |-> NoNode, prev |-> NoNode, data |-> NoItem]],
              head |-> NoNode, tail |-> NoNode, size |-> 0, used |-> {}]

\* vector_init, list_init, ring_init, hash_init and str_hash_init.
containers_init ==
    /\ vector = [data |-> [i \in 0 .. (VECTOR_INITIAL_CAPACITY - 1) |-> NoItem], size |-> 0]
    /\ list = EmptyList
    /\ rbuf = [buffer |-> [i \in 0 .. (RingCapacity - 1) |-> NoItem], head |-> 0, tail |-> 0, size |-> 0, full |-> FALSE]
    /\ table = [entries |-> [i \in 0 .. (HashCapacity - 1) |-> EmptyEntry], size |-> 0,
                max_load |-> (HashCapacity * 75) \div 100]
    /\ strtable = [keys |-> [i \in 0 .. (HashCapacity - 1) |-> NoItem],
                   values |-> [i \in 0 .. (HashCapacity - 1) |-> NoItem], size |-> 0]
    /\ seqref = [vector |-> <<>>, list |-> <<>>, ring |-> <<>>]
    /\ mapref = [table |-> [k \in HashKeys |-> NoItem], strings |-> [k \in HashKeys |-> NoItem],
                 twice |-> {}, strtwice |-> {}, freed |-> {}]
-----------------------------------------------------------------------------
\* The vector.  Its capacity is the length of data.
Capacity(v) == Cardinality(DOMAIN v.data)

vector_resize(v) ==
    [v EXCEPT !.data = [i \in 0 .. (2 * Capacity(v) - 1) |-> IF i < v.size THEN v.data[i] ELSE NoItem]]

Room(v) == IF v.size >= Capacity(v) THEN vector_resize(v) ELSE v

\* Also vector_push_back, at the end.
vector_insert(v, index, x) ==
    LET w == Room(v)
    IN  [data |-> [i \in DOMAIN w.data |-> IF i = index THEN x
                                           ELSE IF i > index /\ i <= w.size THEN w.data[i - 1] ELSE w.data[i]],
         size |-> w.size + 1]

\* Also vector_pop_back, at the end.
vector_remove(v, index) ==
    [data |-> [i \in DOMAIN v.data |-> IF i >= index /\ i < v.size - 1 THEN v.data[i + 1] ELSE v.data[i]],
     size |-> v.size - 1]

OnVector(v, ref) == /\ vector' = v /\ seqref' = [seqref EXCEPT !.vector = ref]
                    /\ UNCHANGED <<list, rbuf, TableVars, mapref>>

VectorNext ==
    \E index \in 0 .. MaxItems, x \in Items :
        \/ /\ index <= vector.size /\ vector.size < MaxItems
           /\ OnVector(vector_insert(vector, index, x), InsertAt(seqref.vector, index + 1, x))
        \/ /\ index < vector.size
           /\ \/ OnVector(vector_remove(vector, index), RemoveAt(seqref.vector, index + 1))
              \/ OnVector([vector EXCEPT !.data[index] = x], ReplaceAt(seqref.vector, index + 1, x))   \* vector_set
-----------------------------------------------------------------------------
\* The list.
FreshNode(l) == CHOOSE n \in Nodes \ l.used : \A m \in Nodes \ l.used : n <= m

list_push_front(l, x) ==
    LET n == FreshNode(l)
        node == [l.node EXCEPT ![n] = [next |-> l.head, prev |-> NoNode, data |-> x]]
    IN  [node |-> IF l.head # NoNode THEN [node EXCEPT ![l.head].prev = n] ELSE node,
         head |-> n, tail |-> IF l.tail # NoNode THEN l.tail ELSE n, size |-> l.size + 1, used |-> l.used \cup {n}]

list_push_back(l, x) ==
    LET n == FreshNode(l)
        node == [l.node EXCEPT ![n] = [next |-> NoNode, prev |-> l.tail, data |-> x]]
    IN  [node |-> IF l.tail # NoNode THEN [node EXCEPT ![l.tail].next = n] ELSE node,
         head |-> IF l.head # NoNode THEN l.head ELSE n, tail |-> n, size |-> l.size + 1, used |-> l.used \cup {n}]

list_pop_front(l) ==
    LET next == l.node[l.head].next
    IN  [node |-> IF next # NoNode THEN [l.node EXCEPT ![next].prev = NoNode] ELSE l.node,
         head |-> next, tail |-> IF next # NoNode THEN l.tail ELSE NoNode, size |-> l.size - 1, used |-> l.used \ {l.head}]

list_pop_back(l) ==
    LET prev == l.node[l.tail].prev
    IN  [node |-> IF prev # NoNode THEN [l.node EXCEPT ![prev].next = NoNode] ELSE l.node,
         head |-> IF prev # NoNode THEN l.head ELSE NoNode, tail |-> prev, size |-> l.size - 1, used |-> l.used \ {l.tail}]

\* The node that is `index' steps from the head.
list_at(l, index) ==
    LET at[i \in 0 .. index] == IF i = 0 THEN l.head ELSE l.node[at[i - 1]].next
    IN  at[index]

\* Mutant: the node behind the new one keeps its prev.
list_insert_oneway(l, index, x) ==
    LET n == FreshNode(l)
        cur == list_at(l, index - 1)
        next == l.node[cur].next
    IN  IF index = 0 THEN list_push_front(l, x)
        ELSE IF index >= l.size THEN list_push_back(l, x)
        ELSE [l EXCEPT !.node = [@ EXCEPT ![n] = [next |-> next, prev |-> cur, data |-> x], ![cur].next = n],
                       !.size = @ + 1, !.used = @ \cup {n}]

list_insert(l, index, x) ==
    LET n == FreshNode(l)
        cur == list_at(l, index - 1)
        next == l.node[cur].next
    IN  IF index = 0 THEN list_push_front(l, x)
        ELSE IF index >= l.size THEN list_push_back(l, x)
        ELSE [l EXCEPT !.node = [@ EXCEPT ![n] = [next |-> next, prev |-> cur, data |-> x],
                                          ![next].prev = n, ![cur].next = n],
                       !.size = @ + 1, !.used = @ \cup {n}]

list_remove(l, index) ==
    LET cur == list_at(l, index)
        c == l.node[cur]
    IN  IF index = 0 THEN list_pop_front(l)
        ELSE IF index = l.size - 1 THEN list_pop_back(l)
        ELSE [l EXCEPT !.node = [@ EXCEPT ![c.prev].next = c.next, ![c.next].prev = c.prev],
                       !.size = @ - 1, !.used = @ \ {cur}]

OnList(l, ref) == /\ list' = l /\ seqref' = [seqref EXCEPT !.list = ref]
                  /\ UNCHANGED <<vector, rbuf, TableVars, mapref>>

ListNext ==
    \/ \E index \in 0 .. MaxItems, x \in Items :
          /\ list.size < MaxItems /\ index <= list.size
          /\ OnList(list_insert(list, index, x), InsertAt(seqref.list, index + 1, x))
    \/ \E index \in 0 .. MaxItems :
          /\ index < list.size
          /\ OnList(list_remove(list, index), RemoveAt(seqref.list, index + 1))
    \/ OnList(EmptyList, <<>>)   \* list_destroy
-----------------------------------------------------------------------------
\* The ring buffer.
ring_enqueue(r, x) ==
    LET tail == (r.tail + 1) % RingCapacity
    IN  IF r.full THEN r
        ELSE [r EXCEPT !.buffer[r.tail] = x, !.tail = tail, !.size = @ + 1, !.full = (tail = r.head)]

ring_dequeue(r) ==
    IF r.size = 0 /\ ~r.full THEN r
    ELSE [r EXCEPT !.head = (@ + 1) % RingCapacity, !.size = @ - 1, !.full = FALSE]

ring_clear(r) == [r EXCEPT !.head = 0, !.tail = 0, !.size = 0, !.full = FALSE]

OnRing(r, ref) == /\ rbuf' = r /\ seqref' = [seqref EXCEPT !.ring = ref]
                  /\ UNCHANGED <<vector, list, TableVars, mapref>>

RingBufNext ==
    LET ref == seqref.ring IN
    \/ \E x \in Items : OnRing(ring_enqueue(rbuf, x), IF Len(ref) < RingCapacity THEN Append(ref, x) ELSE ref)
    \/ OnRing(ring_dequeue(rbuf), IF ref # <<>> THEN Tail(ref) ELSE ref)
    \/ OnRing(ring_clear(rbuf), <<>>)
-----------------------------------------------------------------------------
\* The hash tables: linear probing from HashOf[k].
Probe(k, i) == (HashOf[k] + i) % HashCapacity

\* The first place on the way of k, in the order of the probes, that is one of stops.
FirstProbe(k, stops) ==
    LET hits == {i \in 0 .. (HashCapacity - 1) : Probe(k, i) \in stops}
    IN  IF hits = {} THEN NoItem ELSE Probe(k, CHOOSE i \in hits : \A j \in hits : i <= j)

LiveEntry(e, k) == e.occupied /\ ~e.deleted /\ e.key = k

\* hash_get and hash_remove pass deleted entries and stop at one that was never used.
HashFind(t, k) ==
    LET p == FirstProbe(k, {i \in DOMAIN t.entries : ~t.entries[i].occupied \/ LiveEntry(t.entries[i], k)})
    IN  IF p # NoItem /\ t.entries[p].occupied THEN p ELSE NoItem

\* hash_put takes the first place that is free or deleted, also before an entry of k,
\* which stays in the table behind it.
PutPlace(t, k) ==
    FirstProbe(k, {i \in DOMAIN t.entries :
                      ~t.entries[i].occupied \/ t.entries[i].deleted \/ t.entries[i].key = k})

EntersTwice(t, k) == \E i \in DOMAIN t.entries \ {PutPlace(t, k)} : LiveEntry(t.entries[i], k)

PutWorks(t, k) == t.size < t.max_load /\ PutPlace(t, k) # NoItem

hash_put(t, k, x) ==
    LET p == PutPlace(t, k)
    IN  IF LiveEntry(t.entries[p], k) THEN [t EXCEPT !.entries[p].value = x]
        ELSE [t EXCEPT !.entries[p] = [key |-> k, value |-> x, occupied |-> TRUE, deleted |-> FALSE], !.size = @ + 1]

\* Mutant: the entry becomes one that was never used.
hash_remove_clear(t, k) == [t EXCEPT !.entries[HashFind(t, k)] = EmptyEntry, !.size = @ - 1]

hash_remove(t, k) == [t EXCEPT !.entries[HashFind(t, k)].deleted = TRUE, !.size = @ - 1]

OnTable(t, ref, twice) ==
    /\ table' = t
    /\ mapref' = [mapref EXCEPT !.table = ref, !.twice = @ \cup twice]
    /\ UNCHANGED <<VectorVars, strtable, seqref>>

HashNext ==
    \E k \in HashKeys :
        \/ \E x \in Items :
              /\ PutWorks(table, k)
              /\ OnTable(hash_put(table, k, x), [mapref.table EXCEPT ![k] = x], {q \in {k} : EntersTwice(table, q)})
        \/ /\ HashFind(table, k) # NoItem
           /\ OnTable(hash_remove(table, k), [mapref.table EXCEPT ![k] = NoItem], {})

\* The table of strings has no marks: a removed entry is free again.
StrPlace(t, k) == FirstProbe(k, {i \in DOMAIN t.keys : t.keys[i] \in {NoItem, k}})

str_hash_get(t, k) == LET p == StrPlace(t, k) IN IF p # NoItem /\ t.keys[p] = k THEN t.values[p] ELSE NoItem

str_hash_put(t, k, x) ==
    LET p == StrPlace(t, k)
    IN  [keys |-> [t.keys EXCEPT ![p] = k], values |-> [t.values EXCEPT ![p] = x],
         size |-> IF t.keys[p] = k THEN t.size ELSE t.size + 1]

StrEntersTwice(t, k) == \E i \in DOMAIN t.keys \ {StrPlace(t, k)} : t.keys[i] = k

str_hash_remove(t, k) == [t EXCEPT !.keys[StrPlace(t, k)] = NoItem, !.size = @ - 1]

OnStrings(t, ref, twice, freed) ==
    /\ strtable' = t
    /\ mapref' = [mapref EXCEPT !.strings = ref, !.strtwice = @ \cup twice, !.freed = freed]
    /\ UNCHANGED <<VectorVars, table, seqref>>

StrHashNext ==
    \E k \in HashKeys :
        \/ \E x \in Items :
              /\ StrPlace(strtable, k) # NoItem
              /\ OnStrings(str_hash_put(strtable, k, x), [mapref.strings EXCEPT ![k] = x],
                           {q \in {k} : StrEntersTwice(strtable, q)}, mapref.freed \ {StrPlace(strtable, k)})
        \/ /\ str_hash_get(strtable, k) # NoItem
           /\ OnStrings(str_hash_remove(strtable, k), [mapref.strings EXCEPT ![k] = NoItem],
                        {}, mapref.freed \cup {StrPlace(strtable, k)})
-----------------------------------------------------------------------------
\* After every sequence of calls the vector, through its growth, the list, walked
\* from either end, and the ring, through its wrap and its full mark, hold the items
\* that the sequences of the same insertions and removals hold, in that order.
SequencesAgree ==
    /\ seqref.vector = [i \in 1 .. vector.size |-> vector.data[i - 1]]
    /\ \E o \in [1 .. list.size -> list.used] :
          /\ LinkedAs(list.node, list.head, list.tail, NoNode, o)
          /\ seqref.list = [i \in 1 .. list.size |-> list.node[o[i]].data]
    /\ seqref.ring = [i \in 1 .. rbuf.size |-> rbuf.buffer[(rbuf.head + i - 1) % RingCapacity]]

\* What the tables answer after any sequence of puts and removals, however keys
\* collide.  In the hash table a key put and not removed is found, with the value put
\* last, and a key removed or never put is not, unless hash_put once entered it a
\* second time in front of its own entry.  In the table of strings, which has no mark
\* for a removed entry, a key put and not removed is found with its last value unless
\* the search stops at a place that str_hash_remove freed, and a key removed or never
\* put is not found, unless it was entered a second time.
TablesFind ==
    \A k \in HashKeys :
        /\ LET p == HashFind(table, k) IN
              IF mapref.table[k] # NoItem THEN p # NoItem /\ table.entries[p].value = mapref.table[k]
              ELSE p = NoItem \/ k \in mapref.twice
        /\ \/ str_hash_get(strtable, k) = mapref.strings[k]
           \/ IF mapref.strings[k] # NoItem THEN StrPlace(strtable, k) \in mapref.freed
              ELSE k \in mapref.strtwice
=============================================================================
