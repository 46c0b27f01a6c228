----------------------------- MODULE LinkedList -----------------------------
\* Doubly linked lists: the nodes are records with the links next and prev, none is
\* the null pointer.
EXTENDS Integers, Sequences

\* The list from head to tail consists of the nodes of o in this order, forwards along
\* next and backwards along prev.
LinkedAs(node, head, tail, none, o) ==
    /\ head = IF o = <<>> THEN none ELSE o[1]
    /\ tail = IF o = <<>> THEN none ELSE o[Len(o)]
    /\ \A i \in 1 .. Len(o) :
          /\ node[o[i]].next = IF i < Len(o) THEN o[i + 1] ELSE none
          /\ node[o[i]].prev = IF i > 1 THEN o[i - 1] ELSE none
=============================================================================
