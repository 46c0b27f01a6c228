----------------------------- MODULE SeqFilter -----------------------------
\* Lists from which entries are unlinked: what is left keeps its order.  The values are
\* those of SelectSeq; the definition is not recursive, so that proofs can use it.
EXTENDS Naturals, FiniteSets, Sequences

\* The entries of s at the positions of a set, in order: the k-th one is at the
\* position that has k positions of the set up to it.
Keep(s, at) ==
    [k \in 1 .. Cardinality(at) |-> s[CHOOSE i \in at : Cardinality({j \in at : j <= i}) = k]]

\* The entries of s other than x.
Without(s, x) == Keep(s, {i \in DOMAIN s : s[i] # x})
=============================================================================
