----------------------------- MODULE ByteQueue -----------------------------
(***************************************************************************)
(* What closable bounded queues promise: bytes come out of a queue in the  *)
(* order in which they went in, each once, there are never more than Limit *)
(* of them, and only calls that started before it was shut still put some. *)
(***************************************************************************)
EXTENDS Integers, Sequences

CONSTANTS Queues, Users, Inputs, Limit

VARIABLES content,  \* the bytes in each queue, from the oldest
          shut,     \* the queues that are shut
          entered,  \* the puts under way on each queue: a user and its bytes
          out       \* the bytes the last get of each queue returned

QVars == <<content, shut, entered, out>>

QInit ==
    /\ content = [q \in Queues |-> <<>>]
    /\ shut = {}
    /\ entered = [q \in Queues |-> {}]
    /\ out = [q \in Queues |-> <<>>]

Enter(q, u) ==
    /\ q \notin shut
    /\ \E s \in Inputs : entered' = [entered EXCEPT ![q] = @ \cup {<<u, s>>}]
    /\ UNCHANGED <<content, shut, out>>

\* The first n bytes go in, as far as they fit; none when the put is refused.
Put(q, e) ==
    /\ e \in entered[q]
    /\ entered' = [entered EXCEPT ![q] = @ \ {e}]
    /\ \E n \in 0 .. Len(e[2]) :
          /\ Len(content[q]) + n <= Limit
          /\ content' = [content EXCEPT ![q] = @ \o SubSeq(e[2], 1, n)]
    /\ UNCHANGED <<shut, out>>

Get(q) ==
    /\ \E n \in 0 .. Len(content[q]) :
          /\ out' = [out EXCEPT ![q] = SubSeq(content[q], 1, n)]
          /\ content' = [content EXCEPT ![q] = SubSeq(@, n + 1, Len(@))]
    /\ UNCHANGED <<shut, entered>>

Shut(q) == shut' = shut \cup {q} /\ UNCHANGED <<content, entered, out>>

QNext == \E q \in Queues : Get(q) \/ Shut(q) \/ (\E u \in Users : Enter(q, u)) \/ \E e \in entered[q] : Put(q, e)

QSpec == QInit /\ [][QNext]_QVars
=============================================================================
