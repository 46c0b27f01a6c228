------------------------------- MODULE Atomic -------------------------------
(***************************************************************************)
(* What the locks of kernel/sync/sync.c are made of.  In all of them one   *)
(* step is one access to shared memory by one task: accesses of different  *)
(* tasks interleave freely and take effect in program order.               *)
(*                                                                         *)
(* The operators act on the memory word they are given.  An attempt that   *)
(* fails changes nothing but the contention statistics, which are left     *)
(* out: it is a stuttering step of the loop that retries it.               *)
(***************************************************************************)
EXTENDS Integers, FiniteSets

CONSTANT Tasks      \* the threads of control that share the locks

ASSUME TasksFinite == IsFiniteSet(Tasks)

atomic_compare_and_swap(v, old, new) == v = old /\ v' = new

atomic_inc(v) == v' = v + 1

\* The compare-and-swap that ends the loop of spin_lock.
spin_lock(word) == atomic_compare_and_swap(word, 0, 1)

spin_unlock(word) == word' = 0
=============================================================================
