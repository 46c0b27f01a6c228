------------------------------ MODULE SpinLock ------------------------------
(***************************************************************************)
(* A spinlock of kernel/sync/sync.c on its own, as its callers use it:     *)
(* whoever took it with spin_lock or spin_trylock releases it once.        *)
(***************************************************************************)
EXTENDS Atomic

VARIABLES sl_word,  \* spinlock_t.lock
          sl_pc     \* where each task stands with respect to this spinlock

SLVars == <<sl_word, sl_pc>>

SLInit ==
    /\ sl_word = 0
    /\ sl_pc = [t \in Tasks |-> "idle"]

\* Mutant: the word is tested when the call starts and set in a later step.
SLLock_test_then_set(t) ==
    \/ /\ sl_pc[t] = "idle"
       /\ sl_word = 0
       /\ sl_pc' = [sl_pc EXCEPT ![t] = "spin"]
       /\ UNCHANGED sl_word
    \/ /\ sl_pc[t] = "spin"
       /\ sl_word' = 1
       /\ sl_pc' = [sl_pc EXCEPT ![t] = "crit"]

\* A caller of spin_lock spins at "spin" until its compare-and-swap succeeds.
SLLock(t) ==
    \/ /\ sl_pc[t] = "idle"
       /\ sl_pc' = [sl_pc EXCEPT ![t] = "spin"]
       /\ UNCHANGED sl_word
    \/ /\ sl_pc[t] = "spin"
       /\ spin_lock(sl_word)
       /\ sl_pc' = [sl_pc EXCEPT ![t] = "crit"]

\* A failed attempt returns false and leaves no trace.
spin_trylock(t) ==
    /\ sl_pc[t] = "idle"
    /\ spin_lock(sl_word)
    /\ sl_pc' = [sl_pc EXCEPT ![t] = "crit"]

SLUnlock(t) ==
    /\ sl_pc[t] = "crit"
    /\ spin_unlock(sl_word)
    /\ sl_pc' = [sl_pc EXCEPT ![t] = "idle"]

SLStep(t) == SLLock(t) \/ spin_trylock(t) \/ SLUnlock(t)

SLTypeOK ==
    /\ sl_word \in {0, 1}
    /\ sl_pc \in [Tasks -> {"idle", "spin", "crit"}]
=============================================================================
