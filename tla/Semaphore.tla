----------------------------- MODULE Semaphore -----------------------------
(***************************************************************************)
(* The counting semaphore of kernel/sync/sync.c.  The decrement is a read, *)
(* a test and a compare-and-swap with the value read; sem_post is one      *)
(* locked increment.  The tasks use it as a pool of SemInit units: only a  *)
(* task that took a unit posts one.  max_count is stored by sem_init and   *)
(* read by nothing, and is left out.                                       *)
(***************************************************************************)
EXTENDS Atomic

CONSTANT SemInit    \* the count given to sem_init

ASSUME SemInitAssumption == SemInit \in Nat

VARIABLES count,    \* semaphore_t.count
          sem_old,  \* the local `old' of sem_wait and sem_trywait
          sem_pc

SemVars == <<count, sem_old, sem_pc>>

sem_init ==
    /\ count = SemInit
    /\ sem_old = [t \in Tasks |-> 0]
    /\ sem_pc = [t \in Tasks |-> "idle"]

SemGoto(t, from, to) ==
    /\ sem_pc[t] = from
    /\ sem_pc' = [sem_pc EXCEPT ![t] = to]

\* old = atomic_read(&sem->count), and the test of old that follows it.
SemRead(t, from, positive, empty) ==
    /\ SemGoto(t, from, IF count > 0 THEN positive ELSE empty)
    /\ sem_old' = [sem_old EXCEPT ![t] = count]
    /\ UNCHANGED count

\* Mutant: the decremented value is stored whether or not the count changed.
SemSwap_blind(t, from, again) ==
    /\ SemGoto(t, from, "got")
    /\ count' = sem_old[t] - 1
    /\ UNCHANGED sem_old

\* atomic_compare_and_swap(&sem->count, old, old - 1), and the branch on it; old
\* is dead (zero) afterwards.
SemSwap(t, from, again) ==
    /\ sem_old' = [sem_old EXCEPT ![t] = 0]
    /\ \/ /\ SemGoto(t, from, "got")
          /\ atomic_compare_and_swap(count, sem_old[t], sem_old[t] - 1)
       \/ count # sem_old[t] /\ SemGoto(t, from, again) /\ UNCHANGED count

sem_wait(t) ==
    \/ SemGoto(t, "idle", "wait") /\ UNCHANGED <<count, sem_old>>
    \/ SemRead(t, "wait", "swap", "wait")
    \/ SemSwap(t, "swap", "wait")

sem_trywait(t) ==
    \/ SemRead(t, "idle", "tryswap", "idle")
    \/ SemSwap(t, "tryswap", "tryread")
    \/ SemRead(t, "tryread", "tryswap", "idle")

sem_post(t) ==
    /\ SemGoto(t, "got", "idle")
    /\ atomic_inc(count)
    /\ UNCHANGED sem_old

SemStep(t) == sem_wait(t) \/ sem_trywait(t) \/ sem_post(t)

SemNext == \E t \in Tasks : SemStep(t)

SemSpec == sem_init /\ [][SemNext]_SemVars
-----------------------------------------------------------------------------
SemTypeOK ==
    /\ count \in Int
    /\ sem_old \in [Tasks -> Int]
    /\ sem_pc \in [Tasks -> {"idle", "wait", "swap", "tryswap", "tryread", "got"}]

SemHolders == {t \in Tasks : sem_pc[t] = "got"}

\* No unit is lost or handed out twice by decrements that race between the read
\* and the compare-and-swap: free units and held units always add up to SemInit,
\* and the count never goes below zero.
SemConserved ==
    /\ count >= 0
    /\ count + Cardinality(SemHolders) = SemInit

\* The inductive strengthening: a task about to swap read a positive count.
SemInv ==
    /\ SemTypeOK
    /\ \A t \in Tasks : sem_pc[t] \in {"swap", "tryswap"} => sem_old[t] > 0
    /\ SemConserved
=============================================================================
