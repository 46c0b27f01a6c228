------------------------------- MODULE RWLock -------------------------------
(***************************************************************************)
(* The read-write lock of kernel/sync/sync.c: two counters guarded by an   *)
(* embedded spinlock.  A waiter gives the spinlock back and takes it again *)
(* for every test of the counters.  The update readers++ (and readers--)   *)
(* compiles to a load and a store, and is two steps here: what makes it    *)
(* safe is the spinlock, not the instruction.                              *)
(*                                                                         *)
(* rw_pc[t] names the next access of task t.  The labels of read_lock      *)
(* start with rl, of read_trylock with rt, of read_unlock with ru; those   *)
(* of the write operations with wl, wt and wu.                             *)
(***************************************************************************)
EXTENDS Atomic

VARIABLES rw_lock,  \* rwlock_t.lock, the embedded spinlock
          readers,  \* rwlock_t.readers
          writers,  \* rwlock_t.writers
          rw_tmp,   \* the register in which t holds the counter it updates
          rw_pc

RWVars == <<rw_lock, readers, writers, rw_tmp, rw_pc>>

\* The labels at which a task owns the embedded spinlock.
RWInside ==
    {"rl_test", "rl_retry", "rl_load", "rl_store", "rl_unlock",
     "rt_test", "rt_fail", "ru_load", "ru_store", "ru_unlock",
     "wl_readers", "wl_writers", "wl_retry", "wl_store", "wl_unlock",
     "wt_readers", "wt_writers", "wt_fail", "wu_store", "wu_unlock"}

RWSpinning == {"rl_spin", "rt_spin", "ru_spin", "wl_spin", "wt_spin", "wu_spin"}

RWLabels == {"idle", "reading", "writing"} \cup RWInside \cup RWSpinning

rwlock_init ==
    /\ rw_lock = 0
    /\ readers = 0
    /\ writers = 0
    /\ rw_tmp = [t \in Tasks |-> 0]
    /\ rw_pc = [t \in Tasks |-> "idle"]

RWGoto(t, from, to) ==
    /\ rw_pc[t] = from
    /\ rw_pc' = [rw_pc EXCEPT ![t] = to]

RWLocal == UNCHANGED <<rw_lock, readers, writers, rw_tmp>>

\* spin_lock(&lock->lock) and spin_unlock(&lock->lock) at a given place.
RWAcquire(t, from, to) ==
    /\ RWGoto(t, from, to)
    /\ spin_lock(rw_lock)
    /\ UNCHANGED <<readers, writers, rw_tmp>>

RWRelease(t, from, to) ==
    /\ RWGoto(t, from, to)
    /\ spin_unlock(rw_lock)
    /\ UNCHANGED <<readers, writers, rw_tmp>>

\* readers += d, a load and a store; the register is dead (zero) afterwards.
RWAddReaders(t, load, store, next, d) ==
    \/ /\ RWGoto(t, load, store)
       /\ rw_tmp' = [rw_tmp EXCEPT ![t] = readers]
       /\ UNCHANGED <<rw_lock, readers, writers>>
    \/ /\ RWGoto(t, store, next)
       /\ readers' = rw_tmp[t] + d
       /\ rw_tmp' = [rw_tmp EXCEPT ![t] = 0]
       /\ UNCHANGED <<rw_lock, writers>>

RWSetWriters(t, from, to, w) ==
    /\ RWGoto(t, from, to)
    /\ writers' = w
    /\ UNCHANGED <<rw_lock, readers, rw_tmp>>

\* Mutant: the loop tests the writers again without giving the spinlock back.
read_lock_no_release(t) ==
    \/ RWGoto(t, "idle", "rl_spin") /\ RWLocal
    \/ RWAcquire(t, "rl_spin", "rl_test")
    \/ writers = 0 /\ RWGoto(t, "rl_test", "rl_load") /\ RWLocal
    \/ RWAddReaders(t, "rl_load", "rl_store", "rl_unlock", 1)
    \/ RWRelease(t, "rl_unlock", "reading")

read_lock(t) ==
    \/ RWGoto(t, "idle", "rl_spin") /\ RWLocal
    \/ RWAcquire(t, "rl_spin", "rl_test")
    \/ writers # 0 /\ RWGoto(t, "rl_test", "rl_retry") /\ RWLocal
    \/ RWRelease(t, "rl_retry", "rl_spin")
    \/ writers = 0 /\ RWGoto(t, "rl_test", "rl_load") /\ RWLocal
    \/ RWAddReaders(t, "rl_load", "rl_store", "rl_unlock", 1)
    \/ RWRelease(t, "rl_unlock", "reading")

\* Mutant: the count is updated without taking the spinlock.
read_unlock_unlocked(t) ==
    \/ RWGoto(t, "reading", "ru_load") /\ RWLocal
    \/ RWAddReaders(t, "ru_load", "ru_store", "idle", -1)

read_unlock(t) ==
    \/ RWGoto(t, "reading", "ru_spin") /\ RWLocal
    \/ RWAcquire(t, "ru_spin", "ru_load")
    \/ RWAddReaders(t, "ru_load", "ru_store", "ru_unlock", -1)
    \/ RWRelease(t, "ru_unlock", "idle")

\* On success the code is that of read_lock from the increment on.
read_trylock(t) ==
    \/ RWGoto(t, "idle", "rt_spin") /\ RWLocal
    \/ RWAcquire(t, "rt_spin", "rt_test")
    \/ writers # 0 /\ RWGoto(t, "rt_test", "rt_fail") /\ RWLocal
    \/ RWRelease(t, "rt_fail", "idle")
    \/ writers = 0 /\ RWGoto(t, "rt_test", "rl_load") /\ RWLocal

\* Mutant: the retry after a failed test takes the lock without testing again.
write_lock_no_retest(t) ==
    \/ RWGoto(t, "idle", "wl_spin") /\ RWLocal
    \/ RWAcquire(t, "wl_spin", "wl_readers")
    \/ readers # 0 /\ RWGoto(t, "wl_readers", "wl_writers") /\ RWLocal
    \/ readers = 0 /\ RWGoto(t, "wl_readers", "wl_writers") /\ RWLocal
    \/ writers # 0 /\ RWGoto(t, "wl_writers", "wl_retry") /\ RWLocal
    \/ RWRelease(t, "wl_retry", "wl_spin")
    \/ writers = 0 /\ RWGoto(t, "wl_writers", "wl_store") /\ RWLocal
    \/ RWSetWriters(t, "wl_store", "wl_unlock", 1)
    \/ RWRelease(t, "wl_unlock", "writing")

write_lock(t) ==
    \/ RWGoto(t, "idle", "wl_spin") /\ RWLocal
    \/ RWAcquire(t, "wl_spin", "wl_readers")
    \/ readers # 0 /\ RWGoto(t, "wl_readers", "wl_retry") /\ RWLocal
    \/ readers = 0 /\ RWGoto(t, "wl_readers", "wl_writers") /\ RWLocal
    \/ writers # 0 /\ RWGoto(t, "wl_writers", "wl_retry") /\ RWLocal
    \/ RWRelease(t, "wl_retry", "wl_spin")
    \/ writers = 0 /\ RWGoto(t, "wl_writers", "wl_store") /\ RWLocal
    \/ RWSetWriters(t, "wl_store", "wl_unlock", 1)
    \/ RWRelease(t, "wl_unlock", "writing")

write_unlock(t) ==
    \/ RWGoto(t, "writing", "wu_spin") /\ RWLocal
    \/ RWAcquire(t, "wu_spin", "wu_store")
    \/ RWSetWriters(t, "wu_store", "wu_unlock", 0)
    \/ RWRelease(t, "wu_unlock", "idle")

write_trylock(t) ==
    \/ RWGoto(t, "idle", "wt_spin") /\ RWLocal
    \/ RWAcquire(t, "wt_spin", "wt_readers")
    \/ readers # 0 /\ RWGoto(t, "wt_readers", "wt_fail") /\ RWLocal
    \/ readers = 0 /\ RWGoto(t, "wt_readers", "wt_writers") /\ RWLocal
    \/ writers # 0 /\ RWGoto(t, "wt_writers", "wt_fail") /\ RWLocal
    \/ RWRelease(t, "wt_fail", "idle")
    \/ writers = 0 /\ RWGoto(t, "wt_writers", "wl_store") /\ RWLocal

RWStep(t) ==
    \/ read_lock(t) \/ read_unlock(t) \/ read_trylock(t)
    \/ write_lock(t) \/ write_unlock(t) \/ write_trylock(t)

RWNext == \E t \in Tasks : RWStep(t)

RWSpec == rwlock_init /\ [][RWNext]_RWVars
-----------------------------------------------------------------------------
RWTypeOK ==
    /\ rw_lock \in {0, 1}
    /\ readers \in Int
    /\ writers \in {0, 1}
    /\ rw_tmp \in [Tasks -> Int]
    /\ rw_pc \in [Tasks -> RWLabels]

\* The tasks that readers counts, and the task that writers stands for.
Counted ==
    {t \in Tasks : rw_pc[t] \in {"rl_unlock", "reading", "ru_spin", "ru_load", "ru_store"}}

Writing ==
    {t \in Tasks : rw_pc[t] \in {"wl_unlock", "writing", "wu_spin", "wu_store"}}

\* A task that write_lock or write_trylock let in excludes every reader and
\* every other writer until its write_unlock has cleared the flag, although
\* both sides only ever look at counters they re-read after dropping a spinlock.
RWExclusion ==
    /\ Writing # {} => Counted = {}
    /\ \A t, u \in Writing : t = u

\* The readers counter equals the number of tasks that read_lock and read_trylock
\* let in and that have not left: no increment or decrement is ever lost, so the
\* lock can neither leak a reader (writers wait forever) nor go negative.
ReadersCounted == readers = Cardinality(Counted)

\* The inductive strengthening: who owns the embedded spinlock, and what a task
\* inside it still knows about the counters it has tested or loaded.
RWInv ==
    /\ RWTypeOK
    /\ \A t \in Tasks : rw_pc[t] \in RWInside => rw_lock = 1
    /\ \A t, u \in Tasks : rw_pc[t] \in RWInside /\ rw_pc[u] \in RWInside => t = u
    /\ \A t \in Tasks : rw_pc[t] \in {"rl_load", "rl_store"} => writers = 0
    /\ \A t \in Tasks : rw_pc[t] \in {"rl_store", "ru_store"} => rw_tmp[t] = readers
    /\ \A t \in Tasks : rw_pc[t] \in {"wl_writers", "wt_writers", "wl_store"} => readers = 0
    /\ \A t \in Tasks : rw_pc[t] = "wl_store" => writers = 0
    /\ \A t \in Writing : writers = 1
    /\ writers = 1 => Writing # {}
    /\ RWExclusion
    /\ ReadersCounted
=============================================================================
