----------------------------- MODULE SyncProofs -----------------------------
(***************************************************************************)
(* The primitives of kernel/sync/sync.c are safe for every finite set of   *)
(* tasks, each alone and all of them side by side.                         *)
(*                                                                         *)
(* Every one of them needs more than its property: what the lock word says *)
(* about the tasks inside, and what a task between two accesses still      *)
(* knows of what it read.                                                  *)
(***************************************************************************)
EXTENDS Sync, FiniteSetTheorems, TLAPS

-----------------------------------------------------------------------------
\* The read-write lock.  RWInv is inductive, and it contains the exclusion of writers
\* and the exactness of the readers counter.  There is one lemma per operation, with
\* one case per step of it.  Only two steps change the set of counted readers: the
\* stores of read_lock and of read_unlock.

\* The set that the readers counter stands for is finite.
LEMMA CountedFinite == IsFiniteSet(Counted) /\ Cardinality(Counted) \in Nat
BY TasksFinite, FS_Subset, FS_CardinalityType DEF Counted

\* A counter that reads zero means that nobody reads.
LEMMA ZeroMeansNone == ASSUME ReadersCounted, readers = 0 PROVE Counted = {}
BY CountedFinite, FS_EmptySet DEF ReadersCounted

\* The initial state of rwlock_init satisfies the invariant.
LEMMA InitInv == rwlock_init => RWInv
<1> SUFFICES ASSUME rwlock_init PROVE RWInv
  OBVIOUS
<1>1. Counted = {} /\ Writing = {}
  BY DEF rwlock_init, Counted, Writing
<1>2. Cardinality(Counted) = 0
  BY <1>1, FS_EmptySet
<1> QED
  BY <1>1, <1>2 DEF rwlock_init, RWInv, RWTypeOK, RWInside, RWLabels, RWExclusion, ReadersCounted

\* read_lock enters only while no task writes, and its increment, made inside the
\* spinlock, adds exactly the task that enters.
LEMMA ReadLockStep == ASSUME RWInv, NEW t \in Tasks, read_lock(t) PROVE RWInv'
<1> USE DEF RWInv, RWTypeOK, RWInside, RWSpinning, RWLabels, RWGoto, RWLocal, RWExclusion, ReadersCounted,
           RWAcquire, RWRelease, RWSetWriters, spin_lock, spin_unlock, atomic_compare_and_swap
<1>1. CASE RWGoto(t, "idle", "rl_spin") /\ RWLocal
  <2>1. Counted' = Counted /\ Writing' = Writing
    BY <1>1 DEF Counted, Writing
  <2> QED
    BY <1>1, <2>1
<1>2. CASE RWAcquire(t, "rl_spin", "rl_test")
  <2>1. Counted' = Counted /\ Writing' = Writing
    BY <1>2 DEF Counted, Writing
  <2> QED
    BY <1>2, <2>1
<1>3. CASE writers # 0 /\ RWGoto(t, "rl_test", "rl_retry") /\ RWLocal
  <2>1. Counted' = Counted /\ Writing' = Writing
    BY <1>3 DEF Counted, Writing
  <2> QED
    BY <1>3, <2>1
<1>4. CASE RWRelease(t, "rl_retry", "rl_spin")
  <2>1. Counted' = Counted /\ Writing' = Writing
    BY <1>4 DEF Counted, Writing
  <2> QED
    BY <1>4, <2>1
<1>5. CASE writers = 0 /\ RWGoto(t, "rl_test", "rl_load") /\ RWLocal
  <2>1. Counted' = Counted /\ Writing' = Writing
    BY <1>5 DEF Counted, Writing
  <2> QED
    BY <1>5, <2>1
<1>6. CASE RWAddReaders(t, "rl_load", "rl_store", "rl_unlock", 1)
  <2>1. CASE rw_pc[t] = "rl_load"
    <3>1. Counted' = Counted /\ Writing' = Writing
      BY <1>6, <2>1 DEF RWAddReaders, Counted, Writing
    <3> QED
      BY <1>6, <2>1, <3>1 DEF RWAddReaders
  <2>2. CASE rw_pc[t] = "rl_store"
    <3>1. Counted' = Counted \cup {t} /\ t \notin Counted
      BY <1>6, <2>2 DEF RWAddReaders, Counted
    <3>2. Cardinality(Counted') = Cardinality(Counted) + 1
      BY <3>1, CountedFinite, FS_AddElement
    <3>3. Writing' = Writing /\ Writing = {}
      BY <1>6, <2>2 DEF RWAddReaders, Writing
    <3>4. ReadersCounted'
      BY <1>6, <2>2, <3>2 DEF RWAddReaders
    <3> QED
      BY <1>6, <2>2, <3>1, <3>3, <3>4 DEF RWAddReaders
  <2> QED
    BY <1>6, <2>1, <2>2 DEF RWAddReaders
<1>7. CASE RWRelease(t, "rl_unlock", "reading")
  <2>1. Counted' = Counted /\ Writing' = Writing
    BY <1>7 DEF Counted, Writing
  <2> QED
    BY <1>7, <2>1
<1> QED
  BY <1>1, <1>2, <1>3, <1>4, <1>5, <1>6, <1>7 DEF read_lock

\* read_unlock takes exactly the leaving task out of the count.
LEMMA ReadUnlockStep == ASSUME RWInv, NEW t \in Tasks, read_unlock(t) PROVE RWInv'
<1> USE DEF RWInv, RWTypeOK, RWInside, RWSpinning, RWLabels, RWGoto, RWLocal, RWExclusion, ReadersCounted,
           RWAcquire, RWRelease, RWSetWriters, spin_lock, spin_unlock, atomic_compare_and_swap
<1>1. CASE RWGoto(t, "reading", "ru_spin") /\ RWLocal
  <2>1. Counted' = Counted /\ Writing' = Writing
    BY <1>1 DEF Counted, Writing
  <2> QED
    BY <1>1, <2>1
<1>2. CASE RWAcquire(t, "ru_spin", "ru_load")
  <2>1. Counted' = Counted /\ Writing' = Writing
    BY <1>2 DEF Counted, Writing
  <2> QED
    BY <1>2, <2>1
<1>3. CASE RWAddReaders(t, "ru_load", "ru_store", "ru_unlock", -1)
  <2>1. CASE rw_pc[t] = "ru_load"
    <3>1. Counted' = Counted /\ Writing' = Writing
      BY <1>3, <2>1 DEF RWAddReaders, Counted, Writing
    <3> QED
      BY <1>3, <2>1, <3>1 DEF RWAddReaders
  <2>2. CASE rw_pc[t] = "ru_store"
    <3>1. Counted' = Counted \ {t} /\ t \in Counted
      BY <1>3, <2>2 DEF RWAddReaders, Counted
    <3>2. Cardinality(Counted') = Cardinality(Counted) - 1
      BY <3>1, CountedFinite, FS_RemoveElement
    <3>3. Writing' = Writing
      BY <1>3, <2>2 DEF RWAddReaders, Writing
    <3>4. ReadersCounted'
      BY <1>3, <2>2, <3>2 DEF RWAddReaders
    <3> QED
      BY <1>3, <2>2, <3>1, <3>3, <3>4 DEF RWAddReaders
  <2> QED
    BY <1>3, <2>1, <2>2 DEF RWAddReaders
<1>4. CASE RWRelease(t, "ru_unlock", "idle")
  <2>1. Counted' = Counted /\ Writing' = Writing
    BY <1>4 DEF Counted, Writing
  <2> QED
    BY <1>4, <2>1
<1> QED
  BY <1>1, <1>2, <1>3, <1>4 DEF read_unlock

\* read_trylock tests and enters as read_lock does, without the retry.
LEMMA ReadTrylockStep == ASSUME RWInv, NEW t \in Tasks, read_trylock(t) PROVE RWInv'
<1> USE DEF RWInv, RWTypeOK, RWInside, RWSpinning, RWLabels, RWGoto, RWLocal, RWExclusion, ReadersCounted,
           RWAcquire, RWRelease, RWSetWriters, spin_lock, spin_unlock, atomic_compare_and_swap
<1>1. CASE RWGoto(t, "idle", "rt_spin") /\ RWLocal
  <2>1. Counted' = Counted /\ Writing' = Writing
    BY <1>1 DEF Counted, Writing
  <2> QED
    BY <1>1, <2>1
<1>2. CASE RWAcquire(t, "rt_spin", "rt_test")
  <2>1. Counted' = Counted /\ Writing' = Writing
    BY <1>2 DEF Counted, Writing
  <2> QED
    BY <1>2, <2>1
<1>3. CASE writers # 0 /\ RWGoto(t, "rt_test", "rt_fail") /\ RWLocal
  <2>1. Counted' = Counted /\ Writing' = Writing
    BY <1>3 DEF Counted, Writing
  <2> QED
    BY <1>3, <2>1
<1>4. CASE RWRelease(t, "rt_fail", "idle")
  <2>1. Counted' = Counted /\ Writing' = Writing
    BY <1>4 DEF Counted, Writing
  <2> QED
    BY <1>4, <2>1
<1>5. CASE writers = 0 /\ RWGoto(t, "rt_test", "rl_load") /\ RWLocal
  <2>1. Counted' = Counted /\ Writing' = Writing
    BY <1>5 DEF Counted, Writing
  <2> QED
    BY <1>5, <2>1
<1> QED
  BY <1>1, <1>2, <1>3, <1>4, <1>5 DEF read_trylock

\* write_lock sets the flag with both tests still true: it has not left the spinlock
\* since it made them.
LEMMA WriteLockStep == ASSUME RWInv, NEW t \in Tasks, write_lock(t) PROVE RWInv'
<1> USE DEF RWInv, RWTypeOK, RWInside, RWSpinning, RWLabels, RWGoto, RWLocal, RWExclusion, ReadersCounted,
           RWAcquire, RWRelease, RWSetWriters, spin_lock, spin_unlock, atomic_compare_and_swap
<1>1. CASE RWGoto(t, "idle", "wl_spin") /\ RWLocal
  <2>1. Counted' = Counted /\ Writing' = Writing
    BY <1>1 DEF Counted, Writing
  <2> QED
    BY <1>1, <2>1
<1>2. CASE RWAcquire(t, "wl_spin", "wl_readers")
  <2>1. Counted' = Counted /\ Writing' = Writing
    BY <1>2 DEF Counted, Writing
  <2> QED
    BY <1>2, <2>1
<1>3. CASE readers # 0 /\ RWGoto(t, "wl_readers", "wl_retry") /\ RWLocal
  <2>1. Counted' = Counted /\ Writing' = Writing
    BY <1>3 DEF Counted, Writing
  <2> QED
    BY <1>3, <2>1
<1>4. CASE readers = 0 /\ RWGoto(t, "wl_readers", "wl_writers") /\ RWLocal
  <2>1. Counted' = Counted /\ Writing' = Writing
    BY <1>4 DEF Counted, Writing
  <2>2. RWExclusion' /\ ReadersCounted'
    BY <1>4, <2>1
  <2>3. rw_pc' \in [Tasks -> RWLabels]
    BY <1>4
  <2>4. \A u \in Tasks \ {t} : rw_pc'[u] = rw_pc[u]
    BY <1>4
  <2> QED
    BY <1>4, <2>1, <2>2, <2>3, <2>4
<1>5. CASE writers # 0 /\ RWGoto(t, "wl_writers", "wl_retry") /\ RWLocal
  <2>1. Counted' = Counted /\ Writing' = Writing
    BY <1>5 DEF Counted, Writing
  <2> QED
    BY <1>5, <2>1
<1>6. CASE RWRelease(t, "wl_retry", "wl_spin")
  <2>1. Counted' = Counted /\ Writing' = Writing
    BY <1>6 DEF Counted, Writing
  <2> QED
    BY <1>6, <2>1
<1>7. CASE writers = 0 /\ RWGoto(t, "wl_writers", "wl_store") /\ RWLocal
  <2>1. Counted' = Counted /\ Writing' = Writing
    BY <1>7 DEF Counted, Writing
  <2> QED
    BY <1>7, <2>1
<1>8. CASE RWSetWriters(t, "wl_store", "wl_unlock", 1)
  <2>1. Counted = {}
    BY <1>8, ZeroMeansNone
  <2>2. Counted' = Counted /\ Writing' = {t}
    BY <1>8 DEF Counted, Writing
  <2> QED
    BY <1>8, <2>1, <2>2
<1>9. CASE RWRelease(t, "wl_unlock", "writing")
  <2>1. Counted' = Counted /\ Writing' = Writing
    BY <1>9 DEF Counted, Writing
  <2> QED
    BY <1>9, <2>1
<1> QED
  BY <1>1, <1>2, <1>3, <1>4, <1>5, <1>6, <1>7, <1>8, <1>9 DEF write_lock

\* write_unlock clears the flag of the only task that writes.
LEMMA WriteUnlockStep == ASSUME RWInv, NEW t \in Tasks, write_unlock(t) PROVE RWInv'
<1> USE DEF RWInv, RWTypeOK, RWInside, RWSpinning, RWLabels, RWGoto, RWLocal, RWExclusion, ReadersCounted,
           RWAcquire, RWRelease, RWSetWriters, spin_lock, spin_unlock, atomic_compare_and_swap
<1>1. CASE RWGoto(t, "writing", "wu_spin") /\ RWLocal
  <2>1. Counted' = Counted /\ Writing' = Writing
    BY <1>1 DEF Counted, Writing
  <2> QED
    BY <1>1, <2>1
<1>2. CASE RWAcquire(t, "wu_spin", "wu_store")
  <2>1. Counted' = Counted /\ Writing' = Writing
    BY <1>2 DEF Counted, Writing
  <2> QED
    BY <1>2, <2>1
<1>3. CASE RWSetWriters(t, "wu_store", "wu_unlock", 0)
  <2>1. Counted' = Counted /\ Writing' = {}
    BY <1>3 DEF Counted, Writing
  <2> QED
    BY <1>3, <2>1
<1>4. CASE RWRelease(t, "wu_unlock", "idle")
  <2>1. Counted' = Counted /\ Writing' = Writing
    BY <1>4 DEF Counted, Writing
  <2> QED
    BY <1>4, <2>1
<1> QED
  BY <1>1, <1>2, <1>3, <1>4 DEF write_unlock

\* write_trylock tests as write_lock does, without the retry.
LEMMA WriteTrylockStep == ASSUME RWInv, NEW t \in Tasks, write_trylock(t) PROVE RWInv'
<1> USE DEF RWInv, RWTypeOK, RWInside, RWSpinning, RWLabels, RWGoto, RWLocal, RWExclusion, ReadersCounted,
           RWAcquire, RWRelease, RWSetWriters, spin_lock, spin_unlock, atomic_compare_and_swap
<1>1. CASE RWGoto(t, "idle", "wt_spin") /\ RWLocal
  <2>1. Counted' = Counted /\ Writing' = Writing
    BY <1>1 DEF Counted, Writing
  <2> QED
    BY <1>1, <2>1
<1>2. CASE RWAcquire(t, "wt_spin", "wt_readers")
  <2>1. Counted' = Counted /\ Writing' = Writing
    BY <1>2 DEF Counted, Writing
  <2> QED
    BY <1>2, <2>1
<1>3. CASE readers # 0 /\ RWGoto(t, "wt_readers", "wt_fail") /\ RWLocal
  <2>1. Counted' = Counted /\ Writing' = Writing
    BY <1>3 DEF Counted, Writing
  <2> QED
    BY <1>3, <2>1
<1>4. CASE readers = 0 /\ RWGoto(t, "wt_readers", "wt_writers") /\ RWLocal
  <2>1. Counted' = Counted /\ Writing' = Writing
    BY <1>4 DEF Counted, Writing
  <2>2. RWExclusion' /\ ReadersCounted'
    BY <1>4, <2>1
  <2>3. rw_pc' \in [Tasks -> RWLabels]
    BY <1>4
  <2>4. \A u \in Tasks \ {t} : rw_pc'[u] = rw_pc[u]
    BY <1>4
  <2> QED
    BY <1>4, <2>1, <2>2, <2>3, <2>4
<1>5. CASE writers # 0 /\ RWGoto(t, "wt_writers", "wt_fail") /\ RWLocal
  <2>1. Counted' = Counted /\ Writing' = Writing
    BY <1>5 DEF Counted, Writing
  <2> QED
    BY <1>5, <2>1
<1>6. CASE RWRelease(t, "wt_fail", "idle")
  <2>1. Counted' = Counted /\ Writing' = Writing
    BY <1>6 DEF Counted, Writing
  <2> QED
    BY <1>6, <2>1
<1>7. CASE writers = 0 /\ RWGoto(t, "wt_writers", "wl_store") /\ RWLocal
  <2>1. Counted' = Counted /\ Writing' = Writing
    BY <1>7 DEF Counted, Writing
  <2> QED
    BY <1>7, <2>1
<1> QED
  BY <1>1, <1>2, <1>3, <1>4, <1>5, <1>6, <1>7 DEF write_trylock

\* RWInv is inductive: every step of every operation preserves it.
LEMMA NextInv == RWInv /\ [RWNext]_RWVars => RWInv'
<1> SUFFICES ASSUME RWInv, [RWNext]_RWVars PROVE RWInv'
  OBVIOUS
<1>1. CASE RWNext
  BY <1>1, ReadLockStep, ReadUnlockStep, ReadTrylockStep, WriteLockStep, WriteUnlockStep,
     WriteTrylockStep DEF RWNext, RWStep
<1>2. CASE UNCHANGED RWVars
  BY <1>2 DEF RWVars, RWInv, RWTypeOK, Counted, Writing, RWExclusion, ReadersCounted
<1> QED
  BY <1>1, <1>2

\* Every behaviour of the read-write lock satisfies the invariant, the type
\* invariant RWTypeOK included.
THEOREM RWInvariant == RWSpec => []RWInv
BY InitInv, NextInv, PTL DEF RWSpec

\* For every finite set of tasks, a task let in by write_lock or write_trylock
\* excludes readers and other writers.
THEOREM RWExclusionHolds == RWSpec => []RWExclusion
<1>1. RWInv => RWExclusion
  BY DEF RWInv
<1> QED
  BY <1>1, RWInvariant, PTL

\* For every finite set of tasks, the readers counter is exact.
THEOREM ReadersCountedHolds == RWSpec => []ReadersCounted
<1>1. RWInv => ReadersCounted
  BY DEF RWInv
<1> QED
  BY <1>1, RWInvariant, PTL
-----------------------------------------------------------------------------
\* The spinlock: while the word is 0 nobody is inside.
SLInv ==
    /\ SLTypeOK
    /\ sl_word = 0 => \A t \in Tasks : sl_pc[t] # "crit"
    /\ SpinExclusion

\* spin_lock_init leaves the word free and nobody inside.
LEMMA SLInitInv == SLInit => SLInv
BY DEF SLInit, SLInv, SLTypeOK, SpinExclusion

\* A task enters only by the compare-and-swap, which finds the word free.
LEMMA SLStepInv == ASSUME SLInv, NEW t \in Tasks, SLStep(t) PROVE SLInv'
<1> USE DEF SLInv, SLTypeOK, SpinExclusion, spin_lock, spin_unlock, atomic_compare_and_swap
<1>1. CASE SLLock(t)
  BY <1>1 DEF SLLock
<1>2. CASE spin_trylock(t)
  BY <1>2 DEF spin_trylock
<1>3. CASE SLUnlock(t)
  BY <1>3 DEF SLUnlock
<1> QED
  BY <1>1, <1>2, <1>3 DEF SLStep

-----------------------------------------------------------------------------
\* The mutex: while the word is 0 nobody is between taking and releasing it.
MXInv ==
    /\ MXTypeOK
    /\ locked = 0 => MXHolders = {}
    /\ MutexOwned

\* mutex_init leaves the word free and nobody inside.
LEMMA MXInitInv == mutex_init => MXInv
BY DEF mutex_init, MXInv, MXTypeOK, MXHolders, MutexOwned

\* The marker is stored and cleared by a task that is inside, so never while another
\* one is in its critical section.
LEMMA MXStepInv == ASSUME MXInv, NEW t \in Tasks, MXStep(t) PROVE MXInv'
<1> USE DEF MXInv, MXTypeOK, MXHolders, MutexOwned, MXGoto, atomic_compare_and_swap
<1>1. CASE mutex_lock(t)
  BY <1>1 DEF mutex_lock
<1>2. CASE mutex_unlock(t)
  BY <1>2 DEF mutex_unlock
<1>3. CASE mutex_trylock(t)
  BY <1>3 DEF mutex_trylock
<1> QED
  BY <1>1, <1>2, <1>3 DEF MXStep

-----------------------------------------------------------------------------
\* The condition variable: one task at most is inside the spinlock, none while the
\* word is 0, and a waiter that saw the flag finds it still set.
CVInside == {"w_test", "w_retry", "w_clear", "w_unlock", "s_set", "s_unlock", "b_set", "b_unlock"}

CVInv ==
    /\ CVTypeOK
    /\ \A t \in Tasks : cv_pc[t] \in CVInside => cv_lock = 1
    /\ \A t, u \in Tasks : cv_pc[t] \in CVInside /\ cv_pc[u] \in CVInside => t = u
    /\ \A t \in Tasks : cv_pc[t] = "w_clear" => signaled = 1

\* condvar_init leaves the spinlock free and nobody inside.
LEMMA CVInitInv == condvar_init => CVInv
BY DEF condvar_init, CVInv, CVTypeOK, CVInside

\* The flag changes only inside the spinlock.
LEMMA CVStepInv == ASSUME CVInv, NEW t \in Tasks, CVStep(t) PROVE CVInv'
<1> USE DEF CVInv, CVTypeOK, CVInside, CVEnter, CVAcquire, CVRelease, CVSet, CVGoto,
            spin_lock, spin_unlock, atomic_compare_and_swap
<1>1. CASE condvar_wait_spin(t)
  BY <1>1 DEF condvar_wait_spin
<1>2. CASE condvar_signal(t)
  BY <1>2 DEF condvar_signal
<1>3. CASE condvar_broadcast(t)
  BY <1>3 DEF condvar_broadcast
<1> QED
  BY <1>1, <1>2, <1>3 DEF CVStep

\* A task about to set or to consume the flag is the only one inside.
LEMMA CVInvConsumes == CVInv => SignalConsumedOnce
BY DEF CVInv, CVInside, SignalConsumedOnce

-----------------------------------------------------------------------------
\* The semaphore: SemInv adds to conservation the one fact that a task carries from its
\* read to its compare-and-swap: the count it read was positive.  That it has not
\* changed in between is what the swap itself tests.

\* The tasks that hold a unit form a finite set.
LEMMA HoldersFinite == IsFiniteSet(SemHolders) /\ Cardinality(SemHolders) \in Nat
BY TasksFinite, FS_Subset, FS_CardinalityType DEF SemHolders

\* sem_init hands out nothing.
LEMMA SemInitInv == sem_init => SemInv
<1> SUFFICES ASSUME sem_init PROVE SemInv
  OBVIOUS
<1>1. SemHolders = {}
  BY DEF sem_init, SemHolders
<1>2. Cardinality(SemHolders) = 0
  BY <1>1, FS_EmptySet
<1> QED
  BY <1>2, SemInitAssumption DEF sem_init, SemInv, SemTypeOK, SemConserved

\* A read of the count moves the task and hands out nothing.
LEMMA SemReadStep ==
  ASSUME SemInv, NEW t \in Tasks,
         NEW from \in {"idle", "wait", "tryread"}, NEW positive \in {"swap", "tryswap"},
         NEW empty \in {"idle", "wait"}, SemRead(t, from, positive, empty)
  PROVE  SemInv'
<1>1. SemHolders' = SemHolders
  BY DEF SemHolders, SemRead, SemGoto, SemInv, SemTypeOK
<1> QED
  BY <1>1 DEF SemRead, SemGoto, SemInv, SemTypeOK, SemConserved

\* A successful swap takes one unit for the task; a failed one takes nothing.
LEMMA SemSwapStep ==
  ASSUME SemInv, NEW t \in Tasks,
         NEW from \in {"swap", "tryswap"}, NEW again \in {"wait", "tryread"},
         SemSwap(t, from, again)
  PROVE  SemInv'
<1> USE DEF SemSwap, SemGoto, SemInv, SemTypeOK
<1>1. CASE /\ SemGoto(t, from, "got")
           /\ atomic_compare_and_swap(count, sem_old[t], sem_old[t] - 1)
  <2>1. SemHolders' = SemHolders \cup {t} /\ t \notin SemHolders
    BY <1>1 DEF SemHolders
  <2>2. Cardinality(SemHolders') = Cardinality(SemHolders) + 1
    BY <2>1, HoldersFinite, FS_AddElement
  <2>3. count > 0 /\ count' = count - 1
    BY <1>1 DEF atomic_compare_and_swap
  <2>4. SemConserved'
    BY <2>2, <2>3, HoldersFinite DEF SemConserved
  <2> QED
    BY <1>1, <2>3, <2>4
<1>2. CASE SemGoto(t, from, again) /\ UNCHANGED count
  <2>1. SemHolders' = SemHolders
    BY <1>2 DEF SemHolders
  <2> QED
    BY <1>2, <2>1 DEF SemConserved
<1> QED
  BY <1>1, <1>2

\* sem_post by a task that holds a unit puts that unit back.
LEMMA SemPostStep == ASSUME SemInv, NEW t \in Tasks, sem_post(t) PROVE SemInv'
<1> USE DEF sem_post, SemGoto, SemInv, SemTypeOK
<1>1. SemHolders' = SemHolders \ {t} /\ t \in SemHolders
  BY DEF SemHolders
<1>2. Cardinality(SemHolders') = Cardinality(SemHolders) - 1
  BY <1>1, HoldersFinite, FS_RemoveElement
<1>3. SemConserved'
  BY <1>2, HoldersFinite DEF SemConserved, atomic_inc
<1> QED
  BY <1>3 DEF atomic_inc

\* SemInv is inductive.
LEMMA SemNextInv == SemInv /\ [SemNext]_SemVars => SemInv'
<1> SUFFICES ASSUME SemInv, [SemNext]_SemVars PROVE SemInv'
  OBVIOUS
<1>1. ASSUME NEW t \in Tasks, sem_wait(t) PROVE SemInv'
  <2>1. CASE SemGoto(t, "idle", "wait") /\ UNCHANGED <<count, sem_old>>
    <3>1. SemHolders' = SemHolders
      BY <2>1 DEF SemHolders, SemGoto, SemInv, SemTypeOK
    <3> QED
      BY <2>1, <3>1 DEF SemGoto, SemInv, SemTypeOK, SemConserved
  <2> QED
    BY <1>1, <2>1, SemReadStep, SemSwapStep DEF sem_wait
<1>2. ASSUME NEW t \in Tasks, sem_trywait(t) PROVE SemInv'
  BY <1>2, SemReadStep, SemSwapStep DEF sem_trywait
<1>3. CASE UNCHANGED SemVars
  BY <1>3 DEF SemVars, SemInv, SemTypeOK, SemConserved, SemHolders
<1> QED
  BY <1>1, <1>2, <1>3, SemPostStep DEF SemNext, SemStep

\* For every finite set of tasks and every initial count, no unit of the semaphore
\* is lost or handed out twice and the count never goes below zero.
THEOREM SemConservation == SemSpec => []SemConserved
<1>1. SemInv => SemConserved
  BY DEF SemInv
<1> QED
  BY <1>1, SemInitInv, SemNextInv, PTL DEF SemSpec

-----------------------------------------------------------------------------
\* All of them at once.
SyncInv == SLInv /\ RWInv /\ MXInv /\ SemInv /\ CVInv

\* A step of a task on one primitive leaves the others alone.
LEMMA SyncNextInv == SyncInv /\ [SyncNext]_SyncVars => SyncInv'
<1> SUFFICES ASSUME SyncInv, [SyncNext]_SyncVars PROVE SyncInv'
  OBVIOUS
<1>1. UNCHANGED SLVars => SLInv'
  BY DEF SyncInv, SLVars, SLInv, SLTypeOK, SpinExclusion
<1>2. UNCHANGED RWVars => RWInv'
  BY NextInv DEF SyncInv
<1>3. UNCHANGED MXVars => MXInv'
  BY DEF SyncInv, MXVars, MXInv, MXTypeOK, MXHolders, MutexOwned
<1>4. UNCHANGED SemVars => SemInv'
  BY SemNextInv DEF SyncInv
<1>5. UNCHANGED CVVars => CVInv'
  BY DEF SyncInv, CVVars, CVInv, CVTypeOK
<1>6. ASSUME NEW t \in Tasks, SyncStep(t) PROVE SyncInv'
  <2>1. SLStep(t) => SLInv'
    BY SLStepInv DEF SyncInv
  <2>2. RWStep(t) => RWInv'
    BY NextInv DEF SyncInv, RWNext
  <2>3. MXStep(t) => MXInv'
    BY MXStepInv DEF SyncInv
  <2>4. SemStep(t) => SemInv'
    BY SemNextInv DEF SyncInv, SemNext
  <2>5. CVStep(t) => CVInv'
    BY CVStepInv DEF SyncInv
  <2> QED
    BY <1>1, <1>2, <1>3, <1>4, <1>5, <1>6, <2>1, <2>2, <2>3, <2>4, <2>5 DEF SyncStep, SyncInv
<1> QED
  BY <1>1, <1>2, <1>3, <1>4, <1>5, <1>6 DEF SyncNext, SyncVars, SyncInv

\* Every behaviour of the primitives side by side satisfies all their invariants.
THEOREM SyncInvariant == SyncSpec => []SyncInv
<1>1. SyncInit => SyncInv
  BY SLInitInv, InitInv, MXInitInv, SemInitInv, CVInitInv DEF SyncInit, SyncInv
<1> QED
  BY <1>1, SyncNextInv, PTL DEF SyncSpec

\* For every finite set of tasks, one task at most is inside a spinlock.
THEOREM SpinExclusionHolds == SyncSpec => []SpinExclusion
<1>1. SyncInv => SpinExclusion
  BY DEF SyncInv, SLInv
<1> QED
  BY <1>1, SyncInvariant, PTL

\* For every finite set of tasks, one task at most holds the mutex, and no unlock
\* wipes the marker of the next holder.
THEOREM MutexIsOwned == SyncSpec => []MutexOwned
<1>1. SyncInv => MutexOwned
  BY DEF SyncInv, MXInv
<1> QED
  BY <1>1, SyncInvariant, PTL

\* For every finite set of tasks, a signal lets one waiter return and is not erased
\* by another.
THEOREM SignalIsConsumedOnce == SyncSpec => []SignalConsumedOnce
<1>1. SyncInv => SignalConsumedOnce
  BY CVInvConsumes DEF SyncInv
<1> QED
  BY <1>1, SyncInvariant, PTL
=============================================================================
