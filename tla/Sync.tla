-------------------------------- MODULE Sync --------------------------------
(***************************************************************************)
(* The synchronisation primitives of kernel/sync/sync.c side by side: one  *)
(* spinlock, one read-write lock, one mutex, one semaphore and one         *)
(* condition variable.  They share no memory, so what can go wrong with    *)
(* one of them goes wrong among tasks that all use that one: the tasks     *)
(* turn to another primitive together, once nobody uses the first.         *)
(***************************************************************************)
EXTENDS SpinLock, RWLock, Mutex, Semaphore, CondVar

SyncVars == <<SLVars, RWVars, MXVars, SemVars, CVVars>>

SyncInit == SLInit /\ rwlock_init /\ mutex_init /\ sem_init /\ condvar_init

\* The tasks that are using a primitive, given its program counters.
Engaged(pc) == {t \in Tasks : pc[t] # "idle"}

EngagedAny ==
    UNION {Engaged(sl_pc), Engaged(rw_pc), Engaged(mx_pc), Engaged(sem_pc), Engaged(cv_pc)}

Turn(pc) == EngagedAny = Engaged(pc)

SyncStep(t) ==
    \/ Turn(sl_pc)  /\ SLStep(t)  /\ UNCHANGED <<RWVars, MXVars, SemVars, CVVars>>
    \/ Turn(rw_pc)  /\ RWStep(t)  /\ UNCHANGED <<SLVars, MXVars, SemVars, CVVars>>
    \/ Turn(mx_pc)  /\ MXStep(t)  /\ UNCHANGED <<SLVars, RWVars, SemVars, CVVars>>
    \/ Turn(sem_pc) /\ SemStep(t) /\ UNCHANGED <<SLVars, RWVars, MXVars, CVVars>>
    \/ Turn(cv_pc)  /\ CVStep(t)  /\ UNCHANGED <<SLVars, RWVars, MXVars, SemVars>>

SyncNext == \E t \in Tasks : SyncStep(t)

\* A task goes on with what it started, and returns what it took.  A task that
\* tries the embedded spinlock of the read-write lock again and again while it is
\* free again and again gets it: without that, the retry loop of a writer can
\* keep the readers it waits for out of the spinlock forever.
RWGetsSpinlock(t) ==
    /\ rw_pc[t] \in RWSpinning
    /\ RWStep(t)
    /\ UNCHANGED <<SLVars, MXVars, SemVars, CVVars>>

SyncFairness ==
    \A t \in Tasks :
        /\ WF_SyncVars(t \in EngagedAny /\ SyncStep(t))
        /\ SF_SyncVars(RWGetsSpinlock(t))

SyncSpec == SyncInit /\ [][SyncNext]_SyncVars /\ SyncFairness
-----------------------------------------------------------------------------
SyncTypeOK == SLTypeOK /\ RWTypeOK /\ MXTypeOK /\ SemTypeOK /\ CVTypeOK

\* At most one task is between taking and releasing the spinlock.
SpinExclusion ==
    \A t, u \in Tasks : sl_pc[t] = "crit" /\ sl_pc[u] = "crit" => t = u

\* No unlock is lost: when tasks wait for a spinlock, a mutex or a semaphore, some
\* task gets it, whatever the order of the unlocks and of the failed attempts.
WaitersProgress ==
    /\ (\E t \in Tasks : sl_pc[t] = "spin") ~> (\E t \in Tasks : sl_pc[t] = "crit")
    /\ (\E t \in Tasks : mx_pc[t] = "spin") ~> (\E t \in Tasks : mx_pc[t] \in {"crit", "tried"})
    /\ (\E t \in Tasks : sem_pc[t] = "wait") ~> (\E t \in Tasks : sem_pc[t] = "got")

\* Readers and writers never all wait for one another: when a task waits in
\* read_lock or write_lock, some task gets in.
RWProgress ==
    (\E t \in Tasks : rw_pc[t] \in {"rl_spin", "wl_spin"})
        ~> (\E t \in Tasks : rw_pc[t] \in {"reading", "writing"})
=============================================================================
