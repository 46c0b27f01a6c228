------------------------------ MODULE CondVar ------------------------------
(***************************************************************************)
(* The condition variable of kernel/sync/sync.c: one flag guarded by a     *)
(* spinlock.  A waiter polls the flag and consumes it; a signal sent when  *)
(* nobody waits stays set for the next waiter.  condvar_broadcast has the  *)
(* body of condvar_signal.                                                 *)
(*                                                                         *)
(* cv_pc[t]: labels w_ belong to condvar_wait_spin, s_ to condvar_signal   *)
(* and b_ to condvar_broadcast.                                            *)
(***************************************************************************)
EXTENDS Atomic

VARIABLES signaled, \* condvar_t.signaled
          cv_lock,  \* condvar_t.lock
          cv_pc

CVVars == <<signaled, cv_lock, cv_pc>>

condvar_init ==
    /\ signaled = 0
    /\ cv_lock = 0
    /\ cv_pc = [t \in Tasks |-> "idle"]

CVGoto(t, from, to) ==
    /\ cv_pc[t] = from
    /\ cv_pc' = [cv_pc EXCEPT ![t] = to]

CVAcquire(t, from, to) ==
    CVGoto(t, from, to) /\ spin_lock(cv_lock) /\ UNCHANGED signaled

CVRelease(t, from, to) ==
    CVGoto(t, from, to) /\ spin_unlock(cv_lock) /\ UNCHANGED signaled

CVSet(t, from, to, s) ==
    CVGoto(t, from, to) /\ signaled' = s /\ UNCHANGED cv_lock

CVEnter(t, to) == CVGoto(t, "idle", to) /\ UNCHANGED <<signaled, cv_lock>>

\* Mutant: the flag is consumed after the lock was released.
condvar_wait_spin_late(t) ==
    \/ CVEnter(t, "w_spin")
    \/ CVAcquire(t, "w_spin", "w_test")
    \/ signaled = 0 /\ CVGoto(t, "w_test", "w_retry") /\ UNCHANGED <<signaled, cv_lock>>
    \/ CVRelease(t, "w_retry", "w_spin")
    \/ signaled # 0 /\ CVGoto(t, "w_test", "w_unlock") /\ UNCHANGED <<signaled, cv_lock>>
    \/ CVRelease(t, "w_unlock", "w_clear")
    \/ CVSet(t, "w_clear", "idle", 0)

condvar_wait_spin(t) ==
    \/ CVEnter(t, "w_spin")
    \/ CVAcquire(t, "w_spin", "w_test")
    \/ signaled = 0 /\ CVGoto(t, "w_test", "w_retry") /\ UNCHANGED <<signaled, cv_lock>>
    \/ CVRelease(t, "w_retry", "w_spin")
    \/ signaled # 0 /\ CVGoto(t, "w_test", "w_clear") /\ UNCHANGED <<signaled, cv_lock>>
    \/ CVSet(t, "w_clear", "w_unlock", 0)
    \/ CVRelease(t, "w_unlock", "idle")

condvar_signal(t) ==
    \/ CVEnter(t, "s_spin")
    \/ CVAcquire(t, "s_spin", "s_set")
    \/ CVSet(t, "s_set", "s_unlock", 1)
    \/ CVRelease(t, "s_unlock", "idle")

condvar_broadcast(t) ==
    \/ CVEnter(t, "b_spin")
    \/ CVAcquire(t, "b_spin", "b_set")
    \/ CVSet(t, "b_set", "b_unlock", 1)
    \/ CVRelease(t, "b_unlock", "idle")

CVStep(t) == condvar_wait_spin(t) \/ condvar_signal(t) \/ condvar_broadcast(t)

CVWaiting == {t \in Tasks : cv_pc[t] \in {"w_spin", "w_test", "w_retry"}}
-----------------------------------------------------------------------------
CVTypeOK ==
    /\ signaled \in {0, 1}
    /\ cv_lock \in {0, 1}
    /\ cv_pc \in [Tasks -> {"idle", "w_spin", "w_test", "w_retry", "w_clear", "w_unlock",
                            "s_spin", "s_set", "s_unlock", "b_spin", "b_set", "b_unlock"}]

\* A waiter that saw the flag consumes a flag that is still set: one signal never
\* lets two waiters return, and no signal stored in between is erased unseen.
SignalConsumedOnce ==
    /\ \A t \in Tasks : cv_pc[t] = "w_clear" => signaled = 1
    /\ \A t, u \in Tasks : cv_pc[t] = "w_clear" /\ cv_pc[u] \in {"w_clear", "s_set", "b_set"} => t = u

\* sync.h says of condvar_broadcast "Signal all waiting threads": a task that is
\* waiting when a broadcast sets the flag stops waiting.
BroadcastWakesAll ==
    \A t \in Tasks :
        (t \in CVWaiting /\ \E u \in Tasks : cv_pc[u] = "b_set") ~> t \notin CVWaiting
-----------------------------------------------------------------------------
\* For the liveness of the condition variable alone: every task goes on with a
\* call it has started, and a task that tries the spinlock again and again while
\* it is free again and again gets it.
CVFairness ==
    \A t \in Tasks :
        /\ WF_CVVars(cv_pc[t] # "idle" /\ CVStep(t))
        /\ \A from \in {"w_spin", "s_spin", "b_spin"} :
              SF_CVVars(\E to \in {"w_test", "s_set", "b_set"} :
                            cv_pc[t] = from /\ CVStep(t) /\ cv_pc'[t] = to)

CVNext == \E t \in Tasks : CVStep(t)

CVSpec == condvar_init /\ [][CVNext]_CVVars /\ CVFairness
=============================================================================
