------------------------------- MODULE Mutex -------------------------------
(***************************************************************************)
(* The mutex of kernel/sync/sync.c.  It never sleeps: mutex_lock spins on  *)
(* a compare-and-swap of the word `locked' and then stores a marker in     *)
(* `owner'; mutex_unlock clears the two in the opposite order, one store   *)
(* at a time.  mutex_trylock takes the word and leaves `owner' alone.      *)
(*                                                                         *)
(* mx_pc[t]: "spin" and "mark" belong to mutex_lock, "clear" is between    *)
(* the two stores of mutex_unlock; "crit" and "tried" hold the mutex after *)
(* mutex_lock and mutex_trylock.                                           *)
(***************************************************************************)
EXTENDS Atomic

VARIABLES locked,   \* mutex_t.locked
          owner,    \* mutex_t.owner: 0 is NULL, 1 the marker (void*)1
          mx_pc

MXVars == <<locked, owner, mx_pc>>

mutex_init ==
    /\ locked = 0
    /\ owner = 0
    /\ mx_pc = [t \in Tasks |-> "idle"]

MXGoto(t, from, to) ==
    /\ mx_pc[t] = from
    /\ mx_pc' = [mx_pc EXCEPT ![t] = to]

\* The fast path is the first turn of the slow path's loop.
mutex_lock(t) ==
    \/ MXGoto(t, "idle", "spin") /\ UNCHANGED <<locked, owner>>
    \/ /\ MXGoto(t, "spin", "mark")
       /\ atomic_compare_and_swap(locked, 0, 1)
       /\ UNCHANGED owner
    \/ MXGoto(t, "mark", "crit") /\ owner' = 1 /\ UNCHANGED locked

\* Mutant: the word is released before the owner is cleared.
mutex_unlock_word_first(t) ==
    \/ \E held \in {"crit", "tried"} :
          MXGoto(t, held, "clear") /\ locked' = 0 /\ UNCHANGED owner
    \/ MXGoto(t, "clear", "idle") /\ owner' = 0 /\ UNCHANGED locked

\* Mutant: the word is not released when the mutex was taken by mutex_trylock.
mutex_unlock_owned_only(t) ==
    \/ MXGoto(t, "crit", "clear") /\ owner' = 0 /\ UNCHANGED locked
    \/ MXGoto(t, "clear", "idle") /\ locked' = 0 /\ UNCHANGED owner
    \/ MXGoto(t, "tried", "idle") /\ UNCHANGED <<locked, owner>>

mutex_unlock(t) ==
    \/ \E held \in {"crit", "tried"} :
          MXGoto(t, held, "clear") /\ owner' = 0 /\ UNCHANGED locked
    \/ MXGoto(t, "clear", "idle") /\ locked' = 0 /\ UNCHANGED owner

mutex_trylock(t) ==
    /\ MXGoto(t, "idle", "tried")
    /\ atomic_compare_and_swap(locked, 0, 1)
    /\ UNCHANGED owner

MXStep(t) == mutex_lock(t) \/ mutex_unlock(t) \/ mutex_trylock(t)
-----------------------------------------------------------------------------
MXTypeOK ==
    /\ locked \in {0, 1}
    /\ owner \in {0, 1}
    /\ mx_pc \in [Tasks -> {"idle", "spin", "mark", "crit", "tried", "clear"}]

MXHolders == {t \in Tasks : mx_pc[t] \in {"mark", "crit", "tried", "clear"}}

\* One task at most is between taking and releasing the mutex, and while a task
\* that entered by mutex_lock is in its critical section the owner marker is set:
\* no unlock by the previous holder wipes the marker of the next one.
MutexOwned ==
    /\ \A t, u \in MXHolders : t = u
    /\ \A t \in Tasks : mx_pc[t] = "crit" => owner = 1
=============================================================================
