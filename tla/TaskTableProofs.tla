-------------------------- MODULE TaskTableProofs --------------------------
(***************************************************************************)
(* The PID allocator and the tables that use it, for every number of PIDs, *)
(* slots, tasks and wait queues.                                           *)
(***************************************************************************)
EXTENDS TaskTable, BaseLemmas, TLAPS

Allocators == [bitmap : SUBSET (Pids \cup {0}), next_pid : Pids]

\* The inductive invariant: only tasks that have a PID are in the process table, and
\* each is in one slot.
PidInv ==
    /\ pid_alloc \in Allocators
    /\ tasks \in [0 .. (MAX_PROCESSES - 1) -> Threads \cup {Idle, NULL}]
    /\ pid \in [Threads -> Pids \cup {0}]
    /\ state \in [Threads \cup {Idle} -> {"new", "ready", "running", "blocked", "zombie"}]
    /\ gone \subseteq Threads
    /\ \A t \in gone : state[t] # "new"
    /\ \A i \in DOMAIN tasks : tasks[i] \in Threads => tasks[i] \in Owners
    /\ \A i, j \in DOMAIN tasks : tasks[i] \in Threads /\ tasks[i] = tasks[j] => i = j
    /\ \A t \in Owners : pid[t] \in Pids
    /\ PidsOwned

\* The cursor stays among the PIDs.
LEMMA CursorIsPid ==
  ASSUME NEW a \in Allocators, NEW k \in Nat
  PROVE  Cursor(a, k) \in Pids
<1> DEFINE m == MAX_PROCESSES - 1
<1>1. m \in Nat \ {0} /\ a.next_pid \in 1 .. m
  BY TaskTableAssumption DEF Allocators, Pids
<1>2. a.next_pid - 1 + k \in Nat
  BY <1>1
<1>3. (a.next_pid - 1 + k) % m \in 0 .. (m - 1)
  BY <1>1, <1>2
<1> QED
  BY <1>1, <1>3 DEF Cursor, Pids

\* After as many turns as there are PIDs the cursor is back, and not before; and it
\* has met every PID by then.
LEMMA CursorTurns ==
  ASSUME NEW a \in Allocators
  PROVE  /\ Cursor(a, MAX_PROCESSES - 1) = a.next_pid
         /\ \A k \in 1 .. (MAX_PROCESSES - 2) : Cursor(a, k) # a.next_pid
         /\ \A p \in Pids : \E k \in 0 .. (MAX_PROCESSES - 2) : Cursor(a, k) = p
<1> DEFINE m == MAX_PROCESSES - 1
           x == a.next_pid - 1
<1>1. m \in Nat \ {0} /\ x \in 0 .. (m - 1) /\ a.next_pid = x + 1
  BY TaskTableAssumption DEF Allocators, Pids
<1>2. \A k : Cursor(a, k) = ((x + k) % m) + 1
  BY DEF Cursor
<1>3. MAX_PROCESSES - 2 = m - 1 /\ Pids = 1 .. m
  BY TaskTableAssumption DEF Pids
<1> HIDE DEF m, x
<1>4. \A y \in 0 .. (m - 1) : y % m = y /\ (y + m) % m = y
  BY <1>1
<1>5. Cursor(a, m) = a.next_pid
  BY <1>1, <1>2, <1>4
<1>6. ASSUME NEW k \in 1 .. (m - 1) PROVE Cursor(a, k) # a.next_pid
  <2>1. CASE x + k < m
    BY <1>1, <1>2, <1>4, <2>1
  <2>2. CASE x + k >= m
    <3>1. x + k - m \in 0 .. (m - 1) /\ (x + k - m) + m = x + k
      BY <1>1, <2>2
    <3>2. (x + k) % m = x + k - m
      BY <1>4, <3>1
    <3> QED
      BY <1>1, <1>2, <3>2
  <2> QED
    BY <1>1, <2>1, <2>2
<1>7. ASSUME NEW p \in 1 .. m PROVE \E k \in 0 .. (m - 1) : Cursor(a, k) = p
  <2>1. CASE p - 1 >= x
    <3>1. p - 1 - x \in 0 .. (m - 1) /\ x + (p - 1 - x) = p - 1 /\ p - 1 \in 0 .. (m - 1)
      BY <1>1, <2>1
    <3>2. Cursor(a, p - 1 - x) = p
      BY <1>2, <1>4, <3>1
    <3> QED
      BY <3>1, <3>2
  <2>2. CASE p - 1 < x
    <3>1. /\ p - 1 - x + m \in 0 .. (m - 1)
          /\ x + (p - 1 - x + m) = (p - 1) + m
          /\ p - 1 \in 0 .. (m - 1)
      BY <1>1, <2>2
    <3>2. Cursor(a, p - 1 - x + m) = p
      BY <1>2, <1>4, <3>1
    <3> QED
      BY <3>1, <3>2
  <2> QED
    BY <1>1, <2>1, <2>2
<1> QED
  BY <1>3, <1>5, <1>6, <1>7 DEF m

\* What alloc_pid returns: a PID that was not in use and is marked now, or -1 and an
\* unchanged bitmap, the latter only when every PID is in use.
LEMMA AllocPid ==
  ASSUME NEW a \in Allocators
  PROVE  /\ alloc_pid(a).alloc \in Allocators
         /\ \/ /\ alloc_pid(a).pid \in Pids
               /\ alloc_pid(a).pid \notin a.bitmap
               /\ alloc_pid(a).alloc.bitmap = a.bitmap \cup {alloc_pid(a).pid}
            \/ /\ alloc_pid(a).pid = -1
               /\ alloc_pid(a).alloc.bitmap = a.bitmap
               /\ Pids \subseteq a.bitmap
<1> DEFINE free(k) == Cursor(a, k) \notin a.bitmap
           ends == {k \in 0 .. (MAX_PROCESSES - 1) : free(k) \/ Cursor(a, k + 1) = a.next_pid}
           last == CHOOSE k \in ends : \A j \in ends : k <= j
<1>1. MAX_PROCESSES - 2 \in ends
  <2>1. MAX_PROCESSES - 2 \in 0 .. (MAX_PROCESSES - 1) /\ MAX_PROCESSES - 2 + 1 = MAX_PROCESSES - 1
    BY TaskTableAssumption
  <2> QED
    BY <2>1, CursorTurns
<1>2. last \in ends /\ \A j \in ends : last <= j
  <2>1. ends \in SUBSET Nat /\ ends # {}
    BY <1>1, TaskTableAssumption
  <2>2. \E k \in ends : \A j \in ends : k <= j
    BY <2>1, LeastElement
  <2> QED
    BY <2>2
<1>3. alloc_pid(a) = [pid |-> IF free(last) THEN Cursor(a, last) ELSE -1,
                      alloc |-> [bitmap |-> IF free(last) THEN a.bitmap \cup {Cursor(a, last)} ELSE a.bitmap,
                                 next_pid |-> Cursor(a, last + 1)]]
  BY DEF alloc_pid
<1>4. last \in Nat /\ last + 1 \in Nat
  BY <1>2, TaskTableAssumption
<1> HIDE DEF last
<1>5. Cursor(a, last) \in Pids /\ Cursor(a, last + 1) \in Pids
  BY <1>4, CursorIsPid
<1>6. ASSUME ~ free(last), NEW p \in Pids PROVE p \in a.bitmap
  <2>1. Cursor(a, last + 1) = a.next_pid
    BY <1>2, <1>6
  <2>2. last + 1 \notin 1 .. (MAX_PROCESSES - 2)
    BY <2>1, CursorTurns
  <2>3. last >= MAX_PROCESSES - 2
    BY <1>4, <2>2, TaskTableAssumption
  <2>4. PICK k \in 0 .. (MAX_PROCESSES - 2) : Cursor(a, k) = p
    BY CursorTurns
  <2>5. CASE k = last
    BY <1>6, <2>4, <2>5
  <2>6. CASE k # last
    <3>1. k < last /\ k \in 0 .. (MAX_PROCESSES - 1)
      BY <1>4, <2>3, <2>6, TaskTableAssumption
    <3>2. k \notin ends
      BY <1>2, <1>4, <3>1, TaskTableAssumption
    <3> QED
      BY <2>4, <3>1, <3>2
  <2> QED
    BY <2>5, <2>6
<1>7. a.bitmap \in SUBSET (Pids \cup {0})
  BY DEF Allocators
<1> HIDE DEF ends
<1>8. CASE free(last)
  BY <1>3, <1>5, <1>7, <1>8 DEF Allocators
<1>9. CASE ~ free(last)
  BY <1>3, <1>5, <1>6, <1>7, <1>9 DEF Allocators
<1> QED
  BY <1>8, <1>9

\* What free_pid returns.
LEMMA FreePid ==
  ASSUME NEW a \in Allocators, NEW p \in Int
  PROVE  /\ free_pid(a, p) \in Allocators
         /\ free_pid(a, p).bitmap = a.bitmap \ ({p} \cap Pids)
<1> USE DEF free_pid, Allocators
<1>1. CASE p \in Pids
  <2>1. free_pid(a, p) = [bitmap |-> a.bitmap \ {p},
                          next_pid |-> IF p < a.next_pid THEN p ELSE a.next_pid]
    BY <1>1
  <2> QED
    BY <1>1, <2>1
<1>2. CASE p \notin Pids
  BY <1>2
<1> QED
  BY <1>1, <1>2

\* A failed creation leaves the bitmap as it was.
LEMMA AllocThenFree ==
  ASSUME NEW a \in Allocators
  PROVE  /\ free_pid(alloc_pid(a).alloc, alloc_pid(a).pid) \in Allocators
         /\ free_pid(alloc_pid(a).alloc, alloc_pid(a).pid).bitmap = a.bitmap
<1> DEFINE p == alloc_pid(a).pid
           b == alloc_pid(a).alloc
<1>1. /\ b \in Allocators
      /\ \/ p \in Pids /\ p \notin a.bitmap /\ b.bitmap = a.bitmap \cup {p}
         \/ p = -1 /\ b.bitmap = a.bitmap
  BY AllocPid
<1> HIDE DEF p, b
<1>2. p \in Int /\ -1 \notin Pids
  BY <1>1, TaskTableAssumption DEF Pids
<1>3. free_pid(b, p) \in Allocators /\ free_pid(b, p).bitmap = b.bitmap \ ({p} \cap Pids)
  BY <1>1, <1>2, FreePid
<1>4. free_pid(b, p).bitmap = a.bitmap
  BY <1>1, <1>2, <1>3
<1> QED
  BY <1>3, <1>4 DEF p, b

LEMMA PidInitInv == process_init => PidInv
<1> SUFFICES ASSUME process_init PROVE PidInv
  OBVIOUS
<1> USE TaskTableAssumption DEF process_init
<1>1. pid_alloc \in Allocators
  BY DEF Allocators, Pids
<1>2. Owners = {}
  BY DEF Owners
<1>3. tasks \in [0 .. (MAX_PROCESSES - 1) -> Threads \cup {Idle, NULL}]
  OBVIOUS
<1>4. \A i \in DOMAIN tasks : tasks[i] \notin Threads
  OBVIOUS
<1>5. state \in [Threads \cup {Idle} -> {"new", "ready", "running", "blocked", "zombie"}]
  OBVIOUS
<1>6. PidsOwned
  BY <1>2 DEF PidsOwned
<1> QED
  BY <1>1, <1>2, <1>3, <1>4, <1>5, <1>6 DEF PidInv

\* The steps that give t a PID, whichever table it goes to.
LEMMA GainPid ==
  ASSUME PidInv, NEW t \in Threads, state[t] = "new", NEW p \in Pids,
         p \notin pid_alloc.bitmap,
         pid_alloc' \in Allocators, pid_alloc'.bitmap = pid_alloc.bitmap \cup {p},
         pid' = [pid EXCEPT ![t] = p], state' = [state EXCEPT ![t] = "ready"],
         gone' = gone,
         \/ tasks' = tasks
         \/ \E s : tasks' = [tasks EXCEPT ![s] = t]
  PROVE  PidInv'
<1> USE DEF PidInv
<1>1. t \notin Owners /\ t \notin gone /\ t # Idle
  BY TaskTableAssumption DEF Owners
<1>2. Owners' = Owners \cup {t}
  BY <1>1 DEF Owners
<1>3. \A u \in Owners : pid'[u] = pid[u] /\ pid[u] # p
  BY <1>1 DEF Owners, PidsOwned
<1>4. pid'[t] = p
  OBVIOUS
<1>5. PidsOwned'
  <2>1. \A u, v \in Owners' : pid'[u] = pid'[v] => u = v
    BY <1>2, <1>3, <1>4 DEF PidsOwned
  <2>2. {pid'[u] : u \in Owners'} = {pid[u] : u \in Owners} \cup {p}
    BY <1>2, <1>3, <1>4
  <2> QED
    BY <2>1, <2>2 DEF PidsOwned
<1>6. tasks' \in [0 .. (MAX_PROCESSES - 1) -> Threads \cup {Idle, NULL}]
  OBVIOUS
<1>7. \A i \in DOMAIN tasks' : tasks'[i] = t \/ tasks'[i] = tasks[i]
  OBVIOUS
<1>8. \A i \in DOMAIN tasks : tasks[i] # t
  BY <1>1
<1>9. \A i, j \in DOMAIN tasks' : tasks'[i] \in Threads /\ tasks'[i] = tasks'[j] => i = j
  <2>1. CASE tasks' = tasks
    BY <2>1
  <2>2. ASSUME NEW s, tasks' = [tasks EXCEPT ![s] = t]
        PROVE  \A i, j \in DOMAIN tasks' : tasks'[i] \in Threads /\ tasks'[i] = tasks'[j] => i = j
    BY <1>8, <2>2
  <2> QED
    BY <2>1, <2>2
<1>10. \A u \in Owners' : pid'[u] \in Pids
  BY <1>2, <1>3, <1>4
<1>11. \A i \in DOMAIN tasks' : tasks'[i] \in Threads => tasks'[i] \in Owners'
  BY <1>2, <1>6, <1>7
<1>12. /\ pid' \in [Threads -> Pids \cup {0}]
       /\ state' \in [Threads \cup {Idle} -> {"new", "ready", "running", "blocked", "zombie"}]
       /\ \A u \in gone' : state'[u] # "new"
  BY <1>1
<1> QED
  BY <1>5, <1>6, <1>9, <1>10, <1>11, <1>12

\* The steps that leave PIDs, tables and the set of created tasks alone.
LEMMA KeepPid ==
  ASSUME PidInv,
         pid_alloc' \in Allocators, pid_alloc'.bitmap = pid_alloc.bitmap,
         pid' = pid, gone' = gone, tasks' = tasks,
         state' \in [Threads \cup {Idle} -> {"new", "ready", "running", "blocked", "zombie"}],
         \A t \in Threads \cup gone : state'[t] = "new" <=> state[t] = "new"
  PROVE  PidInv'
<1>1. Owners' = Owners
  BY DEF Owners
<1>2. PidsOwned'
  BY <1>1 DEF PidsOwned, PidInv
<1> QED
  BY <1>1, <1>2 DEF PidInv

LEMMA NewTaskInv ==
  ASSUME PidInv, NEW t \in Threads, NewTask(t)
  PROVE  PidInv'
<1> DEFINE got == alloc_pid(pid_alloc)
<1>1. pid_alloc \in Allocators
  BY DEF PidInv
<1>2. /\ got.alloc \in Allocators
      /\ \/ /\ got.pid \in Pids /\ got.pid \notin pid_alloc.bitmap
            /\ got.alloc.bitmap = pid_alloc.bitmap \cup {got.pid}
         \/ got.pid = -1
  BY <1>1, AllocPid
<1>3. /\ free_pid(got.alloc, got.pid) \in Allocators
      /\ free_pid(got.alloc, got.pid).bitmap = pid_alloc.bitmap
  BY <1>1, AllocThenFree
<1>4. state[t] = "new" /\ gone' = gone
  BY DEF NewTask
<1>5. CASE got.pid < 0 \/ Full(tasks)
  <2>1. /\ pid_alloc' = free_pid(got.alloc, got.pid)
        /\ tasks' = tasks /\ pid' = pid /\ state' = state
    BY <1>5 DEF NewTask
  <2>2. state' \in [Threads \cup {Idle} -> {"new", "ready", "running", "blocked", "zombie"}]
    BY <2>1 DEF PidInv
  <2> HIDE DEF got
  <2> QED
    BY <1>3, <1>4, <2>1, <2>2, KeepPid
<1>6. CASE ~ (got.pid < 0 \/ Full(tasks))
  <2>1. /\ pid_alloc' = got.alloc
        /\ tasks' = [tasks EXCEPT ![FirstNull(tasks)] = t]
        /\ pid' = [pid EXCEPT ![t] = got.pid]
        /\ state' = [state EXCEPT ![t] = "ready"]
    BY <1>6 DEF NewTask
  <2> HIDE DEF got
  <2>2. got.pid # -1
    BY <1>6
  <2>3. \E s : tasks' = [tasks EXCEPT ![s] = t]
    BY <2>1
  <2> QED
    BY <1>2, <1>4, <2>1, <2>2, <2>3, GainPid
<1> QED
  BY <1>5, <1>6

LEMMA UserProcessInv ==
  ASSUME PidInv, NEW t \in Threads, NEW fails \in BOOLEAN, create_user_process_from_binary(t, fails)
  PROVE  PidInv'
<1> DEFINE got == alloc_pid(pid_alloc)
<1>1. pid_alloc \in Allocators
  BY DEF PidInv
<1>2. /\ got.alloc \in Allocators
      /\ \/ /\ got.pid \in Pids /\ got.pid \notin pid_alloc.bitmap
            /\ got.alloc.bitmap = pid_alloc.bitmap \cup {got.pid}
         \/ got.pid = -1
  BY <1>1, AllocPid
<1>3. /\ free_pid(got.alloc, got.pid) \in Allocators
      /\ free_pid(got.alloc, got.pid).bitmap = pid_alloc.bitmap
  BY <1>1, AllocThenFree
<1>4. state[t] = "new" /\ gone' = gone /\ tasks' = tasks
  BY DEF create_user_process_from_binary
<1>5. CASE got.pid < 0 \/ fails
  <2>1. /\ pid_alloc' = free_pid(got.alloc, got.pid)
        /\ pid' = pid /\ state' = state
    BY <1>5 DEF create_user_process_from_binary
  <2>2. state' \in [Threads \cup {Idle} -> {"new", "ready", "running", "blocked", "zombie"}]
    BY <2>1 DEF PidInv
  <2> HIDE DEF got
  <2> QED
    BY <1>3, <1>4, <2>1, <2>2, KeepPid
<1>6. CASE ~ (got.pid < 0 \/ fails)
  <2>1. /\ pid_alloc' = got.alloc
        /\ pid' = [pid EXCEPT ![t] = got.pid]
        /\ state' = [state EXCEPT ![t] = "ready"]
    BY <1>6 DEF create_user_process_from_binary
  <2> HIDE DEF got
  <2>2. got.pid # -1
    BY <1>6
  <2> QED
    BY <1>2, <1>4, <2>1, <2>2, GainPid
<1> QED
  BY <1>5, <1>6

LEMMA RemoveTaskInv ==
  ASSUME PidInv, NEW t \in Threads, remove_task(t)
  PROVE  PidInv'
<1>1. PICK i \in DOMAIN tasks :
        /\ tasks[i] = t
        /\ tasks' = [tasks EXCEPT ![i] = NULL]
        /\ pid_alloc' = free_pid(pid_alloc, pid[t])
        /\ gone' = gone \cup {t}
        /\ pid' = pid /\ state' = state
  BY DEF remove_task
<1> USE DEF PidInv
<1>2. t \in Owners /\ pid[t] \in Pids
  BY <1>1
<1>3. Owners' = Owners \ {t}
  BY <1>1 DEF Owners
<1>4. pid[t] \in Int /\ pid[t] # 0
  BY <1>2, TaskTableAssumption DEF Pids
<1>5. pid_alloc' \in Allocators /\ pid_alloc'.bitmap = pid_alloc.bitmap \ {pid[t]}
  BY <1>1, <1>2, <1>4, FreePid
<1>6. PidsOwned'
  <2>1. \A u, v \in Owners' : pid'[u] = pid'[v] => u = v
    BY <1>1, <1>3 DEF PidsOwned
  <2>2. \A u \in Owners : pid[u] = pid[t] => u = t
    BY <1>2 DEF PidsOwned
  <2>3. {pid'[u] : u \in Owners'} = {pid[u] : u \in Owners} \ {pid[t]}
    BY <1>1, <1>3, <2>2
  <2> QED
    BY <1>4, <1>5, <2>1, <2>3 DEF PidsOwned
<1>7. /\ tasks' \in [0 .. (MAX_PROCESSES - 1) -> Threads \cup {Idle, NULL}]
      /\ tasks'[i] = NULL /\ NULL \notin Threads
      /\ \A j \in DOMAIN tasks' : j # i => tasks'[j] = tasks[j] /\ tasks[j] # t
  BY <1>1, TaskTableAssumption
<1>8. \A j \in DOMAIN tasks' : tasks'[j] \in Threads => tasks'[j] \in Owners'
  BY <1>3, <1>7
<1>9. \A j, k \in DOMAIN tasks' : tasks'[j] \in Threads /\ tasks'[j] = tasks'[k] => j = k
  BY <1>7
<1>10. \A u \in gone' : state'[u] # "new"
  BY <1>1, <1>2 DEF Owners
<1>11. \A u \in Owners' : pid'[u] \in Pids
  BY <1>1, <1>3
<1> QED
  BY <1>1, <1>5, <1>6, <1>7, <1>8, <1>9, <1>10, <1>11

LEMMA DoExitInv ==
  ASSUME PidInv, do_exit
  PROVE  PidInv'
<1>1. PICK i \in DOMAIN tasks :
        /\ tasks[i] = Idle
        /\ tasks' = [tasks EXCEPT ![i] = NULL]
        /\ state' = [state EXCEPT ![Idle] = "zombie"]
        /\ pid_alloc' = pid_alloc /\ pid' = pid /\ gone' = gone
  BY DEF do_exit
<1> USE DEF PidInv
<1>2. \A t \in Threads \cup gone : state'[t] = state[t] \/ (state'[t] = "zombie" /\ t = Idle)
  BY <1>1
<1>3. Owners' = Owners
  BY <1>1, <1>2, TaskTableAssumption DEF Owners
<1>4. PidsOwned'
  BY <1>1, <1>3 DEF PidsOwned
<1>5. /\ tasks' \in [0 .. (MAX_PROCESSES - 1) -> Threads \cup {Idle, NULL}]
      /\ \A j \in DOMAIN tasks' : tasks'[j] \in Threads => tasks'[j] = tasks[j] /\ j # i
  BY <1>1, TaskTableAssumption
<1>6. /\ state' \in [Threads \cup {Idle} -> {"new", "ready", "running", "blocked", "zombie"}]
      /\ \A u \in gone' : state'[u] # "new"
  BY <1>1, <1>2
<1>7. \A j, k \in DOMAIN tasks' : tasks'[j] \in Threads /\ tasks'[j] = tasks'[k] => j = k
  BY <1>5
<1> QED
  BY <1>1, <1>3, <1>4, <1>5, <1>6, <1>7

LEMMA ExitUserProcessInv ==
  ASSUME PidInv, exit_user_process
  PROVE  PidInv'
<1> USE DEF PidInv
<1>1. /\ state' = [state EXCEPT ![Idle] = "zombie"]
      /\ pid_alloc' = pid_alloc /\ pid' = pid /\ gone' = gone /\ tasks' = tasks
  BY DEF exit_user_process, PidVars
<1>2. state' \in [Threads \cup {Idle} -> {"new", "ready", "running", "blocked", "zombie"}]
  BY <1>1
<1>3. \A t \in Threads \cup gone : state'[t] = state[t]
  BY <1>1, TaskTableAssumption
<1> QED
  BY <1>1, <1>2, <1>3, KeepPid

\* Waiting and waking change states of created tasks only.
LEMMA WaitingInv ==
  ASSUME PidInv, UNCHANGED PidVars,
         \/ \E t \in Waiters, q \in Queues, entry \in BOOLEAN : add_to_wait_queue(q, t, entry)
         \/ \E q \in Queues : wake_up(q)
         \/ \E t \in Threads : wake_up_process(t)
  PROVE  PidInv'
<1> DEFINE States == {"new", "ready", "running", "blocked", "zombie"}
<1>1. state \in [Threads \cup {Idle} -> States] /\ Waiters \subseteq Threads
  BY TaskTableAssumption DEF PidInv
<1>2. /\ state' \in [Threads \cup {Idle} -> States]
      /\ \A t \in DOMAIN state : state'[t] = state[t] \/ (state[t] # "new" /\ state'[t] # "new")
  <2>1. ASSUME NEW t \in Waiters, NEW q \in Queues, NEW entry \in BOOLEAN, add_to_wait_queue(q, t, entry)
        PROVE  <1>2
    BY <1>1, <2>1 DEF add_to_wait_queue
  <2>2. ASSUME NEW q \in Queues, wake_up(q) PROVE <1>2
    <3>1. state' = [t \in DOMAIN state |->
                      IF \E i \in Woken(q) : wq[q][i] = t THEN "ready" ELSE state[t]]
      BY <2>2 DEF wake_up
    <3>2. \A i \in Woken(q) : state[wq[q][i]] = "blocked"
      BY DEF Woken
    <3> QED
      BY <1>1, <3>1, <3>2
  <2>3. ASSUME NEW t \in Threads, wake_up_process(t) PROVE <1>2
    BY <1>1, <2>3 DEF wake_up_process
  <2> QED
    BY <2>1, <2>2, <2>3
<1>3. /\ pid_alloc' = pid_alloc /\ pid' = pid /\ gone' = gone /\ tasks' = tasks
      /\ pid_alloc \in Allocators /\ gone \subseteq Threads
  BY DEF PidVars, PidInv
<1>4. \A t \in Threads \cup gone : state'[t] = "new" <=> state[t] = "new"
  BY <1>1, <1>2, <1>3
<1> QED
  BY <1>2, <1>3, <1>4, KeepPid

LEMMA PidNextInv ==
  ASSUME PidInv, [TaskNext]_vars
  PROVE  PidInv'
<1>1. ASSUME NEW t \in Threads, kernel_thread(t) \/ copy_process(t) PROVE PidInv'
  BY <1>1, NewTaskInv DEF kernel_thread, copy_process
<1>2. ASSUME NEW t \in Threads, remove_task(t) PROVE PidInv'
  BY <1>2, RemoveTaskInv
<1>3. ASSUME NEW t \in Threads, wake_up_process(t) PROVE PidInv'
  <2>1. UNCHANGED PidVars
    BY <1>3 DEF wake_up_process
  <2> QED
    BY <1>3, <2>1, WaitingInv
<1>4. ASSUME NEW t \in Threads, NEW fails \in BOOLEAN, create_user_process_from_binary(t, fails) PROVE PidInv'
  BY <1>4, UserProcessInv
<1>5. ASSUME do_exit PROVE PidInv'
  BY <1>5, DoExitInv
<1>6. ASSUME NEW t \in Waiters, NEW q \in Queues, NEW entry \in BOOLEAN, add_to_wait_queue(q, t, entry)
      PROVE  PidInv'
  <2>1. UNCHANGED PidVars
    BY <1>6 DEF add_to_wait_queue
  <2> QED
    BY <1>6, <2>1, WaitingInv
<1>7. ASSUME NEW q \in Queues, wake_up(q) PROVE PidInv'
  <2>1. UNCHANGED PidVars
    BY <1>7 DEF wake_up
  <2> QED
    BY <1>7, <2>1, WaitingInv
<1>8. ASSUME UNCHANGED vars PROVE PidInv'
  BY <1>8 DEF vars, PidVars, PidInv, PidsOwned, Owners
<1>9. ASSUME exit_user_process PROVE PidInv'
  BY <1>9, ExitUserProcessInv
<1> QED
  BY <1>1, <1>2, <1>3, <1>4, <1>5, <1>6, <1>7, <1>8, <1>9 DEF TaskNext

\* The inductive invariant of the PID allocator and its users.
THEOREM PidInvariant == TaskSpec => []PidInv
<1>1. PidInv /\ [TaskNext]_vars => PidInv'
  BY PidNextInv
<1> QED
  BY <1>1, PidInitInv, PTL DEF TaskSpec

\* No two tasks created by kernel_thread, copy_process or spawn_user_process have one
\* PID, and the bitmap of pid_alloc marks exactly the PIDs of tasks that exist.
THEOREM PidsAreOwned == TaskSpec => []PidsOwned
<1>1. PidInv => PidsOwned
  BY DEF PidInv
<1> QED
  BY <1>1, PidInvariant, PTL

\* alloc_pid fails only when every PID is in use, wherever next_pid was left.
THEOREM AllocPidIsComplete == TaskSpec => []AllocPidComplete
<1>1. PidInv => AllocPidComplete
  <2>1. ASSUME PidInv PROVE AllocPidComplete
    <3>1. pid_alloc \in Allocators /\ -1 \notin Pids
      BY <2>1, TaskTableAssumption DEF PidInv, Pids
    <3> QED
      BY <3>1, AllocPid DEF AllocPidComplete
  <2> QED
    BY <2>1
<1> QED
  BY <1>1, PidInvariant, PTL
-----------------------------------------------------------------------------
(***************************************************************************)
(* The slots of the process table, and the wait queues.                    *)
(***************************************************************************)

Used == {i \in DOMAIN tasks : tasks[i] # NULL}

\* num_tasks counts the slots in use, and the idle task is in one slot at most.
SlotInv ==
    /\ num_tasks = Cardinality(Used)
    /\ \A i, j \in DOMAIN tasks : tasks[i] = Idle /\ tasks[j] = Idle => i = j

\* A blocked task waits for a queue, and has an entry in it.
WaitInv ==
    /\ wait_queue \in [Threads -> Queues \cup {NULL}]
    /\ wq \in [Queues -> Seq(Threads)]
    /\ \A t \in Threads : state[t] = "blocked" =>
          /\ wait_queue[t] \in Queues
          /\ \E i \in DOMAIN wq[wait_queue[t]] : wq[wait_queue[t]][i] = t

\* The inductive invariant of the module.
TaskInv ==
    /\ PidInv
    /\ SlotInv
    /\ WaitInv
    /\ processes \in [1 .. MAX_USER_PROCESSES -> Threads \cup {NULL}]

\* The slots in use are finitely many.
LEMMA UsedFinite ==
  ASSUME PidInv
  PROVE  IsFiniteSet(Used) /\ Cardinality(Used) \in Nat
<1>1. IsFiniteSet(0 .. (MAX_PROCESSES - 1))
  BY TaskTableAssumption, FS_Interval
<1>2. Used \in SUBSET (0 .. (MAX_PROCESSES - 1))
  BY DEF Used, PidInv
<1> QED
  BY <1>1, <1>2, FS_Subset, FS_CardinalityType

\* add_task finds a free slot in a table that is not full.
LEMMA FirstNullIsFree ==
  ASSUME NEW slots, DOMAIN slots \subseteq Nat, ~ Full(slots)
  PROVE  FirstNull(slots) \in DOMAIN slots /\ slots[FirstNull(slots)] = NULL
<1> DEFINE free == {i \in DOMAIN slots : slots[i] = NULL}
<1>1. free \in SUBSET Nat /\ free # {}
  BY DEF Full
<1>2. \E i \in free : \A j \in free : i <= j
  BY <1>1, LeastElement
<1> QED
  BY <1>2 DEF FirstNull

\* A slot is taken.
LEMMA FillSlot ==
  ASSUME PidInv, SlotInv, NEW s \in DOMAIN tasks, tasks[s] = NULL, NEW t \in Threads,
         tasks' = [tasks EXCEPT ![s] = t], num_tasks' = num_tasks + 1
  PROVE  SlotInv'
<1>1. Used' = Used \cup {s} /\ s \notin Used
  BY TaskTableAssumption DEF Used
<1>2. Cardinality(Used') = Cardinality(Used) + 1
  BY <1>1, UsedFinite, FS_AddElement
<1>3. \A i \in DOMAIN tasks' : tasks'[i] = Idle => i \in DOMAIN tasks /\ tasks[i] = Idle
  BY TaskTableAssumption
<1> QED
  BY <1>2, <1>3 DEF SlotInv

\* A slot is given up.
LEMMA ClearSlot ==
  ASSUME PidInv, SlotInv, NEW s \in DOMAIN tasks, tasks[s] # NULL,
         tasks' = [tasks EXCEPT ![s] = NULL], num_tasks' = num_tasks - 1
  PROVE  SlotInv'
<1>1. Used' = Used \ {s} /\ s \in Used
  BY DEF Used
<1>2. Cardinality(Used') = Cardinality(Used) - 1
  BY <1>1, UsedFinite, FS_RemoveElement
<1>3. \A i \in DOMAIN tasks' : tasks'[i] = Idle => i \in DOMAIN tasks /\ tasks[i] = Idle
  BY TaskTableAssumption
<1> QED
  BY <1>2, <1>3 DEF SlotInv

\* Steps that block nobody and leave the wait queues alone.
LEMMA KeepWaiting ==
  ASSUME WaitInv, UNCHANGED WaitVars,
         \A t \in Threads : state'[t] = "blocked" => state[t] = "blocked"
  PROVE  WaitInv'
BY DEF WaitInv, WaitVars

LEMMA TaskInitInv == process_init => TaskInv
<1> SUFFICES ASSUME process_init PROVE TaskInv
  OBVIOUS
<1>1. PidInv
  BY PidInitInv
<1> USE TaskTableAssumption DEF process_init
<1>2. SlotInv
  <2>1. Used = {0}
    BY DEF Used
  <2>2. \A i \in DOMAIN tasks : tasks[i] = Idle => i = 0
    OBVIOUS
  <2> QED
    BY <2>1, <2>2, FS_Singleton DEF SlotInv
<1>3. WaitInv
  BY DEF WaitInv
<1>4. processes \in [1 .. MAX_USER_PROCESSES -> Threads \cup {NULL}]
  OBVIOUS
<1> QED
  BY <1>1, <1>2, <1>3, <1>4 DEF TaskInv

LEMMA NewTaskSlots ==
  ASSUME TaskInv, NEW t \in Threads, NewTask(t)
  PROVE  SlotInv' /\ WaitInv' /\ UNCHANGED processes
<1> DEFINE got == alloc_pid(pid_alloc)
<1> USE DEF TaskInv
<1>1. UNCHANGED <<processes, WaitVars>>
  BY DEF NewTask
<1>2. CASE got.pid < 0 \/ Full(tasks)
  <2>1. UNCHANGED <<tasks, num_tasks, state>>
    BY <1>2 DEF NewTask
  <2> QED
    BY <1>1, <2>1, KeepWaiting DEF SlotInv, Used
<1>3. CASE ~ (got.pid < 0 \/ Full(tasks))
  <2>1. /\ tasks' = [tasks EXCEPT ![FirstNull(tasks)] = t]
        /\ num_tasks' = num_tasks + 1
        /\ state' = [state EXCEPT ![t] = "ready"]
    BY <1>3 DEF NewTask
  <2>2. DOMAIN tasks \subseteq Nat
    BY DEF PidInv
  <2>3. FirstNull(tasks) \in DOMAIN tasks /\ tasks[FirstNull(tasks)] = NULL
    BY <1>3, <2>2, FirstNullIsFree
  <2>4. SlotInv'
    BY <2>1, <2>3, FillSlot
  <2>5. \A u \in Threads : state'[u] = "blocked" => state[u] = "blocked"
    BY <2>1 DEF PidInv
  <2> QED
    BY <1>1, <2>4, <2>5, KeepWaiting
<1> QED
  BY <1>2, <1>3

LEMMA UserProcessSlots ==
  ASSUME TaskInv, NEW t \in Threads, NEW fails \in BOOLEAN, create_user_process_from_binary(t, fails)
  PROVE  /\ SlotInv' /\ WaitInv'
         /\ processes' \in [1 .. MAX_USER_PROCESSES -> Threads \cup {NULL}]
<1> DEFINE got == alloc_pid(pid_alloc)
<1> USE DEF TaskInv
<1>1. UNCHANGED <<tasks, num_tasks, WaitVars>>
  BY DEF create_user_process_from_binary
<1>2. SlotInv'
  BY <1>1 DEF SlotInv, Used
<1>3. \/ state' = state /\ processes' = processes
      \/ /\ state' = [state EXCEPT ![t] = "ready"]
         /\ processes' = processes \/ processes' = [processes EXCEPT ![FirstNull(processes)] = t]
  <2>1. CASE got.pid < 0 \/ fails
    BY <2>1 DEF create_user_process_from_binary
  <2>2. CASE ~ (got.pid < 0 \/ fails)
    BY <2>2 DEF create_user_process_from_binary
  <2> QED
    BY <2>1, <2>2
<1>4. \A u \in Threads : state'[u] = "blocked" => state[u] = "blocked"
  BY <1>3 DEF PidInv
<1>5. processes' \in [1 .. MAX_USER_PROCESSES -> Threads \cup {NULL}]
  BY <1>3
<1> QED
  BY <1>1, <1>2, <1>4, <1>5, KeepWaiting

LEMMA RemovalSlots ==
  ASSUME TaskInv, do_exit \/ exit_user_process \/ \E t \in Threads : remove_task(t)
  PROVE  SlotInv' /\ WaitInv' /\ UNCHANGED processes
<1> USE DEF TaskInv
<1>1. ASSUME NEW t \in Threads, remove_task(t) PROVE SlotInv' /\ WaitInv' /\ processes' = processes
  <2>1. UNCHANGED <<processes, state, WaitVars>>
    BY <1>1 DEF remove_task
  <2>2. SlotInv'
    BY <1>1, ClearSlot, TaskTableAssumption DEF remove_task
  <2> QED
    BY <2>1, <2>2, KeepWaiting
<1>2. ASSUME do_exit PROVE SlotInv' /\ WaitInv' /\ processes' = processes
  <2>1. UNCHANGED <<processes, WaitVars>> /\ state' = [state EXCEPT ![Idle] = "zombie"]
    BY <1>2 DEF do_exit
  <2>2. SlotInv'
    BY <1>2, ClearSlot, TaskTableAssumption DEF do_exit
  <2>3. \A u \in Threads : state'[u] = "blocked" => state[u] = "blocked"
    BY <2>1, TaskTableAssumption DEF PidInv
  <2> QED
    BY <2>1, <2>2, <2>3, KeepWaiting
<1>3. ASSUME exit_user_process PROVE SlotInv' /\ WaitInv' /\ processes' = processes
  <2>1. UNCHANGED <<tasks, num_tasks, processes, WaitVars>> /\ state' = [state EXCEPT ![Idle] = "zombie"]
    BY <1>3 DEF exit_user_process, PidVars
  <2>2. \A u \in Threads : state'[u] = "blocked" => state[u] = "blocked"
    BY <2>1, TaskTableAssumption DEF PidInv
  <2> QED
    BY <2>1, <2>2, KeepWaiting DEF SlotInv, Used
<1> QED
  BY <1>1, <1>2, <1>3

\* The new entry is the first one of its queue, and the others move up.
LEMMA AddWaits ==
  ASSUME TaskInv, NEW t \in Waiters, NEW q \in Queues, NEW entry \in BOOLEAN,
         add_to_wait_queue(q, t, entry)
  PROVE  WaitInv'
<1> USE DEF TaskInv
<1>1. t \in Threads /\ wq[q] \in Seq(Threads)
  BY TaskTableAssumption DEF WaitInv
<1>2. /\ state' = [state EXCEPT ![t] = "blocked"]
      /\ wait_queue' = [wait_queue EXCEPT ![t] = q]
      /\ wq' = [wq EXCEPT ![q] = <<t>> \o wq[q]]
  BY DEF add_to_wait_queue
<1>3. /\ <<t>> \o wq[q] \in Seq(Threads)
      /\ (<<t>> \o wq[q])[1] = t
      /\ 1 \in DOMAIN (<<t>> \o wq[q])
      /\ \A i \in DOMAIN wq[q] : /\ i + 1 \in DOMAIN (<<t>> \o wq[q])
                                 /\ (<<t>> \o wq[q])[i + 1] = wq[q][i]
  BY <1>1
<1>4. wait_queue' \in [Threads -> Queues \cup {NULL}] /\ wq' \in [Queues -> Seq(Threads)]
  BY <1>2, <1>3 DEF WaitInv
<1>5. \A p \in Queues : \A u : (\E i \in DOMAIN wq[p] : wq[p][i] = u) =>
                                (\E i \in DOMAIN wq'[p] : wq'[p][i] = u)
  <2> TAKE p \in Queues
  <2>1. CASE p = q
    <3>1. wq'[p] = <<t>> \o wq[q] /\ wq[p] = wq[q]
      BY <1>2, <2>1 DEF WaitInv
    <3> QED
      BY <1>3, <3>1, Zenon
  <2>2. CASE p # q
    BY <1>2, <2>2 DEF WaitInv
  <2> QED
    BY <2>1, <2>2
<1>6. ASSUME NEW u \in Threads, state'[u] = "blocked"
      PROVE  /\ wait_queue'[u] \in Queues
             /\ \E i \in DOMAIN wq'[wait_queue'[u]] : wq'[wait_queue'[u]][i] = u
  <2>1. CASE u = t
    <3>1. wait_queue'[u] = q /\ wq'[q] = <<t>> \o wq[q]
      BY <1>1, <1>2, <2>1 DEF WaitInv
    <3> QED
      BY <1>3, <2>1, <3>1
  <2>2. CASE u # t
    <3>1. state[u] = "blocked" /\ wait_queue'[u] = wait_queue[u]
      BY <1>2, <1>6, <2>2 DEF WaitInv, PidInv
    <3>2. /\ wait_queue[u] \in Queues
          /\ \E i \in DOMAIN wq[wait_queue[u]] : wq[wait_queue[u]][i] = u
      BY <3>1 DEF WaitInv
    <3>3. \E i \in DOMAIN wq'[wait_queue[u]] : wq'[wait_queue[u]][i] = u
      BY <1>5, <3>2, Zenon
    <3> QED
      BY <3>1, <3>2, <3>3
  <2> QED
    BY <2>1, <2>2
<1> QED
  BY <1>4, <1>6 DEF WaitInv

\* wake_up takes off entries of its own queue only, and wakes every task that is blocked
\* and has an entry there: the first entry of the task is one of those it takes off.
LEMMA WakeUpWaits ==
  ASSUME TaskInv, NEW q \in Queues, wake_up(q)
  PROVE  WaitInv'
<1> USE DEF TaskInv
<1>1. /\ wq' = [wq EXCEPT ![q] = Keep(wq[q], DOMAIN wq[q] \ Woken(q))]
      /\ state' = [t \in DOMAIN state |->
                      IF \E i \in Woken(q) : wq[q][i] = t THEN "ready" ELSE state[t]]
      /\ wait_queue' = wait_queue
  BY DEF wake_up
<1>2. wq[q] \in Seq(Threads)
  BY DEF WaitInv
<1>3. Keep(wq[q], DOMAIN wq[q] \ Woken(q)) \in Seq(Threads)
  BY <1>2, KeepEntries
<1>4. wq' \in [Queues -> Seq(Threads)]
  BY <1>1, <1>3 DEF WaitInv
<1>5. ASSUME NEW t \in Threads, state[t] = "blocked", NEW i \in DOMAIN wq[q], wq[q][i] = t
      PROVE  \E j \in Woken(q) : wq[q][j] = t
  <2> DEFINE at == {j \in DOMAIN wq[q] : wq[q][j] = t}
  <2>1. at \in SUBSET Nat /\ at # {}
    BY <1>2, <1>5
  <2>2. PICK j \in at : \A k \in at : j <= k
    BY <2>1, LeastElement
  <2>3. \A k \in 1 .. (j - 1) : wq[q][k] # t
    BY <1>2, <2>2
  <2>4. j \in Woken(q)
    BY <1>5, <2>2, <2>3 DEF Woken
  <2> QED
    BY <2>2, <2>4
<1>6. ASSUME NEW t \in Threads, state'[t] = "blocked"
      PROVE  state[t] = "blocked" /\ wait_queue[t] # q
  <2>1. t \in DOMAIN state
    BY DEF PidInv
  <2>2. state[t] = "blocked" /\ ~ \E i \in Woken(q) : wq[q][i] = t
    BY <1>1, <1>6, <2>1
  <2> QED
    BY <1>5, <2>2 DEF WaitInv
<1>7. \A p \in Queues : p # q => wq'[p] = wq[p]
  BY <1>1 DEF WaitInv
<1> QED
  BY <1>1, <1>4, <1>6, <1>7 DEF WaitInv

LEMMA TaskNextInv ==
  ASSUME TaskInv, [TaskNext]_vars
  PROVE  TaskInv'
<1> DEFINE Slots == SlotInv' /\ WaitInv' /\ processes' \in [1 .. MAX_USER_PROCESSES -> Threads \cup {NULL}]
<1> USE DEF TaskInv
<1>1. PidInv'
  BY PidNextInv
<1>2. ASSUME NEW t \in Threads, kernel_thread(t) \/ copy_process(t) PROVE Slots
  BY <1>2, NewTaskSlots DEF kernel_thread, copy_process
<1>3. ASSUME NEW t \in Threads, NEW fails \in BOOLEAN, create_user_process_from_binary(t, fails) PROVE Slots
  BY <1>3, UserProcessSlots
<1>4. ASSUME do_exit \/ exit_user_process \/ \E t \in Threads : remove_task(t) PROVE Slots
  BY <1>4, RemovalSlots
<1>5. ASSUME UNCHANGED PidVars PROVE SlotInv' /\ processes' = processes
  BY <1>5 DEF SlotInv, Used, PidVars
<1>6. ASSUME NEW t \in Waiters, NEW q \in Queues, NEW entry \in BOOLEAN, add_to_wait_queue(q, t, entry)
      PROVE  Slots
  <2>1. UNCHANGED PidVars
    BY <1>6 DEF add_to_wait_queue
  <2> QED
    BY <1>5, <1>6, <2>1, AddWaits
<1>7. ASSUME NEW q \in Queues, wake_up(q) PROVE Slots
  <2>1. UNCHANGED PidVars
    BY <1>7 DEF wake_up
  <2> QED
    BY <1>5, <1>7, <2>1, WakeUpWaits
<1>8. ASSUME NEW t \in Threads, wake_up_process(t) PROVE Slots
  <2>1. UNCHANGED <<PidVars, WaitVars>> /\ state' = [state EXCEPT ![t] = "ready"]
    BY <1>8 DEF wake_up_process
  <2>2. \A u \in Threads : state'[u] = "blocked" => state[u] = "blocked"
    BY <2>1 DEF PidInv
  <2> QED
    BY <1>5, <2>1, <2>2, KeepWaiting
<1>9. ASSUME UNCHANGED vars PROVE Slots
  <2>1. UNCHANGED <<PidVars, WaitVars, state>>
    BY <1>9 DEF vars
  <2> QED
    BY <1>5, <2>1, KeepWaiting
<1>10. Slots
  BY <1>2, <1>3, <1>4, <1>6, <1>7, <1>8, <1>9 DEF TaskNext
<1> QED
  BY <1>1, <1>10

\* The inductive invariant of the process table, the user process table and the wait
\* queues.
THEOREM TaskInvariant == TaskSpec => []TaskInv
<1>1. TaskInv /\ [TaskNext]_vars => TaskInv'
  BY TaskNextInv
<1> QED
  BY <1>1, TaskInitInv, PTL DEF TaskSpec

\* Type correctness: every table entry, PID, state and wait queue entry is of its kind.
THEOREM TaskTypeCorrect == TaskSpec => []TaskTypeOK
<1>1. ASSUME TaskInv PROVE TaskTypeOK
  <2>1. num_tasks \in Nat
    BY <1>1, UsedFinite DEF TaskInv, SlotInv
  <2> QED
    BY <1>1, <2>1 DEF TaskInv, PidInv, WaitInv, Allocators, TaskTypeOK
<1> QED
  BY <1>1, TaskInvariant, PTL

\* add_task never fails after alloc_pid: a full table has as many tasks with PIDs of
\* their own, the idle task's PID 0 included, as there are PIDs.  And num_tasks counts.
THEOREM TableAlwaysHasRoom == TaskSpec => []TableHasRoom
<1>1. ASSUME TaskInv, Full(tasks) PROVE Pids \subseteq pid_alloc.bitmap
  <2> DEFINE all == 0 .. (MAX_PROCESSES - 1)
             f == [i \in all |-> IF tasks[i] = Idle THEN 0 ELSE pid[tasks[i]]]
             B == pid_alloc.bitmap
  <2>1. /\ PidInv /\ SlotInv /\ DOMAIN tasks = all
        /\ \A i \in all : tasks[i] # Idle => tasks[i] \in Threads
    BY <1>1 DEF TaskInv, PidInv, Full
  <2>2. /\ B = {0} \cup {pid[t] : t \in Owners}
        /\ \A t, u \in Owners : pid[t] = pid[u] => t = u
        /\ \A t \in Owners : pid[t] \in Pids
        /\ \A i \in all : tasks[i] # Idle => tasks[i] \in Owners
    BY <2>1 DEF PidInv, PidsOwned
  <2>3. 0 \notin Pids /\ Pids \subseteq all
    BY TaskTableAssumption DEF Pids
  <2>4. f \in [all -> B]
    BY <2>2
  <2>5. ASSUME NEW i \in all, NEW j \in all, f[i] = f[j] PROVE i = j
    <3>1. CASE tasks[i] = Idle /\ tasks[j] = Idle
      BY <2>1, <3>1 DEF SlotInv
    <3>2. CASE tasks[i] # Idle /\ tasks[j] # Idle
      <4>1. tasks[i] \in Threads /\ tasks[i] = tasks[j]
        BY <2>1, <2>2, <2>5, <3>2
      <4> QED
        BY <2>1, <4>1 DEF PidInv
    <3>3. CASE tasks[i] = Idle /\ tasks[j] # Idle
      BY <2>2, <2>3, <2>5, <3>3
    <3>4. CASE tasks[i] # Idle /\ tasks[j] = Idle
      BY <2>2, <2>3, <2>5, <3>4
    <3> QED
      BY <3>1, <3>2, <3>3, <3>4
  <2>6. f \in Injection(all, B)
    <3> HIDE DEF f, B
    <3> QED
      BY <2>4, <2>5 DEF Injection, IsInjective
  <2>7. IsFiniteSet(all) /\ Cardinality(all) \in Nat
    BY TaskTableAssumption, FS_Interval, FS_CardinalityType
  <2>8. B \in SUBSET all
    <3>1. pid_alloc.bitmap \in SUBSET (Pids \cup {0}) /\ 0 \in all
      BY <2>1, TaskTableAssumption DEF PidInv, Allocators
    <3> QED
      BY <2>3, <3>1
  <2> HIDE DEF all, f, B
  <2>9. IsFiniteSet(B) /\ Cardinality(B) <= Cardinality(all) /\ Cardinality(B) \in Nat
    BY <2>7, <2>8, FS_Subset, FS_CardinalityType
  <2>10. Cardinality(all) <= Cardinality(B)
    BY <2>6, <2>9, FS_Injection
  <2>11. B = all
    BY <2>7, <2>8, <2>9, <2>10, FS_Subset
  <2> QED
    BY <2>3, <2>11 DEF B
<1>2. TaskInv => TableHasRoom
  BY <1>1 DEF TaskInv, SlotInv, Used, TableHasRoom
<1> QED
  BY <1>2, TaskInvariant, PTL

\* No wake-up is lost: wherever a task was removed, woken by the scheduler or queued
\* before, one that is blocked has an entry in the queue it waits for.
THEOREM BlockedIsAlwaysQueued == TaskSpec => []BlockedIsQueued
<1>1. TaskInv => BlockedIsQueued
  BY DEF TaskInv, WaitInv, BlockedIsQueued
<1> QED
  BY <1>1, TaskInvariant, PTL
=============================================================================
