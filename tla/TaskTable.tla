----------------------------- MODULE TaskTable -----------------------------
(***************************************************************************)
(* Tasks and their PIDs: the PID allocator, the process table and the wait *)
(* queues of kernel/sched/task.c, and the user process table of            *)
(* kernel/process.c, which takes its PIDs from the same allocator.         *)
(*                                                                         *)
(* A thread is a task_t that kmalloc may return.  The heap never reuses    *)
(* memory, so each is created once.  Calls run to completion one after the *)
(* other.  Callers remove tasks of the process table, and a task that      *)
(* waits does not start to wait again before it was woken.  current_task   *)
(* is the idle task at all times: nothing assigns it after process_init.   *)
(* The run queue is not here: a task that may run, on it or not, is ready. *)
(***************************************************************************)
EXTENDS Integers, FiniteSets, Sequences, SeqFilter

CONSTANTS Threads,
          MAX_PROCESSES,        \* slots of the process table, and PIDs with PID 0
          MAX_USER_PROCESSES,   \* slots of the user process table
          Queues,               \* the wait queues
          Waiters,              \* bound: the tasks that use wait queues
          MaxEntries,           \* bound on the entries of a wait queue
          NULL, Idle            \* no task; the idle task

ASSUME TaskTableAssumption ==
    /\ MAX_PROCESSES \in Nat \ {0, 1}
    /\ MAX_USER_PROCESSES \in Nat
    /\ Waiters \subseteq Threads
    /\ MaxEntries \in Nat
    /\ NULL \notin Threads /\ Idle \notin Threads /\ NULL # Idle

VARIABLES pid_alloc,    \* the set bits of the bitmap, and next_pid
          tasks,        \* process_table.tasks
          num_tasks,    \* process_table.num_tasks
          processes,    \* user_process_table.processes
          pid,          \* task->pid
          state,        \* task->state; "new" is a task_t not handed out yet
          wait_queue,   \* task->wait_queue
          wq,           \* the entries of each wait queue, from the first
          gone          \* the threads removed by remove_task

PidVars == <<pid_alloc, tasks, num_tasks, processes, pid, gone>>
WaitVars == <<wait_queue, wq>>
vars == <<PidVars, state, WaitVars>>

Pids == 1 .. (MAX_PROCESSES - 1)

process_init ==
    /\ pid_alloc = [bitmap |-> {0}, next_pid |-> 1]
    /\ tasks = [i \in 0 .. (MAX_PROCESSES - 1) |-> IF i = 0 THEN Idle ELSE NULL]
    /\ num_tasks = 1
    /\ processes = [i \in 1 .. MAX_USER_PROCESSES |-> NULL]
    /\ pid = [t \in Threads |-> 0]
    /\ state = [t \in Threads \cup {Idle} |-> IF t = Idle THEN "running" ELSE "new"]
    /\ wait_queue = [t \in Threads |-> NULL]
    /\ wq = [q \in Queues |-> <<>>]
    /\ gone = {}

\* next_pid after k turns of the loop of alloc_pid.
Cursor(a, k) == ((a.next_pid - 1 + k) % (MAX_PROCESSES - 1)) + 1

\* Mutant: the loop gives up one turn early.
alloc_pid_short(a) ==
    LET free(k) == Cursor(a, k) \notin a.bitmap
        ends    == {k \in 0 .. (MAX_PROCESSES - 1) : free(k) \/ Cursor(a, k + 2) = a.next_pid}
        last    == CHOOSE k \in ends : \A j \in ends : k <= j
    IN  [pid |-> IF free(last) THEN Cursor(a, last) ELSE -1,
         alloc |-> [bitmap |-> IF free(last) THEN a.bitmap \cup {Cursor(a, last)} ELSE a.bitmap,
                    next_pid |-> Cursor(a, last + 1)]]

\* The loop ends at a PID that is not in use, or when next_pid is back where it was.
alloc_pid(a) ==
    LET free(k) == Cursor(a, k) \notin a.bitmap
        ends    == {k \in 0 .. (MAX_PROCESSES - 1) : free(k) \/ Cursor(a, k + 1) = a.next_pid}
        last    == CHOOSE k \in ends : \A j \in ends : k <= j
    IN  [pid |-> IF free(last) THEN Cursor(a, last) ELSE -1,
         alloc |-> [bitmap |-> IF free(last) THEN a.bitmap \cup {Cursor(a, last)} ELSE a.bitmap,
                    next_pid |-> Cursor(a, last + 1)]]

free_pid(a, p) ==
    IF p \in Pids
    THEN [bitmap |-> a.bitmap \ {p}, next_pid |-> IF p < a.next_pid THEN p ELSE a.next_pid]
    ELSE a

FirstNull(slots) ==
    LET free == {i \in DOMAIN slots : slots[i] = NULL}
    IN  CHOOSE i \in free : \A j \in free : i <= j

Full(slots) == \A i \in DOMAIN slots : slots[i] # NULL

\* kernel_thread and copy_process: a PID, then a slot; without a slot the PID is freed.
NewTask(t) ==
    LET got == alloc_pid(pid_alloc)
    IN  /\ state[t] = "new"
        /\ IF got.pid < 0 \/ Full(tasks)
           THEN /\ pid_alloc' = free_pid(got.alloc, got.pid)
                /\ UNCHANGED <<tasks, num_tasks, pid, state>>
           ELSE /\ pid_alloc' = got.alloc
                /\ tasks' = [tasks EXCEPT ![FirstNull(tasks)] = t]
                /\ num_tasks' = num_tasks + 1
                /\ pid' = [pid EXCEPT ![t] = got.pid]
                /\ state' = [state EXCEPT ![t] = "ready"]
        /\ UNCHANGED <<processes, gone, WaitVars>>

kernel_thread(t) == NewTask(t)

copy_process(t) == NewTask(t)

\* Mutant: the PID is not freed.
remove_task_keep_pid(t) ==
    \E i \in DOMAIN tasks :
        /\ tasks[i] = t
        /\ tasks' = [tasks EXCEPT ![i] = NULL]
        /\ num_tasks' = num_tasks - 1
        /\ gone' = gone \cup {t}
        /\ UNCHANGED <<pid_alloc, processes, pid, state, WaitVars>>

\* Mutant: the slot is not cleared.
remove_task_keep_slot(t) ==
    /\ \E i \in DOMAIN tasks : tasks[i] = t
    /\ t \notin gone
    /\ pid_alloc' = free_pid(pid_alloc, pid[t])
    /\ gone' = gone \cup {t}
    /\ UNCHANGED <<tasks, num_tasks, processes, pid, state, WaitVars>>

\* Wait queue entries of the task stay.
remove_task(t) ==
    \E i \in DOMAIN tasks :
        /\ tasks[i] = t
        /\ tasks' = [tasks EXCEPT ![i] = NULL]
        /\ num_tasks' = num_tasks - 1
        /\ pid_alloc' = free_pid(pid_alloc, pid[t])
        /\ gone' = gone \cup {t}
        /\ UNCHANGED <<processes, pid, state, WaitVars>>

\* The exit of whatever runs ends the idle task; PID 0 is not freed.
do_exit ==
    /\ state' = [state EXCEPT ![Idle] = "zombie"]
    /\ \E i \in DOMAIN tasks :
          /\ tasks[i] = Idle
          /\ tasks' = [tasks EXCEPT ![i] = NULL]
    /\ num_tasks' = num_tasks - 1
    /\ UNCHANGED <<pid_alloc, processes, pid, gone, WaitVars>>

\* A user process is in the user process table only, and in no table at all when that
\* is full.  fails: its address space or its binary could not be set up.
create_user_process_from_binary(t, fails) ==
    LET got == alloc_pid(pid_alloc)
    IN  /\ state[t] = "new"
        /\ IF got.pid < 0 \/ fails
           THEN /\ pid_alloc' = free_pid(got.alloc, got.pid)
                /\ UNCHANGED <<processes, pid, state>>
           ELSE /\ pid_alloc' = got.alloc
                /\ processes' = IF Full(processes) THEN processes
                                ELSE [processes EXCEPT ![FirstNull(processes)] = t]
                /\ pid' = [pid EXCEPT ![t] = got.pid]
                /\ state' = [state EXCEPT ![t] = "ready"]
        /\ UNCHANGED <<tasks, num_tasks, gone, WaitVars>>

\* The idle task is in no user process table, so nothing is removed and no PID is freed.
exit_user_process ==
    /\ state' = [state EXCEPT ![Idle] = "zombie"]
    /\ UNCHANGED <<PidVars, WaitVars>>

\* Mutant: the task is blocked before the entry is allocated.
add_to_wait_queue_early(q, t, entry) ==
    /\ state[t] = "ready"
    /\ Len(wq[q]) < MaxEntries
    /\ state' = [state EXCEPT ![t] = "blocked"]
    /\ wait_queue' = [wait_queue EXCEPT ![t] = q]
    /\ wq' = IF entry THEN [wq EXCEPT ![q] = <<t>> \o @] ELSE wq
    /\ UNCHANGED PidVars

\* Without memory for the entry nothing happens.
add_to_wait_queue(q, t, entry) ==
    /\ state[t] = "ready"
    /\ Len(wq[q]) < MaxEntries
    /\ entry
    /\ state' = [state EXCEPT ![t] = "blocked"]
    /\ wait_queue' = [wait_queue EXCEPT ![t] = q]
    /\ wq' = [wq EXCEPT ![q] = <<t>> \o @]
    /\ UNCHANGED PidVars

\* The entries wake_up takes off: the first one of each task that is blocked.  A
\* further entry of the task stays, for the task is ready by then.
Woken(q) ==
    {i \in DOMAIN wq[q] :
        /\ state[wq[q][i]] = "blocked"
        /\ \A j \in 1 .. (i - 1) : wq[q][j] # wq[q][i]}

wake_up(q) ==
    /\ wq' = [wq EXCEPT ![q] = Keep(@, DOMAIN @ \ Woken(q))]
    /\ state' = [t \in DOMAIN state |->
                    IF \E i \in Woken(q) : wq[q][i] = t THEN "ready" ELSE state[t]]
    /\ UNCHANGED <<PidVars, wait_queue>>

\* wake_up_process of the scheduler: the wait queue entry stays.
wake_up_process(t) ==
    /\ state[t] = "blocked"
    /\ state' = [state EXCEPT ![t] = "ready"]
    /\ UNCHANGED <<PidVars, WaitVars>>

TaskNext ==
    \/ \E t \in Threads :
          \/ kernel_thread(t) \/ copy_process(t) \/ remove_task(t) \/ wake_up_process(t)
          \/ \E fails \in BOOLEAN : create_user_process_from_binary(t, fails)
    \/ do_exit \/ exit_user_process
    \/ \E t \in Waiters, q \in Queues, entry \in BOOLEAN : add_to_wait_queue(q, t, entry)
    \/ \E q \in Queues : wake_up(q)

TaskSpec == process_init /\ [][TaskNext]_vars
-----------------------------------------------------------------------------
TaskTypeOK ==
    /\ pid_alloc \in [bitmap : SUBSET (Pids \cup {0}), next_pid : Pids]
    /\ tasks \in [0 .. (MAX_PROCESSES - 1) -> Threads \cup {Idle, NULL}]
    /\ num_tasks \in Nat
    /\ processes \in [1 .. MAX_USER_PROCESSES -> Threads \cup {NULL}]
    /\ pid \in [Threads -> Pids \cup {0}]
    /\ state \in [Threads \cup {Idle} -> {"new", "ready", "running", "blocked", "zombie"}]
    /\ wait_queue \in [Threads -> Queues \cup {NULL}]
    /\ \A q \in Queues : wq[q] \in Seq(Threads)
    /\ gone \subseteq Threads

\* The tasks that have a PID.
Owners == {t \in Threads : state[t] # "new" /\ t \notin gone}

\* No two tasks have one PID, whichever table they are in, whatever was removed,
\* failed or dropped in between and however next_pid was moved back or wrapped; and
\* the bitmap marks the PIDs of the tasks, and no other: no PID leaks on a failure.
PidsOwned ==
    /\ \A t, u \in Owners : pid[t] = pid[u] => t = u
    /\ pid_alloc.bitmap = {0} \cup {pid[t] : t \in Owners}

\* alloc_pid, which starts at next_pid and stops when it is back there, fails only
\* when every PID is in use.
AllocPidComplete ==
    alloc_pid(pid_alloc).pid = -1 => Pids \subseteq pid_alloc.bitmap

\* The process table cannot be full while a PID is free: after alloc_pid, add_task
\* never fails.  num_tasks counts the slots in use.
TableHasRoom ==
    /\ ~ (Pids \subseteq pid_alloc.bitmap) => ~ Full(tasks)
    /\ num_tasks = Cardinality({i \in DOMAIN tasks : tasks[i] # NULL})

\* No wake-up is lost: a blocked task has an entry in the queue it waits for, where
\* wake_up will find it, although entries of earlier waits may be left in this and in
\* other queues.
BlockedIsQueued ==
    \A t \in Threads : state[t] = "blocked" =>
        \E i \in DOMAIN wq[wait_queue[t]] : wq[wait_queue[t]][i] = t
=============================================================================
