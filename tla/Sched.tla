------------------------------- MODULE Sched -------------------------------
(***************************************************************************)
(* kernel/sched/schedule.c: the run queue of the CFS scheduler, a binary   *)
(* tree by vruntime that the tasks themselves form, and the calls that     *)
(* change it.  get_current_task returns the idle task at all times: only   *)
(* process_init sets current_task, and switch_to does not.                 *)
(*                                                                         *)
(* A division by zero and a loop that never ends are the outcome `fault',  *)
(* after which nothing runs.  Statistics are left out.                     *)
(*                                                                         *)
(* Nothing calls most of these functions at this commit: the model lets    *)
(* them be called for every task, in every order.  A task is created and   *)
(* given to sched_fork in one step.  The states that no test of the code   *)
(* tells apart are one: BLOCKED is SLEEPING too, ZOMBIE is STOPPED and     *)
(* EXIT too.                                                               *)
(***************************************************************************)
EXTENDS Integers, Sequences, FiniteSets

CONSTANTS Tasks, Idle,          \* Idle is the task of process_init
          NoTask,
          Priorities,           \* bound: the nice values of tasks and calls
          CFS_MIN_GRANULARITY, CFS_LATENCY,   \* in clock ticks
          LoadWords,            \* the number of values of the load_weight counter
          MaxClock, MaxCalls    \* bounds on the clock and on the calls that leave it alone

ASSUME SchedAssumption ==
    /\ Idle \in Tasks /\ NoTask \notin Tasks
    /\ Priorities \subseteq -20 .. 19
    /\ {CFS_MIN_GRANULARITY, CFS_LATENCY, LoadWords} \subseteq Nat \ {0}
    /\ {MaxClock, MaxCalls} \subseteq Nat

VARIABLE sched   \* root, nr_running, min_vruntime, load_weight, clock, fault, calls, and se by task;
                 \* again is history: how often a call made a task runnable that was in the queue

NICE_0_LOAD == 1024

nice_to_weight ==
    <<88761, 71755, 56483, 46273, 36291, 29154, 23254, 18705, 14949, 11916,
      9548,  7620,  6100,  4904,  3906,  3121,  2501,  1991,  1586,  1277,
      1024,   820,   655,   526,   423,   335,   272,   215,   172,   137,
       110,    87,    70,    56,    45,    36,    29,    23,    18,    15>>

nice_to_load(nice) == (nice_to_weight[nice + 21] * 64) \div NICE_0_LOAD

Entity(state) == [state |-> state, queued |-> FALSE, zombie |-> FALSE, left |-> NoTask, right |-> NoTask,
                  parent |-> NoTask, vruntime |-> 0, load_weight |-> 0, exec_start |-> 0]

\* sched_init, and the idle task of process_init, whose memory is cleared.
sched_init ==
    sched = [root |-> NoTask, nr_running |-> 0, min_vruntime |-> 0, load_weight |-> 0, clock |-> 0, fault |-> FALSE,
             calls |-> 0, again |-> 0,
             se |-> [t \in Tasks |-> Entity(IF t = Idle THEN "RUNNING" ELSE "new")]]
-----------------------------------------------------------------------------
\* The tree.  A place is where a pointer to a task is stored: the root or a child.
RootPlace == [at |-> NoTask, side |-> "root"]

At(s, p) == CASE p.side = "root" -> s.root
              [] p.side = "left" -> s.se[p.at].left
              [] OTHER           -> s.se[p.at].right

Store(s, p, t) == CASE p.side = "root" -> [s EXCEPT !.root = t]
                    [] p.side = "left" -> [s EXCEPT !.se[p.at].left = t]
                    [] OTHER           -> [s EXCEPT !.se[p.at].right = t]

\* Where the walk by vruntime from the root stops: at task t or at an empty place.
Search(s, v, t) ==
    LET step[n \in 0 .. Cardinality(Tasks) + 1] ==
            IF n = 0 THEN RootPlace
            ELSE LET p == step[n - 1]
                     u == At(s, p)
                 IN  IF u \in {t, NoTask} THEN p
                     ELSE [at |-> u, side |-> IF v < s.se[u].vruntime THEN "left" ELSE "right"]
    IN  step[Cardinality(Tasks) + 1]

Endless(s, v, t) == At(s, Search(s, v, t)) \notin {t, NoTask}
Fault(s) == [s EXCEPT !.fault = TRUE]

cfs_enqueue(s, t) ==
    LET v == s.se[t].vruntime
        p == Search(s, v, NoTask)
        clean == [s EXCEPT !.se[t].queued = TRUE, !.se[t].left = NoTask, !.se[t].right = NoTask, !.se[t].parent = p.at]
    IN  IF s.fault \/ Endless(s, v, NoTask) THEN Fault(s)
        ELSE [Store(clean, p, t) EXCEPT
                !.nr_running = @ + 1,
                !.load_weight = (@ + s.se[t].load_weight) % LoadWords,
                !.min_vruntime = IF @ = 0 \/ v < @ THEN v ELSE @]

\* The tree without the task that is at place p: its left child, or else its right one,
\* takes the place that its parent names.
Unlink(s, t, p) ==
    LET e == s.se[t]
        successor == IF e.left # NoTask THEN e.left ELSE e.right
        place == IF e.parent = NoTask THEN p
                 ELSE [at |-> e.parent, side |-> IF s.se[e.parent].left = t THEN "left" ELSE "right"]
        s1 == Store(s, place, successor)
    IN  IF successor = NoTask THEN s1 ELSE [s1 EXCEPT !.se[successor].parent = e.parent]

cfs_dequeue(s, t) ==
    LET v == s.se[t].vruntime
        p == Search(s, v, t)
        s1 == IF At(s, p) = t THEN Unlink(s, t, p) ELSE s
    IN  IF s.fault \/ ~s.se[t].queued THEN s
        ELSE IF Endless(s, v, t) THEN Fault(s)
        ELSE [s1 EXCEPT !.se[t].queued = FALSE, !.nr_running = @ - 1,
                        !.load_weight = (@ - s.se[t].load_weight) % LoadWords]

\* The leftmost task.
pick_next_cfs(s) ==
    LET step[n \in 0 .. Cardinality(Tasks)] ==
            IF n = 0 THEN s.root
            ELSE IF step[n - 1] = NoTask \/ s.se[step[n - 1]].left = NoTask THEN step[n - 1]
                 ELSE s.se[step[n - 1]].left
    IN  step[Cardinality(Tasks)]

\* The time since exec_start is charged to the task: a division by its weight.
update_curr_cfs(s, t) ==
    LET e == s.se[t]
        v == e.vruntime + ((s.clock - e.exec_start) * NICE_0_LOAD) \div e.load_weight
    IN  IF s.fault \/ e.load_weight = 0 THEN Fault(s)
        ELSE [s EXCEPT !.se[t].exec_start = s.clock, !.se[t].vruntime = v,
                       !.min_vruntime = IF v < @ THEN v ELSE @]

update_sched_clock(s) == [s EXCEPT !.clock = @ + 1]
-----------------------------------------------------------------------------
\* schedule with the idle task as prev.  Without a task in the tree next is the
\* idle_task of the run queue, which nothing sets.
schedule(s) ==
    LET s0 == update_sched_clock(s)
        s1 == [s0 EXCEPT !.se[Idle].state = IF @ = "RUNNING" THEN "READY" ELSE @]
        s2 == IF s1.se[Idle].state = "READY" /\ ~s1.se[Idle].zombie
              THEN cfs_enqueue(cfs_dequeue(update_curr_cfs(s1, Idle), Idle), Idle)
              ELSE s1
        next == pick_next_cfs(s2)
    IN  IF s2.fault \/ next \in {Idle, NoTask} THEN s2
        ELSE IF s2.se[next].left # NoTask THEN Fault(s2)
        ELSE [s2 EXCEPT !.se[next].exec_start = s2.clock, !.se[next].state = "RUNNING"]

\* The slice is compared with the time since exec_start, which was set just before.
TickSlice(s) ==
    LET s1 == update_sched_clock(s)
        s2 == update_curr_cfs(s1, Idle)
        share == (CFS_LATENCY * NICE_0_LOAD) \div s2.load_weight
        slice == IF s2.nr_running > 0 /\ share > CFS_MIN_GRANULARITY THEN share ELSE CFS_MIN_GRANULARITY
    IN  IF s1.se[Idle].state # "RUNNING" THEN s1
        ELSE IF s2.fault \/ (s2.nr_running > 0 /\ s2.load_weight = 0) THEN Fault(s2)
        ELSE IF s2.clock - s2.se[Idle].exec_start >= slice THEN schedule([s2 EXCEPT !.se[Idle].state = "READY"])
        ELSE s2

\* Every call of this module: nothing runs after a fault.
Call(s) == /\ ~sched.fault /\ s.clock <= MaxClock /\ s.calls <= MaxCalls
           /\ sched' = s

\* The bound on the calls that leave the clock alone.
Counted(s) == [s EXCEPT !.calls = @ + 1]

schedule_call == Call(schedule(sched))
sched_tick == Call(TickSlice(sched))

\* Mutant: the task is put back without being taken out.
yield_again ==
    Call(schedule([cfs_enqueue(update_curr_cfs(sched, Idle), Idle) EXCEPT !.se[Idle].state = "READY"]))

yield ==
    LET s == cfs_enqueue(cfs_dequeue(update_curr_cfs(sched, Idle), Idle), Idle)
    IN  Call(schedule([s EXCEPT !.se[Idle].state = "READY"]))

\* The idle task goes to sleep until it is woken: nothing reads sleep_deadline.
schedule_timeout ==
    Call(schedule(cfs_dequeue([sched EXCEPT !.se[Idle].state = "SLEEPING"], Idle)))

\* A call makes t runnable, whether or not it is in the queue.
MakeRunnable(s, t) == cfs_enqueue([s EXCEPT !.again = IF s.se[t].queued THEN @ + 1 ELSE @], t)

\* Any task that was created, whatever its state is and becomes.
set_task_state(t, state) ==
    LET old == sched.se[t].state
        s1  == IF old = "RUNNING" /\ state # "RUNNING" THEN cfs_dequeue(sched, t) ELSE sched
        s2  == [s1 EXCEPT !.se[t].state = state]
    IN  /\ old # "new"
        /\ Call(IF state = "RUNNING" THEN MakeRunnable(Counted(s2), t) ELSE Counted(s2))

wake_up_process(t) ==
    /\ sched.se[t].state \in {"BLOCKED", "SLEEPING"}
    /\ Call(MakeRunnable([Counted(sched) EXCEPT !.se[t].state = "READY"], t))

sys_nice(nice) ==
    Call([Counted(sched) EXCEPT !.se[Idle].load_weight = nice_to_load(nice)])

\* With place_entity: a new task starts at min_vruntime.
sched_fork(t, priority) ==
    LET weight == IF priority = 0 THEN NICE_0_LOAD ELSE nice_to_load(priority)
        e == [Entity("READY") EXCEPT !.vruntime = sched.min_vruntime, !.load_weight = weight]
    IN  /\ sched.se[t].state = "new"
        /\ Call(cfs_enqueue([sched EXCEPT !.se[t] = e], t))

sched_exit(s, t) == cfs_dequeue(s, t)

sched_exit_call(t) ==
    /\ sched.se[t].state # "new"
    /\ Call(sched_exit(Counted(sched), t))

Zombie(s) == [s EXCEPT !.se[Idle].state = "ZOMBIE", !.se[Idle].zombie = TRUE]

\* An exit ends in an endless loop unless schedule switches to another task.
ScheduleAway(s) ==
    LET s1 == schedule(s)
    IN  IF pick_next_cfs(s1) \in {Idle, NoTask} THEN Fault(s1) ELSE s1

\* The task that exits is the current one.
do_exit == Call(ScheduleAway(sched_exit(Zombie(sched), Idle)))

\* It leaves the task in the run queue.
exit_user_process == Call(ScheduleAway(Zombie(sched)))

SchedNext ==
    \/ schedule_call \/ sched_tick \/ yield \/ schedule_timeout \/ do_exit \/ exit_user_process
    \/ \E nice \in Priorities : sys_nice(nice)
    \/ \E t \in Tasks :
          \/ \E state \in {"RUNNING", "READY", "BLOCKED", "ZOMBIE"} : set_task_state(t, state)
          \/ wake_up_process(t) \/ sched_exit_call(t)
          \/ \E priority \in Priorities : sched_fork(t, priority)

SchedSpec == sched_init /\ [][SchedNext]_sched
-----------------------------------------------------------------------------
Queued == {t \in Tasks : sched.se[t].queued}

\* However calls follow one another, and whether or not a search finds its task,
\* nr_running, by which sched_tick divides the time, counts every task of the run
\* queue once, and once more for each time a caller made a task runnable that was in
\* the queue, and for nothing else: yield, schedule, the exits, a task that blocks and
\* a task that starts keep the count exact.
RunnableCounted == ~sched.fault => sched.nr_running = Cardinality(Queued) + sched.again

\* The tasks that a walk down the tree can meet.
InTree ==
    LET reach[n \in 0 .. Cardinality(Tasks)] ==
            IF n = 0 THEN {sched.root} \ {NoTask}
            ELSE LET below == {sched.se[t].left : t \in reach[n - 1]} \cup {sched.se[t].right : t \in reach[n - 1]}
                 IN  reach[n - 1] \cup (below \ {NoTask})
    IN  reach[Cardinality(Tasks)]

\* No task is starved: one that is in the run queue can be found from its root, as
\* long as no caller makes a task runnable that is in the queue.
NoTaskStarves == ~sched.fault /\ sched.again = 0 => Queued \subseteq InTree
=============================================================================
