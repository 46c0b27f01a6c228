------------------------------- MODULE Timer -------------------------------
(***************************************************************************)
(* The timer wheel of kernel/drivers/timer.c: three levels of buckets, of  *)
(* which timer_tick runs one bucket of the first level per tick and        *)
(* re-adds one bucket of the second level at every turn of the first.      *)
(*                                                                         *)
(* Everything happens under timer_lock, so a call is one step, except      *)
(* run_timers, which reads jiffies before it takes the lock.  Timer        *)
(* functions do not call back into the wheel (they would spin on           *)
(* timer_lock).  A bucket is a set: the order of its list is the order in  *)
(* which functions run within one tick.  Callers change a timer's expires  *)
(* and period, and add it, only while it is not in the wheel.              *)
(***************************************************************************)
EXTENDS Integers, FiniteSets

CONSTANTS Timers,
          TIMER_WHEEL_BITS,
          Periods,      \* the periods callers use; 0 is a one-shot timer
          Expiries,     \* the expiry times callers ask for
          MaxJiffies    \* bound on the ticks explored

ASSUME TimerAssumption ==
    /\ TIMER_WHEEL_BITS \in Nat \ {0}
    /\ 2 ^ TIMER_WHEEL_BITS \in Nat \ {0}   \* so for every number of bits
    /\ Periods \subseteq Nat
    /\ Expiries \subseteq Nat
    /\ MaxJiffies \in Nat

TIMER_WHEEL_SIZE == 2 ^ TIMER_WHEEL_BITS
TIMER_WHEEL_LVL2 == 2 ^ (2 * TIMER_WHEEL_BITS)

Slots == 0 .. (TIMER_WHEEL_SIZE - 1)
Slot(n) == n % TIMER_WHEEL_SIZE     \* n & TIMER_WHEEL_MASK

VARIABLES jiffies,
          wheel,        \* wheel[<<level, slot>>], the timers linked in a bucket
          expires, period,
          expired_flag, \* TIMER_FLAGS_EXPIRED, which only del_timer sets
          rt_slot,      \* the slot run_timers has computed, or -1 outside run_timers
          ran,          \* what ran in the last step: <<timer, its expiry>>
          in_time       \* the timers that were added before their expiry

vars == <<jiffies, wheel, expires, period, expired_flag, rt_slot, ran, in_time>>

timer_wheel_init ==
    /\ jiffies = 0
    /\ wheel = [b \in (1 .. 3) \X Slots |-> {}]
    /\ expires = [t \in Timers |-> 0]
    /\ period = [t \in Timers |-> 0]
    /\ expired_flag = [t \in Timers |-> FALSE]
    /\ rt_slot = -1
    /\ ran = {}
    /\ in_time = {}

\* The bucket in which add_timer_bucket links a timer and del_timer looks for it.
Bucket(e) ==
    << IF e < TIMER_WHEEL_SIZE THEN 1 ELSE IF e < TIMER_WHEEL_LVL2 THEN 2 ELSE 3, Slot(e) >>

\* add_timer_bucket for every timer of a set, given their expiry times.
AddBucket(w, ts, e) == [b \in DOMAIN w |-> w[b] \cup {t \in ts : Bucket(e[t]) = b}]

Linked(t) == {b \in DOMAIN wheel : t \in wheel[b]}

\* The caller fills in the timer, with or without init_timer before, and adds it.
add_timer(t) ==
    /\ Linked(t) = {}
    /\ \E e \in Expiries, p \in Periods, init \in BOOLEAN :
          /\ expires' = [expires EXCEPT ![t] = e]
          /\ period' = [period EXCEPT ![t] = p]
          /\ expired_flag' = [expired_flag EXCEPT ![t] = @ /\ ~ init]
          /\ wheel' = AddBucket(wheel, {t}, expires')
          /\ in_time' = IF jiffies < e THEN in_time \cup {t} ELSE in_time \ {t}
    /\ ran' = {}
    /\ UNCHANGED <<jiffies, rt_slot>>

\* A timer that is not in its bucket is not in the wheel: del_timer returns 0.
del_timer(t) ==
    /\ t \in wheel[Bucket(expires[t])]
    /\ wheel' = [wheel EXCEPT ![Bucket(expires[t])] = @ \ {t}]
    /\ expired_flag' = [expired_flag EXCEPT ![t] = TRUE]
    /\ ran' = {}
    /\ UNCHANGED <<jiffies, expires, period, rt_slot, in_time>>

\* run_timer_list on the first-level bucket s.  The whole list is taken off the
\* bucket and runs; the periodic timers on it get their next expiry.
Due(s) == wheel[<<1, s>>]

Again(s) == {t \in Due(s) : period[t] > 0 /\ ~ expired_flag[t]}

run_timer_list(s) ==
    /\ ran' = {<<t, expires[t]>> : t \in Due(s)}
    /\ expires' = [t \in Timers |-> IF t \in Again(s) THEN expires[t] + period[t] ELSE expires[t]]
    /\ in_time' = (in_time \ Due(s)) \cup {t \in Again(s) : jiffies' < expires'[t]}

\* Mutant: the periodic timers stay on the bucket they were on.
Relink_unmoved(s, e) == [wheel EXCEPT ![<<1, s>>] = Again(s)]

\* The wheel after run_timer_list: its periodic timers are in the buckets of e, their
\* new expiry times.
Relink(s, e) == AddBucket([wheel EXCEPT ![<<1, s>>] = {}], Again(s), e)

\* At every turn of the first level a tick takes one second-level bucket apart and
\* adds its timers again.
Cascade(w, e) ==
    LET b == <<2, Slot(jiffies' \div TIMER_WHEEL_SIZE)>>
    IN  IF Slot(jiffies') = 0 THEN AddBucket([w EXCEPT ![b] = {}], w[b], e) ELSE w

TickAt(s) ==
    /\ jiffies < MaxJiffies
    /\ jiffies' = jiffies + 1
    /\ run_timer_list(s)
    /\ wheel' = Cascade(Relink(s, expires'), expires')
    /\ UNCHANGED <<period, expired_flag, rt_slot>>

\* Mutants: the bucket is that of the tick before, or of the tick after.
timer_tick_late == TickAt(Slot(jiffies))

timer_tick_early == TickAt(Slot(jiffies + 2))

timer_tick == TickAt(Slot(jiffies + 1))

\* run_timers computes its slot before it takes timer_lock: ticks may come between.
run_timers ==
    \/ /\ rt_slot = -1
       /\ rt_slot' = Slot(jiffies)
       /\ ran' = {}
       /\ UNCHANGED <<jiffies, wheel, expires, period, expired_flag, in_time>>
    \/ /\ rt_slot # -1
       /\ rt_slot' = -1
       /\ UNCHANGED <<jiffies, period, expired_flag>>
       /\ run_timer_list(rt_slot)
       /\ wheel' = Relink(rt_slot, expires')

TimerNext ==
    \/ \E t \in Timers : add_timer(t) \/ del_timer(t)
    \/ timer_tick
    \/ run_timers

TimerSpec == timer_wheel_init /\ [][TimerNext]_vars
-----------------------------------------------------------------------------
TimerTypeOK ==
    /\ jiffies \in 0 .. MaxJiffies
    /\ wheel \in [(1 .. 3) \X Slots -> SUBSET Timers]
    /\ expires \in [Timers -> Nat]
    /\ period \in [Timers -> Periods \cup {0}]
    /\ expired_flag \in [Timers -> BOOLEAN]
    /\ rt_slot \in Slots \cup {-1}
    /\ in_time \subseteq Timers

\* No timer function runs before the tick it was set for, neither from timer_tick
\* nor from a run_timers whose slot has become stale while it waited for the lock.
NeverEarly == \A r \in ran : r[2] <= jiffies

\* A timer is in one bucket at most, and it is the bucket in which del_timer looks
\* for it, whatever runs, periods and cascades have done to it: del_timer never
\* reports a pending timer as not pending.
Placed == \A t \in Timers : Linked(t) \subseteq {Bucket(expires[t])}

\* A timer added in time, and due within the first turn of the wheel, runs on its
\* tick: it is never still in the wheel once that tick is over.
LowTimersOnTime ==
    \A t \in in_time : Linked(t) # {} /\ expires[t] < TIMER_WHEEL_SIZE => jiffies < expires[t]

\* The same for every timer, which is what moving timers to the lower level at each
\* turn is for ("Cascade timers from lvl2", "Move to lower level" in timer_tick).
\* add_timer_bucket chooses the level by the absolute expiry, so that no timer ever
\* reaches the first level from the second, and only the first one is run.
NoOverdueTimer ==
    \A t \in in_time : Linked(t) # {} => jiffies < expires[t]
=============================================================================
