---------------------------- MODULE TimerProofs ----------------------------
(***************************************************************************)
(* The timer wheel, for every number of slots, timers, periods and ticks.  *)
(***************************************************************************)
EXTENDS Timer, TLAPS

\* Every timer of wheel w is in the bucket of its expiry in e, and in no other.
InPlace(w, e) == \A b \in DOMAIN w : \A t \in w[b] : b = Bucket(e[t])

Buckets == (1 .. 3) \X Slots

\* The inductive invariant: run_timers, waiting for timer_lock, has computed a slot
\* that is not ahead of jiffies.
TimerInv ==
    /\ TimerTypeOK
    /\ rt_slot <= jiffies
    /\ InPlace(wheel, expires)
    /\ NeverEarly
    /\ LowTimersOnTime

LEMMA WheelSize == TIMER_WHEEL_SIZE \in Nat \ {0}
BY TimerAssumption DEF TIMER_WHEEL_SIZE

\* The slot of a tick: never ahead of it, and the tick itself in the first turn.
LEMMA SlotFacts ==
  ASSUME NEW n \in Nat
  PROVE  Slot(n) \in Slots /\ Slot(n) <= n /\ (n < TIMER_WHEEL_SIZE => Slot(n) = n)
<1> DEFINE m == TIMER_WHEEL_SIZE
<1>1. m \in Nat \ {0}
  BY WheelSize
<1> HIDE DEF m
<1>2. n % m \in 0 .. (m - 1) /\ n % m <= n /\ (n < m => n % m = n)
  BY <1>1
<1> QED
  BY <1>2 DEF Slot, Slots, m

LEMMA BucketType ==
  ASSUME NEW n \in Nat
  PROVE  Bucket(n) \in Buckets
<1>1. Slot(n) \in Slots
  BY SlotFacts
<1> QED
  BY <1>1 DEF Bucket, Buckets

\* The first level holds the timers of the first turn, each in the slot of its expiry.
LEMMA FirstLevel ==
  ASSUME NEW n \in Nat, NEW s \in Slots
  PROVE  Bucket(n) = <<1, s>> <=> n = s
<1>1. Slot(n) \in Slots /\ (n < TIMER_WHEEL_SIZE => Slot(n) = n)
  BY SlotFacts
<1>2. s < TIMER_WHEEL_SIZE
  BY WheelSize DEF Slots
<1>3. CASE n < TIMER_WHEEL_SIZE
  BY <1>1, <1>3 DEF Bucket
<1>4. CASE ~ (n < TIMER_WHEEL_SIZE)
  BY <1>2, <1>4 DEF Bucket
<1> QED
  BY <1>3, <1>4

\* Wheel u is w with bucket b taken apart, and the timers ts of b are to be added again:
\* only they have new expiry times in f.
TakenApart(w, e, b, ts, u, f) ==
    /\ w \in [Buckets -> SUBSET Timers] /\ u \in [Buckets -> SUBSET Timers]
    /\ e \in [Timers -> Nat] /\ f \in [Timers -> Nat]
    /\ b \in Buckets /\ ts \subseteq w[b]
    /\ InPlace(w, e)
    /\ \A t \in Timers \ ts : f[t] = e[t]
    /\ \A c \in Buckets : u[c] = IF c = b THEN {} ELSE w[c]

\* Every timer of v is one of ts, or was in w and not in bucket b.
OnlyFrom(v, w, b, ts) ==
    \A t \in Timers : (\E c \in Buckets : t \in v[c]) =>
        t \in ts \/ (t \notin w[b] /\ \E c \in Buckets : t \in w[c])

\* Then the timers stay in place, and what is in the wheel was there before.
LEMMA Rebucket ==
  ASSUME NEW w, NEW e, NEW b, NEW ts, NEW u, NEW f, TakenApart(w, e, b, ts, u, f)
  PROVE  /\ AddBucket(u, ts, f) \in [Buckets -> SUBSET Timers]
         /\ InPlace(AddBucket(u, ts, f), f)
         /\ OnlyFrom(AddBucket(u, ts, f), w, b, ts)
<1> DEFINE v == AddBucket(u, ts, f)
<1> USE DEF TakenApart
<1>1. ts \subseteq Timers
  OBVIOUS
<1>2. v = [c \in Buckets |-> (IF c = b THEN {} ELSE w[c]) \cup {t \in ts : Bucket(f[t]) = c}]
  BY DEF AddBucket
<1>3. v \in [Buckets -> SUBSET Timers]
  BY <1>1, <1>2
<1>4. ASSUME NEW c \in Buckets, NEW t \in v[c]
      PROVE  /\ c = Bucket(f[t])
             /\ t \in ts \/ (t \notin w[b] /\ t \in w[c])
  <2>1. t \in Timers
    BY <1>3
  <2>2. CASE t \in ts
    <3>1. t \in w[b] /\ b = Bucket(e[t])
      BY <2>2 DEF InPlace
    <3>2. CASE Bucket(f[t]) = c
      BY <2>2, <3>2
    <3>3. CASE Bucket(f[t]) # c
      <4>1. c # b /\ t \in w[c]
        BY <1>2, <1>4, <3>3
      <4>2. c = Bucket(e[t])
        BY <4>1 DEF InPlace
      <4> QED
        BY <3>1, <4>1, <4>2
    <3> QED
      BY <3>2, <3>3
  <2>3. CASE t \notin ts
    <3>1. c # b /\ t \in w[c]
      BY <1>2, <1>4, <2>3
    <3>2. c = Bucket(e[t])
      BY <3>1 DEF InPlace
    <3>3. t \notin w[b]
      BY <3>1, <3>2 DEF InPlace
    <3> QED
      BY <2>1, <2>3, <3>1, <3>2, <3>3
  <2> QED
    BY <2>2, <2>3
<1>5. InPlace(v, f)
  BY <1>2, <1>4 DEF InPlace
<1> QED
  BY <1>3, <1>4, <1>5 DEF OnlyFrom

LEMMA TimerInitInv == timer_wheel_init => TimerInv
<1> SUFFICES ASSUME timer_wheel_init PROVE TimerInv
  OBVIOUS
<1> USE TimerAssumption DEF timer_wheel_init
<1>1. TimerTypeOK
  BY DEF TimerTypeOK
<1>2. InPlace(wheel, expires) /\ NeverEarly /\ LowTimersOnTime
  BY DEF InPlace, NeverEarly, LowTimersOnTime
<1> QED
  BY <1>1, <1>2 DEF TimerInv

LEMMA AddTimerInv ==
  ASSUME TimerInv, NEW t \in Timers, add_timer(t)
  PROVE  TimerInv'
<1>1. PICK e \in Expiries, p \in Periods, init \in BOOLEAN :
        /\ expires' = [expires EXCEPT ![t] = e]
        /\ period' = [period EXCEPT ![t] = p]
        /\ expired_flag' = [expired_flag EXCEPT ![t] = @ /\ ~ init]
        /\ wheel' = AddBucket(wheel, {t}, expires')
        /\ in_time' = IF jiffies < e THEN in_time \cup {t} ELSE in_time \ {t}
  BY DEF add_timer
<1>2. Linked(t) = {} /\ ran' = {} /\ jiffies' = jiffies /\ rt_slot' = rt_slot
  BY DEF add_timer
<1>3. TimerTypeOK /\ InPlace(wheel, expires) /\ e \in Nat
  BY TimerAssumption DEF TimerInv
<1>4. wheel' = [c \in Buckets |-> wheel[c] \cup {u \in {t} : Bucket(expires'[u]) = c}]
  BY <1>1, <1>3 DEF AddBucket, TimerTypeOK, Buckets
<1>5. \A c \in Buckets : t \notin wheel[c]
  BY <1>2, <1>3 DEF Linked, TimerTypeOK, Buckets
<1>6. expires' \in [Timers -> Nat] /\ expires'[t] = e /\ \A u \in Timers \ {t} : expires'[u] = expires[u]
  BY <1>1, <1>3 DEF TimerTypeOK
<1>7. wheel' \in [Buckets -> SUBSET Timers]
  BY <1>3, <1>4 DEF TimerTypeOK, Buckets
<1>8. InPlace(wheel', expires')
  <2> SUFFICES ASSUME NEW c \in Buckets, NEW u \in wheel'[c] PROVE c = Bucket(expires'[u])
    BY <1>4 DEF InPlace
  <2>1. CASE u = t
    BY <1>4, <1>5, <2>1
  <2>2. CASE u # t
    <3>1. u \in wheel[c] /\ u \in Timers
      BY <1>4, <1>7, <2>2
    <3>2. c = Bucket(expires[u])
      BY <1>3, <3>1 DEF InPlace, TimerTypeOK, Buckets
    <3> QED
      BY <1>6, <2>2, <3>1, <3>2
  <2> QED
    BY <2>1, <2>2
<1>9. period' \in [Timers -> Periods \cup {0}] /\ expired_flag' \in [Timers -> BOOLEAN]
  BY <1>1, <1>3 DEF TimerTypeOK
<1>10. TimerTypeOK'
  BY <1>1, <1>2, <1>3, <1>6, <1>7, <1>9 DEF TimerTypeOK, Buckets, Slots
<1>11. LowTimersOnTime'
  <2> SUFFICES ASSUME NEW u \in in_time', Linked(u)' # {}, expires'[u] < TIMER_WHEEL_SIZE
               PROVE  jiffies' < expires'[u]
    BY DEF LowTimersOnTime, TIMER_WHEEL_SIZE
  <2>1. CASE u = t
    BY <1>1, <1>2, <1>6, <2>1
  <2>2. CASE u # t
    <3>1. u \in in_time /\ u \in Timers /\ expires'[u] = expires[u]
      BY <1>1, <1>3, <1>6, <2>2 DEF TimerTypeOK
    <3>2. PICK c \in Buckets : u \in wheel'[c]
      BY <1>4 DEF Linked
    <3>3. u \in wheel[c]
      BY <1>4, <2>2, <3>2
    <3>4. Linked(u) # {}
      BY <1>3, <3>3 DEF Linked, TimerTypeOK, Buckets
    <3> QED
      BY <1>2, <3>1, <3>4 DEF TimerInv, LowTimersOnTime
  <2> QED
    BY <2>1, <2>2
<1> QED
  BY <1>2, <1>8, <1>10, <1>11 DEF TimerInv, NeverEarly

LEMMA DelTimerInv ==
  ASSUME TimerInv, NEW t \in Timers, del_timer(t)
  PROVE  TimerInv'
<1> USE DEF TimerInv
<1>1. TimerTypeOK
  OBVIOUS
<1>2. \A c \in Buckets : wheel'[c] \subseteq wheel[c]
  BY <1>1 DEF del_timer, TimerTypeOK, Buckets
<1>3. wheel' \in [Buckets -> SUBSET Timers]
  BY <1>1 DEF del_timer, TimerTypeOK, Buckets
<1>4. /\ expires' = expires /\ jiffies' = jiffies /\ rt_slot' = rt_slot
      /\ period' = period /\ in_time' = in_time /\ ran' = {}
      /\ expired_flag' \in [Timers -> BOOLEAN]
  BY <1>1 DEF del_timer, TimerTypeOK
<1>5. TimerTypeOK'
  BY <1>1, <1>3, <1>4 DEF TimerTypeOK, Buckets, Slots
<1>6. InPlace(wheel', expires')
  BY <1>1, <1>2, <1>3, <1>4 DEF InPlace, TimerTypeOK, Buckets
<1>7. \A u : Linked(u)' \subseteq Linked(u)
  BY <1>1, <1>2, <1>3 DEF Linked, TimerTypeOK, Buckets
<1>8. LowTimersOnTime'
  BY <1>4, <1>7 DEF LowTimersOnTime, TIMER_WHEEL_SIZE
<1> QED
  BY <1>4, <1>5, <1>6, <1>8 DEF NeverEarly

\* run_timer_list on a slot that jiffies has reached: nothing runs early, and the timers
\* that are still in the wheel and count as in time are those it has just set again, or
\* were not due.
LEMMA RunList ==
  ASSUME TimerInv, NEW s \in Slots, run_timer_list(s), jiffies' \in Nat, s <= jiffies',
         UNCHANGED <<period, expired_flag>>,
         NEW w, w = Relink(s, expires')
  PROVE  /\ expires' \in [Timers -> Nat]
         /\ w \in [Buckets -> SUBSET Timers]
         /\ InPlace(w, expires')
         /\ in_time' \subseteq Timers
         /\ NeverEarly'
         /\ \A t \in in_time' : (\E c \in Buckets : t \in w[c]) =>
               \/ jiffies' < expires'[t]
               \/ /\ t \in in_time /\ t \notin Due(s) /\ Linked(t) # {}
                  /\ expires'[t] = expires[t]
<1> USE DEF TimerInv
<1>1. TimerTypeOK /\ <<1, s>> \in Buckets
  BY DEF Buckets
<1>2. wheel \in [Buckets -> SUBSET Timers] /\ expires \in [Timers -> Nat] /\ period \in [Timers -> Nat]
  <2>1. Periods \cup {0} \subseteq Nat
    BY TimerAssumption
  <2> QED
    BY <1>1, <2>1 DEF TimerTypeOK, Buckets
<1>3. Due(s) \subseteq Timers /\ Again(s) \subseteq wheel[<<1, s>>] /\ Due(s) = wheel[<<1, s>>]
  BY <1>1, <1>2 DEF Due, Again
<1>4. /\ ran' = {<<t, expires[t]>> : t \in Due(s)}
      /\ expires' = [t \in Timers |-> IF t \in Again(s) THEN expires[t] + period[t] ELSE expires[t]]
      /\ in_time' = (in_time \ Due(s)) \cup {t \in Again(s) : jiffies' < expires'[t]}
  BY DEF run_timer_list
<1>5. expires' \in [Timers -> Nat] /\ \A t \in Timers \ Again(s) : expires'[t] = expires[t]
  BY <1>2, <1>4
<1>6. /\ w \in [Buckets -> SUBSET Timers]
      /\ InPlace(w, expires')
      /\ OnlyFrom(w, wheel, <<1, s>>, Again(s))
  <2> DEFINE u == [wheel EXCEPT ![<<1, s>>] = {}]
  <2>1. w = AddBucket(u, Again(s), expires')
    BY DEF Relink
  <2>2. TakenApart(wheel, expires, <<1, s>>, Again(s), u, expires')
    BY <1>1, <1>2, <1>3, <1>5 DEF TakenApart
  <2> HIDE DEF TimerInv, u
  <2> QED
    BY <2>1, <2>2, Rebucket
<1>7. in_time' \subseteq Timers
  BY <1>1, <1>3, <1>4 DEF TimerTypeOK
<1>8. NeverEarly'
  <2> SUFFICES ASSUME NEW r \in ran' PROVE r[2] <= jiffies'
    BY DEF NeverEarly
  <2>1. PICK t \in Due(s) : r = <<t, expires[t]>>
    BY <1>4
  <2>2. <<1, s>> = Bucket(expires[t]) /\ expires[t] \in Nat
    BY <1>1, <1>2, <1>3 DEF InPlace
  <2>3. expires[t] = s
    BY <2>2, FirstLevel
  <2> QED
    BY <2>1, <2>3
<1>9. ASSUME NEW t \in in_time', \E c \in Buckets : t \in w[c]
      PROVE  \/ jiffies' < expires'[t]
             \/ /\ t \in in_time /\ t \notin Due(s) /\ Linked(t) # {}
                /\ expires'[t] = expires[t]
  <2>1. CASE t \in Again(s)
    BY <1>3, <1>4, <2>1
  <2>2. CASE t \notin Again(s)
    <3>1. t \in in_time /\ t \notin Due(s) /\ t \in Timers
      BY <1>4, <1>7, <2>2
    <3>2. \E c \in Buckets : t \in wheel[c]
      BY <1>3, <1>6, <1>9, <2>2, <3>1 DEF OnlyFrom
    <3>3. Linked(t) # {}
      BY <1>2, <3>2 DEF Linked
    <3> QED
      BY <1>5, <2>2, <3>1, <3>3
  <2> QED
    BY <2>1, <2>2
<1> QED
  BY <1>5, <1>6, <1>7, <1>8, <1>9

\* The cascade of the second level keeps timers in place, and moves in no new one.
LEMMA CascadeInv ==
  ASSUME NEW w \in [Buckets -> SUBSET Timers], NEW e \in [Timers -> Nat], InPlace(w, e),
         jiffies' \in Nat, NEW v, v = Cascade(w, e)
  PROVE  /\ v \in [Buckets -> SUBSET Timers]
         /\ InPlace(v, e)
         /\ \A t \in Timers : (\E c \in Buckets : t \in v[c]) => \E c \in Buckets : t \in w[c]
<1> DEFINE n == jiffies' \div TIMER_WHEEL_SIZE
           b == <<2, Slot(n)>>
<1>1. n \in Nat
  <2>1. \A x \in Nat : \A m \in Nat \ {0} : x \div m \in Nat
    OBVIOUS
  <2> QED
    BY <2>1, WheelSize
<1>2. b \in Buckets
  BY <1>1, SlotFacts DEF Buckets
<1> HIDE DEF n
<1>3. CASE Slot(jiffies') = 0
  <2> DEFINE u == [w EXCEPT ![b] = {}]
  <2>1. v = AddBucket(u, w[b], e)
    BY <1>3 DEF Cascade, n
  <2>2. TakenApart(w, e, b, w[b], u, e)
    BY <1>2 DEF TakenApart
  <2> HIDE DEF b, u
  <2>3. /\ v \in [Buckets -> SUBSET Timers]
        /\ InPlace(v, e)
        /\ OnlyFrom(v, w, b, w[b])
    BY <2>1, <2>2, Rebucket
  <2> QED
    BY <1>2, <2>3 DEF OnlyFrom
<1>4. CASE Slot(jiffies') # 0
  <2>1. v = w
    BY <1>4 DEF Cascade
  <2> QED
    BY <2>1
<1> QED
  BY <1>3, <1>4

LEMMA TimerTickInv ==
  ASSUME TimerInv, timer_tick
  PROVE  TimerInv'
<1> DEFINE s == Slot(jiffies + 1)
           w == Relink(s, expires')
<1> USE DEF TimerInv
<1>1. TimerTypeOK /\ jiffies \in Nat /\ jiffies' = jiffies + 1 /\ jiffies' \in 0 .. MaxJiffies
  BY TimerAssumption DEF TimerTypeOK, timer_tick, TickAt
<1>2. s \in Slots /\ s <= jiffies' /\ (jiffies + 1 < TIMER_WHEEL_SIZE => s = jiffies + 1)
  BY <1>1, SlotFacts
<1>3. run_timer_list(s) /\ wheel' = Cascade(w, expires') /\ UNCHANGED <<period, expired_flag, rt_slot>>
  BY DEF timer_tick, TickAt
<1> HIDE DEF s, w
<1>4. /\ expires' \in [Timers -> Nat]
      /\ w \in [Buckets -> SUBSET Timers]
      /\ InPlace(w, expires')
      /\ in_time' \subseteq Timers
      /\ NeverEarly'
      /\ \A t \in in_time' : (\E c \in Buckets : t \in w[c]) =>
            \/ jiffies' < expires'[t]
            \/ /\ t \in in_time /\ t \notin Due(s) /\ Linked(t) # {}
               /\ expires'[t] = expires[t]
  BY <1>1, <1>2, <1>3, RunList DEF w
<1>5. /\ wheel' \in [Buckets -> SUBSET Timers]
      /\ InPlace(wheel', expires')
      /\ \A t \in Timers : (\E c \in Buckets : t \in wheel'[c]) => \E c \in Buckets : t \in w[c]
  BY <1>1, <1>3, <1>4, CascadeInv
<1>6. TimerTypeOK'
  BY <1>1, <1>3, <1>4, <1>5 DEF TimerTypeOK, Buckets, Slots, TIMER_WHEEL_SIZE
<1>7. LowTimersOnTime'
  <2> SUFFICES ASSUME NEW t \in in_time', Linked(t)' # {}, expires'[t] < TIMER_WHEEL_SIZE
               PROVE  jiffies' < expires'[t]
    BY DEF LowTimersOnTime, TIMER_WHEEL_SIZE
  <2>1. t \in Timers /\ \E c \in Buckets : t \in wheel'[c]
    BY <1>4, <1>5 DEF Linked
  <2>2. CASE t \in in_time /\ t \notin Due(s) /\ Linked(t) # {} /\ expires'[t] = expires[t]
    <3>1. jiffies < expires[t] /\ expires[t] \in Nat
      BY <1>1, <2>1, <2>2 DEF LowTimersOnTime, TimerTypeOK
    <3>2. expires[t] # jiffies + 1
      <4> SUFFICES ASSUME expires[t] = jiffies + 1 PROVE FALSE
        OBVIOUS
      <4>1. s = expires[t]
        BY <1>2, <2>2
      <4>2. PICK c \in DOMAIN wheel : t \in wheel[c]
        BY <2>2 DEF Linked
      <4>3. c = Bucket(expires[t])
        BY <4>2 DEF InPlace
      <4>4. c = <<1, s>>
        BY <1>2, <3>1, <4>1, <4>3, FirstLevel
      <4> QED
        BY <2>2, <4>2, <4>4 DEF Due
    <3> QED
      BY <1>1, <2>2, <3>1, <3>2
  <2> QED
    BY <1>4, <1>5, <2>1, <2>2
<1> QED
  BY <1>1, <1>3, <1>4, <1>5, <1>6, <1>7 DEF TimerTypeOK, Slots

LEMMA RunTimersInv ==
  ASSUME TimerInv, run_timers
  PROVE  TimerInv'
<1> USE DEF TimerInv
<1>1. TimerTypeOK /\ jiffies \in Nat
  BY TimerAssumption DEF TimerTypeOK
<1>2. CASE rt_slot = -1
  <2>1. /\ rt_slot' = Slot(jiffies) /\ ran' = {}
        /\ UNCHANGED <<jiffies, wheel, expires, period, expired_flag, in_time>>
    BY <1>2 DEF run_timers
  <2>2. Slot(jiffies) \in Slots /\ Slot(jiffies) <= jiffies
    BY <1>1, SlotFacts
  <2>3. TimerTypeOK'
    BY <1>1, <2>1, <2>2 DEF TimerTypeOK, Slots, TIMER_WHEEL_SIZE
  <2> QED
    BY <2>1, <2>2, <2>3 DEF InPlace, NeverEarly, LowTimersOnTime, Linked, TIMER_WHEEL_SIZE
<1>3. CASE rt_slot # -1
  <2>1. /\ rt_slot' = -1 /\ jiffies' = jiffies /\ UNCHANGED <<period, expired_flag>>
        /\ run_timer_list(rt_slot)
        /\ wheel' = Relink(rt_slot, expires')
    BY <1>3 DEF run_timers
  <2>2. rt_slot \in Slots
    BY <1>1, <1>3 DEF TimerTypeOK
  <2>3. /\ expires' \in [Timers -> Nat]
        /\ wheel' \in [Buckets -> SUBSET Timers]
        /\ InPlace(wheel', expires')
        /\ in_time' \subseteq Timers
        /\ NeverEarly'
        /\ \A t \in in_time' : (\E c \in Buckets : t \in wheel'[c]) =>
              \/ jiffies' < expires'[t]
              \/ /\ t \in in_time /\ t \notin Due(rt_slot) /\ Linked(t) # {}
                 /\ expires'[t] = expires[t]
    BY <1>1, <2>1, <2>2, RunList
  <2>4. TimerTypeOK'
    BY <1>1, <2>1, <2>3 DEF TimerTypeOK, Buckets, Slots, TIMER_WHEEL_SIZE
  <2>5. LowTimersOnTime'
    <3> SUFFICES ASSUME NEW t \in in_time', Linked(t)' # {}, expires'[t] < TIMER_WHEEL_SIZE
                 PROVE  jiffies' < expires'[t]
      BY DEF LowTimersOnTime, TIMER_WHEEL_SIZE
    <3>1. \E c \in Buckets : t \in wheel'[c]
      BY <2>3 DEF Linked
    <3> QED
      BY <2>1, <2>3, <3>1 DEF LowTimersOnTime
  <2> QED
    BY <1>1, <2>1, <2>3, <2>4, <2>5
<1> QED
  BY <1>2, <1>3

LEMMA TimerNextInv ==
  ASSUME TimerInv, [TimerNext]_vars
  PROVE  TimerInv'
<1>1. ASSUME UNCHANGED vars PROVE TimerInv'
  BY <1>1 DEF vars, TimerInv, TimerTypeOK, InPlace, NeverEarly, LowTimersOnTime, Linked,
              Slots, TIMER_WHEEL_SIZE
<1> QED
  BY <1>1, AddTimerInv, DelTimerInv, TimerTickInv, RunTimersInv DEF TimerNext

\* The inductive invariant of the timer wheel.
THEOREM TimerInvariant == TimerSpec => []TimerInv
<1>1. TimerInv /\ [TimerNext]_vars => TimerInv'
  BY TimerNextInv
<1> QED
  BY <1>1, TimerInitInv, PTL DEF TimerSpec

\* No timer function runs before its tick, from timer_tick or from a run_timers that
\* waited for timer_lock while ticks passed.
THEOREM TimersNeverEarly == TimerSpec => []NeverEarly
<1>1. TimerInv => NeverEarly
  BY DEF TimerInv
<1> QED
  BY <1>1, TimerInvariant, PTL

\* A pending timer is in the bucket where del_timer looks for it, and in no other.
THEOREM TimersArePlaced == TimerSpec => []Placed
<1>1. TimerInv => Placed
  BY DEF TimerInv, InPlace, Placed, Linked
<1> QED
  BY <1>1, TimerInvariant, PTL

\* A timer of the first turn of the wheel, added before its tick, runs on that tick.
THEOREM LowTimersAreOnTime == TimerSpec => []LowTimersOnTime
<1>1. TimerInv => LowTimersOnTime
  BY DEF TimerInv
<1> QED
  BY <1>1, TimerInvariant, PTL
=============================================================================
