------------------------------- MODULE MachineProofs -------------------------------
EXTENDS Machine, BaseLemmas
-----------------------------------------------------------------------------
(***************************************************************************)
(* A behaviour of the machine, seen from one of its parts.                 *)
(***************************************************************************)
LEMMA MachineParts ==
  ASSUME [MachineNext]_MachineVars
  PROVE  /\ [NetNext]_NetVars /\ [SockNext \/ RouteNext]_SockVars
         /\ [SchedNext]_sched /\ [VmaNext]_VmaVars /\ [PagingNext]_paging
         /\ [CacheNext \/ QueueNext]_BlockVars
         /\ [ControllerNext \/ KeyboardNext \/ MouseNext]_InputVars
         /\ [StdinNext \/ FdNext]_SyscallVars
         /\ [VectorNext \/ ListNext \/ RingBufNext \/ HashNext \/ StrHashNext]_ContainerVars
<1>1. CASE UNCHANGED MachineVars
  BY <1>1 DEF MachineVars
<1>2. CASE NetworkPart
  BY <1>2 DEF NetworkPart
<1>3. CASE SchedPart
  BY <1>3 DEF SchedPart
<1>4. CASE VmaPart
  BY <1>4 DEF VmaPart
<1>5. CASE BlockPart
  BY <1>5 DEF BlockPart
<1>6. CASE InputPart
  BY <1>6 DEF InputPart
<1>7. CASE SyscallPart
  BY <1>7 DEF SyscallPart
<1>8. CASE ContainerPart
  BY <1>8 DEF ContainerPart
<1>9. CASE PagingPart
  BY <1>9 DEF PagingPart
<1> QED
  BY <1>1, <1>2, <1>3, <1>4, <1>5, <1>6, <1>7, <1>8, <1>9 DEF MachineNext

-----------------------------------------------------------------------------
(***************************************************************************)
(* System calls: the ring of sys_read.                                     *)
(***************************************************************************)
LEMMA DivMod ==
  ASSUME NEW m \in Nat \ {0}, NEW n \in Nat
  PROVE  n \div m \in Nat /\ n % m \in 0 .. (m - 1) /\ n = m * (n \div m) + (n % m)
OBVIOUS

LEMMA ModIs ==
  ASSUME NEW m \in Nat \ {0}, NEW q \in Nat, NEW r \in 0 .. (m - 1)
  PROVE  (m * q + r) % m = r
OBVIOUS

\* Two numbers that are one slot of a ring are a turn apart.
LEMMA ModApart ==
  ASSUME NEW m \in Nat \ {0}, NEW a \in Nat, NEW b \in Nat, a % m = b % m, a < b
  PROVE  a + m <= b
<1>0. /\ a \div m \in Nat /\ a % m \in 0 .. (m - 1) /\ a = m * (a \div m) + (a % m)
      /\ b \div m \in Nat /\ b = m * (b \div m) + (b % m)
  BY DivMod
<1>1. PICK p, q, r : p = a \div m /\ q = b \div m /\ r = a % m
  OBVIOUS
<1>2. p \in Nat /\ r \in 0 .. (m - 1) /\ a = m * p + r
  BY <1>0, <1>1, Zenon
<1>3. q \in Nat /\ b = m * q + (b % m)
  BY <1>0, <1>1, Zenon
<1>4. b = m * q + r
  BY <1>1, <1>3
<1>5. m * p < m * q
  BY <1>2, <1>3, <1>4
<1>6. p + 1 <= q
  BY <1>2, <1>3, <1>5
<1>7. m * (p + 1) <= m * q
  BY <1>2, <1>3, <1>6
<1> QED
  BY <1>2, <1>3, <1>4, <1>7

LEMMA ModNext ==
  ASSUME NEW m \in Nat \ {0}, NEW n \in Nat
  PROVE  (n + 1) % m = ((n % m) + 1) % m
<1>1. PICK q, r : q = n \div m /\ r = n % m
  OBVIOUS
<1>2. q \in Nat /\ r \in 0 .. (m - 1) /\ n = m * q + r
  BY <1>1, DivMod
<1>3. CASE r + 1 < m
  <2>1. PICK x : x = r + 1 /\ x \in 0 .. (m - 1)
    BY <1>2, <1>3
  <2>2. (m * q + x) % m = x /\ x % m = x /\ n + 1 = m * q + x
    BY <1>2, <2>1, ModIs
  <2> QED
    BY <1>1, <2>1, <2>2
<1>4. CASE r + 1 = m
  <2>1. (m * (q + 1) + 0) % m = 0
    BY <1>2, ModIs
  <2>2. n + 1 = m * (q + 1) + 0 /\ m % m = 0
    BY <1>2, <1>4
  <2> QED
    BY <1>1, <1>4, <2>1, <2>2
<1> QED
  BY <1>2, <1>3, <1>4

LEMMA ModTurn ==
  ASSUME NEW m \in Nat \ {0}, NEW n \in Nat
  PROVE  (n + m) % m = n % m
<1>1. PICK q, r : q = n \div m /\ r = n % m
  OBVIOUS
<1>2. q \in Nat /\ r \in 0 .. (m - 1) /\ n = m * q + r
  BY <1>1, DivMod
<1>3. (m * (q + 1) + r) % m = r
  BY <1>2, ModIs
<1>4. n + m = m * (q + 1) + r
  BY <1>2
<1> QED
  BY <1>1, <1>3, <1>4

\* After p characters each slot of a ring of N that was written has the last one of its own.
SlotsHold(N, p, who) ==
    /\ DOMAIN who = 0 .. (N - 1)
    /\ \A i \in 0 .. (N - 1) : i < p => who[i] \in 0 .. (p - 1) /\ p <= who[i] + N /\ who[i] % N = i

LEMMA PutSlot ==
  ASSUME NEW N \in Nat \ {0}, NEW p \in Nat, NEW who, SlotsHold(N, p, who), NEW w, w = [who EXCEPT ![p % N] = p]
  PROVE  SlotsHold(N, p + 1, w)
<1>1. PICK k : k = p % N /\ k \in 0 .. (N - 1)
  BY DivMod
<1>2. DOMAIN w = 0 .. (N - 1) /\ w[k] = p /\ \A i \in (0 .. (N - 1)) \ {k} : w[i] = who[i]
  BY <1>1 DEF SlotsHold
<1>3. ASSUME NEW i \in 0 .. (N - 1), i # k, i < p + 1
      PROVE  w[i] \in 0 .. p /\ p + 1 <= w[i] + N /\ w[i] % N = i
  <2>1. i # p
    BY <1>1, <1>3
  <2>2. who[i] \in 0 .. (p - 1) /\ p <= who[i] + N /\ who[i] % N = i
    BY <1>3, <2>1 DEF SlotsHold
  <2>3. PICK n : n = who[i] /\ n \in Nat
    BY <2>2
  <2>4. p # n + N
    BY <1>1, <1>3, <2>2, <2>3, ModTurn
  <2> QED
    BY <1>2, <1>3, <2>2, <2>3, <2>4
<1>4. w[k] \in 0 .. p /\ p + 1 <= w[k] + N /\ w[k] % N = k
  BY <1>1, <1>2
<1>5. ASSUME NEW i \in 0 .. (N - 1), i < p + 1
      PROVE  w[i] \in 0 .. p /\ p + 1 <= w[i] + N /\ w[i] % N = i
  BY <1>3, <1>4, <1>5
<1>6. (p + 1) - 1 = p
  OBVIOUS
<1> QED
  BY <1>2, <1>5, <1>6 DEF SlotsHold

\* When g of them were taken, the next slot has a character n that is not older.
NextSlot(N, p, who, g, n) ==
    N \in Nat \ {0} /\ p \in Nat /\ g \in Nat /\ g < p /\ SlotsHold(N, p, who) /\ n = who[g % N]

NotOlder(N, p, g, n) == n \in g .. (p - 1) /\ n % N = g % N /\ (p - g <= N => n = g)

LEMMA TakeSlot ==
  ASSUME NEW N, NEW p, NEW who, NEW g, NEW n, NextSlot(N, p, who, g, n)
  PROVE  NotOlder(N, p, g, n)
<1> USE DEF NextSlot, NotOlder
<1>1. PICK k : k = g % N /\ k \in 0 .. (N - 1)
  BY DivMod
<1>2. k <= g
  BY <1>1
<1>3. n \in 0 .. (p - 1) /\ p <= n + N /\ n % N = k
  BY <1>1, <1>2 DEF SlotsHold
<1>a. n \in Nat /\ n % N = g % N
  BY <1>1, <1>3
<1>4. ~ (n < g)
  <2>1. n < g => n + N <= g
    BY <1>a, ModApart
  <2> QED
    BY <1>3, <2>1
<1>5. g < n => g + N <= n
  BY <1>a, ModApart
<1> QED
  BY <1>1, <1>3, <1>4, <1>5

StdinRecords ==
    [buffer : [0 .. (StdinSize - 1) -> Chars \cup {NoChar}], head : 0 .. (StdinSize - 1),
     tail : 0 .. (StdinSize - 1), count : Int]

ReadCalls ==
    [pc : {"user", "check", "get", "load", "store", "halted"}, left : Int, c : Chars \cup {NoChar}, count : Int]

TakenFields == {"puts", "gets", "lost", "who"}

\* The character that sys_read has taken and not yet counted.
InHand(pc) == IF pc \in {"load", "store"} THEN 1 ELSE 0

\* The ring of N slots, its indices and its count, beside the numbers of the characters.
RingCounts(N, r, t, hand) ==
    /\ DOMAIN t = TakenFields /\ t.puts \in Nat /\ t.gets \in Nat /\ t.lost \in Nat
    /\ SlotsHold(N, t.puts, t.who)
    /\ r.tail = t.puts % N /\ r.head = t.gets % N
    /\ r.count \in 0 .. N /\ r.count + t.lost = t.puts - t.gets + hand

\* The count that a decrement has loaded is as old as the load, and at least one, as the
\* count is from the check to the decrement.
StdinInv ==
    /\ stdin \in StdinRecords /\ call \in ReadCalls
    /\ RingCounts(StdinSize, stdin, taken, InHand(call.pc))
    /\ call.pc \in {"get", "load"} => stdin.count > 0
    /\ call.pc = "store" => call.count > 0 /\ call.count <= stdin.count

LEMMA StdinInitInv == syscall_init => StdinInv
<1> SUFFICES ASSUME syscall_init PROVE StdinInv
  OBVIOUS
<1>1. StdinSize \in Nat \ {0} /\ 0 \in 0 .. (StdinSize - 1) /\ 0 % StdinSize = 0
  BY SyscallAssumption
<1>2. stdin \in StdinRecords /\ stdin.head = 0 /\ stdin.tail = 0 /\ stdin.count = 0
  BY <1>1 DEF syscall_init, StdinRecords
<1>3. call \in ReadCalls /\ call.pc = "user"
  BY DEF syscall_init, Idle_call, ReadCalls
<1>4. DOMAIN taken = TakenFields /\ taken.puts = 0 /\ taken.gets = 0 /\ taken.lost = 0
      /\ DOMAIN taken.who = 0 .. (StdinSize - 1)
  BY DEF syscall_init, TakenFields
<1>5. SlotsHold(StdinSize, 0, taken.who)
  BY <1>1, <1>4 DEF SlotsHold
<1>6. RingCounts(StdinSize, stdin, taken, 0)
  BY <1>1, <1>2, <1>4, <1>5 DEF RingCounts
<1>7. InHand(call.pc) = 0
  BY <1>3 DEF InHand
<1> QED
  BY <1>2, <1>3, <1>6, <1>7 DEF StdinInv

LEMMA StdinPutInv ==
  ASSUME StdinInv, NEW c \in Chars, keyboard_buffer_put(c), stdin.count < StdinSize
  PROVE  StdinInv'
<1>s. StdinSize \in Nat \ {0} /\ \A n \in 0 .. (StdinSize - 1) : (n + 1) % StdinSize \in 0 .. (StdinSize - 1)
  BY SyscallAssumption
<1>1. /\ stdin' = [stdin EXCEPT !.buffer = [stdin.buffer EXCEPT ![stdin.tail] = c],
                                !.tail = (stdin.tail + 1) % StdinSize, !.count = stdin.count + 1]
      /\ taken' = [taken EXCEPT !.who = [taken.who EXCEPT ![stdin.tail] = taken.puts], !.puts = taken.puts + 1]
      /\ call' = call
  BY DEF keyboard_buffer_put
<1>2. stdin \in StdinRecords /\ RingCounts(StdinSize, stdin, taken, InHand(call.pc))
  BY DEF StdinInv
<1>3. /\ stdin' \in StdinRecords /\ stdin'.count = stdin.count + 1
      /\ stdin'.head = stdin.head /\ stdin'.tail = (stdin.tail + 1) % StdinSize
  <2>1. [stdin.buffer EXCEPT ![stdin.tail] = c] \in [0 .. (StdinSize - 1) -> Chars \cup {NoChar}]
    BY <1>2 DEF StdinRecords
  <2>2. PICK b \in [0 .. (StdinSize - 1) -> Chars \cup {NoChar}], t \in 0 .. (StdinSize - 1) :
          t = (stdin.tail + 1) % StdinSize /\ stdin' = [stdin EXCEPT !.buffer = b, !.tail = t, !.count = stdin.count + 1]
    BY <1>s, <1>1, <1>2, <2>1 DEF StdinRecords
  <2>3. stdin.count + 1 \in Int
    BY <1>2 DEF StdinRecords
  <2> QED
    BY <1>2, <2>2, <2>3 DEF StdinRecords
<1>4. PICK w : w = [taken.who EXCEPT ![taken.puts % StdinSize] = taken.puts]
  OBVIOUS
<1>5. SlotsHold(StdinSize, taken.puts + 1, w)
  BY <1>s, <1>2, <1>4, PutSlot DEF RingCounts
<1>6. taken' = [taken EXCEPT !.who = w, !.puts = taken.puts + 1]
  BY <1>1, <1>2, <1>4 DEF RingCounts
<1>7. /\ DOMAIN taken' = TakenFields /\ taken'.puts = taken.puts + 1 /\ taken'.gets = taken.gets
      /\ taken'.lost = taken.lost /\ taken'.who = w
  BY <1>2, <1>6 DEF RingCounts, TakenFields
<1>8. (taken.puts + 1) % StdinSize = (stdin.tail + 1) % StdinSize
  BY <1>s, <1>2, ModNext DEF RingCounts
<1>9. InHand(call.pc) \in {0, 1}
  BY DEF InHand
<1>a. /\ taken.puts \in Nat /\ taken.gets \in Nat /\ taken.lost \in Nat /\ stdin.count \in 0 .. StdinSize
      /\ stdin.count + taken.lost = taken.puts - taken.gets + InHand(call.pc) /\ stdin.head = taken.gets % StdinSize
  BY <1>2 DEF RingCounts
<1>b. stdin'.count \in 0 .. StdinSize /\ stdin'.count + taken'.lost = taken'.puts - taken'.gets + InHand(call.pc)
  <2>1. PICK hand \in {0, 1} : hand = InHand(call.pc)
    BY <1>9
  <2>2. StdinSize \in Nat
    BY <1>s
  <2>3. stdin.count + 1 \in 0 .. StdinSize /\ stdin.count + 1 + taken.lost = taken.puts + 1 - taken.gets + hand
    BY <1>a, <2>1, <2>2
  <2> QED
    <3>1. /\ stdin'.count = stdin.count + 1 /\ taken'.lost = taken.lost /\ taken'.puts = taken.puts + 1
          /\ taken'.gets = taken.gets
      BY <1>3, <1>7, Zenon
    <3> QED
      BY <1>a, <2>1, <2>2, <2>3, <3>1
<1>c. stdin'.tail = taken'.puts % StdinSize /\ stdin'.head = taken'.gets % StdinSize
  BY <1>3, <1>7, <1>8, <1>a
<1>d. taken'.puts \in Nat /\ taken'.gets \in Nat /\ taken'.lost \in Nat
  BY <1>7, <1>a
<1>10. RingCounts(StdinSize, stdin', taken', InHand(call.pc))
  BY <1>5, <1>7, <1>b, <1>c, <1>d DEF RingCounts
<1>11. stdin.count > 0 => stdin'.count > 0
  BY <1>3, <1>a
<1>12. call.pc = "store" => call.count > 0 /\ call.count <= stdin'.count
  <2>1. call.count \in Int
    BY DEF StdinInv, ReadCalls
  <2> QED
    BY <1>3, <1>a, <2>1 DEF StdinInv
<1> QED
  BY <1>1, <1>3, <1>10, <1>11, <1>12 DEF StdinInv

LEMMA StdinNextInv == StdinInv /\ [StdinNext \/ FdNext]_SyscallVars => StdinInv'
<1> SUFFICES ASSUME StdinInv, [StdinNext \/ FdNext]_SyscallVars PROVE StdinInv'
  OBVIOUS
<1>0. Idle_call \in ReadCalls /\ Idle_call.pc = "user"
  BY DEF Idle_call, ReadCalls
<1>s. StdinSize \in Nat \ {0} /\ \A n \in 0 .. (StdinSize - 1) : (n + 1) % StdinSize \in 0 .. (StdinSize - 1)
  BY SyscallAssumption
<1>t. /\ stdin \in StdinRecords /\ call \in ReadCalls
      /\ RingCounts(StdinSize, stdin, taken, InHand(call.pc)) /\ stdin.count \in Int
  BY DEF StdinInv, StdinRecords
<1>h. InHand("user") = 0 /\ InHand("check") = 0 /\ InHand("get") = 0 /\ InHand("halted") = 0
      /\ InHand("load") = 1 /\ InHand("store") = 1
  BY DEF InHand
<1>1. CASE UNCHANGED <<stdin, taken, call>>
  BY <1>1 DEF StdinInv
<1>2. ASSUME NEW c \in Chars, keyboard_buffer_put(c) PROVE StdinInv'
  <2>1. CASE stdin.count < StdinSize
    BY <1>2, <2>1, StdinPutInv
  <2>2. CASE ~(stdin.count < StdinSize)
    BY <1>1, <1>2, <2>2 DEF keyboard_buffer_put
  <2> QED
    BY <2>1, <2>2
\* The ring stays, and the call goes to another place where it has as much in hand.
<1>w. ASSUME UNCHANGED <<stdin, taken>>, call' \in ReadCalls, InHand(call'.pc) = InHand(call.pc),
             call'.pc \in {"get", "load"} => stdin.count > 0,
             call'.pc = "store" => call'.count > 0 /\ call'.count <= stdin.count
      PROVE  StdinInv'
  BY <1>t, <1>w DEF StdinInv
<1>3. ASSUME NEW count \in ReadCounts, sys_read(count) PROVE StdinInv'
  <2>1. call' = [Idle_call EXCEPT !.pc = "check", !.left = count] /\ UNCHANGED <<stdin, taken>> /\ call.pc = "user"
    BY <1>3 DEF sys_read, Go
  <2>2. count \in Int
    BY SyscallAssumption
  <2>3. call' \in ReadCalls /\ call'.pc = "check"
    BY <1>0, <2>1, <2>2 DEF ReadCalls
  <2> QED
    BY <1>h, <1>w, <2>1, <2>3
<1>4. CASE ReadCheck
  <2>1. call.pc = "check" /\ UNCHANGED <<stdin, taken>>
    BY <1>4 DEF ReadCheck
  <2>2. CASE stdin.count > 0
    <3>1. call' = [call EXCEPT !.pc = "get"]
      BY <1>4, <2>2 DEF ReadCheck, Go
    <3>2. call' \in ReadCalls /\ call'.pc = "get"
      BY <1>t, <3>1 DEF ReadCalls
    <3> QED
      BY <1>h, <1>w, <2>1, <2>2, <3>2
  <2>3. CASE ~(stdin.count > 0)
    <3>1. call' = Idle_call
      BY <1>4, <2>3 DEF ReadCheck, Go
    <3> QED
      BY <1>0, <1>h, <1>w, <2>1, <3>1
  <2> QED
    BY <2>2, <2>3
<1>5. CASE ReadGet
  <2>1. /\ call.pc = "get" /\ stdin' = [stdin EXCEPT !.head = (stdin.head + 1) % StdinSize]
        /\ taken' = [taken EXCEPT !.gets = taken.gets + 1]
        /\ call' = [call EXCEPT !.pc = "load", !.c = stdin.buffer[stdin.head]]
    BY <1>5 DEF ReadGet, Go
  <2>2. /\ stdin' \in StdinRecords /\ stdin'.count = stdin.count /\ stdin'.tail = stdin.tail
        /\ stdin'.head = (stdin.head + 1) % StdinSize
    BY <1>s, <1>t, <2>1 DEF StdinRecords
  <2>3. call' \in ReadCalls /\ call'.pc = "load"
    <3>1. stdin.buffer[stdin.head] \in Chars \cup {NoChar}
      BY <1>t DEF StdinRecords
    <3> QED
      BY <1>t, <2>1, <3>1 DEF ReadCalls
  <2>4. /\ DOMAIN taken' = TakenFields /\ taken'.puts = taken.puts /\ taken'.gets = taken.gets + 1
        /\ taken'.lost = taken.lost /\ taken'.who = taken.who
    BY <1>t, <2>1 DEF RingCounts, TakenFields
  <2>5. (taken.gets + 1) % StdinSize = (stdin.head + 1) % StdinSize
    BY <1>s, <1>t, ModNext DEF RingCounts
  <2>6. RingCounts(StdinSize, stdin', taken', 1)
    BY <1>s, <1>t, <1>h, <2>1, <2>2, <2>4, <2>5 DEF RingCounts
  <2> QED
    BY <1>h, <2>1, <2>2, <2>3, <2>6 DEF StdinInv
<1>6. CASE ReadLoad
  <2>1. call.pc = "load" /\ UNCHANGED <<stdin, taken>> /\ call' = [call EXCEPT !.pc = "store", !.count = stdin.count]
    BY <1>6 DEF ReadLoad, Go
  <2>2. call' \in ReadCalls /\ call'.pc = "store" /\ call'.count = stdin.count
    BY <1>t, <2>1 DEF ReadCalls
  <2>3. stdin.count > 0
    BY <2>1 DEF StdinInv
  <2> QED
    BY <1>h, <1>t, <1>w, <2>1, <2>2, <2>3
<1>7. CASE ReadStore
  <2>1. /\ call.pc = "store" /\ stdin' = [stdin EXCEPT !.count = call.count - 1]
        /\ taken' = [taken EXCEPT !.lost = taken.lost + (stdin.count - call.count)]
    BY <1>7 DEF ReadStore
  <2>2. call.count \in Int /\ call.count > 0 /\ call.count <= stdin.count
    BY <1>t, <2>1 DEF StdinInv, ReadCalls
  <2>3. /\ stdin' \in StdinRecords /\ stdin'.count = call.count - 1 /\ stdin'.head = stdin.head
        /\ stdin'.tail = stdin.tail
    BY <1>t, <2>1, <2>2 DEF StdinRecords
  <2>4. call' \in {Idle_call, [Idle_call EXCEPT !.pc = "check", !.left = call.left - 1]}
    BY <1>7 DEF ReadStore, Go
  <2>5. call' \in ReadCalls /\ call'.pc \in {"user", "check"}
    <3>1. CASE call' = Idle_call
      BY <1>0, <3>1
    <3>2. CASE call' = [Idle_call EXCEPT !.pc = "check", !.left = call.left - 1]
      <4>1. call.left - 1 \in Int
        BY <1>t DEF ReadCalls
      <4> QED
        BY <1>0, <3>2, <4>1 DEF ReadCalls
    <3> QED
      BY <2>4, <3>1, <3>2
  <2>6. /\ DOMAIN taken' = TakenFields /\ taken'.puts = taken.puts /\ taken'.gets = taken.gets
        /\ taken'.lost = taken.lost + (stdin.count - call.count) /\ taken'.who = taken.who
    BY <1>t, <2>1 DEF RingCounts, TakenFields
  <2>a. /\ taken.puts \in Nat /\ taken.gets \in Nat /\ taken.lost \in Nat /\ stdin.count \in 0 .. StdinSize
        /\ stdin.count + taken.lost = taken.puts - taken.gets + 1
    BY <1>h, <1>t, <2>1 DEF RingCounts
  <2>b. /\ taken'.lost \in Nat /\ stdin'.count \in 0 .. StdinSize
        /\ stdin'.count + taken'.lost = taken'.puts - taken'.gets + 0
    BY <1>s, <2>2, <2>3, <2>6, <2>a
  <2>7. RingCounts(StdinSize, stdin', taken', 0)
    BY <1>t, <2>3, <2>6, <2>b DEF RingCounts
  <2> QED
    BY <1>h, <2>3, <2>5, <2>7 DEF StdinInv
<1>8. CASE sys_exit
  <2>1. call' = [Idle_call EXCEPT !.pc = "halted"] /\ UNCHANGED <<stdin, taken>> /\ call.pc = "user"
    BY <1>8 DEF sys_exit, Go
  <2>2. call' \in ReadCalls /\ call'.pc = "halted"
    BY <1>0, <2>1 DEF ReadCalls
  <2> QED
    BY <1>h, <1>w, <2>1, <2>2
<1>9. CASE FdNext
  BY <1>1, <1>9 DEF FdNext, sys_open, sys_close, StdinVars
<1>10. CASE UNCHANGED SyscallVars
  BY <1>1, <1>10 DEF SyscallVars, StdinVars
<1> QED
  BY <1>2, <1>3, <1>4, <1>5, <1>6, <1>7, <1>8, <1>9, <1>10 DEF StdinNext

\* For every size of the buffer, any number of characters and every interleaving of the
\* keyboard interrupt with the steps of sys_read: sys_read takes slots that hold
\* characters of the turn it has come to, in the order of typing and each once as long as
\* no decrement wrote over an increment, and the count is off by just the increments lost.
THEOREM StdinStaysInOrder == MachineSpec => []StdinInOrder
<1>1. MachineInit => StdinInv
  BY StdinInitInv DEF MachineInit
<1>2. StdinInv /\ [MachineNext]_MachineVars => StdinInv'
  BY MachineParts, StdinNextInv
<1>3. StdinInv => StdinInOrder
  <2> SUFFICES ASSUME StdinInv PROVE StdinInOrder
    OBVIOUS
  <2>1. StdinSize \in Nat \ {0} /\ RingCounts(StdinSize, stdin, taken, InHand(call.pc))
    BY SyscallAssumption DEF StdinInv
  <2>2. PICK n : n = taken.who[stdin.head]
    OBVIOUS
  <2>3. ASSUME call.pc = "get"
        PROVE  /\ taken.puts - taken.gets > 0 /\ n \in taken.gets .. (taken.puts - 1)
               /\ n % StdinSize = taken.gets % StdinSize
               /\ taken.lost = 0 => n = taken.gets
    <3>1. InHand(call.pc) = 0 /\ stdin.count > 0
      BY <2>3 DEF InHand, StdinInv
    <3>2. taken.gets < taken.puts /\ (taken.lost = 0 => taken.puts - taken.gets <= StdinSize)
      BY <2>1, <3>1 DEF RingCounts
    <3>3. n = taken.who[taken.gets % StdinSize]
      BY <2>1, <2>2 DEF RingCounts
    <3>a. PICK p, g, w : p = taken.puts /\ g = taken.gets /\ w = taken.who
      OBVIOUS
    <3>b. NextSlot(StdinSize, p, w, g, n)
      BY <2>1, <3>2, <3>3, <3>a DEF RingCounts, NextSlot
    <3>c. NotOlder(StdinSize, p, g, n)
      BY <3>b, TakeSlot
    <3>4. /\ n \in taken.gets .. (taken.puts - 1) /\ n % StdinSize = taken.gets % StdinSize
          /\ (taken.puts - taken.gets <= StdinSize => n = taken.gets)
      BY <3>a, <3>c DEF NotOlder
    <3> QED
      BY <2>1, <3>2, <3>4 DEF RingCounts
  <2>4. stdin.count + taken.lost = taken.puts - taken.gets + (IF call.pc \in {"load", "store"} THEN 1 ELSE 0)
    BY <2>1 DEF RingCounts, InHand
  <2> QED
    BY <2>2, <2>3, <2>4 DEF StdinInOrder
<1> QED
  BY <1>1, <1>2, <1>3, PTL DEF MachineSpec
-----------------------------------------------------------------------------
(***************************************************************************)
(* The scheduler: nr_running.                                              *)
(***************************************************************************)
EntityFields == {"state", "queued", "zombie", "left", "right", "parent", "vruntime", "load_weight", "exec_start"}
SchedFields == {"root", "nr_running", "min_vruntime", "load_weight", "clock", "fault", "calls",
                "again", "se"}

SchedShape(s) ==
    /\ DOMAIN s = SchedFields /\ {s.nr_running, s.again} \subseteq Int /\ s.fault \in BOOLEAN
    /\ DOMAIN s.se = Tasks
    /\ \A t \in Tasks : DOMAIN s.se[t] = EntityFields /\ s.se[t].queued \in BOOLEAN

QueuedIn(s) == {t \in Tasks : s.se[t].queued}

\* The relation of a state to one that differs in what nr_running does not depend on.
SameQueue(s, r) ==
    /\ SchedShape(r) /\ r.nr_running = s.nr_running /\ r.again = s.again /\ r.fault = s.fault
    /\ \A u \in Tasks : r.se[u].queued = s.se[u].queued /\ r.se[u].state = s.se[u].state

\* The count, the tasks it counts and the times it counts one again.  A task that is in
\* the queue was created, so that sched_fork does not enter it a second time.
Sound(s) ==
    /\ SchedShape(s)
    /\ ~s.fault => /\ IsFiniteSet(QueuedIn(s)) /\ s.nr_running = Cardinality(QueuedIn(s)) + s.again
                   /\ \A t \in QueuedIn(s) \cup {Idle} : s.se[t].state # "new"

LEMMA IdleIsTask == Idle \in Tasks /\ NoTask \notin Tasks
BY SchedAssumption

LEMMA SameSound ==
  ASSUME NEW s, NEW r, Sound(s), SameQueue(s, r)
  PROVE  Sound(r) /\ QueuedIn(r) = QueuedIn(s)
<1>1. QueuedIn(r) = QueuedIn(s)
  BY DEF SameQueue, QueuedIn
<1> QED
  BY <1>1, IdleIsTask DEF Sound, SameQueue, QueuedIn

LEMMA FaultSound ==
  ASSUME NEW s, SchedShape(s)
  PROVE  Sound(Fault(s)) /\ Fault(s).fault
BY DEF SchedShape, EntityFields, SchedFields, Fault, Sound

LEMMA StoreSame ==
  ASSUME NEW s, SchedShape(s), NEW p, NEW t
  PROVE  SameQueue(s, Store(s, p, t))
BY DEF SchedShape, EntityFields, SchedFields, Store, SameQueue

\* One field of one task, and one of the run queue.
SetField(s, t, f, v) == [s EXCEPT !.se[t][f] = v]
SetQueue(s, f, v) == [s EXCEPT ![f] = v]

PutIn(s, t) == SetField(s, t, "queued", TRUE)
TakeOut(s, t) == SetField(s, t, "queued", FALSE)

LEMMA QueuedPut ==
  ASSUME NEW s, SchedShape(s), NEW t \in Tasks
  PROVE  /\ SchedShape(PutIn(s, t)) /\ PutIn(s, t).nr_running = s.nr_running /\ PutIn(s, t).again = s.again
         /\ PutIn(s, t).fault = s.fault
         /\ \A u \in Tasks : PutIn(s, t).se[u].state = s.se[u].state
         /\ \A u \in Tasks \ {t} : PutIn(s, t).se[u].queued = s.se[u].queued
         /\ PutIn(s, t).se[t].queued
BY DEF SchedShape, EntityFields, SchedFields, SetField, PutIn

LEMMA QueuedTake ==
  ASSUME NEW s, SchedShape(s), NEW t \in Tasks
  PROVE  /\ SchedShape(TakeOut(s, t)) /\ TakeOut(s, t).nr_running = s.nr_running /\ TakeOut(s, t).again = s.again
         /\ TakeOut(s, t).fault = s.fault
         /\ \A u \in Tasks : TakeOut(s, t).se[u].state = s.se[u].state
         /\ \A u \in Tasks \ {t} : TakeOut(s, t).se[u].queued = s.se[u].queued
         /\ ~TakeOut(s, t).se[t].queued
BY DEF SchedShape, EntityFields, SchedFields, SetField, TakeOut

LEMMA StateSet ==
  ASSUME NEW s, SchedShape(s), NEW t, NEW v
  PROVE  /\ SchedShape(SetField(s, t, "state", v)) /\ SetField(s, t, "state", v).nr_running = s.nr_running
         /\ SetField(s, t, "state", v).fault = s.fault /\ SetField(s, t, "state", v).again = s.again
         /\ \A u \in Tasks : /\ SetField(s, t, "state", v).se[u].state = IF u = t THEN v ELSE s.se[u].state
                             /\ SetField(s, t, "state", v).se[u].queued = s.se[u].queued
BY DEF SchedShape, EntityFields, SchedFields, SetField

LEMMA FieldSame ==
  ASSUME NEW s, SchedShape(s), NEW t, NEW f \in EntityFields \ {"queued", "state"}, NEW v
  PROVE  SameQueue(s, SetField(s, t, f, v))
BY DEF SchedShape, EntityFields, SchedFields, SameQueue, SetField

LEMMA QueueFieldSame ==
  ASSUME NEW s, SchedShape(s), NEW f \in {"root", "min_vruntime", "load_weight", "clock", "calls"}, NEW v
  PROVE  SameQueue(s, SetQueue(s, f, v))
BY DEF SchedShape, EntityFields, SchedFields, SameQueue, SetQueue

LEMMA RunningSet ==
  ASSUME NEW s, SchedShape(s), NEW n \in Int
  PROVE  /\ SchedShape(SetQueue(s, "nr_running", n)) /\ SetQueue(s, "nr_running", n).nr_running = n
         /\ SetQueue(s, "nr_running", n).again = s.again
         /\ SetQueue(s, "nr_running", n).fault = s.fault /\ SetQueue(s, "nr_running", n).se = s.se
BY DEF SchedShape, EntityFields, SchedFields, SetQueue

LEMMA AgainSet ==
  ASSUME NEW s, SchedShape(s), NEW n \in Int
  PROVE  /\ SchedShape(SetQueue(s, "again", n)) /\ SetQueue(s, "again", n).again = n
         /\ SetQueue(s, "again", n).nr_running = s.nr_running
         /\ SetQueue(s, "again", n).fault = s.fault /\ SetQueue(s, "again", n).se = s.se
BY DEF SchedShape, EntityFields, SchedFields, SetQueue

LEMMA SameShape ==
  ASSUME NEW s, NEW r, SameQueue(s, r)
  PROVE  SchedShape(r)
BY DEF SameQueue

LEMMA SameTransitive ==
  ASSUME NEW s, NEW r, NEW q, SameQueue(s, r), SameQueue(r, q)
  PROVE  SameQueue(s, q)
BY DEF SameQueue

LEMMA UnlinkSame ==
  ASSUME NEW s, SchedShape(s), NEW t, NEW p
  PROVE  SameQueue(s, Unlink(s, t, p))
<1> DEFINE e == s.se[t]
           successor == IF e.left # NoTask THEN e.left ELSE e.right
           place == IF e.parent = NoTask THEN p
                    ELSE [at |-> e.parent, side |-> IF s.se[e.parent].left = t THEN "left" ELSE "right"]
<1>1. PICK s1 : s1 = Store(s, place, successor)
  OBVIOUS
<1>2. SameQueue(s, s1)
  BY <1>1, StoreSame
<1>3. PICK x, y : x = successor /\ y = e.parent
  OBVIOUS
<1>4. Unlink(s, t, p) = IF x = NoTask THEN s1 ELSE [s1 EXCEPT !.se[x].parent = y]
  BY <1>1, <1>3 DEF Unlink
<1> HIDE DEF e, successor, place
<1>5. SameQueue(s, [s1 EXCEPT !.se[x].parent = y])
  BY <1>2 DEF SchedShape, EntityFields, SchedFields, SameQueue
<1> QED
  BY <1>2, <1>4, <1>5

\* What cfs_dequeue makes of a state: a task that is in the queue, whatever its state,
\* leaves it; another stays out.
Left(s, t, r) ==
    /\ Sound(r)
    /\ ~r.fault => ~s.fault /\ t \notin QueuedIn(r) /\ \A u \in Tasks : r.se[u].state = s.se[u].state

LEMMA DequeueSound ==
  ASSUME NEW s, NEW t \in Tasks, Sound(s)
  PROVE  Left(s, t, cfs_dequeue(s, t))
<1>0. /\ SchedShape(s)
      /\ ~s.fault => /\ IsFiniteSet(QueuedIn(s)) /\ s.nr_running = Cardinality(QueuedIn(s)) + s.again
                     /\ \A u \in QueuedIn(s) \cup {Idle} : s.se[u].state # "new"
  BY DEF Sound
<1> DEFINE v == s.se[t].vruntime
           p == Search(s, v, t)
<1>1. PICK s1 : s1 = IF At(s, p) = t THEN Unlink(s, t, p) ELSE s
  OBVIOUS
<1>2. SameQueue(s, s1)
  BY <1>0, <1>1, UnlinkSame DEF SameQueue
<1>3. CASE s.fault
  BY <1>0, <1>3 DEF cfs_dequeue, Sound, Left
<1>4. CASE ~s.fault /\ ~s.se[t].queued
  <2>1. cfs_dequeue(s, t) = s /\ t \notin QueuedIn(s)
    BY <1>4 DEF cfs_dequeue, QueuedIn
  <2> QED
    BY <1>0, <1>4, <2>1 DEF Sound, Left
<1>5. CASE ~s.fault /\ s.se[t].queued /\ Endless(s, v, t)
  <2>1. cfs_dequeue(s, t) = Fault(s)
    BY <1>5 DEF cfs_dequeue
  <2> QED
    BY <1>0, <1>5, <2>1, FaultSound DEF Left
<1>6. CASE ~s.fault /\ s.se[t].queued /\ ~Endless(s, v, t)
  <2>1. PICK s2, s3, r : /\ s2 = TakeOut(s1, t)
                         /\ s3 = SetQueue(s2, "nr_running", s2.nr_running - 1)
                         /\ r = SetQueue(s3, "load_weight", (s3.load_weight - s.se[t].load_weight) % LoadWords)
    OBVIOUS
  <2>2. cfs_dequeue(s, t) = r
    BY <1>1, <1>6, <2>1 DEF cfs_dequeue, TakeOut, SetField, SetQueue
  <2> HIDE DEF v, p
  <2>0. SchedShape(s1)
    BY <1>2, SameShape
  <2>a. /\ SchedShape(s2) /\ s2.nr_running = s1.nr_running /\ s2.fault = s1.fault /\ s2.again = s1.again
        /\ \A u \in Tasks : s2.se[u].state = s1.se[u].state
        /\ \A u \in Tasks \ {t} : s2.se[u].queued = s1.se[u].queued
        /\ ~s2.se[t].queued
    BY <2>0, <2>1, QueuedTake
  <2>b. /\ SchedShape(s3) /\ s3.nr_running = s2.nr_running - 1 /\ s3.fault = s2.fault /\ s3.se = s2.se
        /\ s3.again = s2.again
    <3>1. s2.nr_running - 1 \in Int
      BY <2>a DEF SchedShape
    <3> QED
      BY <2>a, <2>1, <3>1, RunningSet
  <2>c. SameQueue(s3, r)
    BY <2>b, <2>1, QueueFieldSame
  <2>3. SchedShape(r) /\ r.nr_running = s.nr_running - 1 /\ r.fault = s.fault /\ r.again = s.again
    BY <1>2, <2>a, <2>b, <2>c DEF SameQueue
  <2>4. /\ \A u \in Tasks : r.se[u].state = s.se[u].state
        /\ \A u \in Tasks \ {t} : r.se[u].queued = s.se[u].queued
        /\ ~r.se[t].queued
    BY <1>2, <2>a, <2>b, <2>c DEF SameQueue
  <2>5. QueuedIn(r) = QueuedIn(s) \ {t} /\ t \in QueuedIn(s)
    BY <1>6, <2>4 DEF QueuedIn
  <2>6. IsFiniteSet(QueuedIn(r)) /\ Cardinality(QueuedIn(r)) = Cardinality(QueuedIn(s)) - 1
    BY <1>0, <1>6, <2>5, FS_RemoveElement
  <2>7. \A u \in QueuedIn(r) \cup {Idle} : r.se[u].state # "new"
    BY <1>0, <1>6, <2>4, <2>5, IdleIsTask DEF QueuedIn
  <2>8. r.nr_running = Cardinality(QueuedIn(r)) + r.again
    <3>1. Cardinality(QueuedIn(s)) \in Nat /\ s.again \in Int
      BY <1>0, <1>6, FS_CardinalityType DEF SchedShape
    <3> QED
      BY <1>0, <1>6, <2>3, <2>6, <3>1
  <2>9. Sound(r)
    BY <2>3, <2>6, <2>7, <2>8 DEF Sound
  <2> QED
    BY <1>6, <2>2, <2>4, <2>5, <2>9 DEF Left
<1> QED
  BY <1>3, <1>4, <1>5, <1>6

\* A state in which the call that enters t makes the count right.
MayEnter(s, t) ==
    /\ SchedShape(s)
    /\ ~s.fault => /\ IsFiniteSet(QueuedIn(s)) /\ s.nr_running + 1 = Cardinality(QueuedIn(s) \cup {t}) + s.again
                   /\ \A u \in QueuedIn(s) \cup {t, Idle} : s.se[u].state # "new"

Entered(s, r) == Sound(r) /\ (~r.fault => ~s.fault /\ \A u \in Tasks : r.se[u].state = s.se[u].state)

LEMMA EnqueueEnters ==
  ASSUME NEW s, NEW t \in Tasks, MayEnter(s, t)
  PROVE  Entered(s, cfs_enqueue(s, t))
<1> DEFINE v == s.se[t].vruntime
           p == Search(s, v, NoTask)
<1>1. CASE s.fault \/ Endless(s, v, NoTask)
  <2>1. cfs_enqueue(s, t) = Fault(s)
    BY <1>1 DEF cfs_enqueue
  <2> QED
    BY <2>1, FaultSound DEF Entered, MayEnter
<1>2. CASE ~(s.fault \/ Endless(s, v, NoTask))
  <2> DEFINE clean == [s EXCEPT !.se[t].queued = TRUE, !.se[t].left = NoTask, !.se[t].right = NoTask, !.se[t].parent = p.at]
             s1 == Store(clean, p, t)
             r == [s1 EXCEPT !.nr_running = @ + 1,
                             !.load_weight = (@ + s.se[t].load_weight) % LoadWords,
                             !.min_vruntime = IF @ = 0 \/ v < @ THEN v ELSE @]
  <2>4. cfs_enqueue(s, t) = r
    BY <1>2 DEF cfs_enqueue
  <2> HIDE DEF v, p
  <2>1. PICK c1, c2, c3 :
           /\ c1 = PutIn(s, t) /\ c2 = SetField(c1, t, "left", NoTask)
           /\ c3 = SetField(c2, t, "right", NoTask) /\ clean = SetField(c3, t, "parent", p.at)
    BY DEF SetField, PutIn
  <2> HIDE DEF clean
  <2>2. s1 = Store(clean, p, t)
    OBVIOUS
  <2> HIDE DEF s1
  <2> DEFINE s2 == SetQueue(s1, "nr_running", s1.nr_running + 1)
             s3 == SetQueue(s2, "load_weight", (s2.load_weight + s.se[t].load_weight) % LoadWords)
             w == IF s3.min_vruntime = 0 \/ v < s3.min_vruntime THEN v ELSE s3.min_vruntime
  <2>r. r = SetQueue(s3, "min_vruntime", w)
    BY DEF SetQueue
  <2>3. s2 = SetQueue(s1, "nr_running", s1.nr_running + 1)
        /\ s3 = SetQueue(s2, "load_weight", (s2.load_weight + s.se[t].load_weight) % LoadWords)
    OBVIOUS
  <2> HIDE DEF r, s2, s3, w
  <2>a. /\ SchedShape(c1) /\ c1.nr_running = s.nr_running /\ c1.fault = s.fault /\ c1.again = s.again
        /\ \A u \in Tasks : c1.se[u].state = s.se[u].state
        /\ \A u \in Tasks \ {t} : c1.se[u].queued = s.se[u].queued
        /\ c1.se[t].queued
    BY <2>1, QueuedPut DEF MayEnter
  <2>b. SameQueue(c1, c2)
    BY <2>1, <2>a, FieldSame DEF EntityFields
  <2>c. SameQueue(c2, c3)
    BY <2>1, <2>b, SameShape, FieldSame DEF EntityFields
  <2>d. SameQueue(c3, clean)
    BY <2>1, <2>c, SameShape, FieldSame DEF EntityFields
  <2>5. /\ SchedShape(clean) /\ clean.nr_running = s.nr_running /\ clean.fault = s.fault /\ clean.again = s.again
        /\ \A u \in Tasks : clean.se[u].state = s.se[u].state
        /\ \A u \in Tasks \ {t} : clean.se[u].queued = s.se[u].queued
        /\ clean.se[t].queued
    BY <2>a, <2>b, <2>c, <2>d DEF SameQueue
  <2>6. SameQueue(clean, s1)
    BY <2>2, <2>5, StoreSame
  <2>7. /\ SchedShape(r) /\ r.nr_running = s.nr_running + 1 /\ r.fault = s.fault /\ r.again = s.again
        /\ \A u \in Tasks : r.se[u].state = s.se[u].state
        /\ \A u \in Tasks \ {t} : r.se[u].queued = s.se[u].queued
        /\ r.se[t].queued
    <3>1. /\ SchedShape(s2) /\ s2.nr_running = s1.nr_running + 1 /\ s2.fault = s1.fault /\ s2.se = s1.se
          /\ s2.again = s1.again
      <4>1. SchedShape(s1) /\ s1.nr_running + 1 \in Int
        BY <2>6 DEF SameQueue, SchedShape
      <4> QED
        BY <2>3, <4>1, RunningSet
    <3>2. SameQueue(s2, s3)
      BY <2>3, <3>1, QueueFieldSame
    <3>3. SameQueue(s3, r)
      BY <2>r, <3>2, SameShape, QueueFieldSame
    <3> QED
      BY <2>5, <2>6, <3>1, <3>2, <3>3 DEF SameQueue
  <2>8. QueuedIn(r) = QueuedIn(s) \cup {t}
    BY <2>7 DEF QueuedIn
  <2>9. IsFiniteSet(QueuedIn(r))
    BY <1>2, <2>8, FS_AddElement DEF MayEnter
  <2>10. r.nr_running = Cardinality(QueuedIn(r)) + r.again
    BY <1>2, <2>7, <2>8 DEF MayEnter
  <2>11. \A u \in QueuedIn(r) \cup {Idle} : r.se[u].state # "new"
    BY <1>2, <2>7, <2>8, IdleIsTask DEF MayEnter, QueuedIn
  <2> QED
    BY <1>2, <2>4, <2>7, <2>9, <2>10, <2>11 DEF Entered, Sound
<1> QED
  BY <1>1, <1>2

\* A task that is not in the queue may enter it.
LEMMA OutMayEnter ==
  ASSUME NEW s, NEW t \in Tasks, Sound(s), ~s.fault => t \notin QueuedIn(s) /\ s.se[t].state # "new"
  PROVE  MayEnter(s, t)
<1>1. ASSUME ~s.fault
      PROVE  Cardinality(QueuedIn(s) \cup {t}) = Cardinality(QueuedIn(s)) + 1 /\ Cardinality(QueuedIn(s)) \in Nat
  BY <1>1, FS_AddElement, FS_CardinalityType DEF Sound
<1> QED
  BY <1>1 DEF Sound, MayEnter, SchedShape

\* One that is in it may enter it again, when the history counts that.
LEMMA MakeRunnableSound ==
  ASSUME NEW s, NEW t \in Tasks, Sound(s), ~s.fault => s.se[t].state # "new"
  PROVE  Sound(MakeRunnable(s, t))
<1>1. PICK n : n = IF s.se[t].queued THEN s.again + 1 ELSE s.again
  OBVIOUS
<1>2. PICK b : b = SetQueue(s, "again", n)
  OBVIOUS
<1>3. MakeRunnable(s, t) = cfs_enqueue(b, t)
  BY <1>1, <1>2 DEF MakeRunnable, SetQueue
<1>4. n \in Int /\ SchedShape(s)
  BY <1>1 DEF Sound, SchedShape
<1>5. SchedShape(b) /\ b.again = n /\ b.nr_running = s.nr_running /\ b.fault = s.fault /\ b.se = s.se
  BY <1>2, <1>4, AgainSet
<1>6. QueuedIn(b) = QueuedIn(s)
  BY <1>5 DEF QueuedIn
<1>7. MayEnter(b, t)
  <2>1. CASE s.fault
    BY <1>5, <2>1 DEF MayEnter
  <2>2. CASE ~s.fault /\ ~s.se[t].queued
    <3>1. MayEnter(s, t)
      BY <2>2, OutMayEnter DEF QueuedIn
    <3> QED
      BY <1>1, <1>5, <1>6, <2>2, <3>1 DEF MayEnter
  <2>3. CASE ~s.fault /\ s.se[t].queued
    <3>1. QueuedIn(s) \cup {t} = QueuedIn(s) /\ Cardinality(QueuedIn(s)) \in Nat
      BY <2>3, FS_CardinalityType DEF QueuedIn, Sound
    <3>2. b.nr_running + 1 = Cardinality(QueuedIn(b) \cup {t}) + b.again
      BY <1>1, <1>5, <1>6, <2>3, <3>1 DEF Sound, SchedShape
    <3> QED
      BY <1>5, <1>6, <2>3, <3>2 DEF MayEnter, Sound
  <2> QED
    BY <2>1, <2>2, <2>3
<1> QED
  BY <1>3, <1>7, EnqueueEnters DEF Entered

LEMMA UpdateCurrSame ==
  ASSUME NEW s, SchedShape(s), NEW t
  PROVE  SameQueue(s, update_curr_cfs(s, t)) \/ update_curr_cfs(s, t) = Fault(s)
<1> DEFINE e == s.se[t]
           v == e.vruntime + ((s.clock - e.exec_start) * NICE_0_LOAD) \div e.load_weight
<1>1. CASE s.fault \/ e.load_weight = 0
  BY <1>1 DEF update_curr_cfs
<1>2. CASE ~(s.fault \/ e.load_weight = 0)
  <2> DEFINE s1 == SetField(s, t, "exec_start", s.clock)
             s2 == SetField(s1, t, "vruntime", v)
             w == IF v < s2.min_vruntime THEN v ELSE s2.min_vruntime
  <2>1. update_curr_cfs(s, t) = SetQueue(s2, "min_vruntime", w)
    BY <1>2 DEF update_curr_cfs, SetField, SetQueue
  <2>2. s1 = SetField(s, t, "exec_start", s.clock) /\ s2 = SetField(s1, t, "vruntime", v)
    OBVIOUS
  <2> HIDE DEF e, v, s1, s2, w
  <2>3. SameQueue(s, s1)
    BY <2>2, FieldSame DEF EntityFields
  <2>4. SameQueue(s1, s2)
    BY <2>2, <2>3, SameShape, FieldSame DEF EntityFields
  <2>5. SameQueue(s2, SetQueue(s2, "min_vruntime", w))
    BY <2>4, SameShape, QueueFieldSame
  <2> QED
    BY <2>1, <2>3, <2>4, <2>5, SameTransitive
<1> QED
  BY <1>1, <1>2

LEMMA UpdateCurrSound ==
  ASSUME NEW s, NEW t, Sound(s)
  PROVE  Entered(s, update_curr_cfs(s, t))
<1>0. PICK r : r = update_curr_cfs(s, t)
  OBVIOUS
<1>1. CASE SameQueue(s, r)
  BY <1>0, <1>1, SameSound DEF Entered, SameQueue
<1>2. CASE r = Fault(s)
  BY <1>0, <1>2, FaultSound DEF Entered, Sound
<1> QED
  BY <1>0, <1>1, <1>2, UpdateCurrSame DEF Sound

\* The time is charged to the task, and it goes to its new place in the queue.
Requeue(s, t) == cfs_enqueue(cfs_dequeue(update_curr_cfs(s, t), t), t)

LEMMA RequeueSound ==
  ASSUME NEW s, Sound(s)
  PROVE  Sound(Requeue(s, Idle))
<1>1. PICK a, b, r : a = update_curr_cfs(s, Idle) /\ b = cfs_dequeue(a, Idle) /\ r = cfs_enqueue(b, Idle)
                     /\ r = Requeue(s, Idle)
  BY DEF Requeue
<1>2. Sound(a)
  BY <1>1, UpdateCurrSound DEF Entered
<1>3. Left(a, Idle, b)
  BY <1>1, <1>2, DequeueSound, IdleIsTask
<1>4. MayEnter(b, Idle)
  BY <1>3, OutMayEnter, IdleIsTask DEF Left, Sound
<1> QED
  BY <1>1, <1>4, EnqueueEnters, IdleIsTask DEF Entered

\* A task that was created is in another state.
LEMMA StateSound ==
  ASSUME NEW s, NEW t, NEW v, Sound(s), v # "new"
  PROVE  Sound(SetField(s, t, "state", v))
<1>1. PICK r : r = SetField(s, t, "state", v)
  OBVIOUS
<1>2. /\ SchedShape(r) /\ r.nr_running = s.nr_running /\ r.fault = s.fault /\ r.again = s.again
      /\ \A u \in Tasks : /\ r.se[u].state = IF u = t THEN v ELSE s.se[u].state
                          /\ r.se[u].queued = s.se[u].queued
  BY <1>1, StateSet DEF Sound
<1>3. QueuedIn(r) = QueuedIn(s)
  BY <1>2 DEF QueuedIn
<1>4. ~r.fault => \A u \in QueuedIn(r) \cup {Idle} : r.se[u].state # "new"
  BY <1>2, <1>3, IdleIsTask DEF Sound, QueuedIn
<1>5. Sound(r)
  BY <1>2, <1>3, <1>4 DEF Sound
<1> QED
  BY <1>1, <1>5

LEMMA FieldSound ==
  ASSUME NEW s, Sound(s), NEW t, NEW f \in EntityFields \ {"queued", "state"}, NEW v
  PROVE  Sound(SetField(s, t, f, v))
BY FieldSame, SameSound DEF Sound

LEMMA CountedSound ==
  ASSUME NEW s, Sound(s)
  PROVE  Sound(Counted(s)) /\ Counted(s).se = s.se /\ Counted(s).fault = s.fault
<1>1. Counted(s) = SetQueue(s, "calls", s.calls + 1)
  BY DEF Counted, SetQueue
<1>2. Sound(SetQueue(s, "calls", s.calls + 1))
  BY QueueFieldSame, SameSound DEF Sound
<1>3. Counted(s).se = s.se /\ Counted(s).fault = s.fault
  BY DEF Counted, Sound, SchedShape, SchedFields
<1> QED
  BY <1>1, <1>2, <1>3

LEMMA ScheduleSound ==
  ASSUME NEW s, Sound(s)
  PROVE  Sound(schedule(s))
<1> DEFINE s0 == update_sched_clock(s)
           s1 == [s0 EXCEPT !.se[Idle].state = IF @ = "RUNNING" THEN "READY" ELSE @]
           s2 == IF s1.se[Idle].state = "READY" /\ ~s1.se[Idle].zombie
                 THEN cfs_enqueue(cfs_dequeue(update_curr_cfs(s1, Idle), Idle), Idle)
                 ELSE s1
           next == pick_next_cfs(s2)
<1>1. schedule(s) = IF s2.fault \/ next \in {Idle, NoTask} THEN s2
                    ELSE IF s2.se[next].left # NoTask THEN Fault(s2)
                    ELSE [s2 EXCEPT !.se[next].exec_start = s2.clock, !.se[next].state = "RUNNING"]
  BY DEF schedule
<1>2. s0 = SetQueue(s, "clock", s.clock + 1)
  BY DEF update_sched_clock, SetQueue
<1> HIDE DEF s0
<1>3. PICK v : v = IF s0.se[Idle].state = "RUNNING" THEN "READY" ELSE s0.se[Idle].state
  OBVIOUS
<1>4. s1 = SetField(s0, Idle, "state", v)
  BY <1>3 DEF SetField
<1>5. s2 = IF s1.se[Idle].state = "READY" /\ ~s1.se[Idle].zombie THEN Requeue(s1, Idle) ELSE s1
  BY DEF Requeue
<1> HIDE DEF s1
<1>6. Sound(s0)
  BY <1>2, QueueFieldSame, SameSound DEF Sound
<1>7. Sound(s1)
  <2>1. CASE v # "new"
    BY <1>4, <1>6, <2>1, StateSound
  <2>2. CASE v = "new"
    <3>1. s0.fault
      BY <1>3, <1>6, <2>2 DEF Sound
    <3>2. SchedShape(s1) /\ s1.fault = s0.fault
      BY <1>4, <1>6, StateSet DEF Sound
    <3> QED
      BY <3>1, <3>2 DEF Sound
  <2> QED
    BY <2>1, <2>2
<1>8. Sound(s2)
  BY <1>5, <1>7, RequeueSound
<1> HIDE DEF s2, next
<1>9. Sound(Fault(s2))
  BY <1>8, FaultSound DEF Sound
<1>10. Sound([s2 EXCEPT !.se[next].exec_start = s2.clock, !.se[next].state = "RUNNING"])
  <2>1. PICK s3 : s3 = SetField(s2, next, "exec_start", s2.clock)
    OBVIOUS
  <2>2. [s2 EXCEPT !.se[next].exec_start = s2.clock, !.se[next].state = "RUNNING"] = SetField(s3, next, "state", "RUNNING")
    BY <2>1 DEF SetField
  <2>3. Sound(s3)
    BY <2>1, <1>8, FieldSound DEF EntityFields
  <2> QED
    BY <2>2, <2>3, StateSound
<1> QED
  BY <1>1, <1>8, <1>9, <1>10

LEMMA TickSound ==
  ASSUME NEW s, Sound(s)
  PROVE  Sound(TickSlice(s))
<1> DEFINE s1 == update_sched_clock(s)
           s2 == update_curr_cfs(s1, Idle)
           share == (CFS_LATENCY * NICE_0_LOAD) \div s2.load_weight
           slice == IF s2.nr_running > 0 /\ share > CFS_MIN_GRANULARITY THEN share ELSE CFS_MIN_GRANULARITY
           ready == [s2 EXCEPT !.se[Idle].state = "READY"]
<1>1. TickSlice(s) \in {s1, Fault(s2), schedule(ready), s2}
  BY DEF TickSlice
<1>2. s1 = SetQueue(s, "clock", s.clock + 1)
  BY DEF update_sched_clock, SetQueue
<1>3. ready = SetField(s2, Idle, "state", "READY")
  BY DEF SetField
<1> HIDE DEF s1
<1>4. Sound(s1)
  BY <1>2, QueueFieldSame, SameSound DEF Sound
<1>5. SameQueue(s1, s2) \/ s2 = Fault(s1)
  BY <1>4, UpdateCurrSame DEF Sound
<1>6. Sound(s2)
  <2>1. CASE SameQueue(s1, s2)
    BY <1>4, <2>1, SameSound
  <2>2. CASE s2 = Fault(s1)
    BY <1>4, <2>2, FaultSound DEF Sound
  <2> QED
    BY <1>5, <2>1, <2>2
<1> HIDE DEF s2, share, slice, ready
<1>7. Sound(Fault(s2))
  BY <1>6, FaultSound DEF Sound
<1>8. Sound(ready)
  BY <1>3, <1>6, StateSound
<1>9. Sound(schedule(ready))
  BY <1>8, ScheduleSound
<1> QED
  BY <1>1, <1>4, <1>6, <1>7, <1>9

LEMMA ExitSound ==
  ASSUME NEW s, Sound(s)
  PROVE  Sound(Zombie(s)) /\ Sound(ScheduleAway(s))
<1>1. Zombie(s) = SetField(SetField(s, Idle, "state", "ZOMBIE"), Idle, "zombie", TRUE)
  BY DEF Zombie, SetField
<1>2. Sound(SetField(s, Idle, "state", "ZOMBIE"))
  BY StateSound
<1>3. Sound(Zombie(s))
  BY <1>1, <1>2, FieldSound DEF EntityFields
<1>4. Sound(schedule(s)) /\ Sound(Fault(schedule(s)))
  BY ScheduleSound, FaultSound DEF Sound
<1>5. ScheduleAway(s) \in {schedule(s), Fault(schedule(s))}
  BY DEF ScheduleAway
<1> QED
  BY <1>3, <1>4, <1>5

LEMMA SetTaskStateSound ==
  ASSUME Sound(sched), NEW t \in Tasks, NEW state \in {"RUNNING", "READY", "BLOCKED", "ZOMBIE"}, set_task_state(t, state)
  PROVE  Sound(sched')
<1>1. PICK s1 : s1 = IF sched.se[t].state = "RUNNING" /\ state # "RUNNING" THEN cfs_dequeue(sched, t) ELSE sched
  OBVIOUS
<1>2. PICK s2 : s2 = SetField(s1, t, "state", state)
  OBVIOUS
<1>3. sched' = IF state = "RUNNING" THEN MakeRunnable(Counted(s2), t) ELSE Counted(s2)
  BY <1>1, <1>2 DEF set_task_state, Call, SetField
<1>4. Sound(s1)
  BY <1>1, DequeueSound DEF Left
<1>5. Sound(s2)
  BY <1>2, <1>4, StateSound
<1>6. s2.se[t].state = state
  BY <1>2, <1>4, StateSet DEF Sound
<1>7. PICK c : c = Counted(s2) /\ Sound(c) /\ c.se = s2.se
  BY <1>5, CountedSound
<1>8. Sound(MakeRunnable(c, t))
  BY <1>6, <1>7, MakeRunnableSound
<1> QED
  BY <1>3, <1>7, <1>8

LEMMA ForkSound ==
  ASSUME Sound(sched), NEW t \in Tasks, NEW priority \in Priorities, sched_fork(t, priority)
  PROVE  Sound(sched')
<1> DEFINE weight == IF priority = 0 THEN NICE_0_LOAD ELSE nice_to_load(priority)
           e == [Entity("READY") EXCEPT !.vruntime = sched.min_vruntime, !.load_weight = weight]
<1>1. sched' = cfs_enqueue([sched EXCEPT !.se[t] = e], t) /\ ~sched.fault /\ sched.se[t].state = "new"
  BY DEF sched_fork, Call
<1> HIDE DEF weight
<1>2. DOMAIN e = EntityFields /\ e.queued = FALSE /\ e.state = "READY"
  BY DEF Entity, EntityFields
<1>3. PICK new, b : new = e /\ b = [sched EXCEPT !.se[t] = new]
  OBVIOUS
<1>4. DOMAIN new = EntityFields /\ new.queued = FALSE /\ new.state = "READY" /\ sched' = cfs_enqueue(b, t)
  BY <1>1, <1>2, <1>3
<1> HIDE DEF e
<1>5. /\ SchedShape(b) /\ b.nr_running = sched.nr_running /\ b.fault = sched.fault /\ b.again = sched.again
      /\ \A u \in Tasks \ {t} : b.se[u] = sched.se[u]
      /\ b.se[t] = new
  BY <1>3, <1>4 DEF Sound, SchedShape, SchedFields
<1>6. t \notin QueuedIn(sched)
  BY <1>1 DEF Sound
<1>7. QueuedIn(b) = QueuedIn(sched)
  <2>1. \A u \in Tasks : u \in QueuedIn(b) <=> u \in QueuedIn(sched)
    BY <1>4, <1>5, <1>6 DEF QueuedIn
  <2> QED
    BY <2>1 DEF QueuedIn
<1>8. \A u \in QueuedIn(b) \cup {Idle} : b.se[u].state # "new"
  BY <1>1, <1>4, <1>5, <1>7, IdleIsTask DEF Sound, QueuedIn
<1>9. Sound(b)
  BY <1>1, <1>5, <1>7, <1>8 DEF Sound
<1>10. MayEnter(b, t)
  BY <1>4, <1>5, <1>6, <1>7, <1>9, OutMayEnter
<1> QED
  BY <1>4, <1>10, EnqueueEnters DEF Entered

LEMMA SchedStepSound ==
  ASSUME Sound(sched), SchedNext
  PROVE  Sound(sched')
<1>1. CASE schedule_call
  BY <1>1, ScheduleSound DEF schedule_call, Call
<1>2. CASE sched_tick
  BY <1>2, TickSound DEF sched_tick, Call
<1>3. CASE yield
  <2> DEFINE s == cfs_enqueue(cfs_dequeue(update_curr_cfs(sched, Idle), Idle), Idle)
  <2>1. sched' = schedule([s EXCEPT !.se[Idle].state = "READY"])
    BY <1>3 DEF yield, Call
  <2>2. [s EXCEPT !.se[Idle].state = "READY"] = SetField(Requeue(sched, Idle), Idle, "state", "READY")
    BY DEF SetField, Requeue
  <2>3. Sound(SetField(Requeue(sched, Idle), Idle, "state", "READY"))
    BY RequeueSound, StateSound
  <2> QED
    BY <2>1, <2>2, <2>3, ScheduleSound
<1>4. CASE schedule_timeout
  <2>1. sched' = schedule(cfs_dequeue(SetField(sched, Idle, "state", "SLEEPING"), Idle))
    BY <1>4 DEF schedule_timeout, Call, SetField
  <2>2. Sound(cfs_dequeue(SetField(sched, Idle, "state", "SLEEPING"), Idle))
    BY StateSound, DequeueSound, IdleIsTask DEF Left
  <2> QED
    BY <2>1, <2>2, ScheduleSound
<1>5. CASE do_exit
  <2>1. PICK z : z = Zombie(sched)
    OBVIOUS
  <2>2. sched' = ScheduleAway(cfs_dequeue(z, Idle))
    BY <1>5, <2>1 DEF do_exit, Call, sched_exit
  <2>3. Sound(cfs_dequeue(z, Idle))
    BY <2>1, ExitSound, DequeueSound, IdleIsTask DEF Left
  <2> QED
    BY <2>2, <2>3, ExitSound
<1>6. CASE exit_user_process
  BY <1>6, ExitSound DEF exit_user_process, Call
<1>7. ASSUME NEW nice \in Priorities, sys_nice(nice) PROVE Sound(sched')
  <2>1. sched' = SetField(Counted(sched), Idle, "load_weight", nice_to_load(nice))
    BY <1>7 DEF sys_nice, Call, SetField
  <2>2. Sound(Counted(sched))
    BY CountedSound
  <2> QED
    BY <2>1, <2>2, FieldSound DEF EntityFields
<1>8. ASSUME NEW t \in Tasks, wake_up_process(t) PROVE Sound(sched')
  <2>1. PICK b : b = SetField(Counted(sched), t, "state", "READY")
    OBVIOUS
  <2>2. sched' = MakeRunnable(b, t)
    BY <1>8, <2>1 DEF wake_up_process, Call, SetField
  <2>3. Sound(Counted(sched))
    BY CountedSound
  <2>4. Sound(b) /\ b.se[t].state = "READY"
    BY <2>1, <2>3, StateSound, StateSet DEF Sound
  <2> QED
    BY <2>2, <2>4, MakeRunnableSound
<1>9. ASSUME NEW t \in Tasks, sched_exit_call(t) PROVE Sound(sched')
  <2>1. sched' = cfs_dequeue(Counted(sched), t)
    BY <1>9 DEF sched_exit_call, sched_exit, Call
  <2> QED
    BY <2>1, CountedSound, DequeueSound DEF Left
<1> QED
  BY <1>1, <1>2, <1>3, <1>4, <1>5, <1>6, <1>7, <1>8, <1>9, SetTaskStateSound, ForkSound DEF SchedNext

LEMMA SchedInitSound == sched_init => Sound(sched)
<1> SUFFICES ASSUME sched_init PROVE Sound(sched)
  OBVIOUS
<1>0. \A state : DOMAIN Entity(state) = EntityFields /\ Entity(state).queued = FALSE /\ Entity(state).state = state
  BY DEF EntityFields, Entity
<1>4. PICK se : /\ se = [t \in Tasks |-> Entity(IF t = Idle THEN "RUNNING" ELSE "new")]
                /\ sched = [root |-> NoTask, nr_running |-> 0, min_vruntime |-> 0, load_weight |-> 0,
                            clock |-> 0, fault |-> FALSE, calls |-> 0, again |-> 0, se |-> se]
  BY DEF sched_init
<1>5. DOMAIN se = Tasks /\ \A t \in Tasks : DOMAIN se[t] = EntityFields /\ se[t].queued = FALSE
  BY <1>0, <1>4
<1>7. se[Idle].state # "new"
  BY <1>0, <1>4, IdleIsTask
<1>6. DOMAIN sched = SchedFields /\ sched.nr_running = 0 /\ sched.again = 0 /\ sched.fault = FALSE /\ sched.se = se
  BY <1>4 DEF SchedFields
<1>1. SchedShape(sched) /\ sched.nr_running = 0
  <2>0. sched.fault \in BOOLEAN
    BY <1>6, Zenon
  <2>1. {sched.nr_running, sched.again} \subseteq Int
    BY <1>6
  <2>2. \A t \in Tasks : DOMAIN sched.se[t] = EntityFields /\ sched.se[t].queued \in BOOLEAN
    BY <1>5, <1>6, Zenon
  <2>3. DOMAIN sched.se = Tasks
    BY <1>5, <1>6
  <2> QED
    BY <1>6, <2>0, <2>1, <2>2, <2>3 DEF SchedShape
<1>2. QueuedIn(sched) = {}
  BY <1>5, <1>6 DEF QueuedIn
<1>3. IsFiniteSet(QueuedIn(sched)) /\ Cardinality(QueuedIn(sched)) = 0
  BY <1>2, FS_EmptySet
<1> QED
  BY <1>1, <1>2, <1>3, <1>6, <1>7 DEF Sound

\* For any number of tasks, every nice value and every sequence of scheduler calls,
\* also when a search loses its way in the tree: nr_running is the number of tasks that
\* are in the run queue, and of the calls that made one runnable that was in it.
THEOREM RunnableIsCounted == MachineSpec => []RunnableCounted
<1>1. MachineInit => Sound(sched)
  BY SchedInitSound DEF MachineInit
<1>2. Sound(sched) /\ [MachineNext]_MachineVars => Sound(sched)'
  <2> SUFFICES ASSUME Sound(sched), [SchedNext]_sched PROVE Sound(sched)'
    BY MachineParts
  <2>1. CASE sched' = sched
    BY <2>1
  <2>2. CASE SchedNext
    BY <2>2, SchedStepSound
  <2> QED
    BY <2>1, <2>2
<1>3. Sound(sched) => RunnableCounted
  BY DEF Sound, RunnableCounted, Queued, QueuedIn
<1> QED
  BY <1>1, <1>2, <1>3, PTL DEF MachineSpec
-----------------------------------------------------------------------------
(***************************************************************************)
(* The keyboard and the mouse: rings that interrupt handlers fill and      *)
(* tasks empty, without a lock.                                            *)
(***************************************************************************)

\* A ring r of N slots, the task rd that reads it, and the history a of its items.
ItemsFrom(N, r, i) == [k \in 1 .. ((r.head - i + N) % N) |-> r.buffer[(i + k - 1) % N]]

RingShape(N, r) ==
    /\ DOMAIN r = {"buffer", "head", "tail"} /\ DOMAIN r.buffer = 0 .. (N - 1)
    /\ r.head \in 0 .. (N - 1) /\ r.tail \in 0 .. (N - 1)

\* While the buffer is being cleared, head has been reset and does not pass the old tail.
RingInv(N, r, rd, a) ==
    /\ RingShape(N, r) /\ DOMAIN rd = {"pc", "item"}
    /\ a = ItemsFrom(N, r, IF rd.pc = "clear" THEN 0 ELSE r.tail)
    /\ rd.pc \in {"take", "advance"} => a # <<>>
    /\ rd.pc = "advance" => rd.item = Head(a)
    /\ rd.pc = "clear" => r.tail = 0 \/ r.head < r.tail

InputInv ==
    /\ DOMAIN ring = Devices /\ DOMAIN reader = Devices /\ DOMAIN arrived = Devices
    /\ \A d \in Devices : RingInv(SizeOf[d], ring[d], reader[d], arrived[d])

LEMMA InputSizes == \A d \in Devices : SizeOf[d] \in Nat \ {0}
BY InputAssumption DEF Devices, SizeOf

\* The distance from i to h on the ring.
LEMMA RingGap ==
  ASSUME NEW N \in Nat \ {0}, NEW h \in 0 .. (N - 1), NEW i \in 0 .. (N - 1)
  PROVE  (h - i + N) % N = IF h >= i THEN h - i ELSE h - i + N
<1>1. PICK x : x = h - i + N
  OBVIOUS
<1>2. x \in 0 .. (2 * N - 1)
  BY <1>1
<1>3. x % N = IF x < N THEN x ELSE x - N
  BY <1>2, RingMod
<1> QED
  BY <1>1, <1>3

\* On a ring of N slots n items lie from i to h, and x is the slot after one of the ends.
BetweenOnRing(N, h, i, n) == N \in Nat \ {0} /\ h \in 0 .. (N - 1) /\ i \in 0 .. (N - 1) /\ n = (h - i + N) % N
After(N, x, y) == y = (x + 1) % N

RoomMade(N, h, i, n, g) ==
    /\ n \in Nat /\ g \in 0 .. (N - 1) /\ (g - i + N) % N = n + 1 /\ (i + n) % N = h
    /\ \A k \in 1 .. n : (i + k - 1) % N \in 0 .. (N - 1) /\ (i + k - 1) % N # h

OneTaken(N, h, i, n, j) ==
    /\ n \in Nat \ {0} /\ j \in 0 .. (N - 1) /\ (h - j + N) % N = n - 1
    /\ \A k \in 1 .. (n - 1) : (j + k - 1) % N = (i + (k + 1) - 1) % N

LEMMA RingPut ==
  ASSUME NEW N, NEW h, NEW i, NEW n, NEW g, BetweenOnRing(N, h, i, n), After(N, h, g), g # i
  PROVE  RoomMade(N, h, i, n, g)
<1> USE DEF BetweenOnRing, After, RoomMade
<1>1. n = (IF h >= i THEN h - i ELSE h - i + N) /\ n \in 0 .. (N - 1)
  BY RingGap
<1>2. g = (IF h + 1 < N THEN h + 1 ELSE 0) /\ g \in 0 .. (N - 1)
  <2>1. PICK x : x = h + 1
    OBVIOUS
  <2>2. x \in 0 .. (2 * N - 1)
    BY <2>1
  <2>3. x % N = IF x < N THEN x ELSE x - N
    BY <2>2, RingMod
  <2> QED
    BY <2>1, <2>3
<1>3. (g - i + N) % N = IF g >= i THEN g - i ELSE g - i + N
  BY <1>2, RingGap
<1>4. (g - i + N) % N = n + 1
  BY <1>1, <1>2, <1>3
<1>5. (i + n) % N = h
  <2>1. PICK x : x = i + n
    OBVIOUS
  <2>2. x \in 0 .. (2 * N - 1)
    BY <1>1, <2>1
  <2>3. x % N = IF x < N THEN x ELSE x - N
    BY <2>2, RingMod
  <2> QED
    BY <1>1, <2>1, <2>3
<1>6. ASSUME NEW k \in 1 .. n PROVE (i + k - 1) % N \in 0 .. (N - 1) /\ (i + k - 1) % N # h
  <2>1. PICK x : x = i + k - 1
    OBVIOUS
  <2>2. x \in 0 .. (2 * N - 1)
    BY <1>1, <2>1
  <2>3. x % N = IF x < N THEN x ELSE x - N
    BY <2>2, RingMod
  <2>4. x % N \in 0 .. (N - 1) /\ x % N # h
    BY <1>1, <2>1, <2>2, <2>3
  <2> QED
    BY <2>1, <2>4
<1> QED
  BY <1>2, <1>4, <1>5, <1>6

LEMMA RingTake ==
  ASSUME NEW N, NEW h, NEW i, NEW n, NEW j, BetweenOnRing(N, h, i, n), After(N, i, j), h # i
  PROVE  OneTaken(N, h, i, n, j)
<1> USE DEF BetweenOnRing, After, OneTaken
<1>1. n = (IF h >= i THEN h - i ELSE h - i + N) /\ n \in 1 .. (N - 1)
  BY RingGap, SMTT(30)
<1>2. j = (IF i + 1 < N THEN i + 1 ELSE 0) /\ j \in 0 .. (N - 1)
  <2>1. PICK x : x = i + 1
    OBVIOUS
  <2>2. x \in 0 .. (2 * N - 1)
    BY <2>1
  <2>3. x % N = IF x < N THEN x ELSE x - N
    BY <2>2, RingMod
  <2> QED
    BY <2>1, <2>3
<1>3. (h - j + N) % N = IF h >= j THEN h - j ELSE h - j + N
  BY <1>2, RingGap
<1>4. (h - j + N) % N = n - 1
  BY <1>1, <1>2, <1>3
<1>5. ASSUME NEW k \in 1 .. (n - 1) PROVE (j + k - 1) % N = (i + (k + 1) - 1) % N
  <2>1. PICK x, y : x = j + k - 1 /\ y = i + (k + 1) - 1
    OBVIOUS
  <2>2. x \in 0 .. (2 * N - 1) /\ y \in 0 .. (2 * N - 1)
    BY <1>1, <1>2, <2>1
  <2>3. x % N = (IF x < N THEN x ELSE x - N) /\ y % N = (IF y < N THEN y ELSE y - N)
    BY <2>2, RingMod
  <2>4. x % N = y % N
    BY <1>1, <1>2, <2>1, <2>2, <2>3
  <2> QED
    BY <2>1, <2>4
<1> QED
  BY <1>1, <1>2, <1>4, <1>5

\* A sequence given as a function on 1 .. n.
LEMMA ItemsAreSeq ==
  ASSUME NEW n \in Nat, NEW f, DOMAIN f = 1 .. n, f = [k \in 1 .. n |-> f[k]]
  PROVE  /\ f \in Seq({f[k] : k \in 1 .. n}) /\ Len(f) = n
         /\ f = <<>> <=> n = 0
<1>1. f \in [1 .. n -> {f[k] : k \in 1 .. n}]
  OBVIOUS
<1>2. f \in Seq({f[k] : k \in 1 .. n})
  BY <1>1
<1> QED
  BY <1>2

LEMMA ItemsSeq ==
  ASSUME NEW N \in Nat \ {0}, NEW r, NEW i \in 0 .. (N - 1), RingShape(N, r)
  PROVE  /\ \E X : ItemsFrom(N, r, i) \in Seq(X)
         /\ ItemsFrom(N, r, i) = <<>> <=> r.head = i
         /\ r.head # i => Head(ItemsFrom(N, r, i)) = r.buffer[i]
<1>1. PICK n : n = (r.head - i + N) % N
  OBVIOUS
<1>2. r.head \in 0 .. (N - 1)
  BY DEF RingShape
<1>3. n = (IF r.head >= i THEN r.head - i ELSE r.head - i + N) /\ n \in Nat
  <2>1. PICK h : h = r.head /\ h \in 0 .. (N - 1)
    BY <1>2
  <2>2. (h - i + N) % N = IF h >= i THEN h - i ELSE h - i + N
    BY <2>1, RingGap
  <2> QED
    BY <1>1, <2>1, <2>2
<1>4. PICK f : f = ItemsFrom(N, r, i)
  OBVIOUS
<1>5. f = [k \in 1 .. n |-> r.buffer[(i + k - 1) % N]]
  BY <1>1, <1>4 DEF ItemsFrom
<1>6. DOMAIN f = 1 .. n /\ f = [k \in 1 .. n |-> f[k]]
  BY <1>5
<1>7. f \in Seq({f[k] : k \in 1 .. n}) /\ Len(f) = n /\ (f = <<>> <=> n = 0)
  BY <1>3, <1>6, ItemsAreSeq
<1>8. n = 0 <=> r.head = i
  BY <1>2, <1>3
<1>9. ASSUME r.head # i PROVE Head(f) = r.buffer[i]
  <2>1. Head(f) = f[1] /\ 1 \in 1 .. n
    BY <1>3, <1>7, <1>8, <1>9
  <2>2. PICK x : x = i + 1 - 1
    OBVIOUS
  <2>3. x = i /\ x \in 0 .. (2 * N - 1)
    BY <2>2
  <2>4. x % N = i
    BY <2>3, RingMod
  <2>5. f[1] = r.buffer[(i + 1 - 1) % N]
    BY <1>5, <2>1
  <2> QED
    BY <2>1, <2>2, <2>4, <2>5
<1> QED
  BY <1>1, <1>4, <1>7, <1>8, <1>9

FunctionTo(f, n) == DOMAIN f = 1 .. n /\ f = [k \in 1 .. n |-> f[k]]

\* The ring after the step of a handler or a reader.
PutInto(N, r, s, item) ==
    /\ DOMAIN s = DOMAIN r /\ s.tail = r.tail /\ s.head = (r.head + 1) % N
    /\ s.buffer = [r.buffer EXCEPT ![r.head] = item]

TakenFrom(N, r, s) == DOMAIN s = DOMAIN r /\ s.tail = (r.tail + 1) % N /\ s.head = r.head /\ s.buffer = r.buffer

LEMMA SeqIsFunction ==
  ASSUME NEW X, NEW s \in Seq(X), NEW n, Len(s) = n, NEW f, FunctionTo(f, n), \A k \in 1 .. n : s[k] = f[k]
  PROVE  s = f
<1>1. s \in [1 .. n -> X]
  OBVIOUS
<1> QED
  BY <1>1 DEF FunctionTo

\* What a handler puts into a ring is appended to its items.
LEMMA PutItems ==
  ASSUME NEW N \in Nat \ {0}, NEW r, NEW s, NEW item, NEW i \in 0 .. (N - 1), RingShape(N, r),
         PutInto(N, r, s, item), s.head # i
  PROVE  RingShape(N, s) /\ ItemsFrom(N, s, i) = Append(ItemsFrom(N, r, i), item)
<1> USE DEF PutInto
<1>1. PICK h, n, g : h = r.head /\ g = s.head /\ BetweenOnRing(N, h, i, n)
  BY DEF RingShape, BetweenOnRing
<1>2. After(N, h, g) /\ g # i
  BY <1>1 DEF After
<1>3. RoomMade(N, h, i, n, g)
  BY <1>1, <1>2, RingPut
<1>4. n \in Nat /\ g \in 0 .. (N - 1)
  BY <1>3 DEF RoomMade
<1>5. RingShape(N, s)
  BY <1>1, <1>4 DEF RingShape
<1>6. PICK f, b : f = ItemsFrom(N, r, i) /\ b = s.buffer
  OBVIOUS
<1>7. f = [k \in 1 .. n |-> r.buffer[(i + k - 1) % N]]
  BY <1>1, <1>6 DEF ItemsFrom, BetweenOnRing
<1>8. f \in Seq({f[k] : k \in 1 .. n}) /\ Len(f) = n
  <2>1. DOMAIN f = 1 .. n /\ f = [k \in 1 .. n |-> f[k]]
    BY <1>7
  <2> QED
    BY <1>4, <2>1, ItemsAreSeq
<1>9. ItemsFrom(N, s, i) = [k \in 1 .. (n + 1) |-> b[(i + k - 1) % N]]
  BY <1>1, <1>3, <1>6 DEF ItemsFrom, RoomMade
<1>10. ASSUME NEW k \in 1 .. n PROVE b[(i + k - 1) % N] = f[k]
  <2>1. (i + k - 1) % N \in 0 .. (N - 1) /\ (i + k - 1) % N # h
    BY <1>3 DEF RoomMade
  <2> QED
    BY <1>1, <1>6, <1>7, <2>1 DEF RingShape
<1>11. b[(i + (n + 1) - 1) % N] = item
  <2>1. i + (n + 1) - 1 = i + n
    BY <1>4
  <2>2. b[h] = item
    BY <1>1, <1>6 DEF RingShape
  <2>3. (i + n) % N = h
    BY <1>3 DEF RoomMade
  <2> QED
    BY <2>1, <2>2, <2>3
<1>12. PICK X : f \in Seq(X) /\ item \in X
  <2>1. f \in Seq({f[k] : k \in 1 .. n} \cup {item})
    BY <1>8
  <2> QED
    BY <2>1
<1>13. Append(f, item) \in Seq(X) /\ Len(Append(f, item)) = n + 1 /\ Append(f, item)[n + 1] = item
       /\ \A k \in 1 .. n : Append(f, item)[k] = f[k]
  BY <1>8, <1>12, AppendProperties
<1>15. ASSUME NEW k \in 1 .. (n + 1) PROVE Append(f, item)[k] = b[(i + k - 1) % N]
  <2>1. CASE k = n + 1
    BY <1>11, <1>13, <2>1
  <2>2. CASE k # n + 1
    BY <1>4, <1>10, <1>13, <2>2
  <2> QED
    BY <2>1, <2>2
<1>16. Append(f, item) = [k \in 1 .. (n + 1) |-> b[(i + k - 1) % N]]
  <2>1. PICK e : e = [k \in 1 .. (n + 1) |-> b[(i + k - 1) % N]]
    OBVIOUS
  <2>2. PICK m, t : m = n + 1 /\ t = Append(f, item)
    OBVIOUS
  <2>3. FunctionTo(e, m)
    BY <2>1, <2>2 DEF FunctionTo
  <2>4. t \in Seq(X) /\ Len(t) = m /\ \A k \in 1 .. m : t[k] = e[k]
    BY <1>13, <1>15, <2>1, <2>2
  <2>5. t = e
    BY <2>3, <2>4, SeqIsFunction
  <2> QED
    BY <2>1, <2>2, <2>5
<1> QED
  BY <1>5, <1>6, <1>9, <1>16

\* What a task reads is the first of a ring's items, and leaves the others.
LEMMA TakeItems ==
  ASSUME NEW N \in Nat \ {0}, NEW r, NEW s, RingShape(N, r), r.head # r.tail,
         TakenFrom(N, r, s)
  PROVE  RingShape(N, s) /\ ItemsFrom(N, s, s.tail) = Tail(ItemsFrom(N, r, r.tail))
<1> USE DEF TakenFrom
<1>1. PICK h, i, n, j : h = r.head /\ i = r.tail /\ j = s.tail /\ BetweenOnRing(N, h, i, n)
  BY DEF RingShape, BetweenOnRing
<1>2. After(N, i, j) /\ h # i
  BY <1>1 DEF After
<1>3. OneTaken(N, h, i, n, j)
  BY <1>1, <1>2, RingTake
<1>4. n \in Nat \ {0} /\ j \in 0 .. (N - 1)
  BY <1>3 DEF OneTaken
<1>5. RingShape(N, s)
  BY <1>1, <1>4 DEF RingShape
<1>6. PICK f : f = ItemsFrom(N, r, i)
  OBVIOUS
<1>7. f = [k \in 1 .. n |-> r.buffer[(i + k - 1) % N]]
  BY <1>1, <1>6 DEF ItemsFrom, BetweenOnRing
<1>8. f \in Seq({f[k] : k \in 1 .. n}) /\ Len(f) = n
  <2>1. DOMAIN f = 1 .. n /\ f = [k \in 1 .. n |-> f[k]]
    BY <1>7
  <2> QED
    BY <1>4, <2>1, ItemsAreSeq
<1>9. PICK X : f \in Seq(X)
  BY <1>8
<1>10. f # <<>>
  BY <1>4, <1>8
<1>11. Tail(f) \in Seq(X) /\ Len(Tail(f)) = n - 1 /\ \A k \in 1 .. Len(Tail(f)) : Tail(f)[k] = f[k + 1]
  BY <1>8, <1>9, <1>10, HeadTailProperties
<1>12. ItemsFrom(N, s, j) = [k \in 1 .. (n - 1) |-> r.buffer[(j + k - 1) % N]]
  BY <1>1, <1>3 DEF ItemsFrom, OneTaken
<1>13. ASSUME NEW k \in 1 .. (n - 1) PROVE r.buffer[(j + k - 1) % N] = f[k + 1]
  <2>1. k + 1 \in 1 .. n
    BY <1>4
  <2>2. f[k + 1] = r.buffer[(i + (k + 1) - 1) % N]
    BY <1>7, <2>1
  <2>3. (j + k - 1) % N = (i + (k + 1) - 1) % N
    BY <1>3 DEF OneTaken
  <2> QED
    BY <2>2, <2>3
<1>14. Tail(f) = [k \in 1 .. (n - 1) |-> r.buffer[(j + k - 1) % N]]
  <2>1. PICK e : e = [k \in 1 .. (n - 1) |-> r.buffer[(j + k - 1) % N]]
    OBVIOUS
  <2>2. PICK m, t : m = n - 1 /\ t = Tail(f)
    OBVIOUS
  <2>3. FunctionTo(e, m)
    BY <2>1, <2>2 DEF FunctionTo
  <2>4. t \in Seq(X) /\ Len(t) = m /\ \A k \in 1 .. m : t[k] = e[k]
    BY <1>11, <1>11, <1>13, <2>1, <2>2
  <2>5. t = e
    BY <2>3, <2>4, SeqIsFunction
  <2> QED
    BY <2>1, <2>2, <2>5
<1> QED
  BY <1>1, <1>5, <1>6, <1>12, <1>14

LEMMA PutKeepsRing ==
  ASSUME NEW N \in Nat \ {0}, NEW r, NEW rd, NEW a, RingInv(N, r, rd, a), NEW s, NEW item,
         PutInto(N, r, s, item), s.head # r.tail
  PROVE  RingInv(N, s, rd, Append(a, item))
<1>1. PICK i : i = (IF rd.pc = "clear" THEN 0 ELSE r.tail) /\ i \in 0 .. (N - 1)
  BY DEF RingInv, RingShape
<1>2. rd.pc = "clear" => s.head # 0 /\ (s.tail = 0 \/ s.head < s.tail)
  <2>1. SUFFICES ASSUME rd.pc = "clear" PROVE s.head # 0 /\ (s.tail = 0 \/ s.head < s.tail)
    OBVIOUS
  <2>2. PICK h, x : h = r.head /\ h \in 0 .. (N - 1) /\ x = h + 1 /\ x \in 0 .. (2 * N - 1)
    BY DEF RingInv, RingShape
  <2>3. x % N = IF x < N THEN x ELSE x - N
    BY <2>2, RingMod
  <2>4. s.head = IF x < N THEN x ELSE x - N
    BY <2>2, <2>3 DEF PutInto
  <2> QED
    BY <2>1, <2>2, <2>4 DEF RingInv, RingShape, PutInto
<1>3. s.head # i
  BY <1>1, <1>2
<1>4. RingShape(N, r) /\ a = ItemsFrom(N, r, i)
  BY <1>1 DEF RingInv
<1>5. RingShape(N, s) /\ ItemsFrom(N, s, i) = Append(a, item)
  BY <1>1, <1>3, <1>4, PutItems
<1>6. PICK X : a \in Seq(X) /\ item \in X
  <2>1. PICK Y : a \in Seq(Y)
    BY <1>1, <1>4, ItemsSeq
  <2>2. a \in Seq(Y \cup {item})
    BY <2>1
  <2> QED
    BY <2>2
<1>7. Append(a, item) # <<>> /\ (a # <<>> => Head(Append(a, item)) = Head(a))
  <2>1. /\ Append(a, item) \in Seq(X) /\ Len(Append(a, item)) = Len(a) + 1
        /\ \A k \in 1 .. Len(a) : Append(a, item)[k] = a[k]
    BY <1>6, AppendProperties
  <2>2. a # <<>> => Head(a) = a[1] /\ 1 \in 1 .. Len(a)
    BY <1>6, HeadTailProperties
  <2>3. Head(Append(a, item)) = Append(a, item)[1]
    BY <1>6, <2>1, HeadTailProperties
  <2>4. Append(a, item) # <<>>
    BY <1>6, <2>1
  <2> QED
    BY <2>1, <2>2, <2>3, <2>4
<1> QED
  BY <1>1, <1>2, <1>5, <1>7 DEF RingInv, PutInto

LEMMA TakeKeepsRing ==
  ASSUME NEW N \in Nat \ {0}, NEW r, NEW rd, NEW a, RingInv(N, r, rd, a), rd.pc = "advance", NEW s,
         TakenFrom(N, r, s),
         NEW e, DOMAIN e = {"pc", "item"}, e.pc = "idle"
  PROVE  RingInv(N, s, e, Tail(a))
<1>1. RingShape(N, r) /\ a = ItemsFrom(N, r, r.tail) /\ a # <<>> /\ r.tail \in 0 .. (N - 1)
  BY DEF RingInv, RingShape
<1>2. r.head # r.tail
  <2>1. PICK i : i = r.tail
    OBVIOUS
  <2> QED
    BY <1>1, <2>1, ItemsSeq
<1>3. RingShape(N, s) /\ ItemsFrom(N, s, s.tail) = Tail(a)
  BY <1>1, <1>2, TakeItems
<1> QED
  BY <1>3 DEF RingInv

\* The steps of a reader that leave the ring alone.
LEMMA LookKeepsRing ==
  ASSUME NEW N \in Nat \ {0}, NEW r, NEW rd, NEW a, RingInv(N, r, rd, a),
         NEW e, DOMAIN e = {"pc", "item"},
         \/ rd.pc = "idle" /\ r.head # r.tail /\ e.pc = "take"
         \/ rd.pc = "take" /\ e.pc = "advance" /\ e.item = r.buffer[r.tail]
  PROVE  RingInv(N, r, e, a)
<1>1. RingShape(N, r) /\ a = ItemsFrom(N, r, r.tail) /\ r.tail \in 0 .. (N - 1)
  BY DEF RingInv, RingShape
<1>2. PICK i : i = r.tail /\ i \in 0 .. (N - 1)
  BY <1>1
<1>3. (a = <<>> <=> r.head = i) /\ (r.head # i => Head(a) = r.buffer[i])
  BY <1>1, <1>2, ItemsSeq
<1> QED
  BY <1>1, <1>2, <1>3 DEF RingInv

\* The two steps that clear a buffer.
LEMMA ClearKeepsRing ==
  ASSUME NEW N \in Nat \ {0}, NEW r, NEW rd, NEW a, RingInv(N, r, rd, a), NEW s, NEW e, NEW b,
         DOMAIN s = DOMAIN r, s.buffer = r.buffer, DOMAIN e = {"pc", "item"},
         \/ s.head = 0 /\ s.tail = r.tail /\ e.pc = "clear" /\ b = <<>>
         \/ rd.pc = "clear" /\ s.tail = 0 /\ s.head = r.head /\ e.pc = "idle" /\ b = a
  PROVE  RingInv(N, s, e, b)
<1>1. RingShape(N, s) /\ 0 \in 0 .. (N - 1)
  BY DEF RingInv, RingShape
<1>2. CASE s.head = 0 /\ s.tail = r.tail /\ e.pc = "clear" /\ b = <<>>
  <2>1. ItemsFrom(N, s, 0) = <<>>
    BY <1>1, <1>2, ItemsSeq
  <2> QED
    BY <1>1, <1>2, <2>1 DEF RingInv, RingShape
<1>3. CASE rd.pc = "clear" /\ s.tail = 0 /\ s.head = r.head /\ e.pc = "idle" /\ b = a
  <2>1. a = ItemsFrom(N, r, 0)
    BY <1>3 DEF RingInv
  <2>2. ItemsFrom(N, s, 0) = ItemsFrom(N, r, 0)
    BY <1>3 DEF ItemsFrom
  <2> QED
    BY <1>1, <1>3, <2>1, <2>2 DEF RingInv
<1> QED
  BY <1>2, <1>3

LEMMA InputInitInv == InputInit => InputInv
<1> SUFFICES ASSUME InputInit PROVE InputInv
  OBVIOUS
<1> SUFFICES ASSUME NEW d \in Devices PROVE RingInv(SizeOf[d], ring[d], reader[d], arrived[d])
  BY DEF InputInv, InputInit
<1>1. PICK N : N = SizeOf[d] /\ N \in Nat \ {0}
  BY InputSizes
<1>2. PICK r : r = ring[d]
  OBVIOUS
<1>3. r.head = 0 /\ r.tail = 0 /\ RingShape(N, r) /\ 0 \in 0 .. (N - 1)
  BY <1>1, <1>2 DEF InputInit, RingShape
<1>4. ItemsFrom(N, r, 0) = <<>>
  BY <1>1, <1>3, ItemsSeq
<1> QED
  BY <1>1, <1>2, <1>3, <1>4 DEF InputInit, RingInv

\* A step changes the ring and the reader of one device.
OnlyAt(f, g, d, v) == DOMAIN g = DOMAIN f /\ g[d] = v /\ \A x \in Devices \ {d} : g[x] = f[x]

LEMMA OneDevice ==
  ASSUME InputInv, NEW d \in Devices, NEW r, NEW rd, NEW a, RingInv(SizeOf[d], r, rd, a),
         OnlyAt(ring, ring', d, r), OnlyAt(reader, reader', d, rd), OnlyAt(arrived, arrived', d, a)
  PROVE  InputInv'
BY DEF InputInv, SizeOf, OnlyAt

LEMMA PutInv ==
  ASSUME InputInv, NEW d \in Devices, NEW item, Put(d, item), UNCHANGED reader
  PROVE  InputInv'
<1>1. CASE UNCHANGED <<ring, arrived>>
  BY <1>1 DEF InputInv, Devices, SizeOf
<1>2. CASE /\ RingNextOf(d, ring[d].head) # ring[d].tail
           /\ ring' = [ring EXCEPT ![d].buffer[ring[d].head] = item, ![d].head = RingNextOf(d, ring[d].head)]
           /\ arrived' = [arrived EXCEPT ![d] = Append(@, item)]
  <2>1. PICK N, r, rd, a : N = SizeOf[d] /\ r = ring[d] /\ rd = reader[d] /\ a = arrived[d]
    OBVIOUS
  <2>2. N \in Nat \ {0} /\ RingInv(N, r, rd, a)
    BY <2>1, InputSizes DEF InputInv
  <2>3. PICK s : s = ring'[d]
    OBVIOUS
  <2>4. DOMAIN ring = Devices /\ DOMAIN arrived = Devices /\ DOMAIN reader = Devices
    BY DEF InputInv
  <2>5. DOMAIN r = {"buffer", "head", "tail"}
    BY <2>2 DEF RingInv, RingShape
  <2>6. PutInto(N, r, s, item) /\ s.head # r.tail
    BY <1>2, <2>1, <2>3, <2>4, <2>5 DEF PutInto, RingNextOf
  <2>7. RingInv(N, s, rd, Append(a, item))
    BY <2>2, <2>6, PutKeepsRing
  <2>8. OnlyAt(ring, ring', d, s)
    BY <1>2, <2>3, <2>4 DEF OnlyAt
  <2>9. OnlyAt(reader, reader', d, rd) /\ OnlyAt(arrived, arrived', d, Append(a, item))
    BY <1>2, <2>1, <2>4 DEF OnlyAt
  <2> QED
    BY <2>1, <2>7, <2>8, <2>9, OneDevice
<1> QED
  BY <1>1, <1>2 DEF Put

LEMMA ReadInv ==
  ASSUME InputInv, NEW d \in Devices,
         StartRead(d) \/ TakeItem(d) \/ Advance(d) \/ ClearHead(d) \/ ClearTail(d)
  PROVE  InputInv'
<1>1. PICK N, r, rd, a : N = SizeOf[d] /\ r = ring[d] /\ rd = reader[d] /\ a = arrived[d]
  OBVIOUS
<1>2. N \in Nat \ {0} /\ RingInv(N, r, rd, a)
  BY <1>1, InputSizes DEF InputInv
<1>3. PICK s, e, b : s = ring'[d] /\ e = reader'[d] /\ b = arrived'[d]
  OBVIOUS
<1>4. DOMAIN ring = Devices /\ DOMAIN arrived = Devices /\ DOMAIN reader = Devices
  BY DEF InputInv
<1>5. DOMAIN r = {"buffer", "head", "tail"}
  BY <1>2 DEF RingInv, RingShape
<1>6. OnlyAt(reader, reader', d, e) /\ DOMAIN e = {"pc", "item"}
  BY <1>3, <1>4 DEF StartRead, TakeItem, Advance, ClearHead, ClearTail, Step, OnlyAt
<1>7. OnlyAt(ring, ring', d, s) /\ OnlyAt(arrived, arrived', d, b)
  BY <1>3, <1>4 DEF StartRead, TakeItem, Advance, ClearHead, ClearTail, Step, OnlyAt
<1>8. RingInv(N, s, e, b)
  <2>1. CASE StartRead(d) \/ TakeItem(d)
    <3>1. /\ s = r /\ b = a
          /\ \/ rd.pc = "idle" /\ r.head # r.tail /\ e.pc = "take"
             \/ rd.pc = "take" /\ e.pc = "advance" /\ e.item = r.buffer[r.tail]
      BY <1>1, <1>3, <1>4, <2>1 DEF StartRead, TakeItem, Step
    <3> QED
      BY <1>2, <1>6, <3>1, LookKeepsRing
  <2>2. CASE Advance(d)
    <3>1. rd.pc = "advance" /\ e.pc = "idle" /\ TakenFrom(N, r, s) /\ b = Tail(a)
      BY <1>1, <1>3, <1>4, <1>5, <2>2 DEF Advance, Step, TakenFrom, RingNextOf
    <3> QED
      BY <1>2, <1>6, <3>1, TakeKeepsRing
  <2>3. CASE ClearHead(d) \/ ClearTail(d)
    <3>1. /\ DOMAIN s = DOMAIN r /\ s.buffer = r.buffer
          /\ \/ s.head = 0 /\ s.tail = r.tail /\ e.pc = "clear" /\ b = <<>>
             \/ rd.pc = "clear" /\ s.tail = 0 /\ s.head = r.head /\ e.pc = "idle" /\ b = a
      BY <1>1, <1>3, <1>4, <1>5, <2>3 DEF ClearHead, ClearTail, Step
    <3> QED
      BY <1>2, <1>6, <3>1, ClearKeepsRing
  <2> QED
    BY <2>1, <2>2, <2>3
<1> QED
  BY <1>1, <1>6, <1>7, <1>8, OneDevice

LEMMA InputNextInv ==
  ASSUME InputInv, [ControllerNext \/ KeyboardNext \/ MouseNext]_InputVars
  PROVE  InputInv'
<1> USE DEF Devices
<1>1. CASE UNCHANGED <<ring, reader, arrived>>
  BY <1>1 DEF InputInv, SizeOf
<1>2. CASE \E d \in Devices : \E item : Put(d, item) /\ UNCHANGED reader
  BY <1>2, PutInv
<1>3. CASE \E d \in Devices : StartRead(d) \/ TakeItem(d) \/ Advance(d) \/ ClearHead(d) \/ ClearTail(d)
  BY <1>3, ReadInv
<1>4. CASE UNCHANGED InputVars
  BY <1>1, <1>4 DEF InputVars
<1>5. CASE ControllerNext
  BY <1>1, <1>5 DEF ControllerNext, keyboard_init, mouse_init, input_init, OnPs2
<1>6. CASE KeyboardNext
  <2>1. CASE \E ack \in BOOLEAN : keyboard_init(ack)
    BY <1>1, <2>1 DEF keyboard_init, OnPs2
  <2>2. ASSUME NEW key \in Scancodes, NEW pressed \in BOOLEAN, keyboard_interrupt_handler(key, pressed)
        PROVE  InputInv'
    <3>1. UNCHANGED <<ring, reader, arrived>> \/ (Put("keyboard", scancode_to_ascii(key)) /\ UNCHANGED reader)
      BY <2>2 DEF keyboard_interrupt_handler
    <3> QED
      BY <1>1, <3>1, PutInv
  <2> QED
    BY <1>3, <1>6, <2>1, <2>2 DEF KeyboardNext, keyboard_getchar
<1>7. CASE MouseNext
  <2>1. CASE \E ack \in BOOLEAN : mouse_init(ack)
    BY <1>1, <2>1 DEF mouse_init, OnPs2
  <2>2. ASSUME NEW data \in MouseBytes, mouse_interrupt_handler(data) PROVE InputInv'
    <3>1. UNCHANGED <<ring, reader, arrived>> \/ (Put("mouse", MouseEvent(Append(packet, data))) /\ UNCHANGED reader)
      BY <2>2 DEF mouse_interrupt_handler
    <3> QED
      BY <1>1, <3>1, PutInv
  <2> QED
    BY <1>3, <1>7, <2>1, <2>2 DEF MouseNext, mouse_get_event
<1> QED
  BY <1>4, <1>5, <1>6, <1>7

\* For every size of the rings and every interleaving of the handlers with the memory
\* accesses of the tasks that read: characters and mouse events are read in the order in
\* which they came, none twice, none lost, none half written.
THEOREM InputStaysInOrder == MachineSpec => []InputInOrder
<1>1. MachineInit => InputInv
  BY InputInitInv DEF MachineInit
<1>2. InputInv /\ [MachineNext]_MachineVars => InputInv'
  BY MachineParts, InputNextInv
<1>3. InputInv => InputInOrder
  BY DEF InputInv, InputInOrder, RingInv, ItemsFrom, Contents
<1> QED
  BY <1>1, <1>2, <1>3, PTL DEF MachineSpec
-----------------------------------------------------------------------------
(***************************************************************************)
(* The ARP cache.                                                          *)
(***************************************************************************)
\* The pairs of addresses in the cache, and the slots that hold them.
ValidSlots(c) == {i \in ArpSlots : c[i].valid}
PairAt(c, i) == <<c[i].ip, c[i].mac>>
PairsOf(c) == {PairAt(c, i) : i \in ValidSlots(c)}

\* Every entry is empty or complete, and no two are for the same IP address.
ArpShape(c) ==
    /\ DOMAIN c = ArpSlots
    /\ \A i \in ArpSlots : c[i].valid \in BOOLEAN
    /\ \A i, j \in ValidSlots(c) : c[i].ip = c[j].ip => i = j

ArpInv(c, ref) == ArpShape(c) /\ ref = PairsOf(c)

\* The cache n is c with the addresses in slot k.
AddedAt(c, n, ip, mac, k) ==
    /\ DOMAIN n = ArpSlots /\ k \in ArpSlots
    /\ n[k].valid = TRUE /\ n[k].ip = ip /\ n[k].mac = mac
    /\ \A i \in ArpSlots \ {k} : n[i] = c[i]

\* arp_add leaves a full cache alone, and otherwise writes the entry of the address,
\* or, when there is none, an empty one.
LEMMA ArpAdd ==
  ASSUME NEW c, DOMAIN c = ArpSlots, NEW ip, NEW mac
  PROVE  \/ /\ arp_add(c, ip, mac) = c
            /\ \A i \in ArpSlots : c[i].valid /\ c[i].ip # ip
         \/ \E k \in ArpSlots :
               /\ AddedAt(c, arp_add(c, ip, mac), ip, mac, k)
               /\ \/ c[k].valid /\ c[k].ip = ip
                  \/ ~c[k].valid /\ \A i \in ValidSlots(c) : c[i].ip # ip
<1> DEFINE same == {i \in ArpSlots : c[i].valid /\ c[i].ip = ip}
           free == {i \in ArpSlots : ~c[i].valid}
           pick == IF same # {} THEN same ELSE free
           slot == CHOOSE i \in pick : \A j \in pick : i <= j
           entry == [valid |-> TRUE, ip |-> ip, mac |-> mac]
<1>1. arp_add(c, ip, mac) = IF pick = {} THEN c ELSE [c EXCEPT ![slot] = entry]
  BY DEF arp_add
<1>2. CASE pick = {}
  BY <1>1, <1>2
<1>3. CASE pick # {}
  <2>1. pick \in SUBSET Nat
    BY NetAssumption DEF ArpSlots
  <2>2. slot \in pick
    <3> HIDE DEF pick
    <3>1. \E i \in pick : \A j \in pick : i <= j
      BY <1>3, <2>1, LeastElement
    <3> QED
      BY <3>1
  <2> HIDE DEF slot
  <2>3. AddedAt(c, [c EXCEPT ![slot] = entry], ip, mac, slot)
    BY <2>2 DEF AddedAt
  <2> QED
    BY <1>1, <1>3, <2>2, <2>3 DEF ValidSlots
<1> QED
  BY <1>2, <1>3

\* The pairs and the slots correspond: the cache is full when there are as many pairs as slots.
LEMMA ArpFull ==
  ASSUME NEW c, ArpShape(c)
  PROVE  Cardinality(PairsOf(c)) < ARP_CACHE_SIZE <=> \E i \in ArpSlots : ~c[i].valid
<1> DEFINE V == ValidSlots(c)
           P == PairsOf(c)
           f == [i \in V |-> PairAt(c, i)]
<1>1. IsFiniteSet(ArpSlots) /\ Cardinality(ArpSlots) = ARP_CACHE_SIZE /\ ARP_CACHE_SIZE \in Nat
  <2>1. 0 \in Int /\ ARP_CACHE_SIZE - 1 \in Int /\ ARP_CACHE_SIZE \in Nat \ {0}
    BY NetAssumption
  <2> QED
    BY <2>1, FS_Interval DEF ArpSlots
<1>2. V \in SUBSET ArpSlots
  BY DEF ValidSlots
<1>3. /\ IsFiniteSet(V) /\ Cardinality(V) \in Nat
      /\ Cardinality(V) <= ARP_CACHE_SIZE /\ (Cardinality(V) = ARP_CACHE_SIZE => V = ArpSlots)
  BY <1>1, <1>2, FS_Subset, FS_CardinalityType
<1>4. f \in Bijection(V, P)
  <2>1. f \in [V -> P] /\ \A y \in P : \E i \in V : f[i] = y
    BY DEF PairsOf
  <2>2. \A i, j \in V : f[i] = f[j] => i = j
    BY DEF ArpShape, PairAt
  <2> HIDE DEF V, P, f
  <2> QED
    BY <2>1, <2>2 DEF Bijection, Injection, Surjection, IsInjective
<1>5. Cardinality(P) = Cardinality(V)
  <2> HIDE DEF V, P, f
  <2> QED
    BY <1>3, <1>4, FS_Bijection DEF ExistsBijection
<1>6. V = ArpSlots <=> ~ \E i \in ArpSlots : ~c[i].valid
  BY DEF ValidSlots
<1> QED
  BY <1>1, <1>3, <1>5, <1>6

\* The addresses announced before and after a packet from ip.
Announced(ref, ip, mac, new) ==
    new = IF (\E e \in ref : e[1] = ip) \/ Cardinality(ref) < ARP_CACHE_SIZE
          THEN {e \in ref : e[1] # ip} \cup {<<ip, mac>>}
          ELSE ref

LEMMA ArpStep ==
  ASSUME NEW c, NEW ref, ArpInv(c, ref), NEW ip, NEW mac, NEW new, Announced(ref, ip, mac, new)
  PROVE  ArpInv(arp_add(c, ip, mac), new)
<1>1. ArpShape(c) /\ ref = PairsOf(c) /\ DOMAIN c = ArpSlots
  BY DEF ArpInv, ArpShape
<1>2. (\E e \in ref : e[1] = ip) <=> \E i \in ArpSlots : c[i].valid /\ c[i].ip = ip
  <2>1. \A i \in ArpSlots : PairAt(c, i)[1] = c[i].ip
    BY DEF PairAt
  <2>2. \A e \in ref : \E i \in ArpSlots : c[i].valid /\ e = PairAt(c, i)
    BY <1>1 DEF PairsOf, ValidSlots
  <2>3. \A i \in ArpSlots : c[i].valid => PairAt(c, i) \in ref
    BY <1>1 DEF PairsOf, ValidSlots
  <2> QED
    BY <2>1, <2>2, <2>3
<1>3. Cardinality(ref) < ARP_CACHE_SIZE <=> \E i \in ArpSlots : ~c[i].valid
  BY <1>1, ArpFull
<1>4. PICK n : n = arp_add(c, ip, mac)
  OBVIOUS
<1>5. CASE n = c /\ \A i \in ArpSlots : c[i].valid /\ c[i].ip # ip
  <2>1. new = ref
    BY <1>2, <1>3, <1>5 DEF Announced
  <2> QED
    BY <1>4, <1>5, <2>1
<1>6. CASE \E k \in ArpSlots : /\ AddedAt(c, n, ip, mac, k)
                              /\ \/ c[k].valid /\ c[k].ip = ip
                                 \/ ~c[k].valid /\ \A i \in ValidSlots(c) : c[i].ip # ip
  <2>1. PICK k \in ArpSlots : /\ AddedAt(c, n, ip, mac, k)
                              /\ \/ c[k].valid /\ c[k].ip = ip
                                 \/ ~c[k].valid /\ \A i \in ValidSlots(c) : c[i].ip # ip
    BY <1>6
  <2>2. new = {e \in ref : e[1] # ip} \cup {<<ip, mac>>}
    BY <1>2, <1>3, <2>1 DEF Announced
  <2>3. ValidSlots(n) = ValidSlots(c) \cup {k} /\ \A i \in ValidSlots(c) : i # k => c[i].ip # ip
    BY <1>1, <2>1 DEF ValidSlots, AddedAt, ArpShape
  <2>4. \A i \in ValidSlots(c) \ {k} : PairAt(n, i) = PairAt(c, i) /\ n[i].ip = c[i].ip
    BY <2>1 DEF AddedAt, PairAt, ValidSlots
  <2>5. PairAt(n, k) = <<ip, mac>> /\ n[k].ip = ip
    BY <2>1 DEF AddedAt, PairAt
  <2>6. ArpShape(n)
    <3>1. \A i \in ArpSlots : n[i].valid \in BOOLEAN
      BY <1>1, <2>1 DEF AddedAt, ArpShape
    <3>2. ASSUME NEW i \in ValidSlots(n), NEW j \in ValidSlots(n), n[i].ip = n[j].ip PROVE i = j
      BY <1>1, <2>3, <2>4, <2>5, <3>2 DEF ArpShape
    <3> QED
      BY <2>1, <3>1, <3>2 DEF AddedAt, ArpShape
  <2>7. PairsOf(n) \subseteq new
    <3> SUFFICES ASSUME NEW i \in ValidSlots(n) PROVE PairAt(n, i) \in new
      BY DEF PairsOf
    <3>1. CASE i = k
      BY <2>2, <2>5, <3>1
    <3>2. CASE i # k
      <4>1. i \in ValidSlots(c) /\ c[i].ip # ip /\ PairAt(n, i) = PairAt(c, i)
        BY <2>3, <2>4, <3>2
      <4>2. PairAt(c, i) \in ref /\ PairAt(c, i)[1] # ip
        BY <1>1, <4>1 DEF PairsOf, PairAt
      <4> QED
        BY <2>2, <4>1, <4>2
    <3> QED
      BY <3>1, <3>2
  <2>8. new \subseteq PairsOf(n)
    <3>1. <<ip, mac>> \in PairsOf(n)
      BY <2>3, <2>5 DEF PairsOf
    <3>2. ASSUME NEW e \in ref, e[1] # ip PROVE e \in PairsOf(n)
      <4>1. PICK i \in ValidSlots(c) : e = PairAt(c, i)
        BY <1>1, <3>2 DEF PairsOf
      <4>2. c[i].ip # ip
        BY <3>2, <4>1 DEF PairAt
      <4>3. CASE i = k
        BY <2>1, <4>1, <4>2, <4>3 DEF ValidSlots
      <4>4. CASE i # k
        BY <2>3, <2>4, <4>1, <4>4 DEF PairsOf
      <4> QED
        BY <4>3, <4>4
    <3> QED
      BY <2>2, <3>1, <3>2
  <2> QED
    BY <1>4, <2>6, <2>7, <2>8 DEF ArpInv
<1> QED
  BY <1>1, <1>4, <1>5, <1>6, ArpAdd

LEMMA ArpInitInv == network_init => ArpInv(arp_cache, arpRef)
<1> SUFFICES ASSUME network_init PROVE ArpInv(arp_cache, arpRef)
  OBVIOUS
<1>1. PICK c : c = [i \in ArpSlots |-> NoEntry]
  OBVIOUS
<1>2. DOMAIN c = ArpSlots /\ \A i \in ArpSlots : c[i].valid = FALSE
  BY <1>1 DEF NoEntry
<1>3. ArpShape(c) /\ PairsOf(c) = {}
  BY <1>2 DEF ArpShape, PairsOf, ValidSlots
<1>4. 0 \in ArpSlots
  BY NetAssumption DEF ArpSlots
<1>5. Cardinality({}) < ARP_CACHE_SIZE
  BY <1>2, <1>3, <1>4, ArpFull
<1>6. Announced({}, LoIP, LoMAC, {<<LoIP, LoMAC>>})
  BY <1>5 DEF Announced
<1>7. ArpInv(arp_add(c, LoIP, LoMAC), {<<LoIP, LoMAC>>})
  BY <1>3, <1>6, ArpStep DEF ArpInv
<1> QED
  BY <1>1, <1>7 DEF network_init, loopback_init

LEMMA ArpNextInv ==
  ASSUME ArpInv(arp_cache, arpRef), [NetNext]_NetVars
  PROVE  ArpInv(arp_cache, arpRef)'
<1>1. CASE UNCHANGED <<arp_cache, arpRef>>
  BY <1>1
<1>2. ASSUME NEW ip, NEW mac, arp_cache' = arp_add(arp_cache, ip, mac), arpRef' = Announce(ip, mac)
      PROVE  ArpInv(arp_cache, arpRef)'
  <2>1. Announced(arpRef, ip, mac, arpRef')
    BY <1>2 DEF Announced, Announce
  <2>2. ArpInv(arp_add(arp_cache, ip, mac), arpRef')
    BY <2>1, ArpStep
  <2> QED
    BY <1>2, <2>2
<1>3. CASE net_rx_poll
  <2>1. PICK frame : eth_rx(frame)
    BY <1>3 DEF net_rx_poll
  <2>2. \/ UNCHANGED <<arp_cache, arpRef>>
        \/ arp_cache' = arp_add(arp_cache, frame.ip, frame.mac) /\ arpRef' = Announce(frame.ip, frame.mac)
    BY <2>1 DEF eth_rx, arp_rx
  <2> QED
    BY <1>1, <1>2, <2>2
<1>4. CASE ~net_rx_poll
  <2>1. UNCHANGED <<arp_cache, arpRef>>
    BY <1>4 DEF NetNext, NetVars, netdev_register, netdev_unregister, net_tx_poll, skb_alloc, net_enqueue, eth_tx
  <2> QED
    BY <1>1, <2>1
<1> QED
  BY <1>3, <1>4

\* For every size of the cache and every sequence of requests and replies: the cache
\* knows the address announced last, of as many IP addresses as it has room for.
THEOREM ArpAlwaysKnowsLast == MachineSpec => []ArpKnowsLast
<1>1. MachineInit => ArpInv(arp_cache, arpRef)
  BY ArpInitInv DEF MachineInit
<1>2. ArpInv(arp_cache, arpRef) /\ [MachineNext]_MachineVars => ArpInv(arp_cache, arpRef)'
  BY MachineParts, ArpNextInv
<1>3. ArpInv(arp_cache, arpRef) => ArpKnowsLast
  <2> SUFFICES ASSUME ArpInv(arp_cache, arpRef), NEW ip \in IPs
               PROVE  arp_lookup(ip) = {e \in arpRef : e[1] = ip}
    BY DEF ArpKnowsLast
  <2>1. ArpShape(arp_cache) /\ arpRef = PairsOf(arp_cache)
    BY DEF ArpInv
  <2> DEFINE at == {i \in ArpSlots : arp_cache[i].valid /\ arp_cache[i].ip = ip}
  <2>2. CASE at = {}
    <3>1. arp_lookup(ip) = {}
      BY <2>2 DEF arp_lookup
    <3>2. \A e \in arpRef : e[1] # ip
      BY <2>1, <2>2 DEF PairsOf, PairAt, ValidSlots
    <3> QED
      BY <3>1, <3>2
  <2>3. CASE at # {}
    <3>1. PICK i : i \in at
      BY <2>3
    <3>2. at = {i} /\ i \in Nat /\ i \in ValidSlots(arp_cache)
      BY <2>1, <3>1, NetAssumption DEF ArpShape, ValidSlots, ArpSlots
    <3>3. (CHOOSE k \in at : \A j \in at : k <= j) = i
      <4> HIDE DEF at
      <4> QED
        BY <3>2
    <3>4. arp_lookup(ip) = {<<ip, arp_cache[i].mac>>}
      BY <2>3, <3>3 DEF arp_lookup
    <3>5. PairAt(arp_cache, i) = <<ip, arp_cache[i].mac>>
      BY <3>1 DEF PairAt
    <3>6. \A e \in arpRef : e[1] = ip <=> e = <<ip, arp_cache[i].mac>>
      <4> SUFFICES ASSUME NEW e \in arpRef, e[1] = ip PROVE e = <<ip, arp_cache[i].mac>>
        OBVIOUS
      <4>1. PICK j \in ValidSlots(arp_cache) : e = PairAt(arp_cache, j)
        BY <2>1 DEF PairsOf
      <4>2. j = i
        BY <3>2, <4>1 DEF PairAt, ValidSlots
      <4> QED
        BY <3>5, <4>1, <4>2
    <3>7. <<ip, arp_cache[i].mac>> \in arpRef
      BY <2>1, <3>2, <3>5 DEF PairsOf
    <3> QED
      BY <3>4, <3>6, <3>7
  <2> QED
    BY <2>2, <2>3
<1> QED
  BY <1>1, <1>2, <1>3, PTL DEF MachineSpec
-----------------------------------------------------------------------------
(***************************************************************************)
(* Doubly linked lists of the nodes of S.                                  *)
(***************************************************************************)
ListOf(S, node, head, tail, none, o) ==
    /\ o \in Seq(S) /\ none \notin S
    /\ \A i, j \in 1 .. Len(o) : o[i] = o[j] => i = j
    /\ LinkedAs(node, head, tail, none, o)

\* The links after a node b was put at the end, and after the first node was taken.
PutLinks(S, node, new, tail, none, b) ==
    /\ new[b].next = none /\ new[b].prev = tail
    /\ \A c \in S \ {b} : new[c].prev = node[c].prev
    /\ \A c \in S \ {b} : new[c].next = IF c = tail THEN b ELSE node[c].next

TakeLinks(S, node, new, head, none) ==
    LET next == node[head].next IN
    /\ \A c \in S \ {head} : new[c].next = node[c].next
    /\ \A c \in S \ {head} : new[c].prev = IF c = next THEN none ELSE node[c].prev

LEMMA ListPut ==
  ASSUME NEW S, NEW node, NEW head, NEW tail, NEW none, NEW o, ListOf(S, node, head, tail, none, o),
         NEW b \in S, \A i \in 1 .. Len(o) : o[i] # b, NEW new, PutLinks(S, node, new, tail, none, b)
  PROVE  ListOf(S, new, IF tail # none THEN head ELSE b, b, none, Append(o, b))
<1>1. PICK n, p : n = Len(o) /\ p = Append(o, b)
  OBVIOUS
<1>2. o \in Seq(S) /\ n \in Nat /\ none \notin S /\ \A i \in 1 .. n : o[i] \in S /\ o[i] # b
  BY <1>1 DEF ListOf
<1>3. p \in Seq(S) /\ Len(p) = n + 1 /\ p[n + 1] = b /\ \A i \in 1 .. n : p[i] = o[i]
  BY <1>1, <1>2, AppendProperties
<1>4. \A i, j \in 1 .. n : o[i] = o[j] => i = j
  BY <1>1 DEF ListOf
<1>5. (o = <<>> <=> n = 0) /\ (n = 0 => tail = none /\ head = none) /\ (n > 0 => tail = o[n] /\ tail # none /\ head = o[1])
  <2>1. o = <<>> <=> n = 0
    BY <1>1, <1>2
  <2>2. n > 0 => o[n] \in S
    BY <1>2
  <2> QED
    BY <1>1, <1>2, <2>1, <2>2 DEF ListOf, LinkedAs
<1>6. ASSUME NEW i \in 1 .. n PROVE /\ node[o[i]].next = (IF i < n THEN o[i + 1] ELSE none)
                                    /\ node[o[i]].prev = (IF i > 1 THEN o[i - 1] ELSE none)
  BY <1>1 DEF ListOf, LinkedAs
<1>7. \A i, j \in 1 .. (n + 1) : p[i] = p[j] => i = j
  <2> SUFFICES ASSUME NEW i \in 1 .. (n + 1), NEW j \in 1 .. (n + 1), p[i] = p[j] PROVE i = j
    OBVIOUS
  <2>1. (i = n + 1 \/ i \in 1 .. n) /\ (j = n + 1 \/ j \in 1 .. n)
    BY <1>2
  <2> QED
    BY <1>2, <1>3, <1>4, <2>1
<1>8. ASSUME NEW i \in 1 .. (n + 1)
      PROVE  /\ new[p[i]].next = (IF i < n + 1 THEN p[i + 1] ELSE none)
             /\ new[p[i]].prev = (IF i > 1 THEN p[i - 1] ELSE none)
  <2>1. CASE i = n + 1
    <3>1. new[p[i]].next = none /\ new[p[i]].prev = tail
      BY <1>3, <2>1 DEF PutLinks
    <3>2. i > 1 => n > 0 /\ i - 1 = n /\ n \in 1 .. n
      BY <1>2, <2>1
    <3>3. i > 1 => p[i - 1] = tail
      BY <1>3, <1>5, <3>2
    <3>4. ~ (i > 1) => tail = none
      BY <1>2, <1>5, <2>1
    <3> QED
      BY <1>2, <2>1, <3>1, <3>3, <3>4
  <2>2. CASE i \in 1 .. n
    <3>1. p[i] = o[i] /\ o[i] \in S \ {b} /\ i < n + 1
      BY <1>2, <1>3, <2>2
    <3>2. new[o[i]].prev = node[o[i]].prev /\ new[o[i]].next = IF o[i] = tail THEN b ELSE node[o[i]].next
      BY <3>1 DEF PutLinks
    <3>3. o[i] = tail <=> i = n
      BY <1>2, <1>4, <1>5, <2>2
    <3>4. i > 1 => p[i - 1] = o[i - 1]
      BY <1>2, <1>3, <2>2
    <3>5. i < n => p[i + 1] = o[i + 1]
      BY <1>2, <1>3, <2>2
    <3>6. new[p[i]].prev = (IF i > 1 THEN p[i - 1] ELSE none)
      BY <1>6, <2>2, <3>1, <3>2, <3>4
    <3>7. CASE i = n
      BY <1>3, <3>1, <3>2, <3>3, <3>6, <3>7
    <3>8. CASE i < n
      BY <1>2, <1>6, <2>2, <3>1, <3>2, <3>3, <3>5, <3>6, <3>8
    <3> QED
      BY <1>2, <2>2, <3>7, <3>8
  <2> QED
    BY <1>2, <2>1, <2>2
<1>9. (IF tail # none THEN head ELSE b) = p[1]
  BY <1>2, <1>3, <1>5
<1>10. p # <<>> /\ b = p[Len(p)]
  BY <1>2, <1>3
<1>11. LinkedAs(new, IF tail # none THEN head ELSE b, b, none, p)
  BY <1>3, <1>8, <1>9, <1>10 DEF LinkedAs
<1> QED
  BY <1>1, <1>2, <1>3, <1>7, <1>11 DEF ListOf

LEMMA ListTake ==
  ASSUME NEW S, NEW node, NEW head, NEW tail, NEW none, NEW o, ListOf(S, node, head, tail, none, o),
         head # none, NEW new, TakeLinks(S, node, new, head, none), NEW next, next = node[head].next
  PROVE  /\ o # <<>> /\ head = o[1] /\ head \in S /\ \A i \in 1 .. Len(Tail(o)) : Tail(o)[i] # head
         /\ ListOf(S, new, next, IF next # none THEN tail ELSE none, none, Tail(o))
<1>1. PICK n, p : n = Len(o) - 1 /\ p = Tail(o)
  OBVIOUS
<1>2. o # <<>> /\ head = o[1] /\ o \in Seq(S) /\ none \notin S
  BY DEF ListOf, LinkedAs
<1>3. n \in Nat /\ Len(o) = n + 1 /\ \A i \in 1 .. (n + 1) : o[i] \in S
  BY <1>1, <1>2
<1>4. p \in Seq(S) /\ Len(p) = n /\ \A i \in 1 .. n : p[i] = o[i + 1]
  BY <1>1, <1>2, <1>3, HeadTailProperties
<1>5. \A i, j \in 1 .. (n + 1) : o[i] = o[j] => i = j
  BY <1>3 DEF ListOf
<1>6. tail = o[n + 1] /\ tail \in S
  BY <1>2, <1>3 DEF ListOf, LinkedAs
<1>7. ASSUME NEW i \in 1 .. (n + 1) PROVE /\ node[o[i]].next = (IF i < n + 1 THEN o[i + 1] ELSE none)
                                          /\ node[o[i]].prev = (IF i > 1 THEN o[i - 1] ELSE none)
  BY <1>3 DEF ListOf, LinkedAs
<1>8. next = IF n > 0 THEN o[2] ELSE none
  <2>1. 1 \in 1 .. (n + 1) /\ (1 < n + 1 <=> n > 0)
    BY <1>3
  <2>2. node[o[1]].next = IF 1 < n + 1 THEN o[1 + 1] ELSE none
    BY <1>7, <2>1
  <2> QED
    BY <1>2, <2>1, <2>2
<1>9. ASSUME NEW i \in 1 .. n PROVE i + 1 \in 1 .. (n + 1) /\ p[i] = o[i + 1] /\ p[i] \in S \ {head} /\ (p[i] = next <=> i = 1)
  <2>1. i + 1 \in 1 .. (n + 1) /\ i + 1 # 1 /\ 1 \in 1 .. (n + 1) /\ 2 \in 1 .. (n + 1) /\ n > 0
    BY <1>3
  <2>2. p[i] = o[i + 1] /\ o[i + 1] \in S /\ o[i + 1] # o[1] /\ (o[i + 1] = o[2] <=> i + 1 = 2)
    BY <1>3, <1>4, <1>5, <2>1
  <2> QED
    BY <1>2, <1>8, <2>1, <2>2
<1>10. ASSUME NEW i \in 1 .. n
       PROVE  /\ new[p[i]].next = (IF i < n THEN p[i + 1] ELSE none)
              /\ new[p[i]].prev = (IF i > 1 THEN p[i - 1] ELSE none)
  <2>1. PICK k, c : k = i + 1 /\ c = p[i] /\ k \in 1 .. (n + 1) /\ c = o[k] /\ c \in S \ {head} /\ (c = next <=> i = 1)
    BY <1>9
  <2>2. new[c].next = node[c].next /\ new[c].prev = IF c = next THEN none ELSE node[c].prev
    BY <2>1 DEF TakeLinks
  <2>3. node[c].next = (IF k < n + 1 THEN o[k + 1] ELSE none) /\ node[c].prev = (IF k > 1 THEN o[k - 1] ELSE none)
    BY <1>7, <2>1
  <2>4. i < n => p[i + 1] = o[k + 1]
    BY <1>3, <1>4, <2>1
  <2>5. i > 1 => p[i - 1] = o[k - 1]
    <3>1. i > 1 => i - 1 \in 1 .. n /\ (i - 1) + 1 = k - 1
      BY <1>3, <2>1
    <3> QED
      BY <1>4, <3>1
  <2>6. (i < n <=> k < n + 1) /\ k > 1
    BY <1>3, <2>1
  <2>7. new[c].next = (IF i < n THEN p[i + 1] ELSE none)
    BY <2>2, <2>3, <2>4, <2>6
  <2>8. new[c].prev = (IF i > 1 THEN p[i - 1] ELSE none)
    <3>1. CASE i = 1
      BY <2>1, <2>2, <3>1
    <3>2. CASE i > 1
      BY <2>1, <2>2, <2>3, <2>5, <2>6, <3>2
    <3> QED
      BY <3>1, <3>2
  <2> QED
    BY <2>1, <2>7, <2>8
<1>11. (p = <<>> <=> n = 0) /\ (n > 0 => p[1] = o[2] /\ o[2] \in S /\ p[n] = o[n + 1])
  BY <1>3, <1>4
<1>12. LinkedAs(new, next, IF next # none THEN tail ELSE none, none, p)
  <2>1. next = (IF p = <<>> THEN none ELSE p[1])
    BY <1>3, <1>8, <1>11
  <2>2. (IF next # none THEN tail ELSE none) = (IF p = <<>> THEN none ELSE p[n])
    BY <1>2, <1>3, <1>6, <1>8, <1>11
  <2> QED
    BY <1>4, <1>10, <2>1, <2>2 DEF LinkedAs
<1>13. \A i, j \in 1 .. n : p[i] = p[j] => i = j
  BY <1>3, <1>5, <1>9
<1> QED
  BY <1>1, <1>2, <1>3, <1>4, <1>9, <1>12, <1>13 DEF ListOf

LEMMA ListSame ==
  ASSUME NEW S, NEW node, NEW head, NEW tail, NEW none, NEW o, ListOf(S, node, head, tail, none, o), NEW new,
         \A i \in 1 .. Len(o) : new[o[i]].next = node[o[i]].next /\ new[o[i]].prev = node[o[i]].prev
  PROVE  ListOf(S, new, head, tail, none, o)
BY DEF ListOf, LinkedAs
-----------------------------------------------------------------------------
(***************************************************************************)
(* The queues of socket buffers.                                           *)
(***************************************************************************)
SkbFields == {"st", "frame", "next", "prev"}

\* A queue q, given its head, tail and length, and the history of its buffers.
QueueInv(q, sk, qu, o) ==
    /\ ListOf(Skbs, sk, qu.head, qu.tail, NoSkb, o)
    /\ qu.len = Len(o) /\ qu.len <= QUEUE_SIZE
    /\ \A i \in 1 .. Len(o) : sk[o[i]].st = q

NetInv ==
    /\ DOMAIN skb = Skbs /\ \A b \in Skbs : DOMAIN skb[b] = SkbFields
    /\ DOMAIN queue = Dirs /\ DOMAIN order = Dirs /\ ~badfree
    /\ \A q \in Dirs : QueueInv(q, skb, queue[q], order[q])

LEMMA NetInitInv == network_init => NetInv
<1> SUFFICES ASSUME network_init PROVE NetInv
  OBVIOUS
<1>1. DOMAIN skb = Skbs /\ DOMAIN queue = Dirs /\ DOMAIN order = Dirs /\ ~badfree
  BY DEF network_init, net_queue_init
<1>2. ASSUME NEW b \in Skbs PROVE DOMAIN skb[b] = SkbFields
  BY DEF network_init, SkbFields, FreeSkb
<1>3. ASSUME NEW q \in Dirs PROVE QueueInv(q, skb, queue[q], order[q])
  <2>1. order[q] = <<>> /\ queue[q].head = NoSkb /\ queue[q].tail = NoSkb /\ queue[q].len = 0
    BY DEF network_init, net_queue_init
  <2>2. ListOf(Skbs, skb, NoSkb, NoSkb, NoSkb, <<>>)
    BY NetAssumption DEF ListOf, LinkedAs
  <2> QED
    BY <2>1, <2>2, NetAssumption DEF QueueInv
<1> QED
  BY <1>1, <1>2, <1>3 DEF NetInv

\* A buffer in a queue is known by its state: a step that changes others leaves the queue alone.
LEMMA OtherQueue ==
  ASSUME NEW q \in Dirs, NEW sk, NEW qu, NEW o, QueueInv(q, sk, qu, o), NEW new,
         \A c \in Skbs : sk[c].st = q => new[c].next = sk[c].next /\ new[c].prev = sk[c].prev /\ new[c].st = q
  PROVE  QueueInv(q, new, qu, o)
<1>1. \A i \in 1 .. Len(o) : o[i] \in Skbs /\ sk[o[i]].st = q
  BY DEF QueueInv, ListOf
<1>2. \A i \in 1 .. Len(o) : new[o[i]].next = sk[o[i]].next /\ new[o[i]].prev = sk[o[i]].prev /\ new[o[i]].st = q
  BY <1>1
<1>3. ListOf(Skbs, new, qu.head, qu.tail, NoSkb, o)
  BY <1>2, ListSame DEF QueueInv
<1> QED
  BY <1>2, <1>3 DEF QueueInv

LEMMA SkbAllocInv ==
  ASSUME NetInv, NEW frame, skb_alloc(frame)
  PROVE  NetInv'
<1>1. PICK b : b = CHOOSE x \in Fresh : TRUE
  OBVIOUS
<1>2. b \in Skbs /\ skb[b].st = "free"
  <2>1. b \in Fresh
    BY <1>1 DEF skb_alloc
  <2> QED
    BY <2>1 DEF Fresh
<1>3. skb' = [skb EXCEPT ![b] = [FreeSkb EXCEPT !.st = "caller", !.frame = frame]] /\ UNCHANGED <<queue, order, badfree>>
  BY <1>1 DEF skb_alloc
<1>4. DOMAIN skb' = Skbs /\ (\A c \in Skbs : DOMAIN skb'[c] = SkbFields) /\ \A c \in Skbs \ {b} : skb'[c] = skb[c]
  BY <1>2, <1>3 DEF NetInv, FreeSkb, SkbFields
<1>5. ASSUME NEW q \in Dirs PROVE QueueInv(q, skb', queue[q], order[q])
  <2>1. QueueInv(q, skb, queue[q], order[q])
    BY DEF NetInv
  <2>2. \A c \in Skbs : skb[c].st = q => c # b
    BY <1>2 DEF Dirs
  <2> QED
    BY <1>4, <2>1, <2>2, OtherQueue
<1> QED
  BY <1>3, <1>4, <1>5 DEF NetInv

\* A buffer that its caller frees.
LEMMA CallerFreeInv ==
  ASSUME NetInv, NEW b \in Skbs, skb[b].st = "caller", skb_free(skb, b), UNCHANGED <<queue, order>>
  PROVE  NetInv'
<1>1. DOMAIN skb' = Skbs /\ (\A c \in Skbs : DOMAIN skb'[c] = SkbFields) /\ \A c \in Skbs \ {b} : skb'[c] = skb[c]
  BY DEF NetInv, FreeSkb, SkbFields, skb_free
<1>2. ~badfree'
  BY DEF NetInv, skb_free
<1>3. ASSUME NEW q \in Dirs PROVE QueueInv(q, skb', queue[q], order[q])
  <2>1. QueueInv(q, skb, queue[q], order[q])
    BY DEF NetInv
  <2>2. \A c \in Skbs : skb[c].st = q => c # b
    BY DEF Dirs
  <2> QED
    BY <1>1, <2>1, <2>2, OtherQueue
<1> QED
  BY <1>1, <1>2, <1>3 DEF NetInv

LEMMA EnqueueInv ==
  ASSUME NetInv, NEW q \in Dirs, NEW b \in Skbs, net_enqueue(q, b)
  PROVE  NetInv'
<1>1. CASE queue[q].len >= QUEUE_SIZE
  BY <1>1, CallerFreeInv DEF net_enqueue
<1>2. CASE ~ (queue[q].len >= QUEUE_SIZE)
  <2> DEFINE linked == [skb EXCEPT ![b].st = q, ![b].next = NoSkb, ![b].prev = queue[q].tail]
  <2>1. PICK tail : tail = queue[q].tail
    OBVIOUS
  <2>2. QueueInv(q, skb, queue[q], order[q]) /\ DOMAIN skb = Skbs /\ \A c \in Skbs : DOMAIN skb[c] = SkbFields
    BY DEF NetInv
  <2>3. skb[b].st = "caller" /\ \A i \in 1 .. Len(order[q]) : order[q][i] # b
    BY <2>2 DEF net_enqueue, QueueInv, Dirs
  <2>4. tail # NoSkb => tail \in Skbs /\ skb[tail].st = q /\ tail # b
    <3>1. /\ tail = IF order[q] = <<>> THEN NoSkb ELSE order[q][Len(order[q])]
          /\ order[q] \in Seq(Skbs)
      BY <2>1, <2>2 DEF QueueInv, ListOf, LinkedAs
    <3>2. order[q] # <<>> => Len(order[q]) \in 1 .. Len(order[q]) /\ order[q][Len(order[q])] \in Skbs
      BY <3>1
    <3> QED
      BY <2>2, <2>3, <3>1, <3>2 DEF QueueInv
  <2>5. /\ DOMAIN linked = Skbs /\ \A c \in Skbs : DOMAIN linked[c] = SkbFields
        /\ linked[b].st = q /\ linked[b].next = NoSkb /\ linked[b].prev = tail
        /\ \A c \in Skbs \ {b} : linked[c] = skb[c]
    BY <2>1, <2>2 DEF SkbFields
  <2>6. skb' = IF tail # NoSkb THEN [linked EXCEPT ![tail].next = b] ELSE linked
    BY <1>2, <2>1 DEF net_enqueue
  <2> HIDE DEF linked
  <2>7. /\ DOMAIN skb' = Skbs /\ \A c \in Skbs : DOMAIN skb'[c] = SkbFields
        /\ skb'[b].st = q /\ skb'[b].next = NoSkb /\ skb'[b].prev = tail
        /\ \A c \in Skbs \ {b} : skb'[c].st = skb[c].st /\ skb'[c].prev = skb[c].prev
        /\ \A c \in Skbs \ {b} : skb'[c].next = IF c = tail THEN b ELSE skb[c].next
    <3>1. CASE tail = NoSkb
      BY <2>5, <2>6, <3>1, NetAssumption
    <3>2. CASE tail # NoSkb
      BY <2>4, <2>5, <2>6, <3>2 DEF SkbFields
    <3> QED
      BY <3>1, <3>2
  <2>8. PutLinks(Skbs, skb, skb', tail, NoSkb, b)
    BY <2>7 DEF PutLinks
  <2>9. /\ queue' = [queue EXCEPT ![q] = [head |-> IF tail # NoSkb THEN queue[q].head ELSE b,
                                          tail |-> b, len |-> queue[q].len + 1]]
        /\ order' = [order EXCEPT ![q] = Append(order[q], b)] /\ UNCHANGED badfree
    BY <1>2, <2>1 DEF net_enqueue
  <2>10. QueueInv(q, skb', queue'[q], order'[q])
    <3>1. PICK o, h : o = order[q] /\ h = queue[q].head
      OBVIOUS
    <3>2. ListOf(Skbs, skb, h, tail, NoSkb, o) /\ \A i \in 1 .. Len(o) : o[i] # b
      BY <2>1, <2>2, <2>3, <3>1 DEF QueueInv
    <3>3. ListOf(Skbs, skb', IF tail # NoSkb THEN h ELSE b, b, NoSkb, Append(o, b))
      BY <2>8, <3>2, ListPut
    <3>4. /\ queue'[q].head = (IF tail # NoSkb THEN h ELSE b) /\ queue'[q].tail = b
          /\ queue'[q].len = queue[q].len + 1 /\ order'[q] = Append(o, b)
      BY <2>9, <3>1 DEF NetInv
    <3>5. o \in Seq(Skbs)
      BY <3>2 DEF ListOf
    <3>6. /\ Append(o, b) \in Seq(Skbs) /\ Len(Append(o, b)) = Len(o) + 1 /\ Append(o, b)[Len(o) + 1] = b
          /\ \A i \in 1 .. Len(o) : Append(o, b)[i] = o[i]
      BY <3>5, AppendProperties
    <3>7. \A i \in 1 .. Len(Append(o, b)) : skb'[Append(o, b)[i]].st = q
      <4> SUFFICES ASSUME NEW i \in 1 .. Len(Append(o, b)) PROVE skb'[Append(o, b)[i]].st = q
        OBVIOUS
      <4>1. CASE i = Len(o) + 1
        BY <2>7, <3>6, <4>1
      <4>2. CASE i \in 1 .. Len(o)
        <5>1. o[i] \in Skbs \ {b} /\ skb[o[i]].st = q
          BY <2>2, <3>1, <3>2, <3>5, <4>2 DEF QueueInv
        <5> QED
          BY <2>7, <3>6, <4>2, <5>1
      <4> QED
        BY <3>5, <3>6, <4>1, <4>2
    <3>8. queue[q].len = Len(o) /\ Len(o) \in Nat /\ queue[q].len + 1 <= QUEUE_SIZE
      BY <1>2, <2>2, <3>1, <3>5, NetAssumption DEF QueueInv
    <3> QED
      BY <3>3, <3>4, <3>6, <3>7, <3>8 DEF QueueInv
  <2>11. ASSUME NEW d \in Dirs, d # q PROVE QueueInv(d, skb', queue'[d], order'[d])
    <3>1. QueueInv(d, skb, queue[d], order[d]) /\ queue'[d] = queue[d] /\ order'[d] = order[d]
      BY <2>9, <2>11 DEF NetInv
    <3>2. \A c \in Skbs : skb[c].st = d => c # b /\ c # tail
      BY <2>3, <2>4, <2>11, NetAssumption DEF Dirs
    <3>3. \A c \in Skbs : skb[c].st = d => skb'[c].next = skb[c].next /\ skb'[c].prev = skb[c].prev /\ skb'[c].st = d
      BY <2>7, <3>2
    <3> QED
      BY <3>1, <3>3, OtherQueue
  <2> QED
    BY <2>7, <2>9, <2>10, <2>11 DEF NetInv
<1> QED
  BY <1>1, <1>2

\* A turn of a poll loop: the first buffer leaves its queue and is freed.
LEMMA DequeueInv ==
  ASSUME NetInv, NEW q \in Dirs, net_dequeue(q), skb_free(Dequeued(q), queue[q].head)
  PROVE  NetInv'
<1>1. PICK b, next, tail, o : b = queue[q].head /\ next = skb[b].next /\ tail = queue[q].tail /\ o = order[q]
  OBVIOUS
<1>2. /\ b # NoSkb
      /\ queue' = [queue EXCEPT ![q] = [head |-> next, tail |-> IF next # NoSkb THEN tail ELSE NoSkb,
                                        len  |-> queue[q].len - 1]]
      /\ order' = [order EXCEPT ![q] = IF o # <<>> THEN Tail(o) ELSE o]
  BY <1>1 DEF net_dequeue
<1>3. QueueInv(q, skb, queue[q], o) /\ ListOf(Skbs, skb, b, tail, NoSkb, o)
  BY <1>1 DEF NetInv, QueueInv
<1>4. o # <<>> /\ b = o[1] /\ o \in Seq(Skbs) /\ b \in Skbs /\ 1 \in 1 .. Len(o)
  BY <1>2, <1>3 DEF ListOf, LinkedAs
<1>5. skb[b].st = q /\ (next # NoSkb => next \in Skbs /\ next # b /\ skb[next].st = q)
  <2>1. skb[b].st = q
    BY <1>3, <1>4 DEF QueueInv
  <2>2. next = IF 1 < Len(o) THEN o[1 + 1] ELSE NoSkb
    BY <1>1, <1>3, <1>4 DEF ListOf, LinkedAs
  <2>3. 1 < Len(o) => 2 \in 1 .. Len(o) /\ o[2] # o[1] /\ o[2] \in Skbs /\ skb[o[2]].st = q
    BY <1>3, <1>4 DEF ListOf, QueueInv
  <2> QED
    BY <1>4, <2>1, <2>2, <2>3
<1>6. PICK sk : sk = Dequeued(q)
  OBVIOUS
<1>7. /\ DOMAIN sk = Skbs /\ (\A c \in Skbs : DOMAIN sk[c] = SkbFields) /\ sk[b].st = q
      /\ \A c \in Skbs : sk[c].st = skb[c].st /\ sk[c].next = skb[c].next
      /\ \A c \in Skbs : sk[c].prev = IF c = next THEN NoSkb ELSE skb[c].prev
  <2>1. sk = IF next # NoSkb THEN [skb EXCEPT ![next].prev = NoSkb] ELSE skb
    BY <1>1, <1>6 DEF Dequeued
  <2>2. DOMAIN skb = Skbs /\ \A c \in Skbs : DOMAIN skb[c] = SkbFields
    BY DEF NetInv
  <2>3. CASE next = NoSkb
    BY <1>4, <1>5, <2>1, <2>2, <2>3, NetAssumption
  <2>4. CASE next # NoSkb
    BY <1>4, <1>5, <2>1, <2>2, <2>4 DEF SkbFields
  <2> QED
    BY <2>3, <2>4
<1>8. skb' = [sk EXCEPT ![b] = FreeSkb] /\ ~badfree'
  BY <1>1, <1>6, <1>7 DEF skb_free, NetInv, Dirs
<1>9. /\ DOMAIN skb' = Skbs /\ (\A c \in Skbs : DOMAIN skb'[c] = SkbFields)
      /\ \A c \in Skbs \ {b} : skb'[c] = sk[c]
  BY <1>4, <1>7, <1>8 DEF FreeSkb, SkbFields
<1>10. QueueInv(q, skb', queue'[q], order'[q])
  <2>1. TakeLinks(Skbs, skb, skb', b, NoSkb)
    BY <1>1, <1>7, <1>9 DEF TakeLinks
  <2>2. /\ \A i \in 1 .. Len(Tail(o)) : Tail(o)[i] # b
        /\ ListOf(Skbs, skb', next, IF next # NoSkb THEN tail ELSE NoSkb, NoSkb, Tail(o))
    BY <1>1, <1>2, <1>3, <2>1, ListTake
  <2>3. /\ queue'[q].head = next /\ queue'[q].tail = (IF next # NoSkb THEN tail ELSE NoSkb)
        /\ queue'[q].len = queue[q].len - 1 /\ order'[q] = Tail(o)
    BY <1>2, <1>4 DEF NetInv
  <2>4. Tail(o) \in Seq(Skbs) /\ Len(Tail(o)) = Len(o) - 1 /\ \A i \in 1 .. Len(Tail(o)) : Tail(o)[i] = o[i + 1]
    BY <1>4, HeadTailProperties
  <2>5. \A i \in 1 .. Len(Tail(o)) : skb'[Tail(o)[i]].st = q
    <3> SUFFICES ASSUME NEW i \in 1 .. Len(Tail(o)) PROVE skb'[Tail(o)[i]].st = q
      OBVIOUS
    <3>1. i + 1 \in 1 .. Len(o) /\ Tail(o)[i] = o[i + 1]
      BY <1>4, <2>4
    <3>2. o[i + 1] \in Skbs \ {b} /\ skb[o[i + 1]].st = q
      BY <1>3, <1>4, <2>2, <3>1 DEF QueueInv
    <3> QED
      BY <1>7, <1>9, <3>1, <3>2
  <2>6. queue[q].len = Len(o) /\ Len(o) \in Nat /\ queue[q].len - 1 <= QUEUE_SIZE
    BY <1>3, <1>4, NetAssumption DEF QueueInv
  <2> QED
    BY <2>2, <2>3, <2>4, <2>5, <2>6 DEF QueueInv
<1>11. ASSUME NEW d \in Dirs, d # q PROVE QueueInv(d, skb', queue'[d], order'[d])
  <2>1. QueueInv(d, skb, queue[d], order[d]) /\ queue'[d] = queue[d] /\ order'[d] = order[d]
    BY <1>2, <1>11 DEF NetInv
  <2>2. \A c \in Skbs : skb[c].st = d => c # b /\ c # next
    BY <1>5, <1>11, NetAssumption
  <2>3. \A c \in Skbs : skb[c].st = d => skb'[c].next = skb[c].next /\ skb'[c].prev = skb[c].prev /\ skb'[c].st = d
    BY <1>7, <1>9, <2>2
  <2> QED
    BY <2>1, <2>3, OtherQueue
<1> QED
  BY <1>2, <1>8, <1>9, <1>10, <1>11 DEF NetInv

LEMMA NetNextInv ==
  ASSUME NetInv, [NetNext]_NetVars
  PROVE  NetInv'
<1>1. CASE UNCHANGED <<skb, queue, order, badfree>>
  BY <1>1 DEF NetInv, QueueInv
<1>2. CASE UNCHANGED NetVars \/ netdev_register \/ netdev_unregister
  BY <1>1, <1>2 DEF NetVars, netdev_register, netdev_unregister
<1>3. CASE net_rx_poll
  BY <1>3, DequeueInv DEF net_rx_poll, Dirs
<1>4. CASE net_tx_poll
  BY <1>4, DequeueInv DEF net_tx_poll, loopback_tx, Dirs
<1>5. ASSUME NEW b \in Skbs, eth_tx(b) PROVE NetInv'
  BY <1>5, CallerFreeInv DEF eth_tx, loopback_tx
<1> QED
  BY <1>2, <1>3, <1>4, <1>5, SkbAllocInv, EnqueueInv DEF NetNext

\* For every number of buffers, every limit and every order of arrivals and polls: the
\* queues are whole lists in the order of arrival, and no buffer is freed twice.
THEOREM BuffersStayOwned == MachineSpec => []BuffersOwned
<1>1. MachineInit => NetInv
  BY NetInitInv DEF MachineInit
<1>2. NetInv /\ [MachineNext]_MachineVars => NetInv'
  BY MachineParts, NetNextInv
<1>3. NetInv => BuffersOwned
  BY DEF NetInv, QueueInv, ListOf, BuffersOwned
<1> QED
  BY <1>1, <1>2, <1>3, PTL DEF MachineSpec
-----------------------------------------------------------------------------
(***************************************************************************)
(* The queue of block requests.                                            *)
(***************************************************************************)
BioFields == {"next", "prev", "sector", "op", "st"}

RequestInv ==
    /\ DOMAIN bio = Bios /\ \A r \in Bios : DOMAIN bio[r] = BioFields
    /\ ListOf(Bios, bio, rqueue.head, rqueue.tail, NoBio, added)
    /\ rqueue.pending = Len(added)
    /\ \A i \in 1 .. Len(added) : bio[added[i]].st = "queued"

LEMMA AddRequestInv ==
  ASSUME RequestInv, NEW r \in Bios, NEW s, NEW op, add_request(r, s, op)
  PROVE  RequestInv'
<1>1. PICK tail, head, o : tail = rqueue.tail /\ head = rqueue.head /\ o = added
  OBVIOUS
<1> DEFINE new == [IdleBio EXCEPT !.prev = rqueue.tail, !.sector = s, !.op = op, !.st = "queued"]
           b1 == [bio EXCEPT ![r] = new]
<1>2. ListOf(Bios, bio, head, tail, NoBio, o) /\ DOMAIN bio = Bios /\ \A c \in Bios : DOMAIN bio[c] = BioFields
  BY <1>1 DEF RequestInv
<1>3. bio[r].st # "queued" /\ \A i \in 1 .. Len(o) : o[i] # r
  BY <1>1 DEF add_request, RequestInv
<1>4. o \in Seq(Bios) /\ (tail # NoBio => tail \in Bios /\ tail # r)
  <2>1. tail = (IF o = <<>> THEN NoBio ELSE o[Len(o)]) /\ o \in Seq(Bios)
    BY <1>2 DEF ListOf, LinkedAs
  <2>2. o # <<>> => Len(o) \in 1 .. Len(o) /\ o[Len(o)] \in Bios
    BY <2>1
  <2> QED
    BY <1>3, <2>1, <2>2
<1>5. /\ DOMAIN b1 = Bios /\ \A c \in Bios : DOMAIN b1[c] = BioFields
      /\ b1[r].next = NoBio /\ b1[r].prev = tail /\ b1[r].st = "queued"
      /\ \A c \in Bios \ {r} : b1[c] = bio[c]
  BY <1>1, <1>2 DEF IdleBio, BioFields
<1>6. bio' = IF tail # NoBio THEN [b1 EXCEPT ![tail].next = r] ELSE b1
  BY <1>1 DEF add_request
<1> HIDE DEF new, b1
<1>7. /\ DOMAIN bio' = Bios /\ \A c \in Bios : DOMAIN bio'[c] = BioFields
      /\ bio'[r].next = NoBio /\ bio'[r].prev = tail /\ bio'[r].st = "queued"
      /\ \A c \in Bios \ {r} : bio'[c].st = bio[c].st /\ bio'[c].prev = bio[c].prev
      /\ \A c \in Bios \ {r} : bio'[c].next = IF c = tail THEN r ELSE bio[c].next
  <2>1. CASE tail = NoBio
    BY <1>5, <1>6, <2>1, BlockAssumption
  <2>2. CASE tail # NoBio
    BY <1>4, <1>5, <1>6, <2>2 DEF BioFields
  <2> QED
    BY <2>1, <2>2
<1>8. PutLinks(Bios, bio, bio', tail, NoBio, r)
  BY <1>7 DEF PutLinks
<1>9. ListOf(Bios, bio', IF tail # NoBio THEN head ELSE r, r, NoBio, Append(o, r))
  BY <1>2, <1>3, <1>8, ListPut
<1>10. /\ rqueue'.head = (IF tail # NoBio THEN head ELSE r) /\ rqueue'.tail = r
       /\ rqueue'.pending = Len(o) + 1 /\ added' = Append(o, r)
  BY <1>1 DEF add_request, RequestInv
<1>11. /\ Append(o, r) \in Seq(Bios) /\ Len(Append(o, r)) = Len(o) + 1 /\ Append(o, r)[Len(o) + 1] = r
       /\ \A i \in 1 .. Len(o) : Append(o, r)[i] = o[i]
  BY <1>4, AppendProperties
<1>12. \A i \in 1 .. Len(Append(o, r)) : bio'[Append(o, r)[i]].st = "queued"
  <2> SUFFICES ASSUME NEW i \in 1 .. Len(Append(o, r)) PROVE bio'[Append(o, r)[i]].st = "queued"
    OBVIOUS
  <2>1. CASE i = Len(o) + 1
    BY <1>7, <1>11, <2>1
  <2>2. CASE i \in 1 .. Len(o)
    <3>1. o[i] \in Bios \ {r} /\ bio[o[i]].st = "queued"
      BY <1>1, <1>3, <1>4, <2>2 DEF RequestInv
    <3> QED
      BY <1>7, <1>11, <2>2, <3>1
  <2> QED
    BY <1>4, <1>11, <2>1, <2>2
<1> QED
  BY <1>7, <1>9, <1>10, <1>11, <1>12 DEF RequestInv

LEMMA ProcessInv ==
  ASSUME RequestInv, NEW ok \in BOOLEAN, NEW v, process_requests(ok, v)
  PROVE  RequestInv'
<1>1. PICK r, next, tail, o : r = rqueue.head /\ next = bio[r].next /\ tail = rqueue.tail /\ o = added
  OBVIOUS
<1> DEFINE b1 == IF next # NoBio THEN [bio EXCEPT ![next].prev = NoBio] ELSE bio
           b2 == [b1 EXCEPT ![r].next = NoBio, ![r].prev = NoBio]
<1>2. /\ r # NoBio /\ added' = IF o # <<>> THEN Tail(o) ELSE o
      /\ rqueue' = [head |-> next, tail |-> IF next # NoBio THEN tail ELSE NoBio, pending |-> rqueue.pending - 1]
      /\ bio' = [b2 EXCEPT ![r].st = IF ok THEN "done" ELSE "error"]
  BY <1>1 DEF process_requests, get_request
<1>3. ListOf(Bios, bio, r, tail, NoBio, o) /\ DOMAIN bio = Bios /\ \A c \in Bios : DOMAIN bio[c] = BioFields
  BY <1>1 DEF RequestInv
<1>4. o # <<>> /\ r = o[1] /\ o \in Seq(Bios) /\ r \in Bios /\ 1 \in 1 .. Len(o)
  BY <1>2, <1>3 DEF ListOf, LinkedAs
<1>5. next # NoBio => next \in Bios /\ next # r
  <2>1. next = IF 1 < Len(o) THEN o[1 + 1] ELSE NoBio
    BY <1>1, <1>3, <1>4 DEF ListOf, LinkedAs
  <2>2. 1 < Len(o) => 2 \in 1 .. Len(o) /\ o[2] # o[1] /\ o[2] \in Bios
    BY <1>3, <1>4 DEF ListOf
  <2> QED
    BY <1>4, <2>1, <2>2
<1>6. /\ DOMAIN b1 = Bios /\ \A c \in Bios : DOMAIN b1[c] = BioFields
      /\ \A c \in Bios : b1[c].st = bio[c].st /\ b1[c].next = bio[c].next
      /\ \A c \in Bios : b1[c].prev = IF c = next THEN NoBio ELSE bio[c].prev
  <2>1. CASE next = NoBio
    BY <1>3, <2>1, BlockAssumption
  <2>2. CASE next # NoBio
    BY <1>3, <1>5, <2>2 DEF BioFields
  <2> QED
    BY <2>1, <2>2
<1> HIDE DEF b1
<1>7. DOMAIN b2 = Bios /\ (\A c \in Bios : DOMAIN b2[c] = BioFields) /\ \A c \in Bios \ {r} : b2[c] = b1[c]
  BY <1>4, <1>6 DEF BioFields
<1> HIDE DEF b2
<1>8. DOMAIN bio' = Bios /\ (\A c \in Bios : DOMAIN bio'[c] = BioFields) /\ \A c \in Bios \ {r} : bio'[c] = b1[c]
  BY <1>2, <1>4, <1>7 DEF BioFields
<1>9. TakeLinks(Bios, bio, bio', r, NoBio)
  BY <1>1, <1>6, <1>8 DEF TakeLinks
<1>10. /\ \A i \in 1 .. Len(Tail(o)) : Tail(o)[i] # r
       /\ ListOf(Bios, bio', next, IF next # NoBio THEN tail ELSE NoBio, NoBio, Tail(o))
  BY <1>1, <1>2, <1>3, <1>9, ListTake
<1>11. Tail(o) \in Seq(Bios) /\ Len(Tail(o)) = Len(o) - 1 /\ \A i \in 1 .. Len(Tail(o)) : Tail(o)[i] = o[i + 1]
  BY <1>4, HeadTailProperties
<1>12. \A i \in 1 .. Len(Tail(o)) : bio'[Tail(o)[i]].st = "queued"
  <2> SUFFICES ASSUME NEW i \in 1 .. Len(Tail(o)) PROVE bio'[Tail(o)[i]].st = "queued"
    OBVIOUS
  <2>1. i + 1 \in 1 .. Len(o) /\ Tail(o)[i] = o[i + 1]
    BY <1>4, <1>11
  <2>2. o[i + 1] \in Bios \ {r} /\ bio[o[i + 1]].st = "queued"
    BY <1>1, <1>4, <1>10, <2>1 DEF RequestInv
  <2> QED
    BY <1>6, <1>8, <2>1, <2>2
<1>13. rqueue'.pending = Len(Tail(o)) /\ added' = Tail(o)
  BY <1>1, <1>2, <1>4, <1>11 DEF RequestInv
<1> QED
  BY <1>2, <1>8, <1>10, <1>12, <1>13 DEF RequestInv

\* For every set of requests and every order in which they are added, also by callbacks,
\* and carried out: the queue is a whole list in the order of the additions.
THEOREM RequestsStayInOrder == MachineSpec => []RequestsInOrder
<1>1. MachineInit => RequestInv
  <2> SUFFICES ASSUME init_request_queue PROVE RequestInv
    BY DEF MachineInit, ata_init
  <2>1. ListOf(Bios, bio, NoBio, NoBio, NoBio, <<>>)
    BY BlockAssumption DEF ListOf, LinkedAs
  <2>2. DOMAIN bio = Bios /\ \A r \in Bios : DOMAIN bio[r] = BioFields
    BY DEF init_request_queue, BioFields, IdleBio
  <2> QED
    BY <2>1, <2>2 DEF init_request_queue, RequestInv
<1>2. RequestInv /\ [MachineNext]_MachineVars => RequestInv'
  <2> SUFFICES ASSUME RequestInv, [CacheNext \/ QueueNext]_BlockVars PROVE RequestInv'
    BY MachineParts
  <2>1. CASE UNCHANGED QueueVars
    BY <2>1 DEF QueueVars, RequestInv
  <2>2. CASE UNCHANGED BlockVars
    BY <2>1, <2>2 DEF BlockVars
  <2>3. CASE CacheNext
    BY <2>1, <2>3 DEF CacheNext, bread, getblk, GetBuffer, FillBuffer, brelse, bwrite, sync_dev
  <2> QED
    BY <2>2, <2>3, AddRequestInv, ProcessInv DEF QueueNext
<1>3. RequestInv => RequestsInOrder
  BY DEF RequestInv, ListOf, RequestsInOrder
<1> QED
  BY <1>1, <1>2, <1>3, PTL DEF MachineSpec
-----------------------------------------------------------------------------
(***************************************************************************)
(* The buffer cache.                                                       *)
(***************************************************************************)
\* A walk along the chains ends at a buffer, or nowhere.
LEMMA LookupInRange ==
  ASSUME NEW s, NEW flags, NEW T, NoBuf \in T, \A b \in T : b # NoBuf => buf[b].next \in T,
         buffer_hashtable[hash_sector(s)] \in T
  PROVE  Lookup(s, flags) \in T
<1> DEFINE step(b) == IF b = NoBuf \/ (buf[b].sector = s /\ flags \subseteq buf[b].flags) THEN b ELSE buf[b].next
           N == BUFFER_CACHE_SIZE
           g == [p \in (1 .. N) \X T |-> step(p[2])]
           x == buffer_hashtable[hash_sector(s)]
           walk[i \in 0 .. BUFFER_CACHE_SIZE] ==
            IF i = 0 THEN buffer_hashtable[hash_sector(s)]
            ELSE LET b == walk[i - 1] IN
                 IF b = NoBuf \/ (buf[b].sector = s /\ flags \subseteq buf[b].flags) THEN b ELSE buf[b].next
<1>1. N \in Nat
  BY BlockAssumption
<1>2. g \in [(1 .. N) \X T -> T] /\ x \in T
  OBVIOUS
<1>3. Lookup(s, flags) = walk[N]
  BY DEF Lookup
<1>4. walk = CHOOSE f : f = [i \in 0 .. N |-> IF i = 0 THEN x ELSE step(f[i - 1])]
  BY DEF walk
<1> HIDE DEF walk, N, x
<1>5. PICK f : IsIterate(f, T, g, x, N)
  <2> HIDE DEF g
  <2> QED
    BY <1>1, <1>2, IterateExists
<1>6. \A i \in 1 .. N : f[i] = step(f[i - 1])
  <2> TAKE i \in 1 .. N
  <2>1. i - 1 \in 0 .. N
    BY <1>1
  <2>2. f[i - 1] \in T /\ f[i] = g[<<i, f[i - 1]>>]
    BY <1>5, <2>1 DEF IsIterate
  <2> QED
    BY <2>2
<1> HIDE DEF step
<1>7. f = [i \in 0 .. N |-> IF i = 0 THEN x ELSE step(f[i - 1])]
  <2> HIDE DEF g
  <2>1. f \in [0 .. N -> T] /\ f[0] = x
    BY <1>5 DEF IsIterate
  <2>2. \A i \in 0 .. N : f[i] = IF i = 0 THEN x ELSE step(f[i - 1])
    BY <1>1, <1>6, <2>1
  <2> QED
    BY <2>1, <2>2
<1>8. walk = [i \in 0 .. N |-> IF i = 0 THEN x ELSE step(walk[i - 1])]
  BY <1>4, <1>7, Zenon
<1> DEFINE G == {i \in Nat : walk[i] \in T}
<1>9. 0 \in G
  BY <1>1, <1>2, <1>8
<1>10. ASSUME NEW i \in 1 .. N, i - 1 \in G PROVE i \in G
  <2>1. walk[i] = step(walk[i - 1]) /\ walk[i - 1] \in T
    BY <1>1, <1>8, <1>10
  <2> QED
    BY <2>1 DEF step
<1> HIDE DEF G
<1>11. \A i \in 0 .. N : i \in G
  BY <1>1, <1>9, <1>10, UpTo
<1> QED
  BY <1>1, <1>3, <1>11 DEF G

BufFields == {"sector", "flags", "data", "ref_count", "next"}
BufOrNone == Bufs \cup {NoBuf}

\* The references to one buffer, of the sectors in hs: all are of its sector.
RefsOf(b, bf, hs) ==
    /\ \A s \in Sectors : hs[<<b, s>>] \in Nat
    /\ \A s \in Sectors : hs[<<b, s>>] > 0 => bf.sector = s /\ bf.ref_count = hs[<<b, s>>]
    /\ (\A s \in Sectors : hs[<<b, s>>] = 0) => bf.ref_count = 0

CacheInv ==
    /\ DOMAIN buf = Bufs /\ DOMAIN holds = Bufs \X Sectors
    /\ \A b \in Bufs : DOMAIN buf[b] = BufFields /\ buf[b].next \in BufOrNone
    /\ DOMAIN buffer_hashtable = 0 .. (HASH_SIZE - 1)
    /\ \A s \in Sectors : buffer_hashtable[hash_sector(s)] \in BufOrNone
    /\ \A b \in Bufs : RefsOf(b, buf[b], holds)

LEMMA HashInRange == \A s \in Sectors : hash_sector(s) \in 0 .. (HASH_SIZE - 1)
BY BlockAssumption DEF hash_sector

\* A step that changes neither sectors, counts and links nor the references.
LEMMA SameRefs ==
  ASSUME CacheInv, DOMAIN buf' = Bufs, UNCHANGED <<buffer_hashtable, holds>>,
         \A b \in Bufs : /\ DOMAIN buf'[b] = BufFields /\ buf'[b].next = buf[b].next
                         /\ buf'[b].sector = buf[b].sector /\ buf'[b].ref_count = buf[b].ref_count
  PROVE  CacheInv'
BY DEF CacheInv, RefsOf, hash_sector

\* A step that changes the references to one buffer.
LEMMA OneBuffer ==
  ASSUME CacheInv, NEW b \in Bufs, NEW s \in Sectors, DOMAIN buf' = Bufs, DOMAIN holds' = Bufs \X Sectors,
         \A c \in Bufs \ {b} : buf'[c] = buf[c],
         \A p \in Bufs \X Sectors : p # <<b, s>> => holds'[p] = holds[p],
         DOMAIN buf'[b] = BufFields, buf'[b].next \in BufOrNone,
         DOMAIN buffer_hashtable' = 0 .. (HASH_SIZE - 1),
         \A u \in Sectors : buffer_hashtable'[hash_sector(u)] \in BufOrNone,
         RefsOf(b, buf'[b], holds')
  PROVE  CacheInv'
<1>1. ASSUME NEW c \in Bufs \ {b} PROVE RefsOf(c, buf'[c], holds')
  <2>1. RefsOf(c, buf[c], holds) /\ buf'[c] = buf[c]
    BY DEF CacheInv
  <2>2. \A u \in Sectors : holds'[<<c, u>>] = holds[<<c, u>>]
    <3> TAKE u \in Sectors
    <3>1. <<c, u>> \in Bufs \X Sectors /\ <<c, u>> # <<b, s>>
      OBVIOUS
    <3> QED
      BY <3>1
  <2> QED
    BY <2>1, <2>2 DEF RefsOf
<1> QED
  BY <1>1 DEF CacheInv, hash_sector

LEMMA GetBufferInv ==
  ASSUME CacheInv, NEW s \in Sectors, NEW wanted, NEW flags, NEW filled, GetBuffer(s, wanted, flags, filled)
  PROVE  CacheInv'
<1>1. CASE locked' = TRUE /\ UNCHANGED <<buf, buffer_hashtable, holds, disk>>
  BY <1>1 DEF CacheInv, hash_sector
<1>2. CASE /\ Found(s, wanted)
           /\ buf' = [buf EXCEPT ![Lookup(s, wanted)].ref_count = @ + 1] /\ Hold(Lookup(s, wanted), s)
           /\ UNCHANGED buffer_hashtable
  <2>1. PICK b : b = Lookup(s, wanted)
    OBVIOUS
  <2>2. b \in Bufs /\ buf[b].sector = s
    <3>1. Lookup(s, wanted) \in BufOrNone
      BY LookupInRange DEF CacheInv, BufOrNone
    <3> QED
      BY <1>2, <2>1, <3>1 DEF Found, BufOrNone
  <2>3. RefsOf(b, buf[b], holds) /\ DOMAIN buf[b] = BufFields /\ DOMAIN buf = Bufs /\ DOMAIN holds = Bufs \X Sectors
    BY <2>2 DEF CacheInv
  <2>4. PICK n : n = buf[b].ref_count /\ n = holds[<<b, s>>] /\ n \in Nat
    BY <2>2, <2>3 DEF RefsOf
  <2>5. /\ \A c \in Bufs \ {b} : buf'[c] = buf[c]
        /\ DOMAIN buf' = Bufs /\ DOMAIN buf'[b] = BufFields /\ buf'[b].next = buf[b].next
        /\ buf'[b].sector = s /\ buf'[b].ref_count = n + 1
    BY <1>2, <2>1, <2>2, <2>3, <2>4 DEF BufFields
  <2>6. <<b, s>> \in Bufs \X Sectors
    BY <2>2
  <2>7. /\ DOMAIN holds' = Bufs \X Sectors /\ holds'[<<b, s>>] = n + 1
        /\ \A p \in Bufs \X Sectors : p # <<b, s>> => holds'[p] = holds[p]
    BY <1>2, <2>1, <2>3, <2>4, <2>6 DEF Hold
  <2>8. RefsOf(b, buf'[b], holds')
    <3>1. \A u \in Sectors : u # s => holds'[<<b, u>>] = holds[<<b, u>>] /\ holds[<<b, u>>] = 0
      BY <2>2, <2>3, <2>7 DEF RefsOf
    <3> QED
      BY <2>4, <2>5, <2>7, <3>1 DEF RefsOf
  <2>9. /\ buf'[b].next \in BufOrNone /\ DOMAIN buffer_hashtable' = 0 .. (HASH_SIZE - 1)
        /\ \A u \in Sectors : buffer_hashtable'[hash_sector(u)] \in BufOrNone
    BY <1>2, <2>2, <2>5 DEF CacheInv, hash_sector
  <2> QED
    BY <2>2, <2>5, <2>7, <2>8, <2>9, OneBuffer
<1>3. CASE \E okw, okr \in BOOLEAN : Recycle(s, flags, filled, okw, okr)
  <2>1. PICK okw, okr : Recycle(s, flags, filled, okw, okr)
    BY <1>3
  <2>2. PICK b : b = CHOOSE x \in FreeBufs : \A y \in FreeBufs : x <= y
    OBVIOUS
  <2>3. b \in Bufs /\ buf[b].ref_count = 0
    <3>1. FreeBufs \in SUBSET Nat /\ FreeBufs # {}
      BY <2>1, BlockAssumption DEF FreeBufs, Recycle, Bufs
    <3>2. \E x \in FreeBufs : \A y \in FreeBufs : x <= y
      BY <3>1, LeastElement
    <3>3. b \in FreeBufs
      BY <2>2, <3>2
    <3> QED
      BY <3>3 DEF FreeBufs
  <2>4. RefsOf(b, buf[b], holds) /\ DOMAIN buf = Bufs /\ DOMAIN holds = Bufs \X Sectors
    BY <2>3 DEF CacheInv
  <2>5. \A u \in Sectors : holds[<<b, u>>] = 0
    BY <2>3, <2>4 DEF RefsOf
  <2>6. PICK new : /\ buf' = [buf EXCEPT ![b] = new] /\ DOMAIN new = BufFields
                   /\ new.sector = s /\ new.ref_count = 1 /\ new.next \in BufOrNone
    <3> DEFINE d == IF "DIRTY" \in buf[b].flags THEN block_write(disk, buf[b].sector, buf[b].data, okw) ELSE disk
               new == [sector |-> s, flags |-> flags, ref_count |-> 1, next |-> buffer_hashtable[hash_sector(s)],
                       data |-> IF filled THEN block_read(d, s, buf[b].data, okr) ELSE buf[b].data]
    <3>1. buf' = [buf EXCEPT ![b] = new]
      BY <2>1, <2>2 DEF Recycle
    <3>2. DOMAIN new = BufFields /\ new.sector = s /\ new.ref_count = 1 /\ new.next \in BufOrNone
      BY DEF BufFields, CacheInv
    <3> HIDE DEF new
    <3> QED
      BY <3>1, <3>2
  <2>7. /\ \A c \in Bufs \ {b} : buf'[c] = buf[c]
        /\ DOMAIN buf' = Bufs /\ DOMAIN buf'[b] = BufFields /\ buf'[b].next \in BufOrNone
        /\ buf'[b].sector = s /\ buf'[b].ref_count = 1
    BY <2>3, <2>4, <2>6 DEF CacheInv
  <2>8. <<b, s>> \in Bufs \X Sectors /\ Hold(b, s)
    <3>1. Hold(b, s)
      BY <2>1, <2>2 DEF Recycle
    <3>2. <<b, s>> \in Bufs \X Sectors
      BY <2>3
    <3> QED
      BY <3>1, <3>2
  <2>9. /\ DOMAIN holds' = Bufs \X Sectors /\ holds'[<<b, s>>] = 1
        /\ \A p \in Bufs \X Sectors : p # <<b, s>> => holds'[p] = holds[p]
    BY <2>4, <2>5, <2>8 DEF Hold
  <2>10. RefsOf(b, buf'[b], holds')
    <3>1. \A u \in Sectors : u # s => holds'[<<b, u>>] = 0
      BY <2>3, <2>5, <2>9
    <3> QED
      BY <2>7, <2>9, <3>1 DEF RefsOf
  <2>11. /\ DOMAIN buffer_hashtable' = 0 .. (HASH_SIZE - 1)
         /\ \A u \in Sectors : buffer_hashtable'[hash_sector(u)] \in BufOrNone
    <3>1. PICK h : h = hash_sector(s)
      OBVIOUS
    <3>2. buffer_hashtable' = [buffer_hashtable EXCEPT ![h] = b]
      BY <2>1, <2>2, <3>1 DEF Recycle
    <3>3. \A u \in Sectors : hash_sector(u) \in DOMAIN buffer_hashtable /\ buffer_hashtable[hash_sector(u)] \in BufOrNone
      BY HashInRange DEF CacheInv
    <3>4. DOMAIN buffer_hashtable' = 0 .. (HASH_SIZE - 1)
      BY <3>2 DEF CacheInv
    <3> QED
      BY <2>3, <3>2, <3>3, <3>4 DEF BufOrNone
  <2> QED
    BY <2>3, <2>7, <2>9, <2>10, <2>11, OneBuffer
<1> QED
  BY <1>1, <1>2, <1>3 DEF GetBuffer

LEMMA BrelseInv ==
  ASSUME CacheInv, NEW b \in Bufs, NEW s \in Sectors, brelse(b, s)
  PROVE  CacheInv'
<1>1. RefsOf(b, buf[b], holds) /\ DOMAIN buf[b] = BufFields /\ DOMAIN buf = Bufs /\ DOMAIN holds = Bufs \X Sectors
  BY DEF CacheInv
<1>2. PICK n : n = holds[<<b, s>>] /\ n \in Nat /\ n > 0 /\ buf[b].ref_count = n /\ buf[b].sector = s
  BY <1>1 DEF RefsOf, brelse
<1>3. /\ \A c \in Bufs \ {b} : buf'[c] = buf[c]
      /\ DOMAIN buf' = Bufs /\ DOMAIN buf'[b] = BufFields /\ buf'[b].next = buf[b].next
      /\ buf'[b].sector = s /\ buf'[b].ref_count = n - 1
  BY <1>1, <1>2 DEF brelse, BufFields
<1>4. <<b, s>> \in Bufs \X Sectors
  OBVIOUS
<1>5. /\ DOMAIN holds' = Bufs \X Sectors /\ holds'[<<b, s>>] = n - 1
      /\ \A p \in Bufs \X Sectors : p # <<b, s>> => holds'[p] = holds[p]
  BY <1>1, <1>2, <1>4 DEF brelse
<1>6. RefsOf(b, buf'[b], holds')
  <2>1. \A u \in Sectors : u # s => holds'[<<b, u>>] = holds[<<b, u>>] /\ holds[<<b, u>>] = 0
    BY <1>1, <1>2, <1>5 DEF RefsOf
  <2> QED
    BY <1>2, <1>3, <1>5, <2>1 DEF RefsOf
<1>7. /\ buf'[b].next \in BufOrNone /\ DOMAIN buffer_hashtable' = 0 .. (HASH_SIZE - 1)
      /\ \A u \in Sectors : buffer_hashtable'[hash_sector(u)] \in BufOrNone
  BY <1>3 DEF CacheInv, hash_sector, brelse
<1> QED
  BY <1>3, <1>5, <1>6, <1>7, OneBuffer

LEMMA CacheNextInv ==
  ASSUME CacheInv, [CacheNext \/ QueueNext]_BlockVars
  PROVE  CacheInv'
<1>1. CASE UNCHANGED CacheVars
  BY <1>1 DEF CacheVars, CacheInv, hash_sector
<1>2. CASE UNCHANGED BlockVars \/ QueueNext
  BY <1>1, <1>2 DEF BlockVars, QueueNext, add_request, process_requests
<1>3. ASSUME NEW b \in Bufs, NEW v, FillBuffer(b, v) \/ bwrite(b) PROVE CacheInv'
  <2>1. UNCHANGED <<buffer_hashtable, holds>>
    BY <1>3 DEF FillBuffer, bwrite
  <2>2. DOMAIN buf' = Bufs /\ \A c \in Bufs :
           /\ DOMAIN buf'[c] = BufFields /\ buf'[c].next = buf[c].next
           /\ buf'[c].sector = buf[c].sector /\ buf'[c].ref_count = buf[c].ref_count
    BY <1>3 DEF FillBuffer, bwrite, CacheInv, BufFields
  <2> QED
    BY <2>1, <2>2, SameRefs
<1>4. ASSUME NEW ok, sync_dev(ok) PROVE CacheInv'
  <2>1. buf' = [b \in Bufs |-> [buf[b] EXCEPT !.flags = @ \ {"DIRTY"}]] /\ UNCHANGED <<buffer_hashtable, holds>>
    BY <1>4 DEF sync_dev
  <2>2. DOMAIN buf' = Bufs /\ \A c \in Bufs :
           /\ DOMAIN buf'[c] = BufFields /\ buf'[c].next = buf[c].next
           /\ buf'[c].sector = buf[c].sector /\ buf'[c].ref_count = buf[c].ref_count
    BY <2>1 DEF CacheInv, BufFields
  <2> QED
    BY <2>1, <2>2, SameRefs
<1>5. CASE CacheNext
  BY <1>3, <1>4, <1>5, GetBufferInv, BrelseInv DEF CacheNext, bread, getblk
<1> QED
  BY <1>2, <1>5

\* For every size of the cache and of its hash table: a buffer that somebody holds stays
\* the buffer of the sector it was asked for, and its count is that of the references.
THEOREM HeldBuffersAlwaysStay == MachineSpec => []HeldBuffersStay
<1>1. MachineInit => CacheInv
  <2> SUFFICES ASSUME buffer_cache_init PROVE CacheInv
    BY DEF MachineInit, ata_init
  <2>1. DOMAIN buf = Bufs /\ DOMAIN holds = Bufs \X Sectors /\ DOMAIN buffer_hashtable = 0 .. (HASH_SIZE - 1)
    BY DEF buffer_cache_init
  <2>2. \A b \in Bufs : DOMAIN buf[b] = BufFields /\ buf[b].next \in BufOrNone /\ buf[b].ref_count = 0
    BY DEF buffer_cache_init, EmptyBuffer, BufFields, BufOrNone
  <2>3. \A s \in Sectors : buffer_hashtable[hash_sector(s)] \in BufOrNone
    <3> TAKE s \in Sectors
    <3>1. hash_sector(s) \in 0 .. (HASH_SIZE - 1)
      BY HashInRange
    <3> QED
      BY <3>1 DEF buffer_cache_init, BufOrNone
  <2>4. \A p \in Bufs \X Sectors : holds[p] = 0
    BY DEF buffer_cache_init
  <2>5. \A b \in Bufs : RefsOf(b, buf[b], holds)
    BY <2>2, <2>4 DEF RefsOf
  <2> QED
    BY <2>1, <2>2, <2>3, <2>5 DEF CacheInv
<1>2. CacheInv /\ [MachineNext]_MachineVars => CacheInv'
  BY MachineParts, CacheNextInv
<1>3. CacheInv => HeldBuffersStay
  BY DEF CacheInv, RefsOf, HeldBuffersStay, Held
<1> QED
  BY <1>1, <1>2, <1>3, PTL DEF MachineSpec
-----------------------------------------------------------------------------
(***************************************************************************)
(* Sockets: the stream of bytes.                                           *)
(***************************************************************************)
LEMMA ModGap ==
  ASSUME NEW m \in Nat \ {0}, NEW a \in 0 .. (m - 1), NEW b \in 0 .. (m - 1)
  PROVE  (a - b) % m = IF a >= b THEN a - b ELSE a - b + m
<1>1. \A y \in 0 .. (m - 1) : y % m = y /\ (y - m) % m = y
  OBVIOUS
<1>2. CASE a >= b
  BY <1>1, <1>2
<1>3. CASE a < b
  <2>1. PICK y : y = a - b + m /\ y \in 0 .. (m - 1) /\ a - b = y - m
    BY <1>3
  <2> QED
    BY <1>1, <1>3, <2>1
<1> QED
  BY <1>2, <1>3

\* Of a stream counted modulo B, i bytes were accepted and o delivered; n are left.
CountedOn(B, i, o, n) == B \in Nat \ {0} /\ i \in 0 .. (B - 1) /\ o \in 0 .. (B - 1) /\ n = (i - o) % B

LEMMA CountedGap ==
  ASSUME NEW B, NEW i, NEW o, NEW n, CountedOn(B, i, o, n)
  PROVE  n = (IF i >= o THEN i - o ELSE i - o + B) /\ n \in 0 .. (B - 1)
BY ModGap, SMTT(30) DEF CountedOn

\* Another m bytes delivered, or accepted.
Delivered(B, i, o, n, m, q) ==
    CountedOn(B, i, q, n - m) /\ \A k \in 1 .. (n - m) : (o + (m + k) - 1) % B = (q + k - 1) % B

AcceptedAfter(B, i, o, n, m, j) ==
    /\ CountedOn(B, j, o, n + m)
    /\ \A k \in 1 .. m : (i + k - 1) % B \in Nat /\ (i + k - 1) % B = (o + (n + k) - 1) % B

LEMMA CountDelivered ==
  ASSUME NEW B, NEW i, NEW o, NEW n, CountedOn(B, i, o, n), NEW m \in 0 .. n, NEW q, q = (o + m) % B
  PROVE  Delivered(B, i, o, n, m, q)
<1>1. B \in Nat \ {0} /\ i \in 0 .. (B - 1) /\ o \in 0 .. (B - 1) /\ n \in 0 .. (B - 1)
  BY CountedGap DEF CountedOn
<1>2. n = IF i >= o THEN i - o ELSE i - o + B
  BY CountedGap
<1>3. q = (IF o + m < B THEN o + m ELSE o + m - B) /\ q \in 0 .. (B - 1)
  <2>1. PICK x : x = o + m /\ x \in 0 .. (2 * B - 1)
    BY <1>1
  <2>2. x % B = IF x < B THEN x ELSE x - B
    BY <1>1, <2>1, RingMod
  <2> QED
    BY <1>1, <2>1, <2>2
<1>4. (i - q) % B = IF i >= q THEN i - q ELSE i - q + B
  BY <1>1, <1>3, ModGap
<1>5. CountedOn(B, i, q, n - m)
  BY <1>1, <1>2, <1>3, <1>4 DEF CountedOn
<1>6. ASSUME NEW k \in 1 .. (n - m) PROVE (o + (m + k) - 1) % B = (q + k - 1) % B
  <2>1. PICK y, z : y = o + (m + k) - 1 /\ z = q + k - 1
    OBVIOUS
  <2>2. y \in 0 .. (2 * B - 1) /\ z \in 0 .. (2 * B - 1)
    BY <1>1, <1>3, <2>1
  <2>3. y % B = (IF y < B THEN y ELSE y - B) /\ z % B = (IF z < B THEN z ELSE z - B)
    BY <1>1, <2>2, RingMod
  <2>4. y % B = z % B
    BY <1>1, <1>3, <2>1, <2>2, <2>3
  <2> QED
    BY <2>1, <2>4
<1> QED
  BY <1>5, <1>6 DEF Delivered

LEMMA CountAccepted ==
  ASSUME NEW B, NEW i, NEW o, NEW n, CountedOn(B, i, o, n), NEW m \in Nat, n + m < B, NEW j, j = (i + m) % B
  PROVE  AcceptedAfter(B, i, o, n, m, j)
<1>1. B \in Nat \ {0} /\ i \in 0 .. (B - 1) /\ o \in 0 .. (B - 1) /\ n \in 0 .. (B - 1) /\ m \in 0 .. (B - 1)
  BY CountedGap DEF CountedOn
<1>2. n = IF i >= o THEN i - o ELSE i - o + B
  BY CountedGap
<1>3. j = (IF i + m < B THEN i + m ELSE i + m - B) /\ j \in 0 .. (B - 1)
  <2>1. PICK x : x = i + m /\ x \in 0 .. (2 * B - 1)
    BY <1>1
  <2>2. x % B = IF x < B THEN x ELSE x - B
    BY <1>1, <2>1, RingMod
  <2> QED
    BY <1>1, <2>1, <2>2
<1>4. (j - o) % B = IF j >= o THEN j - o ELSE j - o + B
  BY <1>1, <1>3, ModGap
<1>5. CountedOn(B, j, o, n + m)
  BY <1>1, <1>2, <1>3, <1>4 DEF CountedOn
<1>6. ASSUME NEW k \in 1 .. m PROVE (i + k - 1) % B \in Nat /\ (i + k - 1) % B = (o + (n + k) - 1) % B
  <2>1. PICK y, z : y = o + (n + k) - 1 /\ z = i + k - 1
    OBVIOUS
  <2>2. y \in 0 .. (2 * B - 1) /\ z \in 0 .. (2 * B - 1)
    BY <1>1, <2>1
  <2>3. y % B = (IF y < B THEN y ELSE y - B) /\ z % B = (IF z < B THEN z ELSE z - B)
    BY <1>1, <2>2, RingMod
  <2>4. z % B \in Nat /\ y % B = z % B
    BY <1>1, <1>2, <2>1, <2>2, <2>3
  <2> QED
    BY <2>1, <2>4
<1> QED
  BY <1>5, <1>6 DEF AcceptedAfter

\* The bytes r of a socket that accepted i and delivered o.
Stream(B, r, i, o) ==
    /\ r \in Seq(Nat) /\ CountedOn(B, i, o, Len(r))
    /\ \A k \in 1 .. Len(r) : r[k] = (o + k - 1) % B

\* What is left of r when m bytes went out, and the m bytes that follow the first i.
Rest(r, m) == [k \in 1 .. (Len(r) - m) |-> r[m + k]]
BytesAfter(B, i, m) == [k \in 1 .. m |-> (i + k - 1) % B]

LEMMA DeliverStream ==
  ASSUME NEW B, NEW r, NEW i, NEW o, Stream(B, r, i, o), NEW m, m \in 0 .. Len(r)
  PROVE  Stream(B, Rest(r, m), i, (o + m) % B)
<1> DEFINE q == (o + m) % B
           p == Rest(r, m)
<1> HIDE DEF p
<1>1. PICK n : n = Len(r) /\ n \in Nat /\ r \in Seq(Nat)
  <2>1. r \in Seq(Nat)
    BY DEF Stream
  <2> QED
    BY <2>1
<1>2. Delivered(B, i, o, n, m, q)
  <2> HIDE DEF q
  <2>1. q = (o + m) % B
    BY DEF q
  <2> QED
    BY <1>1, <2>1, CountDelivered DEF Stream
<1> HIDE DEF q
<1>3. PICK h : h = n - m /\ h \in Nat
  BY <1>1
<1>4. \A k \in 1 .. h : m + k \in 1 .. n
  BY <1>1, <1>3
<1>5. p = [k \in 1 .. h |-> r[m + k]]
  BY <1>1, <1>3 DEF p, Rest
<1>6. p \in Seq(Nat) /\ Len(p) = h
  <2>1. \A k \in 1 .. h : r[m + k] \in Nat
    BY <1>1, <1>4
  <2>2. p \in [1 .. h -> Nat]
    BY <1>5, <2>1
  <2> QED
    BY <1>3, <2>2
<1>7. ASSUME NEW k \in 1 .. h PROVE p[k] = (q + k - 1) % B
  <2>1. p[k] = r[m + k] /\ m + k \in 1 .. n
    BY <1>4, <1>5
  <2>2. r[m + k] = (o + (m + k) - 1) % B
    BY <1>1, <2>1 DEF Stream
  <2>3. (o + (m + k) - 1) % B = (q + k - 1) % B
    BY <1>2, <1>3 DEF Delivered
  <2> QED
    BY <2>1, <2>2, <2>3
<1>8. CountedOn(B, i, q, h)
  BY <1>2, <1>3 DEF Delivered
<1> QED
  BY <1>6, <1>7, <1>8 DEF Stream, p, q

LEMMA AcceptStream ==
  ASSUME NEW B, NEW r, NEW i, NEW o, Stream(B, r, i, o), NEW m \in Nat, Len(r) + m < B
  PROVE  Stream(B, r \o BytesAfter(B, i, m), (i + m) % B, o)
<1> DEFINE t == BytesAfter(B, i, m)
           j == (i + m) % B
<1> HIDE DEF t
<1>1. PICK n : n = Len(r) /\ n \in Nat /\ r \in Seq(Nat)
  <2>1. r \in Seq(Nat)
    BY DEF Stream
  <2> QED
    BY <2>1
<1>2. AcceptedAfter(B, i, o, n, m, j)
  <2> HIDE DEF j
  <2>1. j = (i + m) % B
    BY DEF j
  <2> QED
    BY <1>1, <2>1, CountAccepted DEF Stream
<1> HIDE DEF j
<1>3. t \in Seq(Nat) /\ Len(t) = m
  <2>1. t \in [1 .. m -> Nat]
    BY <1>2 DEF AcceptedAfter, t, BytesAfter
  <2> QED
    BY <2>1
<1>4. PICK p : p = r \o t
  OBVIOUS
<1>5. /\ p \in Seq(Nat) /\ Len(p) = n + m
      /\ \A k \in 1 .. (n + m) : p[k] = IF k <= n THEN r[k] ELSE t[k - n]
  BY <1>1, <1>3, <1>4, ConcatProperties
<1>6. ASSUME NEW k \in 1 .. (n + m) PROVE p[k] = (o + k - 1) % B
  <2>1. CASE k <= n
    BY <1>1, <1>5, <2>1 DEF Stream
  <2>2. CASE ~ (k <= n)
    <3>1. PICK h : h = k - n /\ h \in 1 .. m /\ k = n + h
      BY <1>1, <2>2
    <3>2. p[k] = (i + h - 1) % B
      BY <1>5, <2>2, <3>1 DEF t, BytesAfter
    <3>3. (i + h - 1) % B = (o + (n + h) - 1) % B
      BY <1>2, <3>1 DEF AcceptedAfter
    <3> QED
      BY <3>1, <3>2, <3>3
  <2> QED
    BY <2>1, <2>2
<1>7. CountedOn(B, j, o, n + m)
  BY <1>2 DEF AcceptedAfter
<1> QED
  BY <1>4, <1>5, <1>6, <1>7 DEF Stream, t, j

SockFields == {"type", "tcp", "lport", "laddr", "rport", "raddr", "recv", "send_len", "accept_queue", "refcount"}

\* At this commit no connection is ever queued on a socket.
SockOk(r, i, o) ==
    /\ DOMAIN r = SockFields /\ r.accept_queue = <<>>
    /\ r.refcount > 0 => Stream(ByteNo, r.recv, i, o)

\* The list names live sockets only.
ListLive(l, sk) == l \in Seq(SockIds) /\ \A k \in 1 .. Len(l) : sk[l[k]].refcount > 0

SockInv ==
    /\ DOMAIN sock = SockIds /\ DOMAIN sin = SockIds /\ DOMAIN sout = SockIds
    /\ \A s \in SockIds : SockOk(sock[s], sin[s], sout[s])
    /\ ListLive(sockets, sock)

\* A step changes one socket, s.
OnlySock(s, sk, new) == DOMAIN new = SockIds /\ \A c \in SockIds \ {s} : new[c] = sk[c]

LEMMA OneSock ==
  ASSUME SockInv, NEW s \in SockIds, OnlySock(s, sock, sock'), OnlySock(s, sin, sin'), OnlySock(s, sout, sout'),
         SockOk(sock'[s], sin'[s], sout'[s]), ListLive(sockets', sock')
  PROVE  SockInv'
BY DEF SockInv, OnlySock

\* The list is not changed, and the socket stays live.
LEMMA SameList ==
  ASSUME SockInv, NEW s \in SockIds, OnlySock(s, sock, sock'), sock'[s].refcount = sock[s].refcount, UNCHANGED sockets
  PROVE  ListLive(sockets', sock')
<1>1. sockets \in Seq(SockIds) /\ \A k \in 1 .. Len(sockets) : sockets[k] \in SockIds /\ sock[sockets[k]].refcount > 0
  BY DEF SockInv, ListLive
<1>2. \A c \in SockIds : sock'[c].refcount = sock[c].refcount
  BY DEF OnlySock
<1> QED
  BY <1>1, <1>2 DEF ListLive

\* Calls that leave the buffer of the socket alone.
LEMMA CallInv ==
  ASSUME SockInv, NEW s \in SockIds, UNCHANGED <<sockets, sin, sout>>,
         \/ \E a, p : socket_bind(s, a, p) \/ socket_connect(s, a, p)
         \/ tcp_listen(s) \/ tcp_accept(s) \/ \E len : tcp_send(s, len)
  PROVE  SockInv'
<1>1. DOMAIN sock = SockIds /\ DOMAIN sock[s] = SockFields /\ sock[s].accept_queue = <<>> /\ SockOk(sock[s], sin[s], sout[s])
  BY DEF SockInv, SockOk
<1>2. CASE UNCHANGED sock
  BY <1>2 DEF SockInv, ListLive
<1>3. CASE /\ OnlySock(s, sock, sock') /\ DOMAIN sock'[s] = SockFields /\ sock'[s].accept_queue = <<>>
           /\ sock'[s].recv = sock[s].recv /\ sock'[s].refcount = sock[s].refcount
  <2>1. OnlySock(s, sin, sin') /\ OnlySock(s, sout, sout')
    BY DEF OnlySock, SockInv
  <2>2. SockOk(sock'[s], sin'[s], sout'[s])
    BY <1>1, <1>3 DEF SockOk
  <2> QED
    BY <1>3, <2>1, <2>2, SameList, OneSock
<1>4. ASSUME NEW a, NEW p, socket_bind(s, a, p) PROVE SockInv'
  <2>1. sock' = [sock EXCEPT ![s].laddr = a, ![s].lport = p]
    BY <1>4 DEF socket_bind
  <2> QED
    BY <1>1, <1>3, <2>1 DEF OnlySock, SockFields
<1>5. ASSUME NEW a, NEW p, socket_connect(s, a, p) PROVE SockInv'
  <2>1. CASE sock' = [sock EXCEPT ![s].raddr = a, ![s].rport = p, ![s].tcp = "SYN_SENT"]
    BY <1>1, <1>3, <2>1 DEF OnlySock, SockFields
  <2>2. CASE sock' = [sock EXCEPT ![s].raddr = a, ![s].rport = p]
    BY <1>1, <1>3, <2>2 DEF OnlySock, SockFields
  <2> QED
    BY <1>5, <2>1, <2>2 DEF socket_connect, tcp_connect
<1>6. CASE tcp_listen(s)
  <2>1. sock' = [sock EXCEPT ![s].tcp = "LISTEN", ![s].accept_queue = <<>>]
    BY <1>6 DEF tcp_listen
  <2> QED
    BY <1>1, <1>3, <2>1 DEF OnlySock, SockFields
<1>7. CASE tcp_accept(s)
  BY <1>1, <1>2, <1>7 DEF tcp_accept
<1>8. ASSUME NEW len, tcp_send(s, len) PROVE SockInv'
  <2>1. PICK n : sock' = [sock EXCEPT ![s].send_len = n]
    BY <1>8 DEF tcp_send
  <2> QED
    BY <1>1, <1>3, <2>1 DEF OnlySock, SockFields
<1> QED
  BY <1>4, <1>5, <1>6, <1>7, <1>8

LEMMA ByteNoPositive == ByteNo \in Nat \ {0}
BY SocketsAssumption DEF ByteNo

LEMMA NewStream == Stream(ByteNo, <<>>, 0, 0)
<1>1. (0 - 0) % ByteNo = 0
  <2>1. PICK B : B = ByteNo /\ B \in Nat \ {0} /\ 0 \in 0 .. (B - 1)
    BY ByteNoPositive
  <2>2. (0 - 0) % B = IF 0 >= 0 THEN 0 - 0 ELSE 0 - 0 + B
    BY <2>1, ModGap
  <2> QED
    BY <2>1, <2>2
<1> QED
  BY <1>1, ByteNoPositive DEF Stream, CountedOn

LEMMA SockInitInv == socket_init => SockInv
<1> SUFFICES ASSUME socket_init PROVE SockInv
  OBVIOUS
<1>1. ASSUME NEW s \in SockIds PROVE SockOk(sock[s], sin[s], sout[s])
  BY DEF socket_init, SockOk, FreeSock, NewSock, SockFields
<1> QED
  BY <1>1 DEF SockInv, socket_init, ListLive

LEMMA CreateInv ==
  ASSUME SockInv, NEW type, socket_create(type)
  PROVE  SockInv'
<1>1. PICK s : s = CHOOSE x \in SockIds : ~Live(x)
  OBVIOUS
<1>2. s \in SockIds
  BY <1>1 DEF socket_create
<1>3. /\ sock' = [sock EXCEPT ![s] = NewSock(type)] /\ sockets' = <<s>> \o sockets
      /\ sin' = [sin EXCEPT ![s] = 0] /\ sout' = [sout EXCEPT ![s] = 0]
  BY <1>1 DEF socket_create
<1>4. OnlySock(s, sock, sock') /\ OnlySock(s, sin, sin') /\ OnlySock(s, sout, sout')
  BY <1>2, <1>3 DEF OnlySock, SockInv
<1>5. sock'[s] = NewSock(type) /\ sin'[s] = 0 /\ sout'[s] = 0
  BY <1>2, <1>3 DEF SockInv
<1>6. SockOk(sock'[s], sin'[s], sout'[s]) /\ sock'[s].refcount > 0
  BY <1>5, NewStream DEF SockOk, NewSock, SockFields
<1>7. ListLive(sockets', sock')
  <2>1. sockets \in Seq(SockIds) /\ \A k \in 1 .. Len(sockets) : sockets[k] \in SockIds /\ sock[sockets[k]].refcount > 0
    BY DEF SockInv, ListLive
  <2>2. PICK t : t = <<s>> /\ t \in Seq(SockIds) /\ Len(t) = 1 /\ t[1] = s
    <3>1. <<s>> \in Seq(SockIds) /\ Len(<<s>>) = 1 /\ <<s>>[1] = s
      BY <1>2
    <3> QED
      BY <3>1
  <2>3. /\ t \o sockets \in Seq(SockIds) /\ Len(t \o sockets) = 1 + Len(sockets)
        /\ \A k \in 1 .. (1 + Len(sockets)) : (t \o sockets)[k] = IF k <= 1 THEN t[k] ELSE sockets[k - 1]
    BY <2>1, <2>2, ConcatProperties
  <2>4. \A c \in SockIds : sock[c].refcount > 0 => sock'[c].refcount > 0
    BY <1>4, <1>6 DEF OnlySock
  <2>5. ASSUME NEW k \in 1 .. (1 + Len(sockets)) PROVE sock'[(t \o sockets)[k]].refcount > 0
    <3>1. CASE k = 1
      BY <1>6, <2>2, <2>3, <3>1
    <3>2. CASE k # 1
      <4>1. k - 1 \in 1 .. Len(sockets) /\ (t \o sockets)[k] = sockets[k - 1]
        BY <2>1, <2>3, <3>2
      <4> QED
        BY <2>1, <2>4, <4>1
    <3> QED
      BY <3>1, <3>2
  <2> QED
    BY <1>3, <2>2, <2>3, <2>5 DEF ListLive
<1> QED
  BY <1>2, <1>4, <1>6, <1>7, OneSock

LEMMA CloseInv ==
  ASSUME SockInv, NEW s \in SockIds, socket_close(s)
  PROVE  SockInv'
<1>1. OnlySock(s, sock, sock') /\ OnlySock(s, sin, sin') /\ OnlySock(s, sout, sout') /\ sock'[s] = FreeSock
  BY DEF OnlySock, SockInv, socket_close
<1>2. SockOk(sock'[s], sin'[s], sout'[s])
  BY <1>1 DEF SockOk, FreeSock, NewSock, SockFields
<1>3. ListLive(sockets', sock')
  <2>1. sockets \in Seq(SockIds) /\ \A k \in 1 .. Len(sockets) : sockets[k] \in SockIds /\ sock[sockets[k]].refcount > 0
    BY DEF SockInv, ListLive
  <2>2. PICK at : at = {i \in DOMAIN sockets : sockets[i] # s} /\ at \in SUBSET (DOMAIN sockets)
    OBVIOUS
  <2>3. sockets' = Keep(sockets, at)
    BY <2>2 DEF socket_close, Without
  <2>4. sockets' \in Seq(SockIds) /\ \A k \in DOMAIN sockets' : \E i \in at : sockets'[k] = sockets[i]
    BY <2>1, <2>2, <2>3, KeepEntries
  <2>5. \A i \in at : sock'[sockets[i]].refcount > 0
    BY <1>1, <2>1, <2>2 DEF OnlySock
  <2> QED
    BY <2>4, <2>5 DEF ListLive
<1> QED
  BY <1>1, <1>2, <1>3, OneSock

LEMMA RecvInv ==
  ASSUME SockInv, NEW s \in SockIds, NEW len \in Nat, Deliver(s, len)
  PROVE  SockInv'
<1>1. PICK r, n : r = sock[s].recv /\ n = IF len > Len(r) THEN Len(r) ELSE len
  OBVIOUS
<1>2. Stream(ByteNo, r, sin[s], sout[s]) /\ DOMAIN sock[s] = SockFields /\ sock[s].accept_queue = <<>>
  BY <1>1 DEF SockInv, SockOk, Deliver, Live
<1>3. n \in 0 .. Len(r)
  <2>1. Len(r) \in Nat
    BY <1>2 DEF Stream
  <2> QED
    BY <1>1, <2>1
<1>4. /\ sock' = [sock EXCEPT ![s].recv = Rest(r, n)] /\ sout' = [sout EXCEPT ![s] = (sout[s] + n) % ByteNo]
      /\ UNCHANGED <<sockets, sin>>
  BY <1>1 DEF Deliver, Rest
<1>5. OnlySock(s, sock, sock') /\ OnlySock(s, sin, sin') /\ OnlySock(s, sout, sout')
  BY <1>4 DEF OnlySock, SockInv
<1>6. /\ DOMAIN sock'[s] = SockFields /\ sock'[s].accept_queue = <<>> /\ sock'[s].recv = Rest(r, n)
      /\ sock'[s].refcount = sock[s].refcount /\ sin'[s] = sin[s] /\ sout'[s] = (sout[s] + n) % ByteNo
  BY <1>2, <1>4 DEF SockInv, SockFields
<1>7. Stream(ByteNo, Rest(r, n), sin[s], (sout[s] + n) % ByteNo)
  BY <1>2, <1>3, DeliverStream
<1>8. SockOk(sock'[s], sin'[s], sout'[s])
  BY <1>6, <1>7 DEF SockOk
<1> QED
  BY <1>4, <1>5, <1>6, <1>8, SameList, OneSock

\* What a segment of len bytes leaves in the buffer when it does not run over it.
LEMMA AcceptedStream ==
  ASSUME SockInv, NEW s \in SockIds, Live(s), NEW len \in Nat, ~RunsOver(s, len), NEW got, got = Accepted(s, len)
  PROVE  Stream(ByteNo, got.recv, (sin[s] + got.n) % ByteNo, sout[s])
<1>1. PICK r, i : r = sock[s].recv /\ i = sin[s] /\ Stream(ByteNo, r, i, sout[s])
  BY DEF SockInv, SockOk, Live
<1>2. CASE got.recv = r /\ got.n = 0
  <2>1. PICK B : B = ByteNo /\ B \in Nat \ {0} /\ i \in 0 .. (B - 1) /\ i \in 0 .. (2 * B - 1) /\ i + 0 = i
    BY <1>1, ByteNoPositive DEF Stream, CountedOn
  <2>2. i % B = i
    BY <2>1, RingMod
  <2> QED
    BY <1>1, <1>2, <2>1, <2>2
<1>3. CASE Len(r) + len <= RCV_BUF_SIZE /\ got.recv = r \o BytesAfter(ByteNo, i, len) /\ got.n = len
  <2>1. Len(r) + len < ByteNo
    <3>1. Len(r) \in Nat
      BY <1>1 DEF Stream
    <3> QED
      BY <1>3, <3>1, SocketsAssumption DEF ByteNo
  <2>2. Stream(ByteNo, r \o BytesAfter(ByteNo, i, len), (i + len) % ByteNo, sout[s])
    BY <1>1, <2>1, AcceptStream
  <2> QED
    BY <1>1, <1>3, <2>2
<1>4. CASE Fits(s, len)
  <2>1. Len(r) \in Nat /\ RCV_BUF_SIZE \in Nat
    BY <1>1, SocketsAssumption DEF Stream
  <2>2. Len(r) + len <= RCV_BUF_SIZE
    BY <1>1, <1>4, <2>1 DEF RunsOver
  <2> QED
    BY <1>1, <1>3, <1>4, <2>2 DEF Accepted, BytesAfter
<1>5. CASE ~Fits(s, len)
  BY <1>1, <1>2, <1>5 DEF Accepted
<1> QED
  BY <1>4, <1>5

\* The socket found for a segment is live.
LEMMA LookupLive ==
  ASSUME SockInv, NEW dport, NEW sport, socket_lookup(dport, sport) # <<>>
  PROVE  Head(socket_lookup(dport, sport)) \in SockIds /\ Live(Head(socket_lookup(dport, sport)))
<1>1. sockets \in Seq(SockIds) /\ \A k \in 1 .. Len(sockets) : sockets[k] \in SockIds /\ sock[sockets[k]].refcount > 0
  BY DEF SockInv, ListLive
<1>2. PICK at : at \in SUBSET (DOMAIN sockets) /\ socket_lookup(dport, sport) = Keep(sockets, at)
  <2> DEFINE match(s) == /\ sock[s].lport = dport /\ sock[s].laddr = 0
                         /\ sport = 0 \/ (sock[s].rport = sport /\ sock[s].raddr = 0)
             found == {i \in DOMAIN sockets : match(sockets[i])}
  <2>1. found \in SUBSET (DOMAIN sockets)
    OBVIOUS
  <2>2. socket_lookup(dport, sport) = Keep(sockets, found)
    BY DEF socket_lookup
  <2> HIDE DEF found
  <2> QED
    BY <2>1, <2>2
<1>3. PICK f : f = socket_lookup(dport, sport)
  OBVIOUS
<1>4. f \in Seq(SockIds) /\ \A k \in DOMAIN f : \E i \in at : f[k] = sockets[i]
  BY <1>1, <1>2, <1>3, KeepEntries
<1>5. f # <<>> /\ Head(f) = f[1] /\ 1 \in DOMAIN f
  BY <1>3, <1>4
<1>6. PICK i \in at : f[1] = sockets[i]
  BY <1>4, <1>5
<1>7. i \in 1 .. Len(sockets)
  BY <1>1, <1>2
<1> QED
  BY <1>1, <1>3, <1>5, <1>6, <1>7 DEF Live

\* The step of a segment for socket s, which takes its bytes or runs over the buffer.
LEMMA SegmentInv ==
  ASSUME SockInv, NEW s \in SockIds, Live(s), NEW len \in Nat, NEW x, Take(s, len, x)
  PROVE  SockInv'
<1>a. CASE UNCHANGED <<sock, sockets, sin, sout>>
  BY <1>a DEF SockInv, ListLive
<1>b. PICK got : got = Accepted(s, len)
  OBVIOUS
<1> SUFFICES ASSUME ~RunsOver(s, len), sock' = [sock EXCEPT ![s].tcp = x, ![s].recv = got.recv],
                    sin' = [sin EXCEPT ![s] = (sin[s] + got.n) % ByteNo], UNCHANGED <<sockets, sout>>
             PROVE  SockInv'
  BY <1>a, <1>b DEF Take
<1>1. DOMAIN sock = SockIds /\ DOMAIN sock[s] = SockFields /\ sock[s].accept_queue = <<>>
  BY DEF SockInv, SockOk
<1>2. Stream(ByteNo, got.recv, (sin[s] + got.n) % ByteNo, sout[s])
  BY <1>b, AcceptedStream
<1>3. PICK r : r = got.recv
  OBVIOUS
<1>4. /\ OnlySock(s, sock, sock') /\ DOMAIN sock'[s] = SockFields /\ sock'[s].accept_queue = <<>>
      /\ sock'[s].recv = r /\ sock'[s].refcount = sock[s].refcount
  BY <1>1, <1>3 DEF OnlySock, SockFields
<1>5. OnlySock(s, sin, sin') /\ OnlySock(s, sout, sout') /\ sin'[s] = (sin[s] + got.n) % ByteNo /\ sout'[s] = sout[s]
  BY DEF OnlySock, SockInv
<1>6. SockOk(sock'[s], sin'[s], sout'[s])
  BY <1>2, <1>3, <1>4, <1>5 DEF SockOk
<1> QED
  BY <1>4, <1>5, <1>6, SameList, OneSock

LEMMA RxInv ==
  ASSUME SockInv, NEW seg \in Segments, ip_rx(seg)
  PROVE  SockInv'
<1>1. seg.len \in Nat
  BY SocketsAssumption
<1>2. PICK found, s : found = socket_lookup(seg.dport, seg.sport) /\ s = Head(found)
  OBVIOUS
<1>3. found # <<>> => s \in SockIds /\ Live(s)
  BY <1>2, LookupLive
<1>4. CASE tcp_rx(seg)
  <2>1. PICK n, x : /\ n = (IF "PSH" \in seg.flags /\ "RST" \notin seg.flags THEN seg.len ELSE 0)
                    /\ x = TcpState(sock[s].tcp, seg.flags)
    OBVIOUS
  <2>2. n \in Nat /\ found # <<>> /\ Take(s, n, x)
    BY <1>1, <1>2, <1>4, <2>1 DEF tcp_rx
  <2> QED
    BY <1>3, <2>2, SegmentInv
<1>5. CASE udp_rx(seg)
  <2>1. PICK x : x = sock[s].tcp
    OBVIOUS
  <2>2. found # <<>> /\ Take(s, seg.len, x)
    BY <1>2, <1>5, <2>1 DEF udp_rx
  <2> QED
    BY <1>1, <1>3, <2>2, SegmentInv
<1> QED
  BY <1>4, <1>5 DEF ip_rx

LEMMA SockNextInv ==
  ASSUME SockInv, [SockNext \/ RouteNext]_SockVars
  PROVE  SockInv'
<1>1. CASE UNCHANGED <<sock, sockets, sin, sout>>
  BY <1>1 DEF SockInv, ListLive
<1>2. CASE UNCHANGED SockVars \/ RouteNext
  BY <1>1, <1>2 DEF SockVars, RouteNext, route_add, route_del
<1>3. ASSUME NEW s \in SockIds, NEW len \in Lengths, socket_recv(s, len) PROVE SockInv'
  <2>1. len \in Nat /\ Deliver(s, len)
    BY <1>3, SocketsAssumption DEF socket_recv, tcp_recv, udp_recvfrom
  <2> QED
    BY <2>1, RecvInv
<1>4. ASSUME NEW s \in SockIds,
             \/ \E a, p : socket_bind(s, a, p) \/ socket_connect(s, a, p)
             \/ tcp_listen(s) \/ tcp_accept(s) \/ \E len : tcp_send(s, len)
      PROVE  SockInv'
  <2>1. UNCHANGED <<sockets, sin, sout>>
    BY <1>4 DEF socket_bind, socket_connect, tcp_listen, tcp_accept, tcp_send
  <2> QED
    BY <1>4, <2>1, CallInv
<1>5. ASSUME NEW s \in SockIds, socket_close(s) \/ tcp_close(s) PROVE SockInv'
  BY <1>5, CloseInv DEF tcp_close
<1>6. CASE SockNext
  <2>1. CASE \E type \in {"STREAM", "DGRAM"} : socket_create(type)
    BY <2>1, CreateInv
  <2>2. CASE \E seg \in Segments : ip_rx(seg)
    BY <2>2, RxInv
  <2>3. ASSUME NEW s \in SockIds,
               \/ \E to \in Binds : socket_bind(s, to[1], to[2])
               \/ \E to \in Peers : socket_connect(s, to[1], to[2])
               \/ tcp_listen(s) \/ tcp_accept(s) \/ \E len \in Lengths : tcp_send(s, len)
        PROVE  SockInv'
    BY <1>4, <2>3
  <2> QED
    BY <1>3, <1>5, <1>6, <2>1, <2>2, <2>3 DEF SockNext, SockCall
<1> QED
  BY <1>2, <1>6

\* For every set of sockets, every size of a buffer and every width of a length, segments
\* of any length, those whose test for room wraps around too, and reads in any order: as
\* long as no copy ran over its buffer, the buffer of a socket holds the bytes accepted
\* and not yet delivered, in order.
THEOREM StreamsStayInOrder == MachineSpec => []StreamInOrder
<1>1. MachineInit => SockInv
  BY SockInitInv DEF MachineInit
<1>2. SockInv /\ [MachineNext]_MachineVars => SockInv'
  BY MachineParts, SockNextInv
<1>3. SockInv => StreamInOrder
  <2>1. SUFFICES ASSUME SockInv, NEW s \in SockIds, Live(s)
                 PROVE  /\ Len(sock[s].recv) = (sin[s] - sout[s]) % ByteNo
                        /\ \A k \in DOMAIN sock[s].recv : sock[s].recv[k] = (sout[s] + k - 1) % ByteNo
    BY DEF StreamInOrder
  <2>2. Stream(ByteNo, sock[s].recv, sin[s], sout[s])
    BY <2>1 DEF SockInv, SockOk, Live
  <2>3. PICK r, i, o, B : r = sock[s].recv /\ i = sin[s] /\ o = sout[s] /\ B = ByteNo
    OBVIOUS
  <2>4. /\ r \in Seq(Nat) /\ Len(r) = (i - o) % B
        /\ \A k \in 1 .. Len(r) : r[k] = (o + k - 1) % B
    BY <2>2, <2>3 DEF Stream, CountedOn
  <2>5. DOMAIN r = 1 .. Len(r)
    BY <2>4
  <2> QED
    BY <2>3, <2>4, <2>5, Zenon
<1> QED
  BY <1>1, <1>2, <1>3, PTL DEF MachineSpec
-----------------------------------------------------------------------------
(***************************************************************************)
(* The routing table.                                                      *)
(***************************************************************************)
RouteSet == [net : SUBSET AddrBits, mask : SUBSET AddrBits]

RouteInv == routes \in Seq(RouteSet)

LEMMA MaskLength ==
  ASSUME NEW r \in RouteSet
  PROVE  Cardinality(r.mask) \in Nat
<1>1. r.mask \in SUBSET AddrBits
  BY DEF RouteSet
<1>2. IsFiniteSet(r.mask)
  BY <1>1, SocketsAssumption, FS_Subset
<1> QED
  BY <1>2, FS_CardinalityType

\* What the loop has found among the first i routes: with length -1 no route matches,
\* and otherwise the one it holds is a longest match.
Longest(i, b, addr) ==
    IF b.len = -1 THEN b.route = NoRoute /\ \A j \in 1 .. i : ~ Matches(routes[j], addr)
    ELSE /\ \E j \in 1 .. i : Matches(routes[j], addr) /\ b.route = routes[j]
         /\ b.len = Cardinality(b.route.mask) /\ b.len \in Nat
         /\ \A j \in 1 .. i : Matches(routes[j], addr) => Cardinality(routes[j].mask) <= b.len

LEMMA LookupLongest ==
  ASSUME NEW addr, routes \in Seq(RouteSet)
  PROVE  \E b : b.route = route_lookup(addr) /\ Longest(Len(routes), b, addr)
<1> DEFINE N == Len(routes)
           T == [route : RouteSet \cup {NoRoute}, len : Int]
           step(i, b) == IF Matches(routes[i], addr) /\ Cardinality(routes[i].mask) > b.len
                         THEN [route |-> routes[i], len |-> Cardinality(routes[i].mask)] ELSE b
           g == [p \in (1 .. N) \X T |-> step(p[1], p[2])]
           x == [route |-> NoRoute, len |-> -1]
           best[i \in 0 .. Len(routes)] ==
            IF i = 0 THEN [route |-> NoRoute, len |-> -1]
            ELSE LET r == routes[i]
                     n == Cardinality(r.mask)
                 IN  IF Matches(r, addr) /\ n > best[i - 1].len THEN [route |-> r, len |-> n] ELSE best[i - 1]
<1>1. N \in Nat /\ \A i \in 1 .. N : routes[i] \in RouteSet /\ Cardinality(routes[i].mask) \in Nat
  BY MaskLength
<1>2. x \in T /\ \A i \in 1 .. N, b \in T : step(i, b) \in T
  BY <1>1
<1>3. g \in [(1 .. N) \X T -> T]
  <2> HIDE DEF step, T
  <2> QED
    BY <1>2
<1>4. route_lookup(addr) = best[N].route
  BY DEF route_lookup
<1>5. best = CHOOSE f : f = [i \in 0 .. N |-> IF i = 0 THEN x ELSE step(i, f[i - 1])]
  BY DEF best
<1> HIDE DEF best, N, x, T
<1>6. PICK f : IsIterate(f, T, g, x, N)
  <2> HIDE DEF g
  <2> QED
    BY <1>1, <1>2, <1>3, IterateExists
<1>7. \A i \in 1 .. N : f[i] = step(i, f[i - 1])
  <2> TAKE i \in 1 .. N
  <2>1. i - 1 \in 0 .. N
    BY <1>1
  <2>2. f[i - 1] \in T /\ f[i] = g[<<i, f[i - 1]>>]
    BY <1>6, <2>1 DEF IsIterate
  <2> HIDE DEF step
  <2> QED
    BY <2>2
<1> HIDE DEF step, g
<1>8. f = [i \in 0 .. N |-> IF i = 0 THEN x ELSE step(i, f[i - 1])]
  <2>1. f \in [0 .. N -> T] /\ f[0] = x
    BY <1>6 DEF IsIterate
  <2>2. \A i \in 0 .. N : f[i] = IF i = 0 THEN x ELSE step(i, f[i - 1])
    BY <1>1, <1>7, <2>1
  <2> QED
    BY <2>1, <2>2
<1>9. best = [i \in 0 .. N |-> IF i = 0 THEN x ELSE step(i, best[i - 1])]
  BY <1>5, <1>8, Zenon
<1> DEFINE G == {i \in Nat : Longest(i, best[i], addr)}
<1>10. 0 \in G
  <2>1. best[0] = x
    BY <1>1, <1>9
  <2> QED
    BY <2>1 DEF Longest, x
<1>11. ASSUME NEW i \in 1 .. N, i - 1 \in G PROVE i \in G
  <2>0. SUFFICES Longest(i, best[i], addr)
    OBVIOUS
  <2>1. best[i] = step(i, best[i - 1])
    BY <1>1, <1>9
  <2>2. PICK k, b, c : k = i - 1 /\ b = best[i - 1] /\ c = best[i]
    OBVIOUS
  <2>3. Longest(k, b, addr) /\ k \in Nat /\ c = step(i, b)
    BY <1>11, <2>1, <2>2
  <2>4. \A j \in 1 .. i : j \in 1 .. k \/ j = i
    BY <2>2
  <2>5. \A j \in 1 .. k : j \in 1 .. i
    BY <2>2
  <2>6. b.len \in Int /\ b.len >= -1
    BY <2>3 DEF Longest
  <2>7. PICK n : n = Cardinality(routes[i].mask) /\ n \in Nat
    BY <1>1
  <2>8. CASE Matches(routes[i], addr) /\ n > b.len
    <3>1. c.route = routes[i] /\ c.len = n
      BY <2>3, <2>7, <2>8 DEF step
    <3>2. \A j \in 1 .. k : Matches(routes[j], addr) => Cardinality(routes[j].mask) <= n
      <4> TAKE j \in 1 .. k
      <4>1. CASE b.len = -1
        BY <2>3, <4>1 DEF Longest
      <4>2. CASE b.len # -1
        <5>1. j \in 1 .. N /\ Cardinality(routes[j].mask) \in Nat
          BY <1>1, <2>2
        <5> QED
          BY <2>3, <2>6, <2>7, <2>8, <4>2, <5>1 DEF Longest
      <4> QED
        BY <4>1, <4>2
    <3> QED
      BY <2>2, <2>4, <2>7, <2>8, <3>1, <3>2 DEF Longest
  <2>9. CASE ~ (Matches(routes[i], addr) /\ n > b.len)
    <3>1. c = b
      BY <2>3, <2>7, <2>9 DEF step
    <3>2. CASE b.len = -1
      <4>1. ~ Matches(routes[i], addr)
        BY <2>7, <2>9, <3>2
      <4>2. \A j \in 1 .. i : ~ Matches(routes[j], addr)
        BY <2>3, <2>4, <3>2, <4>1 DEF Longest
      <4>3. Longest(i, b, addr)
        BY <2>3, <3>2, <4>2 DEF Longest
      <4> QED
        BY <2>2, <3>1, <4>3, Zenon
    <3>3. CASE b.len # -1
      <4>1. PICK q \in 1 .. k : Matches(routes[q], addr) /\ b.route = routes[q]
        BY <2>3, <3>3 DEF Longest
      <4>2. Matches(routes[i], addr) => n <= b.len
        BY <2>6, <2>7, <2>9
      <4>3. \A j \in 1 .. i : Matches(routes[j], addr) => Cardinality(routes[j].mask) <= b.len
        BY <2>3, <2>4, <2>7, <3>3, <4>2 DEF Longest
      <4>4. Longest(i, b, addr)
        BY <2>3, <2>5, <3>3, <4>1, <4>3 DEF Longest
      <4> QED
        BY <2>2, <3>1, <4>4, Zenon
    <3> QED
      BY <3>2, <3>3
  <2> QED
    BY <2>8, <2>9
<1> HIDE DEF G
<1>12. \A i \in 0 .. N : i \in G
  BY <1>1, <1>10, <1>11, UpTo
<1>13. Longest(N, best[N], addr)
  BY <1>1, <1>12 DEF G
<1> QED
  BY <1>4, <1>13 DEF N

LEMMA RouteNextInv ==
  ASSUME routes \in Seq(RouteSet), [SockNext \/ RouteNext]_SockVars
  PROVE  routes' \in Seq(RouteSet)
<1>1. CASE UNCHANGED SockVars \/ SockNext
  <2>1. UNCHANGED routes
    <3>1. CASE UNCHANGED SockVars
      BY <3>1 DEF SockVars
    <3>2. CASE SockCall
      BY <3>2, ZenonT(30) DEF SockCall, socket_create, socket_bind, socket_connect, tcp_listen, tcp_accept, socket_close,
         tcp_close, tcp_send, socket_recv, tcp_recv, udp_recvfrom, Deliver
    <3>3. ASSUME NEW seg, ip_rx(seg) PROVE UNCHANGED routes
      BY <3>3 DEF ip_rx, tcp_rx, udp_rx, Take
    <3> QED
      BY <1>1, <3>1, <3>2, <3>3 DEF SockNext
  <2> QED
    BY <2>1
<1>2. CASE RouteNext
  <2>1. PICK net \in Nets, mask \in Masks : route_add(net, mask) \/ route_del(net, mask)
    BY <1>2 DEF RouteNext
  <2>2. CASE route_add(net, mask)
    <3>1. [net |-> net, mask |-> mask] \in RouteSet
      BY SocketsAssumption DEF RouteSet
    <3> QED
      BY <2>2, <3>1 DEF route_add
  <2>3. CASE route_del(net, mask)
    <3>1. PICK i, n : /\ n = Len(routes) - 1
                      /\ routes' = [k \in 1 .. n |-> IF k < i THEN routes[k] ELSE routes[k + 1]]
      BY <2>3 DEF route_del
    <3>2. routes # <<>> /\ n \in Nat
      BY <2>3, <3>1 DEF route_del
    <3>3. \A k \in 1 .. n : routes[k] \in RouteSet /\ routes[k + 1] \in RouteSet
      BY <3>1, <3>2
    <3> QED
      BY <3>1, <3>2, <3>3
  <2> QED
    BY <2>1, <2>2, <2>3
<1> QED
  BY <1>1, <1>2

\* For every address length, every table of additions and removals and every address,
\* the lookup returns a longest match.
THEOREM RoutesAreLongest == MachineSpec => []RouteIsLongest
<1>1. MachineInit => RouteInv
  BY DEF RouteInv, MachineInit, socket_init, ip_init, RouteSet
<1>2. RouteInv /\ [MachineNext]_MachineVars => RouteInv'
  BY MachineParts, RouteNextInv DEF RouteInv
<1>3. RouteInv => RouteIsLongest
  <2>1. SUFFICES ASSUME routes \in Seq(RouteSet), NEW addr \in SUBSET AddrBits, NEW match, NEW r,
                        match = {routes[i] : i \in {j \in DOMAIN routes : Matches(routes[j], addr)}},
                        r = route_lookup(addr)
                 PROVE  IF match = {} THEN r = NoRoute
                        ELSE r \in match /\ \A o \in match : Cardinality(o.mask) <= Cardinality(r.mask)
    BY ZenonT(30) DEF RouteInv, RouteIsLongest
  <2>2. PICK b : b.route = r /\ Longest(Len(routes), b, addr)
    BY <2>1, LookupLongest
  <2>3. DOMAIN routes = 1 .. Len(routes)
    BY <2>1
  <2>4. CASE b.len = -1
    <3>1. match = {} /\ r = NoRoute
      BY <2>1, <2>2, <2>3, <2>4 DEF Longest
    <3> QED
      BY <3>1
  <2>5. CASE b.len # -1
    <3>1. r \in match
      BY <2>1, <2>2, <2>3, <2>5 DEF Longest
    <3>2. ASSUME NEW o \in match PROVE Cardinality(o.mask) <= Cardinality(r.mask)
      <4>1. PICK j \in 1 .. Len(routes) : o = routes[j] /\ Matches(routes[j], addr)
        BY <2>1, <2>3
      <4> QED
        BY <2>2, <2>5, <4>1 DEF Longest
    <3> QED
      BY <3>1, <3>2
  <2> QED
    BY <2>4, <2>5
<1> QED
  BY <1>1, <1>2, <1>3, PTL DEF MachineSpec
-----------------------------------------------------------------------------
(***************************************************************************)
(* The hash tables.                                                        *)
(***************************************************************************)
Places == 0 .. (HashCapacity - 1)

\* The i-th probe of k is in the set, and no earlier one is.
FirstIn(k, i, stops) == i \in Places /\ Probe(k, i) \in stops /\ \A j \in 0 .. (i - 1) : Probe(k, j) \notin stops

LEMMA BelowPlace == \A i \in Places : i \in Nat /\ \A j \in 0 .. (i - 1) : j \in Places /\ ~ (i <= j)
<1>1. HashCapacity \in Nat \ {0}
  BY ContainersAssumption
<1> QED
  BY <1>1 DEF Places

LEMMA ProbePlace == \A k \in HashKeys : \A i \in Places : Probe(k, i) \in Places /\ Probe(k, i) # NoItem
BY ContainersAssumption DEF Places, Probe

LEMMA FirstHit ==
  ASSUME NEW k \in HashKeys, NEW stops, NEW p, p = FirstProbe(k, stops)
  PROVE  /\ p # NoItem => \E i \in Places : p = Probe(k, i) /\ FirstIn(k, i, stops)
         /\ \A i \in Places : FirstIn(k, i, stops) => p = Probe(k, i) /\ p # NoItem
<1> DEFINE hits == {i \in 0 .. (HashCapacity - 1) : Probe(k, i) \in stops}
           least == CHOOSE i \in hits : \A j \in hits : i <= j
<1>1. p = IF hits = {} THEN NoItem ELSE Probe(k, least)
  BY DEF FirstProbe
<1>2. hits \in SUBSET Nat /\ hits \subseteq Places
  BY DEF Places
<1>3. ASSUME hits # {} PROVE least \in hits /\ \A j \in hits : least <= j
  <2>1. \E i \in hits : \A j \in hits : i <= j
    BY <1>2, <1>3, LeastElement
  <2> QED
    BY <2>1
<1>4. ASSUME hits # {} PROVE FirstIn(k, least, stops)
  <2>1. PICK i : i = least
    OBVIOUS
  <2>2. i \in Places /\ Probe(k, i) \in stops /\ \A j \in hits : i <= j
    BY <1>2, <1>3, <1>4, <2>1
  <2>3. ASSUME NEW j \in 0 .. (i - 1), Probe(k, j) \in stops PROVE FALSE
    <3>1. j \in hits /\ ~ (i <= j)
      BY <2>2, <2>3, BelowPlace DEF Places
    <3> QED
      BY <2>2, <3>1
  <2>4. FirstIn(k, i, stops)
    BY <2>2, <2>3 DEF FirstIn
  <2> QED
    BY <2>1, <2>4
<1>5. ASSUME NEW i \in Places, FirstIn(k, i, stops) PROVE hits # {} /\ least = i
  <2>1. i \in hits
    BY <1>5 DEF FirstIn, Places
  <2>2. least \in hits /\ least <= i
    BY <1>3, <2>1
  <2>3. PICK l : l = least
    OBVIOUS
  <2>4. l \in Nat /\ i \in Nat /\ l <= i /\ Probe(k, l) \in stops
    BY <1>2, <2>1, <2>2, <2>3
  <2>5. ~ (l < i)
    BY <1>5, <2>4 DEF FirstIn
  <2> QED
    BY <2>1, <2>3, <2>4, <2>5
<1> HIDE DEF hits, least
<1> QED
  BY <1>1, <1>2, <1>3, <1>4, <1>5, ProbePlace

\* The entries of a table, and where a key is: the first live entry of k on its way is
\* before every place that was never used, and has the value x.
EntryFields == {"key", "value", "occupied", "deleted"}
HashEntries(e) == DOMAIN e = Places /\ \A p \in Places : DOMAIN e[p] = EntryFields

FindStops(e, k) == {i \in DOMAIN e : ~e[i].occupied \/ LiveEntry(e[i], k)}
PutStops(e, k) == {i \in DOMAIN e : ~e[i].occupied \/ e[i].deleted \/ e[i].key = k}

HasKey(e, k, x) ==
    \E i \in Places : LET p == Probe(k, i) IN
        FirstIn(k, i, FindStops(e, k)) /\ LiveEntry(e[p], k) /\ e[p].value = x

\* A step writes the place p.
OnlyPlace(e, f, p) == DOMAIN f = Places /\ \A q \in Places \ {p} : f[q] = e[q]

\* Another key stays where it is when p gets, or loses, an entry of k.
LEMMA OtherKeyStays ==
  ASSUME NEW e, NEW f, NEW k \in HashKeys, NEW q \in HashKeys \ {k}, NEW x, NEW p \in Places,
         DOMAIN e = Places, OnlyPlace(e, f, p), HasKey(e, q, x), ~ LiveEntry(e[p], q),
         f[p].occupied, f[p].key = k
  PROVE  HasKey(f, q, x)
<1>1. PICK i \in Places : /\ FirstIn(q, i, FindStops(e, q)) /\ LiveEntry(e[Probe(q, i)], q)
                          /\ e[Probe(q, i)].value = x
  BY DEF HasKey
<1>2. Probe(q, i) \in Places /\ Probe(q, i) # p /\ f[Probe(q, i)] = e[Probe(q, i)]
  BY <1>1, ProbePlace DEF OnlyPlace
<1>3. p \notin FindStops(f, q)
  BY DEF FindStops, LiveEntry
<1>4. \A r \in Places \ {p} : r \in FindStops(f, q) <=> r \in FindStops(e, q)
  BY DEF FindStops, OnlyPlace
<1>5. \A j \in 0 .. (i - 1) : Probe(q, j) \in Places
  BY ProbePlace, BelowPlace
<1>6. FirstIn(q, i, FindStops(f, q))
  BY <1>1, <1>2, <1>3, <1>4, <1>5 DEF FirstIn
<1> QED
  BY <1>1, <1>2, <1>6 DEF HasKey

LEMMA KeyIsPut ==
  ASSUME NEW e, NEW f, NEW k \in HashKeys, NEW x, NEW i \in Places, NEW p, p = Probe(k, i),
         DOMAIN e = Places, FirstIn(k, i, PutStops(e, k)), OnlyPlace(e, f, p),
         LiveEntry(f[p], k), f[p].value = x
  PROVE  HasKey(f, k, x)
<1>1. p \in Places /\ p \in FindStops(f, k)
  BY ProbePlace DEF FindStops, OnlyPlace
<1>2. ASSUME NEW j \in 0 .. (i - 1) PROVE Probe(k, j) \notin FindStops(f, k)
  <2>1. PICK r : r = Probe(k, j)
    OBVIOUS
  <2>2. r \in Places /\ r \notin PutStops(e, k) /\ r # p
    BY <2>1, ProbePlace, BelowPlace, <1>1 DEF FirstIn
  <2>3. f[r] = e[r]
    BY <2>2 DEF OnlyPlace
  <2>4. r \notin FindStops(f, k)
    BY <2>2, <2>3 DEF FindStops, PutStops, LiveEntry
  <2> QED
    BY <2>1, <2>4
<1>3. FirstIn(k, i, FindStops(f, k))
  BY <1>1, <1>2 DEF FirstIn
<1> QED
  BY <1>3 DEF HasKey

\* A key has one live entry at most, and none when it is not in the map m.
HasOne(e, k) == \A p \in Places, q \in Places : LiveEntry(e[p], k) /\ LiveEntry(e[q], k) => p = q
HasNone(e, k) == \A p \in Places : ~LiveEntry(e[p], k)

\* The table stands for the map m; two entries are of keys that were entered twice, in tw.
TabInv(t, m, tw) ==
    /\ DOMAIN t = {"entries", "size", "max_load"} /\ HashEntries(t.entries) /\ DOMAIN m = HashKeys
    /\ \A k \in HashKeys : m[k] # NoItem => HasKey(t.entries, k, m[k])
    /\ \A k \in HashKeys \ tw : HasOne(t.entries, k) /\ (m[k] = NoItem => HasNone(t.entries, k))

\* What a step that writes an entry of k at p leaves of the other keys.
LEMMA OtherKeyOnce ==
  ASSUME NEW e, NEW f, NEW k, NEW q, q # k, NEW p \in Places, OnlyPlace(e, f, p), f[p].key = k
  PROVE  (HasOne(e, q) => HasOne(f, q)) /\ (HasNone(e, q) => HasNone(f, q))
<1>1. \A r \in Places : LiveEntry(f[r], q) => LiveEntry(e[r], q)
  BY DEF LiveEntry, OnlyPlace
<1> QED
  BY <1>1 DEF HasOne, HasNone

LEMMA TableFinds ==
  ASSUME NEW t, NEW k \in HashKeys, NEW x, DOMAIN t.entries = Places, HasKey(t.entries, k, x)
  PROVE  HashFind(t, k) # NoItem /\ t.entries[HashFind(t, k)].value = x
<1>1. PICK e, p : e = t.entries /\ p = FirstProbe(k, FindStops(e, k))
  OBVIOUS
<1>2. PICK i \in Places : FirstIn(k, i, FindStops(e, k)) /\ LiveEntry(e[Probe(k, i)], k) /\ e[Probe(k, i)].value = x
  BY <1>1 DEF HasKey
<1>3. p = Probe(k, i) /\ p # NoItem
  BY <1>1, <1>2, FirstHit
<1>4. HashFind(t, k) = IF p # NoItem /\ e[p].occupied THEN p ELSE NoItem
  BY <1>1 DEF HashFind, FindStops
<1> QED
  BY <1>1, <1>2, <1>3, <1>4 DEF LiveEntry

LEMMA HashPutInv ==
  ASSUME NEW t, NEW m, NEW tw, TabInv(t, m, tw), NEW k \in HashKeys, NEW x \in Items, PutWorks(t, k)
  PROVE  TabInv(hash_put(t, k, x), [m EXCEPT ![k] = x], tw \cup {q \in {k} : EntersTwice(t, q)})
<1>1. PICK e, p : e = t.entries /\ p = PutPlace(t, k)
  OBVIOUS
<1>2. HashEntries(e) /\ DOMAIN e = Places /\ DOMAIN m = HashKeys
  BY <1>1 DEF TabInv, HashEntries
<1>3. p = FirstProbe(k, PutStops(e, k)) /\ p # NoItem
  BY <1>1 DEF PutPlace, PutStops, PutWorks
<1>4. PICK i \in Places : p = Probe(k, i) /\ FirstIn(k, i, PutStops(e, k))
  BY <1>3, FirstHit
<1>5. p \in Places /\ p \in PutStops(e, k) /\ DOMAIN e[p] = EntryFields
  BY <1>2, <1>4, ProbePlace DEF FirstIn, HashEntries
<1>6. PICK u, f : u = hash_put(t, k, x) /\ f = u.entries
  OBVIOUS
<1>7. /\ DOMAIN u = {"entries", "size", "max_load"} /\ OnlyPlace(e, f, p) /\ DOMAIN f[p] = EntryFields
      /\ LiveEntry(f[p], k) /\ f[p].value = x
  <2>1. CASE LiveEntry(e[p], k)
    <3>1. u = [t EXCEPT !.entries[p].value = x]
      BY <1>1, <1>6, <2>1 DEF hash_put
    <3>2. DOMAIN u = DOMAIN t /\ f = [e EXCEPT ![p].value = x]
      BY <1>1, <1>6, <3>1 DEF TabInv
    <3>3. f[p] = [e[p] EXCEPT !.value = x] /\ OnlyPlace(e, f, p)
      BY <1>2, <1>5, <3>2 DEF OnlyPlace
    <3>4. DOMAIN f[p] = EntryFields /\ f[p].value = x /\ f[p].occupied = e[p].occupied /\ f[p].deleted = e[p].deleted
          /\ f[p].key = e[p].key
      BY <1>5, <3>3 DEF EntryFields
    <3> QED
      BY <2>1, <3>2, <3>3, <3>4 DEF TabInv, LiveEntry
  <2>2. CASE ~ LiveEntry(e[p], k)
    <3>1. PICK r : r = [key |-> k, value |-> x, occupied |-> TRUE, deleted |-> FALSE]
      OBVIOUS
    <3>2. u = [t EXCEPT !.entries[p] = r, !.size = @ + 1]
      BY <1>1, <1>6, <2>2, <3>1 DEF hash_put
    <3>3. DOMAIN u = DOMAIN t /\ f = [e EXCEPT ![p] = r]
      BY <1>1, <1>6, <3>2 DEF TabInv
    <3>4. f[p] = r /\ OnlyPlace(e, f, p)
      BY <1>2, <1>5, <3>3 DEF OnlyPlace
    <3> QED
      BY <3>1, <3>3, <3>4 DEF TabInv, LiveEntry, EntryFields
  <2> QED
    BY <2>1, <2>2
<1>8. HashEntries(f)
  BY <1>2, <1>7 DEF HashEntries, OnlyPlace
<1>9. HasKey(f, k, x)
  BY <1>2, <1>4, <1>7, KeyIsPut
<1>10. ASSUME NEW q \in HashKeys \ {k}, m[q] # NoItem PROVE HasKey(f, q, m[q])
  <2>1. HasKey(e, q, m[q])
    BY <1>1, <1>10 DEF TabInv
  <2>2. ~ LiveEntry(e[p], q)
    BY <1>5, <1>10 DEF PutStops, LiveEntry
  <2>3. f[p].occupied /\ f[p].key = k
    BY <1>7 DEF LiveEntry
  <2> QED
    BY <1>2, <1>5, <1>7, <1>10, <2>1, <2>2, <2>3, OtherKeyStays
<1>11. PICK n : n = [m EXCEPT ![k] = x]
  OBVIOUS
<1>12. DOMAIN n = HashKeys /\ n[k] = x /\ \A q \in HashKeys \ {k} : n[q] = m[q]
  BY <1>2, <1>11
<1>13. PICK v : v = tw \cup {q \in {k} : EntersTwice(t, q)}
  OBVIOUS
<1>14. ASSUME NEW q \in HashKeys \ v PROVE HasOne(f, q) /\ (n[q] = NoItem => HasNone(f, q))
  <2>1. q \notin tw
    BY <1>13, <1>14
  <2>2. HasOne(e, q) /\ (m[q] = NoItem => HasNone(e, q))
    BY <1>1, <1>14, <2>1 DEF TabInv
  <2>3. CASE q # k
    <3>1. f[p].key = k
      BY <1>7 DEF LiveEntry
    <3>2. (HasOne(e, q) => HasOne(f, q)) /\ (HasNone(e, q) => HasNone(f, q))
      BY <1>5, <1>7, <2>3, <3>1, OtherKeyOnce
    <3> QED
      BY <1>12, <1>14, <2>2, <2>3, <3>2
  <2>4. CASE q = k
    <3>1. ~EntersTwice(t, k)
      BY <1>13, <1>14, <2>4
    <3>2. \A r \in Places \ {p} : ~LiveEntry(f[r], k)
      BY <1>1, <1>2, <1>7, <3>1 DEF EntersTwice, OnlyPlace
    <3>3. n[k] # NoItem
      BY <1>12, ContainersAssumption
    <3> QED
      BY <2>4, <3>2, <3>3 DEF HasOne
  <2> QED
    BY <2>3, <2>4
<1>15. TabInv(u, n, v)
  BY <1>6, <1>7, <1>8, <1>9, <1>10, <1>12, <1>14 DEF TabInv
<1> QED
  BY <1>6, <1>11, <1>13, <1>15

LEMMA HashRemoveInv ==
  ASSUME NEW t, NEW m, NEW tw, TabInv(t, m, tw), NEW k \in HashKeys, HashFind(t, k) # NoItem
  PROVE  TabInv(hash_remove(t, k), [m EXCEPT ![k] = NoItem], tw)
<1>1. PICK e, p : e = t.entries /\ p = FirstProbe(k, FindStops(e, k))
  OBVIOUS
<1>2. HashEntries(e) /\ DOMAIN e = Places /\ DOMAIN m = HashKeys
  BY <1>1 DEF TabInv, HashEntries
<1>3. HashFind(t, k) = p /\ p # NoItem /\ e[p].occupied
  BY <1>1 DEF HashFind, FindStops
<1>4. PICK i \in Places : p = Probe(k, i) /\ FirstIn(k, i, FindStops(e, k))
  BY <1>1, <1>3, FirstHit
<1>5. p \in Places /\ p \in FindStops(e, k) /\ DOMAIN e[p] = EntryFields
  BY <1>2, <1>4, ProbePlace DEF FirstIn, HashEntries
<1>6. LiveEntry(e[p], k)
  BY <1>3, <1>5 DEF FindStops
<1>7. PICK u, f : u = hash_remove(t, k) /\ f = u.entries
  OBVIOUS
<1>8. /\ DOMAIN u = {"entries", "size", "max_load"} /\ OnlyPlace(e, f, p) /\ DOMAIN f[p] = EntryFields
      /\ f[p].occupied /\ f[p].key = k /\ f[p].deleted = TRUE
  <2>1. u = [t EXCEPT !.entries[p].deleted = TRUE, !.size = @ - 1]
    BY <1>3, <1>7 DEF hash_remove
  <2>2. DOMAIN u = DOMAIN t /\ f = [e EXCEPT ![p].deleted = TRUE]
    BY <1>1, <1>7, <2>1 DEF TabInv
  <2>3. f[p] = [e[p] EXCEPT !.deleted = TRUE] /\ OnlyPlace(e, f, p)
    BY <1>2, <1>5, <2>2 DEF OnlyPlace
  <2>4. DOMAIN f[p] = EntryFields /\ f[p].occupied = e[p].occupied /\ f[p].key = e[p].key /\ f[p].deleted = TRUE
    BY <1>5, <2>3 DEF EntryFields
  <2> QED
    BY <1>6, <2>2, <2>3, <2>4 DEF TabInv, LiveEntry
<1>9. HashEntries(f)
  BY <1>2, <1>8 DEF HashEntries, OnlyPlace
<1>10. ASSUME NEW q \in HashKeys \ {k}, m[q] # NoItem PROVE HasKey(f, q, m[q])
  <2>1. HasKey(e, q, m[q])
    BY <1>1, <1>10 DEF TabInv
  <2>2. ~ LiveEntry(e[p], q)
    BY <1>6, <1>10 DEF LiveEntry
  <2> QED
    BY <1>2, <1>5, <1>8, <1>10, <2>1, <2>2, OtherKeyStays
<1>11. PICK n : n = [m EXCEPT ![k] = NoItem]
  OBVIOUS
<1>12. DOMAIN n = HashKeys /\ n[k] = NoItem /\ \A q \in HashKeys \ {k} : n[q] = m[q]
  BY <1>2, <1>11
<1>13. ASSUME NEW q \in HashKeys \ tw PROVE HasOne(f, q) /\ (n[q] = NoItem => HasNone(f, q))
  <2>1. HasOne(e, q) /\ (m[q] = NoItem => HasNone(e, q))
    BY <1>1, <1>13 DEF TabInv
  <2>2. CASE q # k
    <3>1. (HasOne(e, q) => HasOne(f, q)) /\ (HasNone(e, q) => HasNone(f, q))
      BY <1>5, <1>8, <2>2, OtherKeyOnce
    <3> QED
      BY <1>12, <1>13, <2>1, <2>2, <3>1
  <2>3. CASE q = k
    <3>1. ASSUME NEW r \in Places PROVE ~LiveEntry(f[r], k)
      <4>1. CASE r = p
        BY <1>8, <4>1 DEF LiveEntry
      <4>2. CASE r # p
        BY <1>5, <1>6, <1>8, <2>1, <2>3, <4>2 DEF HasOne, OnlyPlace
      <4> QED
        BY <4>1, <4>2
    <3> QED
      BY <2>3, <3>1 DEF HasOne, HasNone
  <2> QED
    BY <2>2, <2>3
<1>14. TabInv(u, n, tw)
  BY <1>7, <1>8, <1>9, <1>10, <1>12, <1>13 DEF TabInv
<1> QED
  BY <1>7, <1>11, <1>14

\* The table of strings: where the last entry of a key is.  No entry of the key is before
\* it, and each free place before it is in fr, the places that removals freed.
StrStops(ks, k) == {i \in DOMAIN ks : ks[i] \in {NoItem, k}}

PassedBy(ks, k, fr, r) == ks[r] # k /\ (ks[r] = NoItem => r \in fr)

HasString(t, k, x, fr) ==
    \E i \in Places : /\ t.keys[Probe(k, i)] = k /\ t.values[Probe(k, i)] = x
                      /\ \A j \in 0 .. (i - 1) : PassedBy(t.keys, k, fr, Probe(k, j))

InOnePlace(ks, k) == \A p \in Places, q \in Places : ks[p] = k /\ ks[q] = k => p = q
Nowhere(ks, k) == \A p \in Places : ks[p] # k

StrInv(t, m, tw, fr) ==
    /\ DOMAIN t = {"keys", "values", "size"} /\ DOMAIN t.keys = Places /\ DOMAIN t.values = Places
    /\ DOMAIN m = HashKeys
    /\ \A k \in HashKeys : m[k] # NoItem => HasString(t, k, m[k], fr)
    /\ \A k \in HashKeys \ tw : InOnePlace(t.keys, k) /\ (m[k] = NoItem => Nowhere(t.keys, k))

\* What str_hash_get makes of the place where the search stops.
LEMMA StrGetIs ==
  ASSUME NEW t, NEW k, NEW p, p = StrPlace(t, k)
  PROVE  /\ p = FirstProbe(k, StrStops(t.keys, k))
         /\ str_hash_get(t, k) = IF p # NoItem /\ t.keys[p] = k THEN t.values[p] ELSE NoItem
BY DEF StrPlace, StrStops, str_hash_get

LEMMA StringsFind ==
  ASSUME NEW t, NEW m, NEW tw, NEW fr, StrInv(t, m, tw, fr), NEW k \in HashKeys
  PROVE  \/ str_hash_get(t, k) = m[k]
         \/ IF m[k] # NoItem THEN StrPlace(t, k) \in fr ELSE k \in tw
<1>1. PICK p : p = StrPlace(t, k)
  OBVIOUS
<1>2. /\ p = FirstProbe(k, StrStops(t.keys, k))
      /\ str_hash_get(t, k) = IF p # NoItem /\ t.keys[p] = k THEN t.values[p] ELSE NoItem
  BY <1>1, StrGetIs
<1>3. CASE m[k] = NoItem
  <2>1. p # NoItem => p \in Places
    BY <1>2, FirstHit, ProbePlace
  <2> QED
    BY <1>2, <1>3, <2>1 DEF StrInv, Nowhere
<1>4. CASE m[k] # NoItem
  <2>a. HasString(t, k, m[k], fr) /\ DOMAIN t.keys = Places
    BY <1>4 DEF StrInv
  <2>b. PICK ks : ks = t.keys
    OBVIOUS
  <2>c. PICK i \in Places : /\ ks[Probe(k, i)] = k /\ t.values[Probe(k, i)] = m[k]
                            /\ \A j \in 0 .. (i - 1) : PassedBy(ks, k, fr, Probe(k, j))
    BY <2>a, <2>b DEF HasString
  <2>1. /\ ks = t.keys /\ DOMAIN ks = Places
        /\ ks[Probe(k, i)] = k /\ t.values[Probe(k, i)] = m[k]
        /\ \A j \in 0 .. (i - 1) : PassedBy(ks, k, fr, Probe(k, j))
    BY <2>a, <2>b, <2>c
  <2>2. i \in Nat /\ Probe(k, i) \in Places /\ \A j \in 0 .. (i - 1) : j \in Places /\ Probe(k, j) \in Places
    BY ProbePlace, BelowPlace
  <2>3. PICK J : J = {j \in 0 .. (i - 1) : ks[Probe(k, j)] = NoItem}
    OBVIOUS
  <2>4. CASE J = {}
    <3>1. \A j \in 0 .. (i - 1) : Probe(k, j) \notin StrStops(ks, k)
      BY <2>1, <2>3, <2>4 DEF StrStops, PassedBy
    <3>2. FirstIn(k, i, StrStops(ks, k))
      BY <2>1, <2>2, <3>1 DEF FirstIn, StrStops
    <3>3. p = Probe(k, i) /\ p # NoItem
      BY <1>2, <2>1, <3>2, FirstHit
    <3> QED
      BY <1>2, <2>1, <3>3
  <2>5. CASE J # {}
    <3>1. J \in SUBSET Nat
      BY <2>2, <2>3
    <3>2. PICK h \in J : \A j \in J : h <= j
      BY <2>5, <3>1, LeastElement
    <3>3. h \in 0 .. (i - 1) /\ h \in Places /\ ks[Probe(k, h)] = NoItem /\ Probe(k, h) \in Places
      BY <2>2, <2>3
    <3>4. ASSUME NEW j \in 0 .. (h - 1) PROVE Probe(k, j) \notin StrStops(ks, k)
      <4>1. j \in 0 .. (i - 1) /\ ~ (h <= j)
        BY <2>2, <3>3
      <4>2. j \notin J
        BY <3>2, <4>1
      <4>3. ks[Probe(k, j)] # NoItem /\ ks[Probe(k, j)] # k
        BY <2>1, <2>3, <4>1, <4>2 DEF PassedBy
      <4> QED
        BY <4>3 DEF StrStops
    <3>5. FirstIn(k, h, StrStops(ks, k))
      BY <2>1, <3>3, <3>4 DEF FirstIn, StrStops
    <3>6. p = Probe(k, h)
      BY <1>2, <2>1, <3>3, <3>5, FirstHit
    <3>7. Probe(k, h) \in fr
      BY <2>1, <3>3 DEF PassedBy
    <3> QED
      BY <1>1, <1>4, <3>6, <3>7
  <2> QED
    BY <2>4, <2>5
<1> QED
  BY <1>3, <1>4

\* A step that writes the place p leaves the other keys, when p is not theirs and is
\* filled, or is free and in fr.
LEMMA OtherStringStays ==
  ASSUME NEW t, NEW u, NEW q \in HashKeys, NEW x, NEW fr, NEW gr, NEW p \in Places, HasString(t, q, x, fr),
         t.keys[p] # q, PassedBy(u.keys, q, gr, p), fr \ {p} \subseteq gr,
         \A r \in Places \ {p} : u.keys[r] = t.keys[r] /\ u.values[r] = t.values[r]
  PROVE  HasString(u, q, x, gr)
<1>1. PICK l \in Places : /\ t.keys[Probe(q, l)] = q /\ t.values[Probe(q, l)] = x
                          /\ \A j \in 0 .. (l - 1) : PassedBy(t.keys, q, fr, Probe(q, j))
  BY DEF HasString
<1>2. Probe(q, l) \in Places /\ Probe(q, l) # p
  BY <1>1, ProbePlace
<1>3. ASSUME NEW j \in 0 .. (l - 1) PROVE PassedBy(u.keys, q, gr, Probe(q, j))
  <2>1. PICK r : r = Probe(q, j) /\ r \in Places
    BY ProbePlace, BelowPlace
  <2>2. PassedBy(t.keys, q, fr, r)
    BY <1>1, <2>1
  <2>3. PassedBy(u.keys, q, gr, r)
    BY <2>1, <2>2 DEF PassedBy
  <2> QED
    BY <2>1, <2>3
<1> QED
  BY <1>1, <1>2, <1>3 DEF HasString

LEMMA OtherStringOnce ==
  ASSUME NEW ks, NEW us, NEW q, NEW p \in Places, us[p] # q, \A r \in Places \ {p} : us[r] = ks[r]
  PROVE  (InOnePlace(ks, q) => InOnePlace(us, q)) /\ (Nowhere(ks, q) => Nowhere(us, q))
<1>1. \A r \in Places : us[r] = q => ks[r] = q
  OBVIOUS
<1> QED
  BY <1>1 DEF InOnePlace, Nowhere

LEMMA StrPutInv ==
  ASSUME NEW t, NEW m, NEW tw, NEW fr, StrInv(t, m, tw, fr),
         NEW k \in HashKeys, NEW x \in Items, StrPlace(t, k) # NoItem
  PROVE  StrInv(str_hash_put(t, k, x), [m EXCEPT ![k] = x],
                tw \cup {q \in {k} : StrEntersTwice(t, q)}, fr \ {StrPlace(t, k)})
<1>1. PICK p : p = StrPlace(t, k)
  OBVIOUS
<1>2. p = FirstProbe(k, StrStops(t.keys, k)) /\ p # NoItem
  BY <1>1, StrGetIs
<1>3. PICK i \in Places : p = Probe(k, i) /\ FirstIn(k, i, StrStops(t.keys, k))
  BY <1>2, FirstHit
<1>4. p \in Places /\ t.keys[p] \in {NoItem, k} /\ DOMAIN t.keys = Places /\ DOMAIN t.values = Places /\ DOMAIN m = HashKeys
  BY <1>3, ProbePlace DEF FirstIn, StrStops, StrInv
<1>5. PICK u, n, v, gr : /\ u = str_hash_put(t, k, x) /\ n = [m EXCEPT ![k] = x]
                         /\ v = tw \cup {q \in {k} : StrEntersTwice(t, q)} /\ gr = fr \ {p}
  OBVIOUS
<1>6. DOMAIN u = {"keys", "values", "size"} /\ u.keys = [t.keys EXCEPT ![p] = k] /\ u.values = [t.values EXCEPT ![p] = x]
  BY <1>1, <1>5 DEF str_hash_put
<1>7. /\ DOMAIN u.keys = Places /\ DOMAIN u.values = Places /\ u.keys[p] = k /\ u.values[p] = x
      /\ \A q \in Places \ {p} : u.keys[q] = t.keys[q] /\ u.values[q] = t.values[q]
  BY <1>4, <1>6
<1>8. n[k] = x /\ x # NoItem /\ k # NoItem /\ DOMAIN n = HashKeys /\ \A q \in HashKeys \ {k} : n[q] = m[q] /\ q # NoItem
  BY <1>4, <1>5, ContainersAssumption
<1>9. HasString(u, k, x, gr)
  <2>1. ASSUME NEW j \in 0 .. (i - 1) PROVE PassedBy(u.keys, k, gr, Probe(k, j))
    <3>1. PICK r : r = Probe(k, j)
      OBVIOUS
    <3>2. r \in Places /\ r \notin StrStops(t.keys, k) /\ r # p
      BY <1>3, <1>4, <3>1, ProbePlace, BelowPlace DEF FirstIn, StrStops
    <3>3. PassedBy(u.keys, k, gr, r)
      BY <1>4, <1>7, <3>2 DEF StrStops, PassedBy
    <3> QED
      BY <3>1, <3>3
  <2> QED
    BY <1>3, <1>7, <2>1 DEF HasString
<1>10. ASSUME NEW q \in HashKeys \ {k}, n[q] # NoItem PROVE HasString(u, q, n[q], gr)
  <2>1. HasString(t, q, m[q], fr)
    BY <1>8, <1>10 DEF StrInv
  <2>2. t.keys[p] # q /\ PassedBy(u.keys, q, gr, p) /\ fr \ {p} \subseteq gr
    BY <1>4, <1>5, <1>7, <1>8, <1>10 DEF PassedBy
  <2>3. HasString(u, q, m[q], gr)
    BY <1>4, <1>7, <2>1, <2>2, OtherStringStays
  <2> QED
    BY <1>8, <1>10, <2>3
<1>11. ASSUME NEW q \in HashKeys \ v PROVE InOnePlace(u.keys, q) /\ (n[q] = NoItem => Nowhere(u.keys, q))
  <2>1. q \notin tw
    BY <1>5, <1>11
  <2>2. InOnePlace(t.keys, q) /\ (m[q] = NoItem => Nowhere(t.keys, q))
    BY <1>11, <2>1 DEF StrInv
  <2>3. CASE q # k
    <3>1. (InOnePlace(t.keys, q) => InOnePlace(u.keys, q)) /\ (Nowhere(t.keys, q) => Nowhere(u.keys, q))
      BY <1>4, <1>7, <2>3, OtherStringOnce
    <3> QED
      BY <1>8, <1>11, <2>2, <2>3, <3>1
  <2>4. CASE q = k
    <3>1. ~StrEntersTwice(t, k)
      BY <1>5, <1>11, <2>4
    <3>2. \A r \in Places \ {p} : u.keys[r] # k
      BY <1>1, <1>4, <1>7, <3>1 DEF StrEntersTwice
    <3> QED
      BY <1>8, <2>4, <3>2 DEF InOnePlace
  <2> QED
    BY <2>3, <2>4
<1>12. StrInv(u, n, v, gr)
  BY <1>6, <1>7, <1>8, <1>9, <1>10, <1>11 DEF StrInv
<1> QED
  BY <1>1, <1>5, <1>12

LEMMA StrRemoveInv ==
  ASSUME NEW t, NEW m, NEW tw, NEW fr, StrInv(t, m, tw, fr), NEW k \in HashKeys, str_hash_get(t, k) # NoItem
  PROVE  StrInv(str_hash_remove(t, k), [m EXCEPT ![k] = NoItem], tw, fr \cup {StrPlace(t, k)})
<1>1. PICK p : p = StrPlace(t, k)
  OBVIOUS
<1>2. p = FirstProbe(k, StrStops(t.keys, k)) /\ p # NoItem /\ t.keys[p] = k
  BY <1>1, StrGetIs
<1>3. PICK i \in Places : p = Probe(k, i) /\ FirstIn(k, i, StrStops(t.keys, k))
  BY <1>2, FirstHit
<1>4. p \in Places /\ DOMAIN t.keys = Places /\ DOMAIN t.values = Places /\ DOMAIN m = HashKeys
  BY <1>3, ProbePlace DEF StrInv
<1>5. PICK u, n, gr : u = str_hash_remove(t, k) /\ n = [m EXCEPT ![k] = NoItem] /\ gr = fr \cup {p}
  OBVIOUS
<1>6. u = [t EXCEPT !.keys[p] = NoItem, !.size = @ - 1] /\ DOMAIN t = {"keys", "values", "size"}
  BY <1>1, <1>5 DEF str_hash_remove, StrInv
<1>7. DOMAIN u = {"keys", "values", "size"} /\ u.keys = [t.keys EXCEPT ![p] = NoItem] /\ u.values = t.values
  BY <1>6
<1>8. /\ DOMAIN u.keys = Places /\ DOMAIN u.values = Places /\ u.keys[p] = NoItem
      /\ \A q \in Places \ {p} : u.keys[q] = t.keys[q] /\ u.values[q] = t.values[q]
  BY <1>4, <1>7
<1>9. n[k] = NoItem /\ k # NoItem /\ DOMAIN n = HashKeys /\ \A q \in HashKeys \ {k} : n[q] = m[q] /\ q # NoItem
  BY <1>4, <1>5, ContainersAssumption
<1>10. ASSUME NEW q \in HashKeys, n[q] # NoItem PROVE HasString(u, q, n[q], gr)
  <2>1. q # k /\ n[q] = m[q] /\ HasString(t, q, m[q], fr)
    BY <1>9, <1>10 DEF StrInv
  <2>2. t.keys[p] # q /\ PassedBy(u.keys, q, gr, p) /\ fr \ {p} \subseteq gr
    BY <1>2, <1>5, <1>8, <1>9, <2>1 DEF PassedBy
  <2>3. HasString(u, q, m[q], gr)
    BY <1>4, <1>8, <2>1, <2>2, OtherStringStays
  <2> QED
    BY <2>1, <2>3
<1>11. ASSUME NEW q \in HashKeys \ tw PROVE InOnePlace(u.keys, q) /\ (n[q] = NoItem => Nowhere(u.keys, q))
  <2>1. InOnePlace(t.keys, q) /\ (m[q] = NoItem => Nowhere(t.keys, q))
    BY <1>11 DEF StrInv
  <2>2. CASE q # k
    <3>1. u.keys[p] # q
      BY <1>8, <1>9, <2>2
    <3>2. (InOnePlace(t.keys, q) => InOnePlace(u.keys, q)) /\ (Nowhere(t.keys, q) => Nowhere(u.keys, q))
      BY <1>4, <1>8, <3>1, OtherStringOnce
    <3> QED
      BY <1>9, <1>11, <2>1, <2>2, <3>2
  <2>3. CASE q = k
    <3>1. ASSUME NEW r \in Places PROVE u.keys[r] # k
      BY <1>2, <1>4, <1>8, <1>9, <2>1, <2>3 DEF InOnePlace
    <3> QED
      BY <2>3, <3>1 DEF InOnePlace, Nowhere
  <2> QED
    BY <2>2, <2>3
<1>12. StrInv(u, n, tw, gr)
  BY <1>7, <1>8, <1>9, <1>10, <1>11 DEF StrInv
<1> QED
  BY <1>1, <1>5, <1>12

TablesInv ==
    /\ DOMAIN mapref = {"table", "strings", "twice", "strtwice", "freed"}
    /\ TabInv(table, mapref.table, mapref.twice)
    /\ StrInv(strtable, mapref.strings, mapref.strtwice, mapref.freed)

LEMMA TablesInitInv == containers_init => TablesInv
<1> SUFFICES ASSUME containers_init PROVE TablesInv
  OBVIOUS
<1>1. /\ DOMAIN mapref = {"table", "strings", "twice", "strtwice", "freed"}
      /\ DOMAIN mapref.strings = HashKeys /\ DOMAIN mapref.table = HashKeys
      /\ \A k \in HashKeys : mapref.table[k] = NoItem /\ mapref.strings[k] = NoItem
  BY DEF containers_init
<1>2. /\ DOMAIN table = {"entries", "size", "max_load"} /\ HashEntries(table.entries)
      /\ \A p \in Places : ~table.entries[p].occupied
  BY DEF containers_init, HashEntries, EmptyEntry, EntryFields, Places
<1>3. /\ DOMAIN strtable = {"keys", "values", "size"}
      /\ DOMAIN strtable.keys = Places /\ DOMAIN strtable.values = Places /\ \A p \in Places : strtable.keys[p] = NoItem
  BY DEF containers_init, Places
<1>4. NoItem \notin HashKeys
  BY ContainersAssumption
<1>5. TabInv(table, mapref.table, mapref.twice)
  <2>1. PICK e : e = table.entries
    OBVIOUS
  <2>2. \A k \in HashKeys : HasNone(e, k) /\ HasOne(e, k)
    BY <1>2, <2>1 DEF HasOne, HasNone, LiveEntry
  <2> QED
    BY <1>1, <1>2, <2>1, <2>2 DEF TabInv
<1>6. StrInv(strtable, mapref.strings, mapref.strtwice, mapref.freed)
  <2>1. PICK ks : ks = strtable.keys
    OBVIOUS
  <2>2. \A k \in HashKeys : Nowhere(ks, k) /\ InOnePlace(ks, k)
    BY <1>3, <1>4, <2>1 DEF Nowhere, InOnePlace
  <2> QED
    BY <1>1, <1>3, <2>1, <2>2 DEF StrInv
<1> QED
  BY <1>1, <1>5, <1>6 DEF TablesInv

LEMMA HashNextInv ==
  ASSUME TablesInv, HashNext
  PROVE  TablesInv'
<1>1. PICK k \in HashKeys :
          \/ \E x \in Items :
                /\ PutWorks(table, k)
                /\ OnTable(hash_put(table, k, x), [mapref.table EXCEPT ![k] = x], {q \in {k} : EntersTwice(table, q)})
          \/ /\ HashFind(table, k) # NoItem
             /\ OnTable(hash_remove(table, k), [mapref.table EXCEPT ![k] = NoItem], {})
  BY DEF HashNext
<1>2. PICK old, tw : old = mapref.table /\ tw = mapref.twice /\ TabInv(table, old, tw)
  BY DEF TablesInv
<1>3. ASSUME NEW t, NEW m, NEW more, OnTable(t, m, more), TabInv(t, m, tw \cup more)
      PROVE  TablesInv'
  <2>1. /\ table' = t /\ mapref' = [mapref EXCEPT !.table = m, !.twice = mapref.twice \cup more] /\ UNCHANGED strtable
    BY <1>3 DEF OnTable
  <2>2. /\ DOMAIN mapref' = DOMAIN mapref /\ mapref'.table = m /\ mapref'.strings = mapref.strings
        /\ mapref'.twice = tw \cup more /\ mapref'.strtwice = mapref.strtwice /\ mapref'.freed = mapref.freed
    BY <1>2, <2>1 DEF TablesInv
  <2> QED
    BY <1>3, <2>1, <2>2 DEF TablesInv
<1>4. ASSUME NEW x \in Items, PutWorks(table, k),
             OnTable(hash_put(table, k, x), [old EXCEPT ![k] = x], {q \in {k} : EntersTwice(table, q)})
      PROVE  TablesInv'
  <2>1. TabInv(hash_put(table, k, x), [old EXCEPT ![k] = x], tw \cup {q \in {k} : EntersTwice(table, q)})
    BY <1>2, <1>4, HashPutInv
  <2>2. PICK t, m, more : /\ t = hash_put(table, k, x) /\ m = [old EXCEPT ![k] = x]
                          /\ more = {q \in {k} : EntersTwice(table, q)}
    OBVIOUS
  <2> QED
    BY <1>3, <1>4, <2>1, <2>2
<1>5. ASSUME HashFind(table, k) # NoItem, OnTable(hash_remove(table, k), [old EXCEPT ![k] = NoItem], {})
      PROVE  TablesInv'
  <2>1. PICK t, m : t = hash_remove(table, k) /\ m = [old EXCEPT ![k] = NoItem]
    OBVIOUS
  <2>2. TabInv(t, m, tw) /\ tw \cup {} = tw
    BY <1>2, <1>5, <2>1, HashRemoveInv
  <2> QED
    BY <1>3, <1>5, <2>1, <2>2
<1> QED
  BY <1>1, <1>2, <1>4, <1>5

LEMMA StrHashNextInv ==
  ASSUME TablesInv, StrHashNext
  PROVE  TablesInv'
<1>1. PICK k \in HashKeys :
          \/ \E x \in Items :
                /\ StrPlace(strtable, k) # NoItem
                /\ OnStrings(str_hash_put(strtable, k, x), [mapref.strings EXCEPT ![k] = x],
                             {q \in {k} : StrEntersTwice(strtable, q)}, mapref.freed \ {StrPlace(strtable, k)})
          \/ /\ str_hash_get(strtable, k) # NoItem
             /\ OnStrings(str_hash_remove(strtable, k), [mapref.strings EXCEPT ![k] = NoItem],
                          {}, mapref.freed \cup {StrPlace(strtable, k)})
  BY DEF StrHashNext
<1>2. PICK old, tw, fr : /\ old = mapref.strings /\ tw = mapref.strtwice /\ fr = mapref.freed
                         /\ StrInv(strtable, old, tw, fr)
  BY DEF TablesInv
<1>3. ASSUME NEW t, NEW m, NEW more, NEW gr, OnStrings(t, m, more, gr), StrInv(t, m, tw \cup more, gr)
      PROVE  TablesInv'
  <2>1. /\ strtable' = t /\ UNCHANGED table
        /\ mapref' = [mapref EXCEPT !.strings = m, !.strtwice = mapref.strtwice \cup more, !.freed = gr]
    BY <1>3 DEF OnStrings
  <2>2. /\ DOMAIN mapref' = DOMAIN mapref /\ mapref'.table = mapref.table /\ mapref'.strings = m
        /\ mapref'.twice = mapref.twice /\ mapref'.strtwice = tw \cup more /\ mapref'.freed = gr
    BY <1>2, <2>1 DEF TablesInv
  <2> QED
    BY <1>3, <2>1, <2>2 DEF TablesInv
<1>4. ASSUME NEW x \in Items, StrPlace(strtable, k) # NoItem,
             OnStrings(str_hash_put(strtable, k, x), [old EXCEPT ![k] = x],
                       {q \in {k} : StrEntersTwice(strtable, q)}, fr \ {StrPlace(strtable, k)})
      PROVE  TablesInv'
  <2>1. PICK t, m, more, gr : /\ t = str_hash_put(strtable, k, x) /\ m = [old EXCEPT ![k] = x]
                              /\ more = {q \in {k} : StrEntersTwice(strtable, q)} /\ gr = fr \ {StrPlace(strtable, k)}
    OBVIOUS
  <2>2. StrInv(str_hash_put(strtable, k, x), [old EXCEPT ![k] = x],
               tw \cup {q \in {k} : StrEntersTwice(strtable, q)}, fr \ {StrPlace(strtable, k)})
    BY <1>2, <1>4, StrPutInv
  <2> QED
    BY <1>3, <1>4, <2>1, <2>2
<1>5. ASSUME str_hash_get(strtable, k) # NoItem,
             OnStrings(str_hash_remove(strtable, k), [old EXCEPT ![k] = NoItem], {}, fr \cup {StrPlace(strtable, k)})
      PROVE  TablesInv'
  <2>1. PICK t, m, gr : /\ t = str_hash_remove(strtable, k) /\ m = [old EXCEPT ![k] = NoItem]
                        /\ gr = fr \cup {StrPlace(strtable, k)}
    OBVIOUS
  <2>2. StrInv(t, m, tw, gr) /\ tw \cup {} = tw
    BY <1>2, <1>5, <2>1, StrRemoveInv
  <2> QED
    BY <1>3, <1>5, <2>1, <2>2
<1> QED
  BY <1>1, <1>2, <1>4, <1>5

\* For every capacity, hash function and set of keys, after any sequence of puts and
\* removals: both tables answer as the map does, but for a key that was entered twice,
\* which may come back when it is removed, and, in the table of strings, for a search
\* that stops at a place freed by a removal, which may miss a key.
THEOREM TablesAlwaysFind == MachineSpec => []TablesFind
<1>1. MachineInit => TablesInv
  BY TablesInitInv DEF MachineInit
<1>2. TablesInv /\ [VectorNext \/ ListNext \/ RingBufNext \/ HashNext \/ StrHashNext]_ContainerVars => TablesInv'
  <2>1. ASSUME TablesInv, UNCHANGED <<TableVars, mapref>> PROVE TablesInv'
    BY <2>1 DEF TableVars, TablesInv
  <2> QED
    BY <2>1, HashNextInv, StrHashNextInv
    DEF ContainerVars, VectorNext, ListNext, RingBufNext, OnVector, OnList, OnRing
<1>3. TablesInv /\ [MachineNext]_MachineVars => TablesInv'
  BY <1>2, MachineParts
<1>4. TablesInv => TablesFind
  <2>1. SUFFICES ASSUME TablesInv, NEW k \in HashKeys
                 PROVE  /\ LET p == HashFind(table, k) IN
                              IF mapref.table[k] # NoItem THEN p # NoItem /\ table.entries[p].value = mapref.table[k]
                              ELSE p = NoItem \/ k \in mapref.twice
                        /\ \/ str_hash_get(strtable, k) = mapref.strings[k]
                           \/ IF mapref.strings[k] # NoItem THEN StrPlace(strtable, k) \in mapref.freed
                              ELSE k \in mapref.strtwice
    BY DEF TablesFind
  <2>2. PICK x, p : x = mapref.table[k] /\ p = HashFind(table, k)
    OBVIOUS
  <2>3. ASSUME x # NoItem PROVE p # NoItem /\ table.entries[p].value = x
    <3>1. DOMAIN table.entries = Places /\ HasKey(table.entries, k, x)
      BY <2>1, <2>2, <2>3 DEF TablesInv, TabInv, HashEntries
    <3> QED
      BY <2>2, <3>1, TableFinds
  <2>4. ASSUME x = NoItem, k \notin mapref.twice PROVE p = NoItem
    <3>1. DOMAIN table.entries = Places /\ HasNone(table.entries, k)
      BY <2>1, <2>2, <2>4 DEF TablesInv, TabInv, HashEntries
    <3>2. PICK e, r : e = table.entries /\ r = FirstProbe(k, FindStops(e, k))
      OBVIOUS
    <3>3. p = IF r # NoItem /\ e[r].occupied THEN r ELSE NoItem
      BY <2>2, <3>2 DEF HashFind, FindStops
    <3>4. ASSUME r # NoItem PROVE r \in Places /\ r \in FindStops(e, k)
      BY <3>2, <3>4, FirstHit, ProbePlace DEF FirstIn
    <3> QED
      BY <3>1, <3>2, <3>3, <3>4 DEF HasNone, FindStops
  <2>5. \/ str_hash_get(strtable, k) = mapref.strings[k]
        \/ IF mapref.strings[k] # NoItem THEN StrPlace(strtable, k) \in mapref.freed ELSE k \in mapref.strtwice
    BY <2>1, StringsFind DEF TablesInv
  <2> QED
    BY <2>2, <2>3, <2>4, <2>5
<1> QED
  BY <1>1, <1>3, <1>4, PTL DEF MachineSpec
-----------------------------------------------------------------------------
(***************************************************************************)
(* Vector, list and ring.                                                  *)
(***************************************************************************)
\* The sequence t is s with e put in at k, or with the k-th item taken out.
PutAt(s, t, k, e) ==
    /\ Len(t) = Len(s) + 1
    /\ \A i \in 1 .. Len(t) : t[i] = IF i < k THEN s[i] ELSE IF i = k THEN e ELSE s[i - 1]
TakenAt(s, t, k) ==
    /\ Len(t) = Len(s) - 1
    /\ \A i \in 1 .. Len(t) : t[i] = IF i < k THEN s[i] ELSE s[i + 1]

LEMMA InsertAtIs ==
  ASSUME NEW S, NEW s \in Seq(S), NEW k \in 1 .. (Len(s) + 1), NEW e \in S
  PROVE  InsertAt(s, k, e) \in Seq(S) /\ PutAt(s, InsertAt(s, k, e), k, e)
<1>1. PICK a, b, m, n : a = SubSeq(s, 1, m) /\ b = SubSeq(s, k, n) /\ n = Len(s) /\ m = k - 1
  OBVIOUS
<1>2. n \in Nat /\ m \in Nat /\ m <= n /\ k \in Int /\ k = m + 1 /\ \A i \in 1 .. n : s[i] \in S
  BY <1>1
<1>3. a \in Seq(S) /\ Len(a) = m /\ \A i \in 1 .. m : a[i] = s[i]
  <2>1. \A i \in 1 .. m : s[i] \in S
    BY <1>2
  <2>2. a \in Seq(S) /\ Len(a) = (IF 1 <= m THEN m - 1 + 1 ELSE 0) /\ \A i \in 1 .. (m - 1 + 1) : a[i] = s[1 + i - 1]
    BY <1>1, <1>2, <2>1, SubSeqProperties
  <2> QED
    BY <1>2, <2>2
<1>4. b \in Seq(S) /\ Len(b) = n - m /\ \A i \in 1 .. (n - m) : b[i] = s[m + i]
  <2>1. \A i \in k .. n : s[i] \in S
    BY <1>2
  <2>2. b \in Seq(S) /\ Len(b) = (IF k <= n THEN n - k + 1 ELSE 0) /\ \A i \in 1 .. (n - k + 1) : b[i] = s[k + i - 1]
    BY <1>1, <1>2, <2>1, SubSeqProperties
  <2>3. n - k + 1 = n - m /\ (k <= n \/ n - m = 0) /\ \A i \in 1 .. (n - m) : k + i - 1 = m + i
    BY <1>2
  <2> QED
    BY <2>2, <2>3
<1>5. PICK c : c = a \o <<e>>
  OBVIOUS
<1>6. c \in Seq(S) /\ Len(c) = m + 1 /\ \A i \in 1 .. (m + 1) : c[i] = IF i <= m THEN s[i] ELSE e
  BY <1>2, <1>3, <1>5, ConcatProperties
<1>7. PICK t : t = c \o b
  OBVIOUS
<1>8. /\ t \in Seq(S) /\ Len(t) = Len(c) + Len(b)
      /\ \A i \in 1 .. Len(c) + Len(b) : t[i] = IF i <= Len(c) THEN c[i] ELSE b[i - Len(c)]
  BY <1>4, <1>6, <1>7, ConcatProperties
<1>9. Len(t) = n + 1
  BY <1>2, <1>4, <1>6, <1>8
<1>10. ASSUME NEW i \in 1 .. (n + 1) PROVE t[i] = IF i < k THEN s[i] ELSE IF i = k THEN e ELSE s[i - 1]
  <2>1. t[i] = IF i <= m + 1 THEN c[i] ELSE b[i - (m + 1)]
    BY <1>2, <1>4, <1>6, <1>8
  <2>2. CASE i <= m + 1
    BY <1>2, <1>6, <2>1, <2>2
  <2>3. CASE i > m + 1
    <3>1. PICK j : j = i - (m + 1) /\ j \in 1 .. (n - m) /\ m + j = i - 1
      BY <1>2, <2>3
    <3> QED
      BY <1>2, <1>4, <2>1, <2>3, <3>1
  <2> QED
    BY <1>2, <2>2, <2>3
<1>11. InsertAt(s, k, e) = t
  BY <1>1, <1>5, <1>7 DEF InsertAt
<1> QED
  BY <1>1, <1>8, <1>9, <1>10, <1>11 DEF PutAt

LEMMA RemoveAtIs ==
  ASSUME NEW S, NEW s \in Seq(S), NEW k \in 1 .. Len(s)
  PROVE  RemoveAt(s, k) \in Seq(S) /\ TakenAt(s, RemoveAt(s, k), k)
<1>1. PICK a, b, m, n, h : a = SubSeq(s, 1, m) /\ b = SubSeq(s, h, n) /\ n = Len(s) /\ m = k - 1 /\ h = k + 1
  OBVIOUS
<1>2. n \in Nat /\ m \in Nat /\ m < n /\ h \in Int /\ h = m + 2 /\ k = m + 1 /\ \A i \in 1 .. n : s[i] \in S
  BY <1>1
<1>3. a \in Seq(S) /\ Len(a) = m /\ \A i \in 1 .. m : a[i] = s[i]
  <2>1. \A i \in 1 .. m : s[i] \in S
    BY <1>2
  <2>2. a \in Seq(S) /\ Len(a) = (IF 1 <= m THEN m - 1 + 1 ELSE 0) /\ \A i \in 1 .. (m - 1 + 1) : a[i] = s[1 + i - 1]
    BY <1>1, <1>2, <2>1, SubSeqProperties
  <2> QED
    BY <1>2, <2>2
<1>4. b \in Seq(S) /\ Len(b) = n - m - 1 /\ \A i \in 1 .. (n - m - 1) : b[i] = s[m + i + 1]
  <2>1. \A i \in h .. n : s[i] \in S
    BY <1>2
  <2>2. b \in Seq(S) /\ Len(b) = (IF h <= n THEN n - h + 1 ELSE 0) /\ \A i \in 1 .. (n - h + 1) : b[i] = s[h + i - 1]
    BY <1>1, <1>2, <2>1, SubSeqProperties
  <2> QED
    BY <1>2, <2>2
<1>5. PICK t : t = a \o b
  OBVIOUS
<1>6. /\ t \in Seq(S) /\ Len(t) = Len(a) + Len(b)
      /\ \A i \in 1 .. Len(a) + Len(b) : t[i] = IF i <= Len(a) THEN a[i] ELSE b[i - Len(a)]
  BY <1>3, <1>4, <1>5, ConcatProperties
<1>7. Len(t) = n - 1
  BY <1>2, <1>3, <1>4, <1>6
<1>8. ASSUME NEW i \in 1 .. (n - 1) PROVE t[i] = IF i < k THEN s[i] ELSE s[i + 1]
  <2>1. t[i] = IF i <= m THEN a[i] ELSE b[i - m]
    BY <1>2, <1>3, <1>4, <1>6
  <2>2. CASE i <= m
    BY <1>2, <1>3, <2>1, <2>2
  <2>3. CASE i > m
    <3>1. PICK j : j = i - m /\ j \in 1 .. (n - m - 1) /\ m + j + 1 = i + 1
      BY <1>2, <2>3
    <3> QED
      BY <1>2, <1>4, <2>1, <2>3, <3>1
  <2> QED
    BY <1>2, <2>2, <2>3
<1>9. RemoveAt(s, k) = t
  BY <1>1, <1>5 DEF RemoveAt
<1> QED
  BY <1>1, <1>6, <1>7, <1>8, <1>9 DEF TakenAt

\* The vector v holds the items of s, and has room for cap.
VecHolds(v, s, cap) ==
    /\ DOMAIN v = {"data", "size"} /\ s \in Seq(Items)
    /\ v.size = Len(s) /\ cap \in Nat \ {0} /\ v.size <= cap
    /\ DOMAIN v.data = 0 .. (cap - 1)
    /\ \A i \in 1 .. Len(s) : v.data[i - 1] = s[i]

VecInv(v, s) == \E cap \in Nat : VecHolds(v, s, cap)

LEMMA CapacityIs ==
  ASSUME NEW v, NEW s, NEW cap, VecHolds(v, s, cap)
  PROVE  Capacity(v) = cap
<1>1. cap \in Nat /\ DOMAIN v.data = 0 .. (cap - 1)
  BY DEF VecHolds
<1>2. Cardinality(0 .. (cap - 1)) = (IF 0 > cap - 1 THEN 0 ELSE (cap - 1) - 0 + 1)
  BY <1>1, FS_Interval
<1> QED
  BY <1>1, <1>2 DEF Capacity

LEMMA RoomMadeFor ==
  ASSUME NEW v, NEW s, VecInv(v, s)
  PROVE  \E cap \in Nat : VecHolds(Room(v), s, cap) /\ Len(s) < cap
<1>1. PICK cap \in Nat : VecHolds(v, s, cap)
  BY DEF VecInv
<1>2. Capacity(v) = cap
  BY <1>1, CapacityIs
<1>3. v.size = Len(s) /\ Len(s) \in Nat /\ cap \in Nat \ {0} /\ Len(s) <= cap
  BY <1>1 DEF VecHolds
<1>4. CASE v.size >= cap
  <2>1. PICK w, two : w = Room(v) /\ two = 2 * cap
    OBVIOUS
  <2>2. w = [v EXCEPT !.data = [i \in 0 .. (two - 1) |-> IF i < v.size THEN v.data[i] ELSE NoItem]]
    BY <1>2, <1>4, <2>1 DEF Room, vector_resize
  <2>3. /\ DOMAIN w = DOMAIN v /\ w.size = v.size
        /\ w.data = [i \in 0 .. (two - 1) |-> IF i < v.size THEN v.data[i] ELSE NoItem]
    BY <1>1, <2>2 DEF VecHolds
  <2>4. two \in Nat \ {0} /\ two > cap
    BY <1>3, <2>1
  <2>5. ASSUME NEW i \in 1 .. Len(s) PROVE w.data[i - 1] = s[i]
    <3>1. PICK j : j = i - 1 /\ j \in 0 .. (two - 1) /\ j < v.size
      BY <1>3, <2>4
    <3> QED
      BY <1>1, <2>3, <3>1 DEF VecHolds
  <2>6. VecHolds(w, s, two) /\ Len(s) < two
    BY <1>1, <1>3, <2>3, <2>4, <2>5 DEF VecHolds
  <2> QED
    BY <2>1, <2>4, <2>6
<1>5. CASE v.size < cap
  BY <1>1, <1>2, <1>3, <1>5 DEF Room
<1> QED
  BY <1>3, <1>4, <1>5

LEMMA VectorInsertInv ==
  ASSUME NEW v, NEW s, VecInv(v, s), NEW index \in 0 .. v.size, NEW x \in Items
  PROVE  VecInv(vector_insert(v, index, x), InsertAt(s, index + 1, x))
<1>1. PICK w, cap : w = Room(v) /\ cap \in Nat /\ VecHolds(w, s, cap) /\ Len(s) < cap
  BY RoomMadeFor
<1>2. PICK n, k, t, u : n = Len(s) /\ k = index + 1 /\ t = InsertAt(s, k, x) /\ u = vector_insert(v, index, x)
  OBVIOUS
<1>3. s \in Seq(Items) /\ n \in Nat /\ v.size = n /\ w.size = n
  BY <1>1, <1>2 DEF VecHolds, VecInv
<1>4. k \in 1 .. (n + 1) /\ index = k - 1 /\ n < cap
  BY <1>1, <1>2, <1>3
<1>5. t \in Seq(Items) /\ PutAt(s, t, k, x)
  BY <1>2, <1>3, <1>4, InsertAtIs
<1>6. /\ DOMAIN u = {"data", "size"} /\ u.size = n + 1
      /\ u.data = [i \in 0 .. (cap - 1) |-> IF i = index THEN x
                                            ELSE IF i > index /\ i <= n THEN w.data[i - 1] ELSE w.data[i]]
  BY <1>1, <1>2, <1>3 DEF vector_insert, VecHolds
<1>7. ASSUME NEW i \in 1 .. (n + 1) PROVE u.data[i - 1] = t[i]
  <2>1. PICK j : j = i - 1 /\ j \in 0 .. n /\ j \in 0 .. (cap - 1)
    BY <1>1, <1>3, <1>4
  <2>2. u.data[j] = IF j = index THEN x ELSE IF j > index /\ j <= n THEN w.data[j - 1] ELSE w.data[j]
    BY <1>6, <2>1
  <2>3. t[i] = IF i < k THEN s[i] ELSE IF i = k THEN x ELSE s[j]
    BY <1>2, <1>3, <1>5, <2>1 DEF PutAt
  <2>4. \A h \in 1 .. n : w.data[h - 1] = s[h]
    BY <1>1, <1>2 DEF VecHolds
  <2>5. CASE i < k
    BY <1>2, <1>3, <1>4, <2>1, <2>2, <2>3, <2>4, <2>5
  <2>6. CASE i = k
    BY <1>3, <1>4, <2>1, <2>2, <2>3, <2>6
  <2>7. CASE i > k
    BY <1>2, <1>3, <1>4, <2>1, <2>2, <2>3, <2>4, <2>7
  <2> QED
    BY <1>4, <2>5, <2>6, <2>7
<1>8. VecHolds(u, t, cap)
  BY <1>1, <1>2, <1>3, <1>4, <1>5, <1>6, <1>7 DEF VecHolds, PutAt
<1> QED
  BY <1>1, <1>2, <1>8 DEF VecInv

LEMMA VectorRemoveInv ==
  ASSUME NEW v, NEW s, VecInv(v, s), NEW index \in 0 .. (v.size - 1)
  PROVE  VecInv(vector_remove(v, index), RemoveAt(s, index + 1))
<1>1. PICK cap \in Nat : VecHolds(v, s, cap)
  BY DEF VecInv
<1>2. PICK n, k, t, u : n = Len(s) /\ k = index + 1 /\ t = RemoveAt(s, k) /\ u = vector_remove(v, index)
  OBVIOUS
<1>3. s \in Seq(Items) /\ n \in Nat /\ v.size = n /\ n <= cap
  BY <1>1, <1>2 DEF VecHolds
<1>4. k \in 1 .. n /\ index = k - 1
  BY <1>2, <1>3
<1>5. t \in Seq(Items) /\ TakenAt(s, t, k)
  BY <1>2, <1>3, <1>4, RemoveAtIs
<1>6. /\ DOMAIN u = {"data", "size"} /\ u.size = n - 1
      /\ u.data = [i \in 0 .. (cap - 1) |-> IF i >= index /\ i < n - 1 THEN v.data[i + 1] ELSE v.data[i]]
  BY <1>1, <1>2, <1>3 DEF vector_remove, VecHolds
<1>7. ASSUME NEW i \in 1 .. (n - 1) PROVE u.data[i - 1] = t[i]
  <2>1. PICK j : j = i - 1 /\ j \in 0 .. (cap - 1) /\ j < n - 1
    BY <1>1, <1>3, <1>4
  <2>2. u.data[j] = IF j >= index /\ j < n - 1 THEN v.data[j + 1] ELSE v.data[j]
    BY <1>6, <2>1
  <2>3. t[i] = IF i < k THEN s[i] ELSE s[i + 1]
    BY <1>2, <1>3, <1>5, <2>1 DEF TakenAt
  <2>4. \A h \in 1 .. n : v.data[h - 1] = s[h]
    BY <1>1, <1>2 DEF VecHolds
  <2>5. CASE i < k
    BY <1>3, <1>4, <2>1, <2>2, <2>3, <2>4, <2>5
  <2>6. CASE i >= k
    <3>1. PICK h : h = i + 1 /\ h \in 1 .. n /\ h - 1 = j + 1
      BY <1>3, <2>1
    <3> QED
      BY <1>3, <1>4, <2>1, <2>2, <2>3, <2>4, <2>6, <3>1, SMTT(30)
  <2> QED
    BY <1>4, <2>5, <2>6
<1>8. VecHolds(u, t, cap)
  BY <1>1, <1>2, <1>3, <1>4, <1>5, <1>6, <1>7 DEF VecHolds, TakenAt
<1> QED
  BY <1>1, <1>2, <1>8 DEF VecInv

LEMMA VectorSetInv ==
  ASSUME NEW v, NEW s, VecInv(v, s), NEW index \in 0 .. (v.size - 1), NEW x \in Items
  PROVE  VecInv([v EXCEPT !.data[index] = x], ReplaceAt(s, index + 1, x))
<1>1. PICK cap \in Nat : VecHolds(v, s, cap)
  BY DEF VecInv
<1>2. PICK n, k, t, u : n = Len(s) /\ k = index + 1 /\ t = [s EXCEPT ![k] = x] /\ u = [v EXCEPT !.data[index] = x]
  OBVIOUS
<1>3. s \in Seq(Items) /\ n \in Nat /\ v.size = n /\ n <= cap
  BY <1>1, <1>2 DEF VecHolds
<1>4. k \in 1 .. n /\ index = k - 1 /\ index \in 0 .. (cap - 1)
  BY <1>1, <1>2, <1>3
<1>5. t \in Seq(Items) /\ Len(t) = n /\ \A i \in 1 .. n : t[i] = IF i = k THEN x ELSE s[i]
  BY <1>2, <1>3, <1>4
<1>6. /\ DOMAIN u = {"data", "size"} /\ u.size = n /\ u.data = [v.data EXCEPT ![index] = x]
  BY <1>1, <1>2, <1>3 DEF VecHolds
<1>7. DOMAIN u.data = 0 .. (cap - 1) /\ \A j \in 0 .. (cap - 1) : u.data[j] = IF j = index THEN x ELSE v.data[j]
  BY <1>1, <1>4, <1>6 DEF VecHolds
<1>8. ASSUME NEW i \in 1 .. n PROVE u.data[i - 1] = t[i]
  <2>1. PICK j : j = i - 1 /\ j \in 0 .. (cap - 1)
    BY <1>1, <1>3
  <2>2. v.data[j] = s[i]
    BY <1>1, <1>2, <2>1 DEF VecHolds
  <2> QED
    BY <1>3, <1>4, <1>5, <1>7, <2>1, <2>2
<1>9. VecHolds(u, t, cap)
  BY <1>1, <1>2, <1>3, <1>5, <1>6, <1>7, <1>8 DEF VecHolds
<1> QED
  BY <1>1, <1>2, <1>9 DEF VecInv, ReplaceAt
\* The links after b was put in front of the k-th node of o, and after the k-th node was
\* taken out.
NodeAt(o, i, none) == IF i \in 1 .. Len(o) THEN o[i] ELSE none

InsertLinks(S, node, new, none, o, k, b) ==
    /\ new[b].next = NodeAt(o, k, none) /\ new[b].prev = NodeAt(o, k - 1, none)
    /\ \A c \in S \ {b} : new[c].next = IF c = NodeAt(o, k - 1, none) THEN b ELSE node[c].next
    /\ \A c \in S \ {b} : new[c].prev = IF c = NodeAt(o, k, none) THEN b ELSE node[c].prev

RemoveLinks(S, node, new, none, o, k) ==
    /\ \A c \in S \ {o[k]} : new[c].next = IF c = NodeAt(o, k - 1, none) THEN NodeAt(o, k + 1, none) ELSE node[c].next
    /\ \A c \in S \ {o[k]} : new[c].prev = IF c = NodeAt(o, k + 1, none) THEN NodeAt(o, k - 1, none) ELSE node[c].prev

\* What ListOf says of the n nodes of o.
ListView(S, node, head, tail, none, o, n) ==
    /\ n \in Nat /\ none \notin S /\ \A i \in 1 .. n : o[i] \in S
    /\ \A i, j \in 1 .. n : o[i] = o[j] => i = j
    /\ head = NodeAt(o, 1, none) /\ tail = NodeAt(o, n, none)
    /\ \A i \in 1 .. n : node[o[i]].next = NodeAt(o, i + 1, none) /\ node[o[i]].prev = NodeAt(o, i - 1, none)

LEMMA ListFacts ==
  ASSUME NEW S, NEW node, NEW head, NEW tail, NEW none, NEW o, ListOf(S, node, head, tail, none, o),
         NEW n, n = Len(o)
  PROVE  ListView(S, node, head, tail, none, o, n)
<1>1. o \in Seq(S) /\ n \in Nat /\ (o = <<>> <=> n = 0)
  BY DEF ListOf
<1>2. \A i \in 1 .. n : /\ node[o[i]].next = IF i < n THEN o[i + 1] ELSE none
                        /\ node[o[i]].prev = IF i > 1 THEN o[i - 1] ELSE none
  BY DEF ListOf, LinkedAs
<1>3. \A i \in 1 .. n : (i < n <=> i + 1 \in 1 .. n) /\ (i > 1 <=> i - 1 \in 1 .. n)
  BY <1>1
<1>4. ASSUME NEW i \in 1 .. n PROVE node[o[i]].next = NodeAt(o, i + 1, none) /\ node[o[i]].prev = NodeAt(o, i - 1, none)
  BY <1>2, <1>3 DEF NodeAt
<1>5. head = NodeAt(o, 1, none) /\ tail = NodeAt(o, n, none)
  <2>1. CASE n = 0
    BY <1>1, <2>1 DEF ListOf, LinkedAs, NodeAt
  <2>2. CASE n > 0
    <3>1. 1 \in 1 .. n /\ n \in 1 .. n /\ o # <<>>
      BY <1>1, <2>2
    <3> QED
      BY <3>1 DEF ListOf, LinkedAs, NodeAt
  <2> QED
    BY <1>1, <2>1, <2>2
<1> QED
  BY <1>1, <1>4, <1>5 DEF ListOf, ListView

\* And the other way round.
LEMMA ListFromFacts ==
  ASSUME NEW S, NEW node, NEW head, NEW tail, NEW none, NEW p \in Seq(S), NEW n, n = Len(p), none \notin S,
         \A i, j \in 1 .. n : p[i] = p[j] => i = j,
         head = NodeAt(p, 1, none), tail = NodeAt(p, n, none),
         \A i \in 1 .. n : node[p[i]].next = NodeAt(p, i + 1, none) /\ node[p[i]].prev = NodeAt(p, i - 1, none)
  PROVE  ListOf(S, node, head, tail, none, p)
<1>1. n \in Nat /\ (p = <<>> <=> n = 0)
  OBVIOUS
<1>2. \A i \in 1 .. n : (i < n <=> i + 1 \in 1 .. n) /\ (i > 1 <=> i - 1 \in 1 .. n)
  BY <1>1
<1>3. \A i \in 1 .. n : /\ node[p[i]].next = IF i < n THEN p[i + 1] ELSE none
                        /\ node[p[i]].prev = IF i > 1 THEN p[i - 1] ELSE none
  BY <1>2 DEF NodeAt
<1>4. head = (IF p = <<>> THEN none ELSE p[1]) /\ tail = (IF p = <<>> THEN none ELSE p[n])
  <2>1. CASE n = 0
    BY <1>1, <2>1 DEF NodeAt
  <2>2. CASE n > 0
    <3>1. 1 \in 1 .. n /\ n \in 1 .. n /\ p # <<>>
      BY <1>1, <2>2
    <3> QED
      BY <3>1 DEF NodeAt
  <2> QED
    BY <1>1, <2>1, <2>2
<1> QED
  BY <1>3, <1>4 DEF ListOf, LinkedAs

LEMMA ListInsert ==
  ASSUME NEW S, NEW node, NEW head, NEW tail, NEW none, NEW o, ListOf(S, node, head, tail, none, o),
         NEW k \in 1 .. (Len(o) + 1), NEW b \in S, \A i \in 1 .. Len(o) : o[i] # b,
         NEW p \in Seq(S), PutAt(o, p, k, b), NEW new, InsertLinks(S, node, new, none, o, k, b),
         NEW h, h = (IF k = 1 THEN b ELSE head), NEW t, t = (IF k = Len(o) + 1 THEN b ELSE tail)
  PROVE  ListOf(S, new, h, t, none, p)
<1>1. PICK n, m : n = Len(o) /\ m = Len(p)
  OBVIOUS
<1>2. /\ n \in Nat /\ none \notin S /\ \A i \in 1 .. n : o[i] \in S
      /\ \A i, j \in 1 .. n : o[i] = o[j] => i = j
      /\ head = NodeAt(o, 1, none) /\ tail = NodeAt(o, n, none)
      /\ \A i \in 1 .. n : node[o[i]].next = NodeAt(o, i + 1, none) /\ node[o[i]].prev = NodeAt(o, i - 1, none)
  <2>1. ListView(S, node, head, tail, none, o, n)
    BY <1>1, ListFacts
  <2> QED
    BY <2>1 DEF ListView
<1>0. \A i \in 1 .. n : o[i] \in S \ {b} /\ o[i] # b
  BY <1>1, <1>2
<1>3. m = n + 1 /\ k \in 1 .. m /\ \A i \in 1 .. m : p[i] = IF i < k THEN o[i] ELSE IF i = k THEN b ELSE o[i - 1]
  BY <1>1 DEF PutAt
<1>4. \A i \in 1 .. m : (i < k => i \in 1 .. n /\ p[i] = o[i]) /\ (i = k => p[i] = b)
                        /\ (i > k => i - 1 \in 1 .. n /\ p[i] = o[i - 1])
  BY <1>2, <1>3
<1>5. ASSUME NEW i \in 1 .. m, NEW j \in 1 .. m, p[i] = p[j] PROVE i = j
  <2>1. CASE i = k \/ j = k
    <3>1. \A q \in 1 .. m : q # k => p[q] # b
      BY <1>0, <1>3, <1>4
    <3>2. \A q \in 1 .. m : q = k => p[q] = b
      BY <1>4
    <3> QED
      BY <1>5, <2>1, <3>1, <3>2
  <2>2. CASE i < k /\ j < k
    BY <1>2, <1>4, <1>5, <2>2
  <2>3. CASE i > k /\ j > k
    <3>1. i - 1 = j - 1
      BY <1>2, <1>4, <1>5, <2>3
    <3> QED
      BY <3>1
  <2>4. CASE i < k /\ j > k
    <3>1. i = j - 1
      BY <1>2, <1>4, <1>5, <2>4
    <3> QED
      BY <2>4, <3>1
  <2>5. CASE i > k /\ j < k
    <3>1. i - 1 = j
      BY <1>2, <1>4, <1>5, <2>5
    <3> QED
      BY <2>5, <3>1
  <2> QED
    BY <1>3, <2>1, <2>2, <2>3, <2>4, <2>5
<1>6. \A i \in 1 .. n : (o[i] = NodeAt(o, k, none) <=> i = k) /\ (o[i] = NodeAt(o, k - 1, none) <=> i = k - 1)
  BY <1>1, <1>2 DEF NodeAt
<1>7. ASSUME NEW i \in 1 .. m PROVE new[p[i]].next = NodeAt(p, i + 1, none) /\ new[p[i]].prev = NodeAt(p, i - 1, none)
  <2>1. CASE i < k
    <3>1. i \in 1 .. n /\ p[i] = o[i] /\ o[i] \in S \ {b}
      BY <1>0, <1>4, <2>1
    <3>2. new[o[i]].next = (IF i = k - 1 THEN b ELSE NodeAt(o, i + 1, none)) /\ new[o[i]].prev = NodeAt(o, i - 1, none)
      <4>1. PICK c : c = o[i] /\ c \in S \ {b}
        BY <3>1
      <4>2. i # k /\ (c = NodeAt(o, k - 1, none) <=> i = k - 1) /\ c # NodeAt(o, k, none)
        BY <1>3, <1>6, <2>1, <3>1, <4>1
      <4>3. new[c].next = (IF i = k - 1 THEN b ELSE node[c].next) /\ new[c].prev = node[c].prev
        BY <4>1, <4>2 DEF InsertLinks
      <4> QED
        BY <1>2, <3>1, <4>1, <4>3
    <3>3. NodeAt(p, i + 1, none) = IF i = k - 1 THEN b ELSE NodeAt(o, i + 1, none)
      <4>1. i + 1 \in 1 .. m /\ (i = k - 1 <=> i + 1 = k) /\ (i # k - 1 => i + 1 < k /\ i + 1 \in 1 .. n)
        BY <1>2, <1>3, <2>1
      <4> QED
        BY <1>1, <1>4, <4>1 DEF NodeAt
    <3>4. NodeAt(p, i - 1, none) = NodeAt(o, i - 1, none)
      <4>1. (i - 1 \in 1 .. m <=> i - 1 \in 1 .. n) /\ i - 1 < k
        BY <1>2, <1>3, <2>1, <3>1
      <4> QED
        BY <1>1, <1>4, <4>1 DEF NodeAt
    <3> QED
      BY <3>1, <3>2, <3>3, <3>4
  <2>2. CASE i = k
    <3>1. NodeAt(p, k + 1, none) = NodeAt(o, k, none)
      <4>1. PICK q : q = k + 1 /\ q > k /\ q - 1 = k /\ (q \in 1 .. m <=> k \in 1 .. n)
        BY <1>2, <1>3
      <4>2. NodeAt(p, q, none) = NodeAt(o, k, none)
        BY <1>1, <1>4, <4>1 DEF NodeAt
      <4> QED
        BY <4>1, <4>2
    <3>2. NodeAt(p, k - 1, none) = NodeAt(o, k - 1, none)
      <4>1. PICK q : q = k - 1 /\ q < k /\ (q \in 1 .. m <=> q \in 1 .. n)
        BY <1>2, <1>3
      <4>2. NodeAt(p, q, none) = NodeAt(o, q, none)
        BY <1>1, <1>4, <4>1 DEF NodeAt
      <4> QED
        BY <4>1, <4>2
    <3> QED
      BY <1>4, <2>2, <3>1, <3>2 DEF InsertLinks
  <2>3. CASE i > k
    <3>1. PICK j : j = i - 1 /\ j \in 1 .. n /\ p[i] = o[j] /\ o[j] \in S \ {b}
      BY <1>0, <1>4, <2>3
    <3>2. new[o[j]].next = NodeAt(o, j + 1, none) /\ new[o[j]].prev = IF j = k THEN b ELSE NodeAt(o, j - 1, none)
      <4>1. j # k - 1
        BY <1>3, <2>3, <3>1
      <4> QED
        BY <1>2, <1>6, <3>1, <4>1 DEF InsertLinks
    <3>3. NodeAt(p, i + 1, none) = NodeAt(o, j + 1, none)
      <4>0. i + 1 > k /\ (i + 1) - 1 = j + 1 /\ (i + 1 \in 1 .. m <=> (i + 1) - 1 \in 1 .. n)
        BY <1>2, <1>3, <2>3, <3>1
      <4>1. PICK q : q = i + 1 /\ q > k /\ q - 1 = j + 1 /\ (q \in 1 .. m <=> q - 1 \in 1 .. n)
        BY <4>0, Zenon
      <4>2. NodeAt(p, q, none) = NodeAt(o, q - 1, none)
        BY <1>1, <1>4, <4>1 DEF NodeAt
      <4> QED
        BY <4>1, <4>2
    <3>4. NodeAt(p, i - 1, none) = IF j = k THEN b ELSE NodeAt(o, j - 1, none)
      <4>1. j \in 1 .. m /\ (j # k => j > k /\ j - 1 \in 1 .. n)
        BY <1>2, <1>3, <2>3, <3>1
      <4>2. NodeAt(p, j, none) = IF j = k THEN b ELSE NodeAt(o, j - 1, none)
        BY <1>1, <1>4, <4>1 DEF NodeAt
      <4> QED
        BY <3>1, <4>2
    <3> QED
      BY <3>1, <3>2, <3>3, <3>4
  <2> QED
    BY <1>3, <2>1, <2>2, <2>3
<1>8. h = NodeAt(p, 1, none)
  <2>1. 1 \in 1 .. m /\ p[1] = IF k = 1 THEN b ELSE o[1]
    BY <1>2, <1>3, <1>4
  <2>2. k # 1 => 1 \in 1 .. n
    BY <1>2, <1>3
  <2> QED
    BY <1>1, <1>2, <2>1, <2>2 DEF NodeAt
<1>9. t = NodeAt(p, m, none)
  <2>1. m \in 1 .. m /\ (k = m => p[m] = b) /\ (k # m => m - 1 = n /\ n \in 1 .. n /\ p[m] = o[n])
    BY <1>2, <1>3, <1>4
  <2> QED
    BY <1>1, <1>2, <1>3, <2>1 DEF NodeAt
<1> QED
  BY <1>1, <1>2, <1>5, <1>7, <1>8, <1>9, ListFromFacts
LEMMA ListRemove ==
  ASSUME NEW S, NEW node, NEW head, NEW tail, NEW none, NEW o, ListOf(S, node, head, tail, none, o),
         NEW k \in 1 .. Len(o), NEW p \in Seq(S), TakenAt(o, p, k),
         NEW new, RemoveLinks(S, node, new, none, o, k),
         NEW h, h = (IF k = 1 THEN NodeAt(o, 2, none) ELSE head),
         NEW t, t = (IF k = Len(o) THEN NodeAt(o, k - 1, none) ELSE tail)
  PROVE  ListOf(S, new, h, t, none, p)
<1>1. PICK n, m : n = Len(o) /\ m = Len(p)
  OBVIOUS
<1>2. /\ n \in Nat /\ none \notin S /\ \A i \in 1 .. n : o[i] \in S
      /\ \A i, j \in 1 .. n : o[i] = o[j] => i = j
      /\ head = NodeAt(o, 1, none) /\ tail = NodeAt(o, n, none)
      /\ \A i \in 1 .. n : node[o[i]].next = NodeAt(o, i + 1, none) /\ node[o[i]].prev = NodeAt(o, i - 1, none)
  <2>1. ListView(S, node, head, tail, none, o, n)
    BY <1>1, ListFacts
  <2> QED
    BY <2>1 DEF ListView
<1>3. m = n - 1 /\ k \in 1 .. n /\ m \in Nat /\ \A i \in 1 .. m : p[i] = IF i < k THEN o[i] ELSE o[i + 1]
  BY <1>1, <1>2, SMTT(30) DEF TakenAt
<1>4. \A i \in 1 .. m : (i < k => i \in 1 .. n /\ p[i] = o[i]) /\ (i >= k => i + 1 \in 1 .. n /\ p[i] = o[i + 1])
  BY <1>2, <1>3
<1>5. ASSUME NEW i \in 1 .. m, NEW j \in 1 .. m, p[i] = p[j] PROVE i = j
  <2>1. CASE i < k /\ j < k
    BY <1>2, <1>4, <1>5, <2>1
  <2>2. CASE i >= k /\ j >= k
    <3>1. i + 1 = j + 1
      BY <1>2, <1>4, <1>5, <2>2, SMTT(30)
    <3> QED
      BY <3>1
  <2>3. CASE i < k /\ j >= k
    <3>1. i = j + 1
      BY <1>2, <1>4, <1>5, <2>3
    <3> QED
      BY <2>3, <3>1
  <2>4. CASE i >= k /\ j < k
    <3>1. i + 1 = j
      BY <1>2, <1>4, <1>5, <2>4
    <3> QED
      BY <2>4, <3>1
  <2> QED
    BY <1>3, <2>1, <2>2, <2>3, <2>4
<1>6. \A i \in 1 .. n : (o[i] = NodeAt(o, k + 1, none) <=> i = k + 1) /\ (o[i] = NodeAt(o, k - 1, none) <=> i = k - 1)
                        /\ (i # k => o[i] \in S \ {o[k]})
  BY <1>1, <1>2, <1>3 DEF NodeAt
<1>7. ASSUME NEW i \in 1 .. m PROVE new[p[i]].next = NodeAt(p, i + 1, none) /\ new[p[i]].prev = NodeAt(p, i - 1, none)
  <2>1. CASE i < k
    <3>1. PICK c : c = o[i] /\ c = p[i] /\ i \in 1 .. n /\ c \in S \ {o[k]}
      BY <1>4, <1>6, <2>1
    <3>2. (c = NodeAt(o, k - 1, none) <=> i = k - 1) /\ c # NodeAt(o, k + 1, none)
      <4>1. i # k + 1
        BY <1>3, <2>1
      <4> QED
        BY <1>6, <3>1, <4>1
    <3>3. new[c].next = (IF i = k - 1 THEN NodeAt(o, k + 1, none) ELSE node[c].next) /\ new[c].prev = node[c].prev
      BY <3>1, <3>2 DEF RemoveLinks
    <3>4. NodeAt(p, i + 1, none) = IF i = k - 1 THEN NodeAt(o, k + 1, none) ELSE NodeAt(o, i + 1, none)
      <4>1. PICK q : q = i + 1
        OBVIOUS
      <4>2. CASE i = k - 1
        <5>1. q = k /\ (k \in 1 .. m <=> k + 1 \in 1 .. n)
          BY <1>2, <1>3, <4>1, <4>2
        <5>2. NodeAt(p, k, none) = NodeAt(o, k + 1, none)
          BY <1>1, <1>3, <1>4, <5>1 DEF NodeAt
        <5> QED
          BY <4>1, <4>2, <5>1, <5>2
      <4>3. CASE i # k - 1
        <5>1. q < k /\ q \in 1 .. m /\ q \in 1 .. n
          BY <1>2, <1>3, <2>1, <4>1, <4>3
        <5>2. NodeAt(p, q, none) = NodeAt(o, q, none)
          BY <1>1, <1>4, <5>1 DEF NodeAt
        <5> QED
          BY <4>1, <4>3, <5>2
      <4> QED
        BY <4>2, <4>3
    <3>5. NodeAt(p, i - 1, none) = NodeAt(o, i - 1, none)
      <4>0. i - 1 < k /\ (i - 1 \in 1 .. m <=> i - 1 \in 1 .. n)
        BY <1>2, <1>3, <2>1
      <4>1. PICK q : q = i - 1 /\ q < k /\ (q \in 1 .. m <=> q \in 1 .. n)
        BY <4>0, Zenon
      <4>2. NodeAt(p, q, none) = NodeAt(o, q, none)
        BY <1>1, <1>4, <4>1 DEF NodeAt
      <4> QED
        BY <4>1, <4>2
    <3> QED
      BY <1>2, <3>1, <3>3, <3>4, <3>5
  <2>2. CASE i >= k
    <3>1. PICK j, c : j = i + 1 /\ j \in 1 .. n /\ c = o[j] /\ c = p[i] /\ c \in S \ {o[k]}
      <4>1. i + 1 \in 1 .. n /\ p[i] = o[i + 1] /\ i + 1 # k
        BY <1>3, <1>4, <2>2
      <4> QED
        BY <1>6, <4>1
    <3>2. (c = NodeAt(o, k + 1, none) <=> j = k + 1) /\ c # NodeAt(o, k - 1, none)
      <4>1. j # k - 1
        BY <1>3, <2>2, <3>1
      <4> QED
        BY <1>6, <3>1, <4>1
    <3>3. new[c].prev = (IF j = k + 1 THEN NodeAt(o, k - 1, none) ELSE node[c].prev) /\ new[c].next = node[c].next
      BY <3>1, <3>2 DEF RemoveLinks
    <3>4. NodeAt(p, i + 1, none) = NodeAt(o, j + 1, none)
      <4>1. j >= k /\ (j \in 1 .. m <=> j + 1 \in 1 .. n)
        BY <1>2, <1>3, <2>2, <3>1, SMTT(30)
      <4>2. NodeAt(p, j, none) = NodeAt(o, j + 1, none)
        BY <1>1, <1>4, <4>1 DEF NodeAt
      <4> QED
        BY <3>1, <4>2
    <3>5. NodeAt(p, i - 1, none) = IF j = k + 1 THEN NodeAt(o, k - 1, none) ELSE NodeAt(o, j - 1, none)
      <4>1. PICK q : q = i - 1
        OBVIOUS
      <4>2. CASE j = k + 1
        <5>0. i = k /\ k - 1 < k /\ (k - 1 \in 1 .. m <=> k - 1 \in 1 .. n)
          BY <1>2, <1>3, <3>1, <4>2, SMTT(30)
        <5>1. i = k /\ q = k - 1 /\ q < k /\ (q \in 1 .. m <=> q \in 1 .. n)
          BY <4>1, <5>0
        <5>2. NodeAt(p, q, none) = NodeAt(o, q, none)
          BY <1>1, <1>4, <5>1 DEF NodeAt
        <5> QED
          BY <4>1, <4>2, <5>1, <5>2
      <4>3. CASE j # k + 1
        <5>1. q >= k /\ q \in 1 .. m /\ q + 1 \in 1 .. n /\ q + 1 = j - 1
          BY <1>2, <1>3, <2>2, <3>1, <4>1, <4>3
        <5>2. NodeAt(p, q, none) = NodeAt(o, q + 1, none)
          BY <1>1, <1>4, <5>1 DEF NodeAt
        <5> QED
          BY <4>1, <4>3, <5>1, <5>2
      <4> QED
        BY <4>2, <4>3
    <3> QED
      BY <1>2, <3>1, <3>3, <3>4, <3>5
  <2> QED
    BY <1>3, <2>1, <2>2
<1>8. h = NodeAt(p, 1, none)
  <2>1. CASE k = 1
    <3>1. 1 >= k /\ (1 \in 1 .. m <=> 2 \in 1 .. n) /\ 1 + 1 = 2
      BY <1>2, <1>3, <2>1
    <3>2. 1 \in 1 .. m => p[1] = o[2]
      BY <1>4, <3>1
    <3> QED
      BY <1>1, <2>1, <3>1, <3>2 DEF NodeAt
  <2>2. CASE k # 1
    <3>1. 1 < k /\ 1 \in 1 .. m /\ 1 \in 1 .. n
      BY <1>2, <1>3, <2>2
    <3> QED
      BY <1>1, <1>2, <1>4, <2>2, <3>1 DEF NodeAt
  <2> QED
    BY <2>1, <2>2
<1>9. t = NodeAt(p, m, none)
  <2>1. CASE k = n
    <3>1. m = k - 1 /\ m < k /\ (m \in 1 .. m <=> m \in 1 .. n)
      BY <1>2, <1>3, <2>1
    <3>2. NodeAt(p, m, none) = NodeAt(o, m, none)
      BY <1>1, <1>4, <3>1 DEF NodeAt
    <3> QED
      BY <1>1, <2>1, <3>1, <3>2
  <2>2. CASE k # n
    <3>1. m >= k /\ m \in 1 .. m /\ m + 1 = n /\ n \in 1 .. n
      BY <1>2, <1>3, <2>2
    <3>2. NodeAt(p, m, none) = NodeAt(o, n, none)
      BY <1>1, <1>4, <3>1 DEF NodeAt
    <3> QED
      BY <1>1, <1>2, <2>2, <3>2
  <2> QED
    BY <2>1, <2>2
<1> QED
  BY <1>1, <1>2, <1>5, <1>7, <1>8, <1>9, ListFromFacts
\* The list l has the nodes of o, and their data are the items of s.
ListShape(l) ==
    /\ DOMAIN l = {"node", "head", "tail", "size", "used"}
    /\ DOMAIN l.node = Nodes /\ \A n \in Nodes : DOMAIN l.node[n] = {"next", "prev", "data"}
ListHolds(l, s, o) ==
    /\ ListOf(Nodes, l.node, l.head, l.tail, NoNode, o)
    /\ l.used = {o[i] : i \in 1 .. Len(o)} /\ l.size = Len(o)
    /\ s \in Seq(Items) /\ Len(s) = Len(o) /\ \A i \in 1 .. Len(s) : s[i] = l.node[o[i]].data
ListInv(l, s) == ListShape(l) /\ \E o : ListHolds(l, s, o)

\* The list m is l with x in the node b, in front of the k-th node, or without the k-th node.
NodeInserted(l, m, o, k, b, x) ==
    /\ InsertLinks(Nodes, l.node, m.node, NoNode, o, k, b)
    /\ m.node[b].data = x /\ \A c \in Nodes \ {b} : m.node[c].data = l.node[c].data
    /\ m.head = (IF k = 1 THEN b ELSE l.head) /\ m.tail = (IF k = Len(o) + 1 THEN b ELSE l.tail)
    /\ m.size = l.size + 1 /\ m.used = l.used \cup {b}
NodeRemoved(l, m, o, k) ==
    /\ RemoveLinks(Nodes, l.node, m.node, NoNode, o, k)
    /\ \A c \in Nodes : m.node[c].data = l.node[c].data
    /\ m.head = (IF k = 1 THEN NodeAt(o, 2, NoNode) ELSE l.head)
    /\ m.tail = (IF k = Len(o) THEN NodeAt(o, k - 1, NoNode) ELSE l.tail)
    /\ m.size = l.size - 1 /\ m.used = l.used \ {o[k]}

LEMMA NodesNamed == NoNode \notin Nodes /\ MaxItems \in Nat
BY ContainersAssumption, SMTT(30) DEF Nodes

LEMMA InsertedHolds ==
  ASSUME NEW l, NEW s, NEW o, ListHolds(l, s, o), NEW k \in 1 .. (Len(o) + 1), NEW b \in Nodes \ l.used, NEW x \in Items,
         NEW m, ListShape(m), NodeInserted(l, m, o, k, b, x)
  PROVE  ListInv(m, InsertAt(s, k, x))
<1>1. PICK n, p, t : n = Len(o) /\ p = InsertAt(o, k, b) /\ t = InsertAt(s, k, x)
  OBVIOUS
<1>2. o \in Seq(Nodes) /\ s \in Seq(Items) /\ n \in Nat /\ Len(s) = n /\ k \in 1 .. (n + 1)
  BY <1>1 DEF ListHolds, ListOf
<1>3. p \in Seq(Nodes) /\ PutAt(o, p, k, b) /\ t \in Seq(Items) /\ PutAt(s, t, k, x)
  BY <1>1, <1>2, InsertAtIs
<1>4. \A i \in 1 .. n : o[i] # b /\ o[i] \in Nodes
  BY <1>1, <1>2 DEF ListHolds
<1>5. ListOf(Nodes, m.node, m.head, m.tail, NoNode, p)
  <2>1. ListOf(Nodes, l.node, l.head, l.tail, NoNode, o) /\ InsertLinks(Nodes, l.node, m.node, NoNode, o, k, b)
    BY DEF ListHolds, NodeInserted
  <2>2. m.head = (IF k = 1 THEN b ELSE l.head) /\ m.tail = (IF k = Len(o) + 1 THEN b ELSE l.tail)
    BY DEF NodeInserted
  <2> QED
    BY <1>1, <1>3, <1>4, <2>1, <2>2, ListInsert
<1>6. /\ Len(p) = n + 1 /\ Len(t) = n + 1
      /\ \A i \in 1 .. (n + 1) : p[i] = IF i < k THEN o[i] ELSE IF i = k THEN b ELSE o[i - 1]
      /\ \A i \in 1 .. (n + 1) : t[i] = IF i < k THEN s[i] ELSE IF i = k THEN x ELSE s[i - 1]
  BY <1>1, <1>2, <1>3 DEF PutAt
<1>7. m.size = Len(p)
  BY <1>1, <1>6 DEF ListHolds, NodeInserted
<1>8. m.used = {p[i] : i \in 1 .. (n + 1)}
  <2>1. m.used = l.used \cup {b} /\ l.used = {o[i] : i \in 1 .. n}
    BY <1>1 DEF ListHolds, NodeInserted
  <2>2. ASSUME NEW c \in m.used PROVE \E i \in 1 .. (n + 1) : c = p[i]
    <3>1. CASE c = b
      BY <1>2, <1>6, <3>1
    <3>2. CASE c # b
      <4>1. PICK j \in 1 .. n : c = o[j]
        BY <2>1, <3>2
      <4>2. CASE j < k
        BY <1>2, <1>6, <4>1, <4>2
      <4>3. CASE j >= k
        <5>1. PICK q \in 1 .. (n + 1) : q > k /\ q - 1 = j
          BY <1>2, <4>3
        <5>2. ~ (q < k) /\ q # k
          BY <1>2, <5>1
        <5>3. p[q] = o[j]
          BY <1>6, <5>1, <5>2
        <5> QED
          BY <4>1, <5>3
      <4> QED
        BY <1>2, <4>2, <4>3
    <3> QED
      BY <3>1, <3>2
  <2>3. ASSUME NEW i \in 1 .. (n + 1) PROVE p[i] \in m.used
    <3>1. (i < k => i \in 1 .. n) /\ (i > k => i - 1 \in 1 .. n)
      BY <1>2
    <3> QED
      BY <1>2, <1>6, <2>1, <3>1
  <2> QED
    BY <2>2, <2>3
<1>9. ASSUME NEW i \in 1 .. (n + 1) PROVE t[i] = m.node[p[i]].data
  <2>1. \A c \in Nodes \ {b} : m.node[c].data = l.node[c].data
    BY DEF NodeInserted
  <2>2. \A j \in 1 .. n : s[j] = l.node[o[j]].data /\ o[j] \in Nodes \ {b}
    BY <1>2, <1>4 DEF ListHolds
  <2>3. \A j \in 1 .. n : s[j] = m.node[o[j]].data
    BY <2>1, <2>2
  <2>4. m.node[b].data = x
    BY DEF NodeInserted
  <2>5. (i < k => i \in 1 .. n) /\ (i > k => i - 1 \in 1 .. n)
    BY <1>2
  <2>6. CASE i < k
    BY <1>6, <2>3, <2>5, <2>6
  <2>7. CASE i = k
    BY <1>2, <1>6, <2>4, <2>7
  <2>8. CASE i > k
    <3>1. ~ (i < k) /\ i # k /\ i - 1 \in 1 .. n
      BY <1>2, <2>5, <2>8
    <3>2. p[i] = o[i - 1] /\ t[i] = s[i - 1]
      BY <1>6, <3>1
    <3> QED
      BY <2>3, <3>1, <3>2
  <2> QED
    BY <1>2, <2>6, <2>7, <2>8
<1>10. ListHolds(m, t, p)
  BY <1>3, <1>5, <1>6, <1>7, <1>8, <1>9 DEF ListHolds
<1> QED
  BY <1>1, <1>10 DEF ListInv

LEMMA RemovedHolds ==
  ASSUME NEW l, NEW s, NEW o, ListHolds(l, s, o), NEW k \in 1 .. Len(o), NEW m, ListShape(m), NodeRemoved(l, m, o, k)
  PROVE  ListInv(m, RemoveAt(s, k))
<1>1. PICK n, p, t : n = Len(o) /\ p = RemoveAt(o, k) /\ t = RemoveAt(s, k)
  OBVIOUS
<1>2. o \in Seq(Nodes) /\ s \in Seq(Items) /\ n \in Nat /\ Len(s) = n /\ k \in 1 .. n
  BY <1>1 DEF ListHolds, ListOf
<1>3. p \in Seq(Nodes) /\ TakenAt(o, p, k) /\ t \in Seq(Items) /\ TakenAt(s, t, k)
  BY <1>1, <1>2, RemoveAtIs
<1>4. ListOf(Nodes, m.node, m.head, m.tail, NoNode, p)
  <2>1. ListOf(Nodes, l.node, l.head, l.tail, NoNode, o) /\ RemoveLinks(Nodes, l.node, m.node, NoNode, o, k)
    BY DEF ListHolds, NodeRemoved
  <2>2. /\ m.head = (IF k = 1 THEN NodeAt(o, 2, NoNode) ELSE l.head)
        /\ m.tail = (IF k = Len(o) THEN NodeAt(o, k - 1, NoNode) ELSE l.tail)
    BY DEF NodeRemoved
  <2> QED
    BY <1>1, <1>3, <2>1, <2>2, ListRemove
<1>5. /\ Len(p) = n - 1 /\ Len(t) = n - 1
      /\ \A i \in 1 .. (n - 1) : p[i] = IF i < k THEN o[i] ELSE o[i + 1]
      /\ \A i \in 1 .. (n - 1) : t[i] = IF i < k THEN s[i] ELSE s[i + 1]
  BY <1>1, <1>2, <1>3 DEF TakenAt
<1>6. m.size = Len(p)
  BY <1>1, <1>5 DEF ListHolds, NodeRemoved
<1>7. \A i, j \in 1 .. n : o[i] = o[j] => i = j
  BY <1>1 DEF ListHolds, ListOf
<1>8. m.used = {p[i] : i \in 1 .. (n - 1)}
  <2>1. m.used = l.used \ {o[k]} /\ l.used = {o[i] : i \in 1 .. n}
    BY <1>1 DEF ListHolds, NodeRemoved
  <2>2. ASSUME NEW c \in m.used PROVE \E i \in 1 .. (n - 1) : c = p[i]
    <3>1. PICK j \in 1 .. n : c = o[j] /\ j # k
      BY <2>1
    <3>2. CASE j < k
      BY <1>2, <1>5, <3>1, <3>2
    <3>3. CASE j > k
      <4>1. PICK q : q = j - 1 /\ q \in 1 .. (n - 1) /\ ~ (q < k) /\ q + 1 = j
        BY <1>2, <3>3
      <4> QED
        BY <1>2, <1>5, <3>1, <4>1
    <3> QED
      BY <1>2, <3>1, <3>2, <3>3
  <2>3. ASSUME NEW i \in 1 .. (n - 1) PROVE p[i] \in m.used
    <3>1. (i < k => i \in 1 .. n /\ i # k) /\ (~ (i < k) => i + 1 \in 1 .. n /\ i + 1 # k)
      BY <1>2
    <3>2. \A j \in 1 .. n : j # k => o[j] \in m.used
      BY <1>2, <1>7, <2>1
    <3>3. CASE i < k
      BY <1>5, <3>1, <3>2, <3>3
    <3>4. CASE ~ (i < k)
      BY <1>5, <3>1, <3>2, <3>4
    <3> QED
      BY <3>3, <3>4
  <2> QED
    BY <2>2, <2>3
<1>9. ASSUME NEW i \in 1 .. (n - 1) PROVE t[i] = m.node[p[i]].data
  <2>1. \A j \in 1 .. n : s[j] = l.node[o[j]].data /\ o[j] \in Nodes
    <3>1. \A j \in 1 .. Len(s) : s[j] = l.node[o[j]].data
      BY DEF ListHolds
    <3>2. \A j \in 1 .. n : o[j] \in Nodes
      BY <1>1, <1>2
    <3> QED
      BY <1>2, <3>1, <3>2
  <2>2. \A j \in 1 .. n : s[j] = m.node[o[j]].data
    BY <2>1 DEF NodeRemoved
  <2>3. (i < k => i \in 1 .. n) /\ (~ (i < k) => i + 1 \in 1 .. n)
    BY <1>2
  <2>4. CASE i < k
    BY <1>5, <2>2, <2>3, <2>4
  <2>5. CASE ~ (i < k)
    BY <1>5, <2>2, <2>3, <2>5
  <2> QED
    BY <2>4, <2>5
<1>10. ListHolds(m, t, p)
  BY <1>3, <1>4, <1>5, <1>6, <1>8, <1>9 DEF ListHolds
<1> QED
  BY <1>1, <1>10 DEF ListInv
-----------------------------------------------------------------------------
\* A list that is not full has a node to give.
LEMMA FreshIs ==
  ASSUME NEW l, NEW s, NEW o, ListHolds(l, s, o), l.size < MaxItems
  PROVE  FreshNode(l) \in Nodes \ l.used
<1>1. PICK n : n = Len(o) /\ n = l.size /\ n \in Nat /\ o \in [1 .. n -> Nodes] /\ l.used = {o[i] : i \in 1 .. n}
  BY DEF ListHolds, ListOf
<1>2. MaxItems \in Nat \ {0} /\ Nodes = 1 .. MaxItems
  BY ContainersAssumption DEF Nodes
<1>3. Nodes \ l.used # {}
  <2>1. SUFFICES ASSUME Nodes \subseteq l.used PROVE FALSE
    OBVIOUS
  <2>2. \A c \in Nodes : \E i \in 1 .. n : o[i] = c
    BY <1>1, <2>1
  <2>3. ExistsSurjection(1 .. n, Nodes)
    BY <1>1, <2>2 DEF ExistsSurjection, Surjection
  <2>4. Cardinality(Nodes) <= n
    BY <1>1, <2>3, FS_SurjCardinalityBound
  <2>5. Cardinality(1 .. MaxItems) = IF 1 > MaxItems THEN 0 ELSE MaxItems - 1 + 1
    BY <1>2, FS_Interval
  <2> QED
    BY <1>1, <1>2, <2>4, <2>5
<1>4. \E c \in Nodes \ l.used : \A d \in Nodes \ l.used : c <= d
  <2>1. Nodes \ l.used \in SUBSET Nat
    BY <1>2
  <2> QED
    BY <1>3, <2>1, LeastElement
<1> QED
  BY <1>4 DEF FreshNode

\* The walk from the head comes to the nodes of o in turn.
LEMMA ListAtIs ==
  ASSUME NEW l, NEW s, NEW o, ListHolds(l, s, o), NEW index \in 0 .. (Len(o) - 1)
  PROVE  list_at(l, index) = o[index + 1]
<1>1. PICK n : n = Len(o)
  OBVIOUS
<1>2. ListView(Nodes, l.node, l.head, l.tail, NoNode, o, n)
  BY <1>1, ListFacts DEF ListHolds
<1>3. n \in Nat /\ index \in Nat /\ index < n
  BY <1>1, <1>2 DEF ListView
<1> DEFINE step(f) == [i \in 0 .. index |-> IF i = 0 THEN l.head ELSE l.node[f[i - 1]].next]
           at == CHOOSE f : f = step(f)
           way == [i \in 0 .. index |-> o[i + 1]]
<1>4. way = step(way)
  <2>1. ASSUME NEW i \in 0 .. index PROVE o[i + 1] = IF i = 0 THEN l.head ELSE l.node[way[i - 1]].next
    <3>1. CASE i = 0
      BY <1>1, <1>2, <1>3, <3>1 DEF ListView, NodeAt
    <3>2. CASE i # 0
      <4>1. i - 1 \in 0 .. index /\ (i - 1) + 1 = i /\ i \in 1 .. n /\ i + 1 \in 1 .. n
        BY <1>3, <3>2
      <4>2. way[i - 1] = o[i]
        BY <4>1
      <4>3. l.node[o[i]].next = o[i + 1]
        BY <1>1, <1>2, <4>1 DEF ListView, NodeAt
      <4> QED
        BY <3>2, <4>2, <4>3
    <3> QED
      BY <3>1, <3>2
  <2> QED
    BY <2>1
<1>5. at = step(at)
  BY <1>4
<1>6. list_at(l, index) = at[index]
  BY DEF list_at
<1> HIDE DEF at, way
<1>7. DOMAIN at = 0 .. index /\ \A i \in 0 .. index : at[i] = IF i = 0 THEN l.head ELSE l.node[at[i - 1]].next
  BY <1>5
<1> DEFINE G == {i \in 0 .. index : at[i] = o[i + 1]}
<1>8. 0 \in G
  BY <1>1, <1>2, <1>3, <1>7 DEF ListView, NodeAt
<1>9. ASSUME NEW i \in 1 .. index, i - 1 \in G PROVE i \in G
  <2>1. i \in 0 .. index /\ i # 0 /\ i \in 1 .. n /\ i + 1 \in 1 .. n /\ (i - 1) + 1 = i
    BY <1>3
  <2>2. at[i - 1] = o[i]
    BY <1>9, <2>1
  <2>3. l.node[o[i]].next = o[i + 1]
    BY <1>1, <1>2, <2>1 DEF ListView, NodeAt
  <2> QED
    BY <1>7, <2>1, <2>2, <2>3
<1> HIDE DEF G
<1>10. \A i \in 0 .. index : i \in G
  BY <1>3, <1>8, <1>9, UpTo
<1> QED
  BY <1>3, <1>6, <1>10 DEF G

\* A node with new links and another link changed.
NodeWith(node, b, r, c, d, new) ==
    /\ DOMAIN new = Nodes
    /\ new[b] = r
    /\ \A e \in Nodes \ {b} : /\ DOMAIN new[e] = {"next", "prev", "data"} /\ new[e].data = node[e].data
                              /\ new[e].next = (IF e = c THEN b ELSE node[e].next)
                              /\ new[e].prev = (IF e = d THEN b ELSE node[e].prev)

LEMMA WithPrev ==
  ASSUME NEW node, DOMAIN node = Nodes, \A e \in Nodes : DOMAIN node[e] = {"next", "prev", "data"},
         NEW b \in Nodes, NEW r, NEW d, d # b, d \in Nodes \cup {NoNode}, NEW new,
         new = IF d # NoNode THEN [[node EXCEPT ![b] = r] EXCEPT ![d].prev = b] ELSE [node EXCEPT ![b] = r]
  PROVE  NodeWith(node, b, r, NoNode, d, new)
<1>1. CASE d = NoNode
  BY <1>1, NodesNamed DEF NodeWith
<1>2. CASE d # NoNode
  <2>1. new = [[node EXCEPT ![b] = r] EXCEPT ![d].prev = b] /\ d \in Nodes
    BY <1>2
  <2>2. DOMAIN new = Nodes /\ new[b] = r /\ new[d] = [node[d] EXCEPT !.prev = b]
        /\ \A e \in Nodes \ {b, d} : new[e] = node[e]
    BY <2>1
  <2> QED
    BY <2>1, <2>2, NodesNamed DEF NodeWith
<1> QED
  BY <1>1, <1>2

LEMMA WithNext ==
  ASSUME NEW node, DOMAIN node = Nodes, \A e \in Nodes : DOMAIN node[e] = {"next", "prev", "data"},
         NEW b \in Nodes, NEW r, NEW c, c # b, c \in Nodes \cup {NoNode}, NEW new,
         new = IF c # NoNode THEN [[node EXCEPT ![b] = r] EXCEPT ![c].next = b] ELSE [node EXCEPT ![b] = r]
  PROVE  NodeWith(node, b, r, c, NoNode, new)
<1>1. CASE c = NoNode
  BY <1>1, NodesNamed DEF NodeWith
<1>2. CASE c # NoNode
  <2>1. new = [[node EXCEPT ![b] = r] EXCEPT ![c].next = b] /\ c \in Nodes
    BY <1>2
  <2>2. DOMAIN new = Nodes /\ new[b] = r /\ new[c] = [node[c] EXCEPT !.next = b]
        /\ \A e \in Nodes \ {b, c} : new[e] = node[e]
    BY <2>1
  <2> QED
    BY <2>1, <2>2, NodesNamed DEF NodeWith
<1> QED
  BY <1>1, <1>2

LEMMA WithBoth ==
  ASSUME NEW node, DOMAIN node = Nodes, \A e \in Nodes : DOMAIN node[e] = {"next", "prev", "data"},
         NEW b \in Nodes, NEW r, NEW c \in Nodes, NEW d \in Nodes, c # b, d # b, c # d, NEW new,
         new = [node EXCEPT ![b] = r, ![d].prev = b, ![c].next = b]
  PROVE  NodeWith(node, b, r, c, d, new)
<1>1. DOMAIN new = Nodes /\ new[b] = r /\ new[c] = [node[c] EXCEPT !.next = b] /\ new[d] = [node[d] EXCEPT !.prev = b]
      /\ \A e \in Nodes \ {b, c, d} : new[e] = node[e]
  OBVIOUS
<1> QED
  BY <1>1 DEF NodeWith
-----------------------------------------------------------------------------
\* The list m is l with x in the node b, as the operations write it.
ListWith(l, m, o, k, b, x) ==
    LET c == NodeAt(o, k - 1, NoNode)  d == NodeAt(o, k, NoNode)
    IN  /\ DOMAIN m = {"node", "head", "tail", "size", "used"}
        /\ NodeWith(l.node, b, [next |-> d, prev |-> c, data |-> x], c, d, m.node)
        /\ m.head = (IF k = 1 THEN b ELSE l.head) /\ m.tail = (IF k = Len(o) + 1 THEN b ELSE l.tail)
        /\ m.size = l.size + 1 /\ m.used = l.used \cup {b}

LEMMA ListPutIn ==
  ASSUME NEW l, NEW s, NEW o, ListHolds(l, s, o), NEW k \in 1 .. (Len(o) + 1), NEW b \in Nodes \ l.used, NEW x \in Items,
         NEW m, ListWith(l, m, o, k, b, x)
  PROVE  ListInv(m, InsertAt(s, k, x))
<1>0. PICK c, d : /\ c = NodeAt(o, k - 1, NoNode) /\ d = NodeAt(o, k, NoNode)
                  /\ NodeWith(l.node, b, [next |-> d, prev |-> c, data |-> x], c, d, m.node)
  BY DEF ListWith
<1>00. /\ DOMAIN m = {"node", "head", "tail", "size", "used"}
       /\ m.head = (IF k = 1 THEN b ELSE l.head) /\ m.tail = (IF k = Len(o) + 1 THEN b ELSE l.tail)
       /\ m.size = l.size + 1 /\ m.used = l.used \cup {b}
  BY DEF ListWith
<1>1. PICK r : r = [next |-> d, prev |-> c, data |-> x]
  OBVIOUS
<1>2. DOMAIN r = {"next", "prev", "data"} /\ r.next = d /\ r.prev = c /\ r.data = x
  BY <1>1
<1>3. m.node[b] = r /\ DOMAIN m.node = Nodes
  BY <1>0, <1>1 DEF NodeWith
<1>4. \A e \in Nodes \ {b} : /\ DOMAIN m.node[e] = {"next", "prev", "data"} /\ m.node[e].data = l.node[e].data
                             /\ m.node[e].next = (IF e = c THEN b ELSE l.node[e].next)
                             /\ m.node[e].prev = (IF e = d THEN b ELSE l.node[e].prev)
  BY <1>0 DEF NodeWith
<1>5. ListShape(m)
  <2>1. ASSUME NEW e \in Nodes PROVE DOMAIN m.node[e] = {"next", "prev", "data"}
    BY <1>2, <1>3, <1>4
  <2> QED
    BY <1>00, <1>3, <2>1 DEF ListShape
<1>6. InsertLinks(Nodes, l.node, m.node, NoNode, o, k, b)
  BY <1>0, <1>2, <1>3, <1>4 DEF InsertLinks
<1>7. NodeInserted(l, m, o, k, b, x)
  BY <1>00, <1>2, <1>3, <1>4, <1>6 DEF NodeInserted
<1> QED
  BY <1>5, <1>7, InsertedHolds

\* What the operations read of a list.
ListReads(l, o, n) ==
    /\ n \in Nat /\ l.size = n /\ l.used = {o[i] : i \in 1 .. n}
    /\ \A i \in 1 .. n : o[i] \in Nodes /\ o[i] # NoNode
    /\ l.head = NodeAt(o, 1, NoNode) /\ l.tail = NodeAt(o, n, NoNode)
    /\ \A i \in 1 .. n : /\ l.node[o[i]].next = NodeAt(o, i + 1, NoNode)
                         /\ l.node[o[i]].prev = NodeAt(o, i - 1, NoNode)
    /\ \A i, j \in 1 .. n : o[i] = o[j] => i = j

LEMMA HoldsFacts ==
  ASSUME NEW l, NEW s, NEW o, ListHolds(l, s, o), NEW n, n = Len(o)
  PROVE  ListReads(l, o, n)
<1>1. ListOf(Nodes, l.node, l.head, l.tail, NoNode, o) /\ l.size = n /\ l.used = {o[i] : i \in 1 .. n}
  BY DEF ListHolds
<1>2. ListView(Nodes, l.node, l.head, l.tail, NoNode, o, n)
  BY <1>1, ListFacts
<1> QED
  BY <1>1, <1>2, NodesNamed DEF ListView, ListReads

LEMMA PushFrontInv ==
  ASSUME NEW l, NEW s, ListInv(l, s), l.size < MaxItems, NEW x \in Items
  PROVE  ListInv(list_push_front(l, x), InsertAt(s, 1, x))
<1>1. PICK o : ListHolds(l, s, o)
  BY DEF ListInv
<1>2. PICK n, b, h, m, new : /\ n = Len(o) /\ b = FreshNode(l) /\ h = l.head /\ m = list_push_front(l, x) /\ new = m.node
  OBVIOUS
<1>3. /\ n \in Nat /\ l.size = n /\ l.used = {o[i] : i \in 1 .. n}
      /\ \A i \in 1 .. n : o[i] \in Nodes /\ o[i] # NoNode
      /\ h = NodeAt(o, 1, NoNode) /\ l.tail = NodeAt(o, n, NoNode)
  <2>1. ListReads(l, o, n)
    BY <1>1, <1>2, HoldsFacts
  <2> QED
    BY <1>2, <2>1 DEF ListReads
<1>4. b \in Nodes \ l.used
  BY <1>1, <1>2, FreshIs
<1>5. h # b /\ h \in Nodes \cup {NoNode} /\ (h # NoNode <=> n # 0) /\ (l.tail # NoNode <=> n # 0)
  <2>1. CASE n = 0
    BY <1>2, <1>3, <1>4, <2>1, NodesNamed DEF NodeAt
  <2>2. CASE n # 0
    <3>1. 1 \in 1 .. n /\ n \in 1 .. n
      BY <1>3, <2>2
    <3> QED
      BY <1>2, <1>3, <1>4, <2>2, <3>1 DEF NodeAt
  <2> QED
    BY <2>1, <2>2
<1>6. PICK r : r = [next |-> h, prev |-> NoNode, data |-> x]
  OBVIOUS
<1>7. /\ new = IF h # NoNode THEN [[l.node EXCEPT ![b] = r] EXCEPT ![h].prev = b] ELSE [l.node EXCEPT ![b] = r]
      /\ DOMAIN m = {"node", "head", "tail", "size", "used"}
      /\ m.head = b /\ m.tail = (IF l.tail # NoNode THEN l.tail ELSE b) /\ m.size = l.size + 1 /\ m.used = l.used \cup {b}
  BY <1>2, <1>6 DEF list_push_front
<1>8. DOMAIN l.node = Nodes /\ \A e \in Nodes : DOMAIN l.node[e] = {"next", "prev", "data"}
  BY DEF ListInv, ListShape
<1>9. NodeWith(l.node, b, r, NoNode, h, new)
  BY <1>4, <1>5, <1>7, <1>8, WithPrev
<1>10. NodeAt(o, 1 - 1, NoNode) = NoNode /\ 1 \in 1 .. (Len(o) + 1)
  BY <1>2, <1>3 DEF NodeAt
<1>11. m.tail = IF 1 = Len(o) + 1 THEN b ELSE l.tail
  BY <1>2, <1>3, <1>5, <1>7
<1>12. PICK k, c : k = 1 /\ c = NoNode
  OBVIOUS
<1>13. ListInv(m, InsertAt(s, k, x))
  <2>1. k \in 1 .. (Len(o) + 1) /\ c = NodeAt(o, k - 1, NoNode) /\ h = NodeAt(o, k, NoNode)
    BY <1>3, <1>10, <1>12
  <2>2. NodeWith(l.node, b, [next |-> h, prev |-> c, data |-> x], c, h, m.node)
    BY <1>2, <1>6, <1>9, <1>12
  <2>3. m.head = (IF k = 1 THEN b ELSE l.head) /\ m.tail = (IF k = Len(o) + 1 THEN b ELSE l.tail)
    BY <1>7, <1>11, <1>12
  <2>4. ListWith(l, m, o, k, b, x)
    BY <1>7, <2>1, <2>2, <2>3 DEF ListWith
  <2> QED
    BY <1>1, <1>4, <2>1, <2>4, ListPutIn
<1> QED
  BY <1>2, <1>12, <1>13

LEMMA PushBackInv ==
  ASSUME NEW l, NEW s, ListInv(l, s), l.size < MaxItems, NEW x \in Items, NEW k, k = l.size + 1
  PROVE  ListInv(list_push_back(l, x), InsertAt(s, k, x))
<1>1. PICK o : ListHolds(l, s, o)
  BY DEF ListInv
<1>2. PICK n, b, h, m, new : /\ n = Len(o) /\ b = FreshNode(l) /\ h = l.tail /\ m = list_push_back(l, x) /\ new = m.node
  OBVIOUS
<1>3. /\ n \in Nat /\ l.size = n /\ l.used = {o[i] : i \in 1 .. n}
      /\ \A i \in 1 .. n : o[i] \in Nodes /\ o[i] # NoNode
      /\ h = NodeAt(o, n, NoNode) /\ l.head = NodeAt(o, 1, NoNode)
  <2>1. ListReads(l, o, n)
    BY <1>1, <1>2, HoldsFacts
  <2> QED
    BY <1>2, <2>1 DEF ListReads
<1>4. b \in Nodes \ l.used
  BY <1>1, <1>2, FreshIs
<1>5. h # b /\ h \in Nodes \cup {NoNode} /\ (h # NoNode <=> n # 0) /\ (l.head # NoNode <=> n # 0)
  <2>1. CASE n = 0
    BY <1>2, <1>3, <1>4, <2>1, NodesNamed DEF NodeAt
  <2>2. CASE n # 0
    <3>1. 1 \in 1 .. n /\ n \in 1 .. n
      BY <1>3, <2>2
    <3> QED
      BY <1>2, <1>3, <1>4, <2>2, <3>1 DEF NodeAt
  <2> QED
    BY <2>1, <2>2
<1>6. PICK r : r = [next |-> NoNode, prev |-> h, data |-> x]
  OBVIOUS
<1>7. /\ new = IF h # NoNode THEN [[l.node EXCEPT ![b] = r] EXCEPT ![h].next = b] ELSE [l.node EXCEPT ![b] = r]
      /\ DOMAIN m = {"node", "head", "tail", "size", "used"}
      /\ m.tail = b /\ m.head = (IF l.head # NoNode THEN l.head ELSE b) /\ m.size = l.size + 1 /\ m.used = l.used \cup {b}
  BY <1>2, <1>6 DEF list_push_back
<1>8. DOMAIN l.node = Nodes /\ \A e \in Nodes : DOMAIN l.node[e] = {"next", "prev", "data"}
  BY DEF ListInv, ListShape
<1>9. NodeWith(l.node, b, r, h, NoNode, new)
  BY <1>4, <1>5, <1>7, <1>8, WithNext
<1>10. k = n + 1 /\ k - 1 = n /\ k \in 1 .. (Len(o) + 1) /\ NodeAt(o, k, NoNode) = NoNode
  BY <1>2, <1>3 DEF NodeAt
<1>11. m.head = (IF k = 1 THEN b ELSE l.head) /\ m.tail = (IF k = Len(o) + 1 THEN b ELSE l.tail)
  BY <1>2, <1>3, <1>5, <1>7, <1>10
<1>12. PICK d : d = NoNode
  OBVIOUS
<1>13. ListInv(m, InsertAt(s, k, x))
  <2>1. h = NodeAt(o, k - 1, NoNode) /\ d = NodeAt(o, k, NoNode)
    BY <1>3, <1>10, <1>12
  <2>2. NodeWith(l.node, b, [next |-> d, prev |-> h, data |-> x], h, d, m.node)
    BY <1>2, <1>6, <1>9, <1>12
  <2>3. ListWith(l, m, o, k, b, x)
    BY <1>7, <1>11, <2>1, <2>2 DEF ListWith
  <2> QED
    BY <1>1, <1>4, <1>10, <2>3, ListPutIn
<1> QED
  BY <1>2, <1>13

LEMMA ListInsertInv ==
  ASSUME NEW l, NEW s, ListInv(l, s), l.size < MaxItems, NEW index \in 0 .. l.size, NEW x \in Items
  PROVE  ListInv(list_insert(l, index, x), InsertAt(s, index + 1, x))
<1>1. PICK o : ListHolds(l, s, o)
  BY DEF ListInv
<1>2. PICK n, b, k : n = Len(o) /\ b = FreshNode(l) /\ k = index + 1
  OBVIOUS
<1>3. /\ n \in Nat /\ l.size = n /\ l.used = {o[i] : i \in 1 .. n}
      /\ \A i \in 1 .. n : o[i] \in Nodes /\ o[i] # NoNode
      /\ \A i \in 1 .. n : l.node[o[i]].next = NodeAt(o, i + 1, NoNode)
      /\ \A i, j \in 1 .. n : o[i] = o[j] => i = j
  <2>1. ListReads(l, o, n)
    BY <1>1, <1>2, HoldsFacts
  <2> QED
    BY <1>2, <2>1 DEF ListReads
<1>4. CASE index = 0
  <2>1. list_insert(l, index, x) = list_push_front(l, x) /\ index + 1 = 1
    BY <1>4 DEF list_insert
  <2>2. ListInv(list_push_front(l, x), InsertAt(s, 1, x))
    BY PushFrontInv
  <2> QED
    BY <2>1, <2>2
<1>5. CASE index = n /\ index # 0
  <2>1. list_insert(l, index, x) = list_push_back(l, x) /\ k = l.size + 1
    BY <1>2, <1>3, <1>5 DEF list_insert
  <2>2. ListInv(list_push_back(l, x), InsertAt(s, k, x))
    BY <2>1, PushBackInv
  <2> QED
    BY <1>2, <2>1, <2>2
<1>6. CASE index # n /\ index # 0
  <2>1. index \in 1 .. n /\ k \in 1 .. n /\ index # k /\ k - 1 = index /\ ~ (index >= l.size) /\ index - 1 \in 0 .. (Len(o) - 1)
        /\ (index - 1) + 1 = index
    BY <1>2, <1>3, <1>6
  <2>2. b \in Nodes \ l.used
    BY <1>1, <1>2, FreshIs
  <2>3. PICK c, d : c = o[index] /\ d = o[k]
    OBVIOUS
  <2>4. c \in Nodes /\ d \in Nodes /\ c # b /\ d # b /\ c # d
    BY <1>3, <2>1, <2>2, <2>3
  <2>5. list_at(l, index - 1) = c
    BY <1>1, <2>1, <2>3, ListAtIs
  <2>6. l.node[c].next = d
    BY <1>2, <1>3, <2>1, <2>3 DEF NodeAt
  <2>7. PICK m, r, new : m = list_insert(l, index, x) /\ r = [next |-> d, prev |-> c, data |-> x] /\ new = m.node
    OBVIOUS
  <2>8. m = [l EXCEPT !.node = [l.node EXCEPT ![b] = r, ![d].prev = b, ![c].next = b],
                      !.size = l.size + 1, !.used = l.used \cup {b}]
    BY <1>2, <1>6, <2>1, <2>5, <2>6, <2>7 DEF list_insert
  <2>9. DOMAIN l = {"node", "head", "tail", "size", "used"} /\ DOMAIN l.node = Nodes
        /\ \A e \in Nodes : DOMAIN l.node[e] = {"next", "prev", "data"}
    BY DEF ListInv, ListShape
  <2>10. /\ DOMAIN m = {"node", "head", "tail", "size", "used"} /\ new = [l.node EXCEPT ![b] = r, ![d].prev = b, ![c].next = b]
         /\ m.head = l.head /\ m.tail = l.tail /\ m.size = l.size + 1 /\ m.used = l.used \cup {b}
    BY <2>7, <2>8, <2>9
  <2>11. NodeWith(l.node, b, r, c, d, new)
    BY <2>2, <2>4, <2>9, <2>10, WithBoth
  <2>12. c = NodeAt(o, k - 1, NoNode) /\ d = NodeAt(o, k, NoNode)
    BY <1>2, <2>1, <2>3 DEF NodeAt
  <2>13. k \in 1 .. (Len(o) + 1) /\ m.head = (IF k = 1 THEN b ELSE l.head) /\ m.tail = (IF k = Len(o) + 1 THEN b ELSE l.tail)
    BY <1>2, <1>3, <1>6, <2>1, <2>10
  <2>14. NodeWith(l.node, b, [next |-> d, prev |-> c, data |-> x], c, d, m.node)
    BY <2>7, <2>11
  <2>15. ListWith(l, m, o, k, b, x)
    BY <2>10, <2>12, <2>13, <2>14 DEF ListWith
  <2>16. ListInv(m, InsertAt(s, k, x))
    BY <1>1, <2>2, <2>13, <2>15, ListPutIn
  <2> QED
    BY <1>2, <2>7, <2>16
<1> QED
  BY <1>3, <1>4, <1>5, <1>6
-----------------------------------------------------------------------------
\* The link next of c, and the link prev of d, lead to other nodes.
NodeLess(node, c, d, new) ==
    /\ DOMAIN new = Nodes
    /\ \A e \in Nodes : /\ DOMAIN new[e] = {"next", "prev", "data"} /\ new[e].data = node[e].data
                        /\ new[e].next = (IF e = c THEN d ELSE node[e].next)
                        /\ new[e].prev = (IF e = d THEN c ELSE node[e].prev)

LEMMA LessPrev ==
  ASSUME NEW node, DOMAIN node = Nodes, \A e \in Nodes : DOMAIN node[e] = {"next", "prev", "data"},
         NEW d \in Nodes \cup {NoNode}, NEW new,
         new = IF d # NoNode THEN [node EXCEPT ![d].prev = NoNode] ELSE node
  PROVE  NodeLess(node, NoNode, d, new)
<1>1. CASE d = NoNode
  BY <1>1, NodesNamed DEF NodeLess
<1>2. CASE d # NoNode
  <2>1. DOMAIN new = Nodes /\ new[d] = [node[d] EXCEPT !.prev = NoNode] /\ d \in Nodes
        /\ \A e \in Nodes \ {d} : new[e] = node[e]
    BY <1>2
  <2> QED
    BY <2>1, NodesNamed DEF NodeLess
<1> QED
  BY <1>1, <1>2

LEMMA LessNext ==
  ASSUME NEW node, DOMAIN node = Nodes, \A e \in Nodes : DOMAIN node[e] = {"next", "prev", "data"},
         NEW c \in Nodes \cup {NoNode}, NEW new,
         new = IF c # NoNode THEN [node EXCEPT ![c].next = NoNode] ELSE node
  PROVE  NodeLess(node, c, NoNode, new)
<1>1. CASE c = NoNode
  BY <1>1, NodesNamed DEF NodeLess
<1>2. CASE c # NoNode
  <2>1. DOMAIN new = Nodes /\ new[c] = [node[c] EXCEPT !.next = NoNode] /\ c \in Nodes
        /\ \A e \in Nodes \ {c} : new[e] = node[e]
    BY <1>2
  <2> QED
    BY <2>1, NodesNamed DEF NodeLess
<1> QED
  BY <1>1, <1>2

LEMMA LessBoth ==
  ASSUME NEW node, DOMAIN node = Nodes, \A e \in Nodes : DOMAIN node[e] = {"next", "prev", "data"},
         NEW c \in Nodes, NEW d \in Nodes, c # d, NEW new, new = [node EXCEPT ![c].next = d, ![d].prev = c]
  PROVE  NodeLess(node, c, d, new)
<1>1. DOMAIN new = Nodes /\ new[c] = [node[c] EXCEPT !.next = d] /\ new[d] = [node[d] EXCEPT !.prev = c]
      /\ \A e \in Nodes \ {c, d} : new[e] = node[e]
  OBVIOUS
<1> QED
  BY <1>1 DEF NodeLess

\* The list m is l without its k-th node, as the operations write it.
ListLess(l, m, o, k) ==
    LET c == NodeAt(o, k - 1, NoNode)  d == NodeAt(o, k + 1, NoNode)
    IN  /\ DOMAIN m = {"node", "head", "tail", "size", "used"}
        /\ NodeLess(l.node, c, d, m.node)
        /\ m.head = (IF k = 1 THEN NodeAt(o, 2, NoNode) ELSE l.head) /\ m.tail = (IF k = Len(o) THEN c ELSE l.tail)
        /\ m.size = l.size - 1 /\ m.used = l.used \ {o[k]}

LEMMA ListTakeOut ==
  ASSUME NEW l, NEW s, NEW o, ListHolds(l, s, o), NEW k \in 1 .. Len(o), NEW m, ListLess(l, m, o, k)
  PROVE  ListInv(m, RemoveAt(s, k))
<1>1. PICK c, d : c = NodeAt(o, k - 1, NoNode) /\ d = NodeAt(o, k + 1, NoNode) /\ NodeLess(l.node, c, d, m.node)
  BY DEF ListLess
<1>2. /\ DOMAIN m = {"node", "head", "tail", "size", "used"}
      /\ m.head = (IF k = 1 THEN NodeAt(o, 2, NoNode) ELSE l.head) /\ m.tail = (IF k = Len(o) THEN c ELSE l.tail)
      /\ m.size = l.size - 1 /\ m.used = l.used \ {o[k]}
  BY <1>1 DEF ListLess
<1>3. /\ DOMAIN m.node = Nodes
      /\ \A e \in Nodes : /\ DOMAIN m.node[e] = {"next", "prev", "data"} /\ m.node[e].data = l.node[e].data
                          /\ m.node[e].next = (IF e = c THEN d ELSE l.node[e].next)
                          /\ m.node[e].prev = (IF e = d THEN c ELSE l.node[e].prev)
  BY <1>1 DEF NodeLess
<1>4. ListShape(m)
  BY <1>2, <1>3 DEF ListShape
<1>5. RemoveLinks(Nodes, l.node, m.node, NoNode, o, k)
  BY <1>1, <1>3 DEF RemoveLinks
<1>6. NodeRemoved(l, m, o, k)
  BY <1>1, <1>2, <1>3, <1>5 DEF NodeRemoved
<1> QED
  BY <1>4, <1>6, RemovedHolds

LEMMA PopFrontInv ==
  ASSUME NEW l, NEW s, ListInv(l, s), l.size > 0, NEW k, k = 1
  PROVE  ListInv(list_pop_front(l), RemoveAt(s, k))
<1>1. PICK o : ListHolds(l, s, o)
  BY DEF ListInv
<1>2. PICK n, h, d, m, new : n = Len(o) /\ h = l.head /\ d = l.node[h].next /\ m = list_pop_front(l) /\ new = m.node
  OBVIOUS
<1>3. /\ n \in Nat /\ l.size = n /\ \A i \in 1 .. n : o[i] \in Nodes /\ o[i] # NoNode
      /\ h = NodeAt(o, 1, NoNode)
      /\ \A i \in 1 .. n : l.node[o[i]].next = NodeAt(o, i + 1, NoNode)
  <2>1. ListReads(l, o, n)
    BY <1>1, <1>2, HoldsFacts
  <2> QED
    BY <1>2, <2>1 DEF ListReads
<1>4. k \in 1 .. Len(o) /\ h = o[k] /\ k + 1 = 2 /\ k - 1 = 0 /\ NodeAt(o, k - 1, NoNode) = NoNode
  BY <1>2, <1>3 DEF NodeAt
<1>5. d = NodeAt(o, k + 1, NoNode) /\ d \in Nodes \cup {NoNode} /\ (d # NoNode <=> k # Len(o))
  <2>1. d = NodeAt(o, k + 1, NoNode)
    BY <1>2, <1>3, <1>4
  <2>2. k + 1 \in 1 .. n <=> k # n
    BY <1>2, <1>3, <1>4
  <2> QED
    BY <1>2, <1>3, <2>1, <2>2 DEF NodeAt
<1>6. /\ new = IF d # NoNode THEN [l.node EXCEPT ![d].prev = NoNode] ELSE l.node
      /\ DOMAIN m = {"node", "head", "tail", "size", "used"}
      /\ m.head = d /\ m.tail = (IF d # NoNode THEN l.tail ELSE NoNode) /\ m.size = l.size - 1 /\ m.used = l.used \ {h}
  BY <1>2 DEF list_pop_front
<1>7. DOMAIN l.node = Nodes /\ \A e \in Nodes : DOMAIN l.node[e] = {"next", "prev", "data"}
  BY DEF ListInv, ListShape
<1>8. NodeLess(l.node, NoNode, d, new)
  BY <1>5, <1>6, <1>7, LessPrev
<1>9. m.head = NodeAt(o, 2, NoNode)
  BY <1>4, <1>5, <1>6
<1>10. ListLess(l, m, o, k)
  BY <1>2, <1>4, <1>5, <1>6, <1>8, <1>9 DEF ListLess
<1> QED
  BY <1>1, <1>2, <1>4, <1>10, ListTakeOut

LEMMA PopBackInv ==
  ASSUME NEW l, NEW s, ListInv(l, s), NEW k, k = l.size, k > 1
  PROVE  ListInv(list_pop_back(l), RemoveAt(s, k))
<1>1. PICK o : ListHolds(l, s, o)
  BY DEF ListInv
<1>2. PICK n, h, c, m, new : n = Len(o) /\ h = l.tail /\ c = l.node[h].prev /\ m = list_pop_back(l) /\ new = m.node
  OBVIOUS
<1>3. /\ n \in Nat /\ l.size = n /\ \A i \in 1 .. n : o[i] \in Nodes /\ o[i] # NoNode
      /\ h = NodeAt(o, n, NoNode)
      /\ \A i \in 1 .. n : l.node[o[i]].prev = NodeAt(o, i - 1, NoNode)
  <2>1. ListReads(l, o, n)
    BY <1>1, <1>2, HoldsFacts
  <2> QED
    BY <1>2, <2>1 DEF ListReads
<1>4. k \in 1 .. Len(o) /\ k = Len(o) /\ k # 1 /\ h = o[k] /\ k - 1 \in 1 .. n /\ NodeAt(o, k + 1, NoNode) = NoNode
  BY <1>2, <1>3 DEF NodeAt
<1>5. c = NodeAt(o, k - 1, NoNode) /\ c \in Nodes /\ c # NoNode
  <2>1. c = NodeAt(o, k - 1, NoNode)
    BY <1>2, <1>3, <1>4
  <2> QED
    BY <1>2, <1>3, <1>4, <2>1 DEF NodeAt
<1>6. /\ new = IF c # NoNode THEN [l.node EXCEPT ![c].next = NoNode] ELSE l.node
      /\ DOMAIN m = {"node", "head", "tail", "size", "used"}
      /\ m.tail = c /\ m.head = (IF c # NoNode THEN l.head ELSE NoNode) /\ m.size = l.size - 1 /\ m.used = l.used \ {h}
  BY <1>2 DEF list_pop_back
<1>7. DOMAIN l.node = Nodes /\ \A e \in Nodes : DOMAIN l.node[e] = {"next", "prev", "data"}
  BY DEF ListInv, ListShape
<1>8. NodeLess(l.node, c, NoNode, new)
  BY <1>5, <1>6, <1>7, LessNext
<1>9. ListLess(l, m, o, k)
  BY <1>2, <1>4, <1>5, <1>6, <1>8 DEF ListLess
<1> QED
  BY <1>1, <1>2, <1>4, <1>9, ListTakeOut

LEMMA ListRemoveInv ==
  ASSUME NEW l, NEW s, ListInv(l, s), NEW index \in 0 .. (l.size - 1)
  PROVE  ListInv(list_remove(l, index), RemoveAt(s, index + 1))
<1>1. PICK o : ListHolds(l, s, o)
  BY DEF ListInv
<1>2. PICK n, k : n = Len(o) /\ k = index + 1
  OBVIOUS
<1>3. /\ n \in Nat /\ l.size = n /\ \A i \in 1 .. n : o[i] \in Nodes /\ o[i] # NoNode
      /\ \A i \in 1 .. n : /\ l.node[o[i]].next = NodeAt(o, i + 1, NoNode)
                           /\ l.node[o[i]].prev = NodeAt(o, i - 1, NoNode)
      /\ \A i, j \in 1 .. n : o[i] = o[j] => i = j
  <2>1. ListReads(l, o, n)
    BY <1>1, <1>2, HoldsFacts
  <2> QED
    BY <1>2, <2>1 DEF ListReads
<1>4. CASE index = 0
  <2>1. list_remove(l, index) = list_pop_front(l) /\ k = 1 /\ l.size > 0
    BY <1>2, <1>3, <1>4 DEF list_remove
  <2>2. ListInv(list_pop_front(l), RemoveAt(s, k))
    BY <2>1, PopFrontInv
  <2> QED
    BY <1>2, <2>1, <2>2
<1>5. CASE index = l.size - 1 /\ index # 0
  <2>1. list_remove(l, index) = list_pop_back(l) /\ k = l.size /\ k > 1
    BY <1>2, <1>3, <1>5 DEF list_remove
  <2>2. ListInv(list_pop_back(l), RemoveAt(s, k))
    BY <2>1, PopBackInv
  <2> QED
    BY <1>2, <2>1, <2>2
<1>6. CASE index # l.size - 1 /\ index # 0
  <2>1. k \in 1 .. n /\ k # 1 /\ k # n /\ k - 1 \in 1 .. n /\ k + 1 \in 1 .. n /\ index \in 0 .. (Len(o) - 1)
    BY <1>2, <1>3, <1>6
  <2>2. PICK b, c, d : b = o[k] /\ c = o[k - 1] /\ d = o[k + 1]
    OBVIOUS
  <2>3. c \in Nodes /\ d \in Nodes /\ c # d
    BY <1>2, <1>3, <2>1, <2>2
  <2>4. list_at(l, index) = b
    BY <1>1, <1>2, <2>1, <2>2, ListAtIs
  <2>5. NodeAt(o, k + 1, NoNode) = d /\ NodeAt(o, k - 1, NoNode) = c
    BY <1>2, <2>1, <2>2 DEF NodeAt
  <2>6. l.node[b].next = d /\ l.node[b].prev = c
    BY <1>3, <2>1, <2>2, <2>5
  <2>7. PICK m, new : m = list_remove(l, index) /\ new = m.node
    OBVIOUS
  <2>8. m = [l EXCEPT !.node = [l.node EXCEPT ![c].next = d, ![d].prev = c], !.size = l.size - 1, !.used = l.used \ {b}]
    BY <1>6, <2>4, <2>6, <2>7 DEF list_remove
  <2>9. DOMAIN l = {"node", "head", "tail", "size", "used"} /\ DOMAIN l.node = Nodes
        /\ \A e \in Nodes : DOMAIN l.node[e] = {"next", "prev", "data"}
    BY DEF ListInv, ListShape
  <2>10. /\ DOMAIN m = {"node", "head", "tail", "size", "used"} /\ new = [l.node EXCEPT ![c].next = d, ![d].prev = c]
         /\ m.head = l.head /\ m.tail = l.tail /\ m.size = l.size - 1 /\ m.used = l.used \ {b}
    BY <2>7, <2>8, <2>9
  <2>11. NodeLess(l.node, c, d, new)
    BY <2>3, <2>9, <2>10, LessBoth
  <2>12. ListLess(l, m, o, k)
    BY <1>2, <2>1, <2>2, <2>5, <2>7, <2>10, <2>11 DEF ListLess
  <2>13. ListInv(m, RemoveAt(s, k))
    BY <1>1, <1>2, <2>1, <2>12, ListTakeOut
  <2> QED
    BY <1>2, <2>7, <2>13
<1> QED
  BY <1>4, <1>5, <1>6

LEMMA EmptyListInv == ListInv(EmptyList, <<>>)
<1>1. ListShape(EmptyList)
  BY DEF ListShape, EmptyList
<1>2. ListHolds(EmptyList, <<>>, <<>>)
  <2>1. ListOf(Nodes, EmptyList.node, EmptyList.head, EmptyList.tail, NoNode, <<>>)
    BY NodesNamed DEF ListOf, LinkedAs, EmptyList
  <2> QED
    BY <2>1 DEF ListHolds, EmptyList
<1> QED
  BY <1>1, <1>2 DEF ListInv
-----------------------------------------------------------------------------
\* The place of the ring that is i places after h.
LEMMA PlaceAfter ==
  ASSUME NEW c \in Nat \ {0}, NEW h \in 0 .. (c - 1), NEW i \in 0 .. c
  PROVE  (h + i) % c = (IF h + i < c THEN h + i ELSE h + i - c) /\ (h + i) % c \in 0 .. (c - 1)
<1>1. PICK x \in 0 .. (2 * c - 1) : x = h + i
  OBVIOUS
<1>2. x % c = IF x < c THEN x ELSE x - c
  BY RingMod
<1> QED
  BY <1>1, <1>2

\* The ring buffer r holds the items of s, and full marks the ring that has all it can.
RBufShape(r) ==
    DOMAIN r = {"buffer", "head", "tail", "size", "full"} /\ DOMAIN r.buffer = 0 .. (RingCapacity - 1)
RBufHolds(r, s) ==
    /\ s \in Seq(Items) /\ r.size = Len(s) /\ r.size <= RingCapacity
    /\ r.head \in 0 .. (RingCapacity - 1) /\ r.tail = (r.head + r.size) % RingCapacity
    /\ r.full = (r.size = RingCapacity)
    /\ \A i \in 0 .. (Len(s) - 1) : r.buffer[(r.head + i) % RingCapacity] = s[i + 1]
RBufInv(r, s) == RBufShape(r) /\ RBufHolds(r, s)

LEMMA RBufEnqueueInv ==
  ASSUME NEW r, NEW s, RBufInv(r, s), NEW x \in Items
  PROVE  RBufInv(ring_enqueue(r, x), IF Len(s) < RingCapacity THEN Append(s, x) ELSE s)
<1>1. PICK c, n, h, t, p : c = RingCapacity /\ n = Len(s) /\ h = r.head /\ t = r.tail /\ p = (t + 1) % c
  OBVIOUS
<1>2. /\ c \in Nat \ {0} /\ n \in Nat /\ n <= c /\ h \in 0 .. (c - 1) /\ r.size = n /\ t = (h + n) % c
      /\ s \in Seq(Items) /\ \A i \in 0 .. (n - 1) : r.buffer[(h + i) % c] = s[i + 1]
  <2>1. RingCapacity \in Nat \ {0}
    BY ContainersAssumption
  <2>2. /\ s \in Seq(Items) /\ r.size = Len(s) /\ r.size <= RingCapacity
        /\ r.head \in 0 .. (RingCapacity - 1) /\ r.tail = (r.head + r.size) % RingCapacity
    BY DEF RBufInv, RBufHolds
  <2>3. \A i \in 0 .. (Len(s) - 1) : r.buffer[(r.head + i) % RingCapacity] = s[i + 1]
    BY DEF RBufInv, RBufHolds
  <2>4. Len(s) \in Nat
    BY <2>2
  <2> QED
    BY <1>1, <2>1, <2>2, <2>3, <2>4
<1>3. r.full = (n = c)
  <2>1. r.full = (r.size = RingCapacity)
    BY DEF RBufInv, RBufHolds
  <2> QED
    BY <1>1, <1>2, <2>1
<1>4. CASE n = c
  <2>1. ring_enqueue(r, x) = r
    BY <1>3, <1>4 DEF ring_enqueue
  <2>2. ~ (Len(s) < RingCapacity)
    BY <1>1, <1>2, <1>4
  <2> QED
    BY <2>1, <2>2
<1>5. CASE n # c
  <2>1. PICK m, u : m = ring_enqueue(r, x) /\ u = Append(s, x)
    OBVIOUS
  <2>2. m = [r EXCEPT !.buffer = [r.buffer EXCEPT ![t] = x], !.tail = p, !.size = n + 1, !.full = (p = h)]
    BY <1>1, <1>2, <1>3, <1>5, <2>1 DEF ring_enqueue
  <2>3. DOMAIN r = {"buffer", "head", "tail", "size", "full"} /\ DOMAIN r.buffer = 0 .. (c - 1)
    BY <1>1 DEF RBufInv, RBufShape
  <2>4. /\ DOMAIN m = {"buffer", "head", "tail", "size", "full"}
        /\ m.head = h /\ m.tail = p /\ m.size = n + 1 /\ m.full = (p = h) /\ m.buffer = [r.buffer EXCEPT ![t] = x]
    BY <1>1, <2>2, <2>3
  <2>5. t = (IF h + n < c THEN h + n ELSE h + n - c) /\ t \in 0 .. (c - 1)
    <3>1. n \in 0 .. c
      BY <1>2
    <3> QED
      BY <1>2, <3>1, PlaceAfter
  <2>6. DOMAIN m.buffer = 0 .. (c - 1) /\ m.buffer[t] = x /\ \A i \in 0 .. (c - 1) : i # t => m.buffer[i] = r.buffer[i]
    BY <2>3, <2>4, <2>5
  <2>7. u \in Seq(Items) /\ Len(u) = n + 1 /\ u[n + 1] = x /\ \A i \in 1 .. n : u[i] = s[i]
    BY <1>1, <1>2, <2>1
  <2>8. p = (IF t + 1 < c THEN t + 1 ELSE t + 1 - c)
    <3>1. 1 \in 0 .. c
      BY <1>2
    <3> QED
      BY <1>1, <1>2, <2>5, <3>1, PlaceAfter
  <2>9. (h + (n + 1)) % c = (IF h + (n + 1) < c THEN h + (n + 1) ELSE h + (n + 1) - c)
    <3>1. n + 1 \in 0 .. c
      BY <1>2, <1>5
    <3> QED
      BY <1>2, <3>1, PlaceAfter
  <2>10. p = (h + (n + 1)) % c /\ (p = h) = (n + 1 = c)
    BY <1>2, <1>5, <2>5, <2>8, <2>9
  <2>11. ASSUME NEW i \in 0 .. n PROVE m.buffer[(h + i) % c] = u[i + 1]
    <3>1. CASE i = n
      BY <1>2, <2>6, <2>7, <3>1
    <3>2. CASE i # n
      <4>1. i \in 0 .. (n - 1) /\ i \in 0 .. c /\ i + 1 \in 1 .. n
        BY <1>2, <3>2
      <4>2. (h + i) % c = (IF h + i < c THEN h + i ELSE h + i - c) /\ (h + i) % c \in 0 .. (c - 1)
        BY <1>2, <4>1, PlaceAfter
      <4>3. (h + i) % c # t
        BY <1>2, <1>5, <2>5, <4>1, <4>2
      <4> QED
        BY <1>2, <2>6, <2>7, <4>1, <4>2, <4>3
    <3> QED
      BY <3>1, <3>2
  <2>12. m.full = (m.size = RingCapacity)
    BY <1>1, <2>4, <2>10
  <2>13. RBufHolds(m, u)
    <3>1. Len(u) - 1 = n /\ n + 1 <= c
      BY <1>2, <1>5, <2>7
    <3> QED
      BY <1>1, <1>2, <2>4, <2>7, <2>10, <2>11, <2>12, <3>1 DEF RBufHolds
  <2>14. RBufShape(m)
    BY <1>1, <2>4, <2>6 DEF RBufShape
  <2>15. Len(s) < RingCapacity
    BY <1>1, <1>2, <1>5
  <2> QED
    BY <2>1, <2>13, <2>14, <2>15 DEF RBufInv
<1> QED
  BY <1>4, <1>5

LEMMA RBufDequeueInv ==
  ASSUME NEW r, NEW s, RBufInv(r, s)
  PROVE  RBufInv(ring_dequeue(r), IF s # <<>> THEN Tail(s) ELSE s)
<1>1. PICK c, n, h, p : c = RingCapacity /\ n = Len(s) /\ h = r.head /\ p = (h + 1) % c
  OBVIOUS
<1>2. /\ c \in Nat \ {0} /\ n \in Nat /\ n <= c /\ h \in 0 .. (c - 1) /\ r.size = n /\ r.tail = (h + n) % c
      /\ s \in Seq(Items) /\ \A i \in 0 .. (n - 1) : r.buffer[(h + i) % c] = s[i + 1]
  <2>1. RingCapacity \in Nat \ {0}
    BY ContainersAssumption
  <2>2. /\ s \in Seq(Items) /\ r.size = Len(s) /\ r.size <= RingCapacity
        /\ r.head \in 0 .. (RingCapacity - 1) /\ r.tail = (r.head + r.size) % RingCapacity
    BY DEF RBufInv, RBufHolds
  <2>3. \A i \in 0 .. (Len(s) - 1) : r.buffer[(r.head + i) % RingCapacity] = s[i + 1]
    BY DEF RBufInv, RBufHolds
  <2>4. Len(s) \in Nat
    BY <2>2
  <2> QED
    BY <1>1, <2>1, <2>2, <2>3, <2>4
<1>3. r.full = (n = c)
  <2>1. r.full = (r.size = RingCapacity)
    BY DEF RBufInv, RBufHolds
  <2> QED
    BY <1>1, <1>2, <2>1
<1>4. CASE n = 0
  <2>0. s = <<>>
    BY <1>1, <1>2, <1>4, EmptySeq
  <2>1. n # c /\ s = <<>>
    BY <1>2, <1>4, <2>0
  <2>2. ring_dequeue(r) = r
    BY <1>2, <1>3, <1>4, <2>1 DEF ring_dequeue
  <2> QED
    BY <2>1, <2>2
<1>5. CASE n # 0
  <2>1. PICK m, u : m = ring_dequeue(r) /\ u = Tail(s)
    OBVIOUS
  <2>2. m = [r EXCEPT !.head = p, !.size = n - 1, !.full = FALSE]
    BY <1>1, <1>2, <1>5, <2>1 DEF ring_dequeue
  <2>3. DOMAIN r = {"buffer", "head", "tail", "size", "full"} /\ DOMAIN r.buffer = 0 .. (c - 1)
    BY <1>1 DEF RBufInv, RBufShape
  <2>4. /\ DOMAIN m = {"buffer", "head", "tail", "size", "full"}
        /\ m.head = p /\ m.tail = r.tail /\ m.size = n - 1 /\ m.full = FALSE /\ m.buffer = r.buffer
    BY <2>2, <2>3
  <2>5. p = (IF h + 1 < c THEN h + 1 ELSE h + 1 - c) /\ p \in 0 .. (c - 1)
    <3>1. 1 \in 0 .. c
      BY <1>2
    <3> QED
      BY <1>1, <1>2, <3>1, PlaceAfter
  <2>6. s # <<>> /\ u \in Seq(Items) /\ Len(u) = n - 1 /\ \A i \in 1 .. (n - 1) : u[i] = s[i + 1]
    BY <1>1, <1>2, <1>5, <2>1
  <2>7. \A i \in 0 .. (n - 1) : (p + i) % c = (h + (i + 1)) % c
    <3>1. SUFFICES ASSUME NEW i \in 0 .. (n - 1) PROVE (p + i) % c = (h + (i + 1)) % c
      OBVIOUS
    <3>2. i \in 0 .. c /\ i + 1 \in 0 .. c
      BY <1>2
    <3>3. (p + i) % c = (IF p + i < c THEN p + i ELSE p + i - c)
      BY <1>2, <2>5, <3>2, PlaceAfter
    <3>4. (h + (i + 1)) % c = (IF h + (i + 1) < c THEN h + (i + 1) ELSE h + (i + 1) - c)
      BY <1>2, <3>2, PlaceAfter
    <3> QED
      BY <1>2, <2>5, <3>2, <3>3, <3>4
  <2>8. m.tail = (p + (n - 1)) % c
    <3>1. n - 1 \in 0 .. (n - 1) /\ (n - 1) + 1 = n
      BY <1>2, <1>5
    <3>2. (p + (n - 1)) % c = (h + ((n - 1) + 1)) % c
      BY <2>7, <3>1
    <3> QED
      BY <1>2, <2>4, <3>1, <3>2
  <2>9. ASSUME NEW i \in 0 .. (n - 2) PROVE m.buffer[(p + i) % c] = u[i + 1]
    <3>1. i \in 0 .. (n - 1) /\ i + 1 \in 0 .. (n - 1) /\ i + 1 \in 1 .. (n - 1)
      BY <1>2
    <3>2. r.buffer[(h + (i + 1)) % c] = s[(i + 1) + 1]
      BY <1>2, <3>1
    <3> QED
      BY <2>4, <2>6, <2>7, <3>1, <3>2
  <2>10. m.full = (m.size = RingCapacity)
    <3>1. m.size # RingCapacity
      BY <1>1, <1>2, <2>4
    <3> QED
      BY <2>4, <3>1, Zenon
  <2>11. RBufHolds(m, u)
    <3>1. Len(u) - 1 = n - 2 /\ n - 1 <= c
      BY <1>2, <2>6
    <3> QED
      BY <1>1, <1>2, <2>4, <2>5, <2>6, <2>8, <2>9, <2>10, <3>1 DEF RBufHolds
  <2>12. RBufShape(m)
    BY <1>1, <2>3, <2>4 DEF RBufShape
  <2> QED
    BY <2>1, <2>6, <2>11, <2>12 DEF RBufInv
<1> QED
  BY <1>4, <1>5

LEMMA RBufClearInv ==
  ASSUME NEW r, RBufShape(r), NEW m, DOMAIN m = DOMAIN r, m.buffer = r.buffer,
         m.head = 0, m.tail = 0, m.size = 0, m.full = FALSE
  PROVE  RBufInv(m, <<>>)
<1>1. RingCapacity \in Nat \ {0}
  BY ContainersAssumption
<1>2. 0 \in 0 .. (RingCapacity - 1) /\ 0 \in 0 .. RingCapacity /\ 0 < RingCapacity
  BY <1>1
<1>3. (0 + 0) % RingCapacity = IF 0 + 0 < RingCapacity THEN 0 + 0 ELSE 0 + 0 - RingCapacity
  BY <1>1, <1>2, PlaceAfter
<1>4. m.full = (m.size = RingCapacity) /\ m.tail = (m.head + m.size) % RingCapacity
  <2>1. m.size # RingCapacity
    BY <1>1
  <2>2. m.full = (m.size = RingCapacity)
    BY <2>1, Zenon
  <2> QED
    BY <1>2, <1>3, <2>2
<1>5. <<>> \in Seq(Items) /\ Len(<<>>) = 0 /\ 0 .. (0 - 1) = {}
  OBVIOUS
<1>6. RBufHolds(m, <<>>)
  BY <1>1, <1>2, <1>4, <1>5 DEF RBufHolds
<1> QED
  BY <1>6 DEF RBufInv, RBufShape
-----------------------------------------------------------------------------
\* The three containers hold the items of the sequences beside them.
SequencesInv ==
    /\ DOMAIN seqref = {"vector", "list", "ring"}
    /\ VecInv(vector, seqref.vector) /\ ListInv(list, seqref.list) /\ RBufInv(rbuf, seqref.ring)

LEMMA SequencesInitInv == containers_init => SequencesInv
<1>1. SUFFICES ASSUME containers_init PROVE SequencesInv
  OBVIOUS
<1>2. DOMAIN seqref = {"vector", "list", "ring"} /\ seqref.vector = <<>> /\ seqref.list = <<>> /\ seqref.ring = <<>>
  BY <1>1 DEF containers_init
<1>3. VecInv(vector, <<>>)
  <2>1. PICK cap : cap = VECTOR_INITIAL_CAPACITY
    OBVIOUS
  <2>2. cap \in Nat \ {0}
    BY <2>1, ContainersAssumption
  <2>3. DOMAIN vector = {"data", "size"} /\ vector.size = 0 /\ DOMAIN vector.data = 0 .. (cap - 1)
    BY <1>1, <2>1 DEF containers_init
  <2>4. VecHolds(vector, <<>>, cap)
    BY <2>2, <2>3 DEF VecHolds
  <2> QED
    BY <2>2, <2>4 DEF VecInv
<1>4. ListInv(list, <<>>)
  BY <1>1, EmptyListInv DEF containers_init
<1>5. RBufInv(rbuf, <<>>)
  <2>1. /\ RBufShape(rbuf) /\ rbuf.head = 0 /\ rbuf.tail = 0 /\ rbuf.size = 0 /\ rbuf.full = FALSE
    BY <1>1 DEF containers_init, RBufShape
  <2> QED
    BY <2>1, RBufClearInv
<1> QED
  BY <1>2, <1>3, <1>4, <1>5 DEF SequencesInv

LEMMA VectorNextInv == SequencesInv /\ VectorNext => SequencesInv'
<1>1. SUFFICES ASSUME SequencesInv, VectorNext PROVE SequencesInv'
  OBVIOUS
<1>2. PICK index \in 0 .. MaxItems, x \in Items :
        \/ /\ index <= vector.size /\ vector.size < MaxItems
           /\ OnVector(vector_insert(vector, index, x), InsertAt(seqref.vector, index + 1, x))
        \/ /\ index < vector.size
           /\ \/ OnVector(vector_remove(vector, index), RemoveAt(seqref.vector, index + 1))
              \/ OnVector([vector EXCEPT !.data[index] = x], ReplaceAt(seqref.vector, index + 1, x))
  BY <1>1 DEF VectorNext
<1>3. VecInv(vector, seqref.vector) /\ vector.size \in Nat
  BY <1>1 DEF SequencesInv, VecInv, VecHolds
<1>4. ASSUME NEW v, NEW s, OnVector(v, s), VecInv(v, s) PROVE SequencesInv'
  <2>1. vector' = v /\ list' = list /\ rbuf' = rbuf /\ seqref' = [seqref EXCEPT !.vector = s]
    BY <1>4 DEF OnVector
  <2>2. DOMAIN seqref' = DOMAIN seqref /\ seqref'.vector = s /\ seqref'.list = seqref.list /\ seqref'.ring = seqref.ring
    BY <1>1, <2>1 DEF SequencesInv
  <2>3. (VecInv(vector, seqref.vector))' /\ (ListInv(list, seqref.list))' /\ (RBufInv(rbuf, seqref.ring))'
    BY <1>1, <1>4, <2>1, <2>2 DEF SequencesInv
  <2> QED
    BY <1>1, <2>2, <2>3 DEF SequencesInv
<1>5. CASE index <= vector.size /\ OnVector(vector_insert(vector, index, x), InsertAt(seqref.vector, index + 1, x))
  <2>1. index \in 0 .. vector.size
    BY <1>3, <1>5
  <2>2. VecInv(vector_insert(vector, index, x), InsertAt(seqref.vector, index + 1, x))
    BY <1>3, <2>1, VectorInsertInv
  <2> QED
    BY <1>4, <1>5, <2>2
<1>6. CASE index < vector.size /\ OnVector(vector_remove(vector, index), RemoveAt(seqref.vector, index + 1))
  <2>1. index \in 0 .. (vector.size - 1)
    BY <1>3, <1>6
  <2>2. VecInv(vector_remove(vector, index), RemoveAt(seqref.vector, index + 1))
    BY <1>3, <2>1, VectorRemoveInv
  <2> QED
    BY <1>4, <1>6, <2>2
<1>7. CASE index < vector.size /\ OnVector([vector EXCEPT !.data[index] = x], ReplaceAt(seqref.vector, index + 1, x))
  <2>1. index \in 0 .. (vector.size - 1)
    BY <1>3, <1>7
  <2>2. PICK v, s : v = [vector EXCEPT !.data[index] = x] /\ s = ReplaceAt(seqref.vector, index + 1, x)
    OBVIOUS
  <2>3. VecInv([vector EXCEPT !.data[index] = x], ReplaceAt(seqref.vector, index + 1, x))
    BY <1>3, <2>1, VectorSetInv, Zenon
  <2>4. VecInv(v, s) /\ OnVector(v, s)
    BY <1>7, <2>2, <2>3, Zenon
  <2> QED
    BY <1>4, <2>4
<1> QED
  BY <1>2, <1>5, <1>6, <1>7

LEMMA ListNextInv == SequencesInv /\ ListNext => SequencesInv'
<1>1. SUFFICES ASSUME SequencesInv, ListNext PROVE SequencesInv'
  OBVIOUS
<1>2. ListInv(list, seqref.list) /\ list.size \in Nat
  BY <1>1 DEF SequencesInv, ListInv, ListHolds, ListOf
<1>3. ASSUME NEW l, NEW s, OnList(l, s), ListInv(l, s) PROVE SequencesInv'
  <2>1. list' = l /\ vector' = vector /\ rbuf' = rbuf /\ seqref' = [seqref EXCEPT !.list = s]
    BY <1>3 DEF OnList
  <2>2. DOMAIN seqref' = DOMAIN seqref /\ seqref'.list = s /\ seqref'.vector = seqref.vector /\ seqref'.ring = seqref.ring
    BY <1>1, <2>1 DEF SequencesInv
  <2>3. (VecInv(vector, seqref.vector))' /\ (ListInv(list, seqref.list))' /\ (RBufInv(rbuf, seqref.ring))'
    BY <1>1, <1>3, <2>1, <2>2 DEF SequencesInv
  <2> QED
    BY <1>1, <2>2, <2>3 DEF SequencesInv
<1>4. ASSUME NEW index \in 0 .. MaxItems, NEW x \in Items, list.size < MaxItems, index <= list.size,
             OnList(list_insert(list, index, x), InsertAt(seqref.list, index + 1, x))
      PROVE  SequencesInv'
  <2>1. index \in 0 .. list.size
    BY <1>2, <1>4
  <2>2. ListInv(list_insert(list, index, x), InsertAt(seqref.list, index + 1, x))
    BY <1>2, <1>4, <2>1, ListInsertInv
  <2> QED
    BY <1>3, <1>4, <2>2
<1>5. ASSUME NEW index \in 0 .. MaxItems, index < list.size,
             OnList(list_remove(list, index), RemoveAt(seqref.list, index + 1))
      PROVE  SequencesInv'
  <2>1. index \in 0 .. (list.size - 1)
    BY <1>2, <1>5
  <2>2. ListInv(list_remove(list, index), RemoveAt(seqref.list, index + 1))
    BY <1>2, <2>1, ListRemoveInv
  <2> QED
    BY <1>3, <1>5, <2>2
<1>6. ASSUME OnList(EmptyList, <<>>) PROVE SequencesInv'
  BY <1>3, <1>6, EmptyListInv
<1> QED
  BY <1>1, <1>4, <1>5, <1>6 DEF ListNext

LEMMA RingBufNextInv == SequencesInv /\ RingBufNext => SequencesInv'
<1>1. SUFFICES ASSUME SequencesInv, RingBufNext PROVE SequencesInv'
  OBVIOUS
<1>2. PICK ref : ref = seqref.ring /\ RBufInv(rbuf, ref)
  BY <1>1 DEF SequencesInv
<1>3. ASSUME NEW r, NEW s, OnRing(r, s), RBufInv(r, s) PROVE SequencesInv'
  <2>1. rbuf' = r /\ vector' = vector /\ list' = list /\ seqref' = [seqref EXCEPT !.ring = s]
    BY <1>3 DEF OnRing
  <2>2. DOMAIN seqref' = DOMAIN seqref /\ seqref'.ring = s /\ seqref'.vector = seqref.vector /\ seqref'.list = seqref.list
    BY <1>1, <2>1 DEF SequencesInv
  <2>3. (VecInv(vector, seqref.vector))' /\ (ListInv(list, seqref.list))' /\ (RBufInv(rbuf, seqref.ring))'
    BY <1>1, <1>3, <2>1, <2>2 DEF SequencesInv
  <2> QED
    BY <1>1, <2>2, <2>3 DEF SequencesInv
<1>4. ASSUME NEW x \in Items, OnRing(ring_enqueue(rbuf, x), IF Len(ref) < RingCapacity THEN Append(ref, x) ELSE ref)
      PROVE  SequencesInv'
  <2>1. RBufInv(ring_enqueue(rbuf, x), IF Len(ref) < RingCapacity THEN Append(ref, x) ELSE ref)
    BY <1>2, RBufEnqueueInv
  <2> QED
    BY <1>3, <1>4, <2>1
<1>5. ASSUME OnRing(ring_dequeue(rbuf), IF ref # <<>> THEN Tail(ref) ELSE ref) PROVE SequencesInv'
  <2>1. RBufInv(ring_dequeue(rbuf), IF ref # <<>> THEN Tail(ref) ELSE ref)
    BY <1>2, RBufDequeueInv
  <2> QED
    BY <1>3, <1>5, <2>1
<1>6. ASSUME OnRing(ring_clear(rbuf), <<>>) PROVE SequencesInv'
  <2>1. PICK m : m = ring_clear(rbuf)
    OBVIOUS
  <2>2. RBufShape(rbuf)
    BY <1>2 DEF RBufInv
  <2>3. DOMAIN m = DOMAIN rbuf /\ m.buffer = rbuf.buffer /\ m.head = 0 /\ m.tail = 0 /\ m.size = 0 /\ m.full = FALSE
    BY <2>1, <2>2 DEF ring_clear, RBufShape
  <2>4. RBufInv(m, <<>>)
    BY <2>2, <2>3, RBufClearInv
  <2> QED
    BY <1>3, <1>6, <2>1, <2>4
<1> QED
  BY <1>1, <1>2, <1>4, <1>5, <1>6 DEF RingBufNext

\* The lists agree item by item, so they are the same.
LEMMA SequencesInvAgree == SequencesInv => SequencesAgree
<1>1. SUFFICES ASSUME SequencesInv PROVE SequencesAgree
  OBVIOUS
<1>2. seqref.vector = [i \in 1 .. vector.size |-> vector.data[i - 1]]
  <2>1. PICK s, cap : s = seqref.vector /\ VecHolds(vector, s, cap)
    BY <1>1 DEF SequencesInv, VecInv
  <2>2. s \in Seq(Items) /\ vector.size = Len(s) /\ \A i \in 1 .. Len(s) : vector.data[i - 1] = s[i]
    BY <2>1 DEF VecHolds
  <2>3. s = [i \in 1 .. Len(s) |-> s[i]]
    BY <2>2
  <2> QED
    BY <2>1, <2>2, <2>3
<1>3. \E o \in [1 .. list.size -> list.used] :
          /\ LinkedAs(list.node, list.head, list.tail, NoNode, o)
          /\ seqref.list = [i \in 1 .. list.size |-> list.node[o[i]].data]
  <2>1. PICK s, o : s = seqref.list /\ ListHolds(list, s, o)
    BY <1>1 DEF SequencesInv, ListInv
  <2>2. /\ o \in Seq(Nodes) /\ LinkedAs(list.node, list.head, list.tail, NoNode, o)
        /\ list.used = {o[i] : i \in 1 .. Len(o)} /\ list.size = Len(o)
        /\ s \in Seq(Items) /\ Len(s) = Len(o) /\ \A i \in 1 .. Len(s) : s[i] = list.node[o[i]].data
    BY <2>1 DEF ListHolds, ListOf
  <2>3. o \in [1 .. list.size -> list.used]
    BY <2>2
  <2>4. s = [i \in 1 .. list.size |-> s[i]]
    BY <2>2
  <2>5. [i \in 1 .. list.size |-> s[i]] = [i \in 1 .. list.size |-> list.node[o[i]].data]
    BY <2>2
  <2>6. seqref.list = [i \in 1 .. list.size |-> list.node[o[i]].data]
    BY <2>1, <2>4, <2>5
  <2> QED
    BY <2>2, <2>3, <2>6
<1>4. seqref.ring = [i \in 1 .. rbuf.size |-> rbuf.buffer[(rbuf.head + i - 1) % RingCapacity]]
  <2>1. PICK s, n : s = seqref.ring /\ n = Len(s) /\ RBufHolds(rbuf, s)
    BY <1>1 DEF SequencesInv, RBufInv
  <2>2. /\ s \in Seq(Items) /\ rbuf.size = n /\ n \in Nat /\ rbuf.head \in Nat
        /\ \A i \in 0 .. (n - 1) : rbuf.buffer[(rbuf.head + i) % RingCapacity] = s[i + 1]
    BY <2>1 DEF RBufHolds
  <2>3. ASSUME NEW i \in 1 .. n PROVE rbuf.buffer[(rbuf.head + i - 1) % RingCapacity] = s[i]
    <3>1. PICK j \in 0 .. (n - 1) : j + 1 = i /\ rbuf.head + i - 1 = rbuf.head + j
      <4>1. i - 1 \in 0 .. (n - 1) /\ (i - 1) + 1 = i /\ rbuf.head + i - 1 = rbuf.head + (i - 1)
        BY <2>2
      <4> QED
        BY <4>1, Zenon
    <3> QED
      BY <2>2, <3>1
  <2>4. s = [i \in 1 .. n |-> s[i]]
    BY <2>1, <2>2
  <2> QED
    BY <2>1, <2>2, <2>3, <2>4
<1> QED
  BY <1>2, <1>3, <1>4 DEF SequencesAgree

\* The vector, the list and the ring buffer hold, after every sequence of calls, what the
\* same insertions and removals leave in a sequence.
THEOREM SequencesAlwaysAgree == MachineSpec => []SequencesAgree
<1>1. MachineInit => SequencesInv
  BY SequencesInitInv DEF MachineInit
<1>2. SequencesInv /\ [VectorNext \/ ListNext \/ RingBufNext \/ HashNext \/ StrHashNext]_ContainerVars => SequencesInv'
  <2>1. ASSUME SequencesInv, UNCHANGED <<VectorVars, seqref>> PROVE SequencesInv'
    BY <2>1 DEF VectorVars, SequencesInv
  <2> QED
    BY <2>1, VectorNextInv, ListNextInv, RingBufNextInv DEF ContainerVars, HashNext, StrHashNext, OnTable, OnStrings
<1>3. SequencesInv /\ [MachineNext]_MachineVars => SequencesInv'
  BY <1>2, MachineParts
<1>4. SequencesInv => SequencesAgree
  BY SequencesInvAgree
<1> QED
  BY <1>1, <1>3, <1>4, PTL DEF MachineSpec
=============================================================================
