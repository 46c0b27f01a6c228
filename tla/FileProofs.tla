----------------------------- MODULE FileProofs -----------------------------
(***************************************************************************)
(* The file layer, for every number of tasks, FIFOs, devices and inodes,   *)
(* and every size of the FIFO ring and of the RAM disk table.              *)
(***************************************************************************)
EXTENDS FileSystems, BaseLemmas

-----------------------------------------------------------------------------
(***************************************************************************)
(* A FIFO implements the abstract byte queue.                              *)
(***************************************************************************)

FifoBytes == {Junk} \cup UNION {{s[i] : i \in DOMAIN s} : s \in FifoData}

FifoObjects ==
    [buffer : [0 .. FifoTop -> FifoBytes], read_pos : 0 .. FifoTop, write_pos : 0 .. FifoTop,
     data_len : 0 .. FIFO_MAX_SIZE, closed : BOOLEAN, refcount : Int]

FifoCalls ==
    {Returned}
    \cup [op : {"unlink"}, f : FifoIds]
    \cup [op : {"read"}, f : FifoIds, n : Nat]
    \cup [op : {"write", "wait"}, f : FifoIds, data : FifoData]

\* The inductive invariant: write_pos is data_len bytes behind read_pos on the ring.
FifoInv ==
    /\ fifo \in [FifoIds -> FifoObjects]
    /\ fcall \in [FifoTasks -> FifoCalls]
    /\ \A f \in FifoIds : fifo[f].write_pos = (fifo[f].read_pos + fifo[f].data_len) % FIFO_MAX_SIZE

\* The state of the abstract queue, as FifoQueues gives it.
Content == [f \in FifoIds |-> FifoContent(f)]
Closed == {f \in FifoIds : fifo[f].closed}
Writers(f) == {u \in FifoTasks : fcall[u].op \in {"write", "wait"} /\ fcall[u].f = f}
Entered == [f \in FifoIds |-> {<<t, fcall[t].data>> : t \in Writers(f)}]

LEMMA FifoSize == FIFO_MAX_SIZE \in Nat \ {0} /\ FifoTop = FIFO_MAX_SIZE - 1
BY FifoAssumption DEF FifoTop

\* The two parts of a transfer are one walk around the ring.
LEMMA RingWalk ==
  ASSUME NEW pos \in 0 .. FifoTop
  PROVE  /\ \A k \in 0 .. FifoTop : RingSlot(pos, k) = (pos + k) % FIFO_MAX_SIZE
         /\ \A n \in 0 .. FIFO_MAX_SIZE : RingNext(pos, n) = (pos + n) % FIFO_MAX_SIZE
         /\ \A n \in 0 .. FIFO_MAX_SIZE :
               (pos + n) % FIFO_MAX_SIZE = IF pos + n < FIFO_MAX_SIZE THEN pos + n ELSE pos + n - FIFO_MAX_SIZE
<1> DEFINE m == FIFO_MAX_SIZE
<1>1. m \in Nat \ {0} /\ pos \in 0 .. (m - 1) /\ FifoTop = m - 1
  BY FifoSize
<1>2. \A n \in 0 .. m : (pos + n) % m = IF pos + n < m THEN pos + n ELSE pos + n - m
  <2> TAKE n \in 0 .. m
  <2> DEFINE x == pos + n
  <2>1. x \in 0 .. (2 * m - 1)
    BY <1>1
  <2> HIDE DEF m, x
  <2>2. x % m = IF x < m THEN x ELSE x - m
    BY <1>1, <2>1, RingMod
  <2> QED
    BY <1>1, <2>1, <2>2 DEF x
<1>3. \A k \in 0 .. (m - 1) : RingSlot(pos, k) = IF pos + k < m THEN pos + k ELSE pos + k - m
  BY <1>1 DEF RingSlot
<1>4. \A n \in 0 .. m : RingNext(pos, n) = IF n <= m - pos THEN (pos + n) % m ELSE pos + n - m
  BY <1>1 DEF RingNext
<1> HIDE DEF m
<1>5. \A k \in 0 .. (m - 1) : RingSlot(pos, k) = (pos + k) % m
  BY <1>1, <1>2, <1>3
<1>6. \A n \in 0 .. m : RingNext(pos, n) = (pos + n) % m
  <2> TAKE n \in 0 .. m
  <2>1. CASE n <= m - pos
    BY <1>4, <2>1
  <2>2. CASE ~ (n <= m - pos)
    <3>1. ~ (pos + n < m)
      BY <1>1, <2>2
    <3>2. (pos + n) % m = pos + n - m
      BY <1>2, <3>1
    <3> QED
      BY <1>4, <2>2, <3>2
  <2> QED
    BY <2>1, <2>2
<1> QED
  BY <1>1, <1>2, <1>5, <1>6 DEF m

\* The same, without a division.
Wrap(x) == IF x < FIFO_MAX_SIZE THEN x ELSE x - FIFO_MAX_SIZE

LEMMA RingWrap ==
  ASSUME NEW pos \in 0 .. FifoTop, NEW n \in 0 .. FIFO_MAX_SIZE
  PROVE  /\ RingNext(pos, n) = Wrap(pos + n)
         /\ (pos + n) % FIFO_MAX_SIZE = Wrap(pos + n)
         /\ Wrap(pos + n) \in 0 .. FifoTop
<1>1. /\ RingNext(pos, n) = (pos + n) % FIFO_MAX_SIZE
      /\ (pos + n) % FIFO_MAX_SIZE
           = IF pos + n < FIFO_MAX_SIZE THEN pos + n ELSE pos + n - FIFO_MAX_SIZE
  BY RingWalk, Zenon
<1>2. Wrap(pos + n) \in 0 .. FifoTop
  BY FifoSize DEF Wrap
<1> QED
  BY <1>1, <1>2, FifoSize DEF Wrap

\* What callers write is a sequence of bytes.
LEMMA FifoDataType ==
  ASSUME NEW s \in FifoData
  PROVE  s \in Seq(FifoBytes)
<1>1. s \in Seq({s[i] : i \in DOMAIN s})
  BY FifoAssumption
<1>2. \A i \in DOMAIN s : s[i] \in FifoBytes
  BY DEF FifoBytes
<1> QED
  BY <1>1, <1>2

\* The bytes on the ring of a FIFO object, from the oldest.
RingBytes(q) == [k \in 1 .. q.data_len |-> q.buffer[(q.read_pos + k - 1) % FIFO_MAX_SIZE]]

LEMMA RingType ==
  ASSUME NEW q \in FifoObjects
  PROVE  /\ RingBytes(q) \in Seq(FifoBytes)
         /\ Len(RingBytes(q)) = q.data_len
         /\ \A k \in 1 .. q.data_len :
               RingBytes(q)[k] = q.buffer[(q.read_pos + k - 1) % FIFO_MAX_SIZE]
<1> DEFINE m == FIFO_MAX_SIZE
           d == q.data_len
           at(k) == q.buffer[(q.read_pos + k - 1) % m]
<1>1. /\ m \in Nat \ {0} /\ d \in 0 .. m /\ q.read_pos \in 0 .. (m - 1)
      /\ q.buffer \in [0 .. (m - 1) -> FifoBytes]
  BY FifoSize DEF FifoObjects
<1>2. \A x \in Nat : x % m \in 0 .. (m - 1)
  BY <1>1
<1>3. \A k \in 1 .. d : at(k) \in FifoBytes
  <2> TAKE k \in 1 .. d
  <2>1. q.read_pos + k - 1 \in Nat
    BY <1>1
  <2> QED
    BY <1>1, <1>2, <2>1
<1>4. RingBytes(q) = [k \in 1 .. d |-> at(k)]
  BY DEF RingBytes
<1> HIDE DEF m, d, at
<1>5. RingBytes(q) \in [1 .. d -> FifoBytes] /\ \A k \in 1 .. d : RingBytes(q)[k] = at(k)
  BY <1>3, <1>4
<1>6. RingBytes(q) \in Seq(FifoBytes) /\ Len(RingBytes(q)) = d
  BY <1>1, <1>4, <1>5
<1> QED
  BY <1>5, <1>6 DEF d, m, at

\* A read of n bytes takes the first n bytes off.
LEMMA ReadRing ==
  ASSUME NEW q \in FifoObjects, NEW p \in FifoObjects, NEW n \in 0 .. q.data_len,
         p.buffer = q.buffer, p.read_pos = RingNext(q.read_pos, n), p.data_len = q.data_len - n
  PROVE  /\ RingBytes(p) = SubSeq(RingBytes(q), n + 1, Len(RingBytes(q)))
         /\ [k \in 1 .. n |-> q.buffer[RingSlot(q.read_pos, k - 1)]] = SubSeq(RingBytes(q), 1, n)
<1> DEFINE m == FIFO_MAX_SIZE
           r == q.read_pos
           d == q.data_len
           b == q.buffer
           c == RingBytes(q)
           e == RingBytes(p)
<1>1. /\ m \in Nat \ {0} /\ d \in 0 .. m /\ r \in 0 .. (m - 1) /\ FifoTop = m - 1
      /\ n \in 0 .. d /\ n \in 0 .. m
  BY FifoSize DEF FifoObjects
<1>2. c \in Seq(FifoBytes) /\ Len(c) = d /\ \A k \in 1 .. d : c[k] = b[(r + k - 1) % m]
  BY RingType
<1>3. /\ e \in Seq(FifoBytes) /\ Len(e) = d - n
      /\ \A k \in 1 .. (d - n) : e[k] = b[(RingNext(r, n) + k - 1) % m]
  BY RingType
<1>4. /\ \A k \in 0 .. (m - 1) : RingSlot(r, k) = (r + k) % m
      /\ RingNext(r, n) = (r + n) % m
      /\ (r + n) % m = IF r + n < m THEN r + n ELSE r + n - m
  BY <1>1, RingWalk
<1> HIDE DEF m, r, d, b, c, e
<1>5. ASSUME NEW k \in 1 .. (d - n) PROVE (RingNext(r, n) + k - 1) % m = (r + (n + k) - 1) % m
  <2> DEFINE z == RingNext(r, n)
             x == z + k - 1
             y == r + (n + k) - 1
  <2>0. z = IF r + n < m THEN r + n ELSE r + n - m
    BY <1>4
  <2> HIDE DEF z
  <2>1. x \in 0 .. (2 * m - 1) /\ y \in 0 .. (2 * m - 1) /\ (x = y \/ x = y - m)
    BY <1>1, <2>0
  <2>2. x < m \/ x = y
    BY <1>1, <2>0
  <2> HIDE DEF x, y
  <2>3. x % m = (IF x < m THEN x ELSE x - m) /\ y % m = (IF y < m THEN y ELSE y - m)
    BY <1>1, <2>1, RingMod
  <2>4. x % m = y % m
    BY <1>1, <2>1, <2>2, <2>3
  <2> QED
    BY <2>4 DEF x, y, z
<1>6. e = SubSeq(c, n + 1, Len(c))
  <2> DEFINE g == SubSeq(c, n + 1, Len(c))
  <2>1. g \in Seq(FifoBytes) /\ Len(g) = d - n /\ \A k \in 1 .. (d - n) : g[k] = c[n + k]
    BY <1>1, <1>2
  <2>2. \A k \in 1 .. (d - n) : e[k] = g[k]
    <3> TAKE k \in 1 .. (d - n)
    <3>1. e[k] = b[(r + (n + k) - 1) % m] /\ n + k \in 1 .. d
      BY <1>1, <1>3, <1>5
    <3> QED
      BY <1>2, <2>1, <3>1
  <2> HIDE DEF g
  <2> QED
    BY <1>3, <2>1, <2>2, SMTT(30) DEF g
<1>7. [k \in 1 .. n |-> b[RingSlot(r, k - 1)]] = SubSeq(c, 1, n)
  <2> DEFINE g == SubSeq(c, 1, n)
  <2>1. g \in Seq(FifoBytes) /\ Len(g) = n /\ DOMAIN g = 1 .. n /\ \A k \in 1 .. n : g[k] = c[k]
    BY <1>1, <1>2
  <2>2. \A k \in 1 .. n : g[k] = b[RingSlot(r, k - 1)]
    <3> TAKE k \in 1 .. n
    <3>1. k \in 1 .. d /\ k - 1 \in 0 .. (m - 1) /\ r + (k - 1) = r + k - 1
      BY <1>1
    <3> QED
      BY <1>2, <1>4, <2>1, <3>1
  <2> HIDE DEF g
  <2> QED
    BY <2>1, <2>2 DEF g
<1> QED
  BY <1>6, <1>7 DEF r, b, c, e

\* The buffer after n bytes of s are copied in, as PutBytes has it.
NewBuffer(q, s, n) ==
    [i \in 0 .. FifoTop |->
        IF i \in {RingSlot(q.write_pos, j) : j \in 0 .. (n - 1)}
        THEN s[(CHOOSE j \in 0 .. (n - 1) : RingSlot(q.write_pos, j) = i) + 1]
        ELSE q.buffer[i]]

\* A write of n bytes appends them, and disturbs none of the others: the positions it
\* writes are those behind the bytes on the ring.
LEMMA WriteRing ==
  ASSUME NEW q \in FifoObjects, NEW p \in FifoObjects, NEW s \in FifoData, NEW n,
         n = LeastOf(Len(s), FIFO_MAX_SIZE - q.data_len),
         q.write_pos = (q.read_pos + q.data_len) % FIFO_MAX_SIZE,
         p.read_pos = q.read_pos, p.data_len = q.data_len + n,
         p.buffer = NewBuffer(q, s, n)
  PROVE  /\ n \in 0 .. Len(s)
         /\ Len(RingBytes(q)) + n <= FIFO_MAX_SIZE
         /\ RingBytes(p) = RingBytes(q) \o SubSeq(s, 1, n)
<1> DEFINE m == FIFO_MAX_SIZE
           r == q.read_pos
           d == q.data_len
           w == q.write_pos
           c == RingBytes(q)
           e == RingBytes(p)
           slot(j) == RingSlot(w, j)
           at(a) == (r + a) % m
<1>1. m \in Nat \ {0} /\ d \in 0 .. m /\ r \in 0 .. (m - 1) /\ w \in 0 .. (m - 1) /\ FifoTop = m - 1
  BY FifoSize DEF FifoObjects
<1>2. s \in Seq(FifoBytes) /\ Len(s) \in Nat
  BY FifoDataType
<1>3. n \in 0 .. Len(s) /\ d + n \in 0 .. m
  BY <1>1, <1>2 DEF LeastOf
<1>4. c \in Seq(FifoBytes) /\ Len(c) = d /\ \A k \in 1 .. d : c[k] = q.buffer[(r + k - 1) % m]
  BY RingType
<1>5. /\ e \in Seq(FifoBytes) /\ Len(e) = d + n
      /\ \A k \in 1 .. (d + n) : e[k] = p.buffer[(r + k - 1) % m]
  BY RingType
<1>6. \A a \in 0 .. m : at(a) = IF r + a < m THEN r + a ELSE r + a - m
  BY <1>1, RingWalk
<1>7. w = at(d)
  OBVIOUS
<1>8. \A j \in 0 .. (m - 1) : slot(j) = IF w + j < m THEN w + j ELSE w + j - m
  BY <1>1 DEF RingSlot
<1>9. \A k \in 1 .. m : r + k - 1 = r + (k - 1) /\ k - 1 \in 0 .. (m - 1)
  BY <1>1
<1>10. /\ \A k \in 1 .. d : c[k] = q.buffer[at(k - 1)]
       /\ \A k \in 1 .. (d + n) : e[k] = p.buffer[at(k - 1)]
  <2>1. \A k \in 1 .. d : k \in 1 .. m
    BY <1>1
  <2>2. \A k \in 1 .. (d + n) : k \in 1 .. m
    BY <1>3, <1>1
  <2> QED
    BY <1>4, <1>5, <1>9, <2>1, <2>2
<1>11. p.buffer = [i \in 0 .. (m - 1) |->
            IF i \in {slot(j) : j \in 0 .. (n - 1)}
            THEN s[(CHOOSE j \in 0 .. (n - 1) : slot(j) = i) + 1] ELSE q.buffer[i]]
  BY <1>1 DEF NewBuffer
<1> HIDE DEF m, r, d, w, c, e, slot, at
<1>12. \A j \in 0 .. (n - 1) : slot(j) = at(d + j) /\ d + j \in 0 .. (m - 1)
  <2> TAKE j \in 0 .. (n - 1)
  <2>1. d + j \in 0 .. (m - 1) /\ j \in 0 .. (m - 1) /\ d \in 0 .. m /\ d + j \in 0 .. m
    BY <1>1, <1>3
  <2>2. w = IF r + d < m THEN r + d ELSE r + d - m
    BY <1>6, <1>7, <2>1
  <2>3. slot(j) = IF w + j < m THEN w + j ELSE w + j - m
    BY <1>8, <2>1
  <2>4. at(d + j) = IF r + (d + j) < m THEN r + (d + j) ELSE r + (d + j) - m
    BY <1>6, <2>1
  <2> QED
    BY <1>1, <2>1, <2>2, <2>3, <2>4
<1>13. \A a, x \in 0 .. (m - 1) : at(a) = at(x) => a = x
  <2> TAKE a, x \in 0 .. (m - 1)
  <2>1. /\ at(a) = IF r + a < m THEN r + a ELSE r + a - m
        /\ at(x) = IF r + x < m THEN r + x ELSE r + x - m
    BY <1>1, <1>6
  <2> QED
    BY <1>1, <2>1
<1>14. \A a \in 0 .. (m - 1) : at(a) \in 0 .. (m - 1)
  BY <1>1, <1>6
<1>15. ASSUME NEW k \in 1 .. d PROVE e[k] = c[k]
  <2>1. k - 1 \in 0 .. (m - 1) /\ k \in 1 .. (d + n) /\ k - 1 < d
    BY <1>1, <1>3
  <2>2. at(k - 1) \notin {slot(j) : j \in 0 .. (n - 1)}
    <3> SUFFICES ASSUME NEW j \in 0 .. (n - 1), at(k - 1) = slot(j) PROVE FALSE
      OBVIOUS
    <3>1. at(k - 1) = at(d + j) /\ d + j \in 0 .. (m - 1)
      BY <1>12
    <3>2. k - 1 = d + j
      BY <1>13, <2>1, <3>1
    <3> QED
      BY <1>1, <2>1, <3>2
  <2>3. p.buffer[at(k - 1)] = q.buffer[at(k - 1)]
    BY <1>11, <1>14, <2>1, <2>2
  <2> QED
    BY <1>10, <2>1, <2>3
<1>16. ASSUME NEW k \in 1 .. n PROVE e[d + k] = s[k]
  <2> DEFINE j == k - 1
  <2>1. j \in 0 .. (n - 1) /\ d + k \in 1 .. (d + n) /\ (d + k) - 1 = d + j /\ j + 1 = k
    BY <1>1, <1>3
  <2>2. slot(j) = at(d + j) /\ d + j \in 0 .. (m - 1)
    BY <1>12, <2>1
  <2>3. \A x \in 0 .. (n - 1) : slot(x) = slot(j) => x = j
    <3> SUFFICES ASSUME NEW x \in 0 .. (n - 1), slot(x) = slot(j) PROVE x = j
      OBVIOUS
    <3>1. at(d + x) = at(d + j) /\ d + x \in 0 .. (m - 1)
      BY <1>12, <2>2
    <3>2. d + x = d + j
      BY <1>13, <2>2, <3>1
    <3> QED
      BY <1>1, <1>3, <2>1, <3>2
  <2>4. (CHOOSE x \in 0 .. (n - 1) : slot(x) = slot(j)) = j
    BY <2>1, <2>3
  <2>5. slot(j) \in 0 .. (m - 1)
    BY <1>14, <2>2
  <2>6. p.buffer[slot(j)] = s[j + 1]
    BY <1>11, <2>1, <2>4, <2>5
  <2>7. e[d + k] = p.buffer[at((d + k) - 1)]
    BY <1>10, <2>1
  <2> QED
    BY <2>1, <2>2, <2>6, <2>7
<1>17. e = c \o SubSeq(s, 1, n)
  <2> DEFINE x == SubSeq(s, 1, n)
             g == c \o x
  <2>1. x \in Seq(FifoBytes) /\ Len(x) = n /\ \A k \in 1 .. n : x[k] = s[k]
    BY <1>2, <1>3
  <2> HIDE DEF x
  <2>2. /\ g \in Seq(FifoBytes) /\ Len(g) = d + n
        /\ \A k \in 1 .. d : g[k] = c[k]
        /\ \A k \in 1 .. n : g[d + k] = x[k]
    <3>1. /\ g \in Seq(FifoBytes) /\ Len(g) = d + n
          /\ \A i \in 1 .. (d + n) : g[i] = IF i <= d THEN c[i] ELSE x[i - d]
      BY <1>1, <1>3, <1>4, <2>1, ConcatProperties
    <3> HIDE DEF g
    <3>2. ASSUME NEW k \in 1 .. n PROVE g[d + k] = x[k]
      <4> DEFINE y == d + k
      <4>1. y \in 1 .. (d + n) /\ ~ (y <= d) /\ y - d = k
        BY <1>1, <1>3
      <4> HIDE DEF y
      <4>2. g[y] = x[y - d]
        BY <3>1, <4>1
      <4>3. g[y] = x[k]
        BY <4>1, <4>2
      <4> QED
        BY <4>3 DEF y
    <3>3. \A k \in 1 .. d : k \in 1 .. (d + n) /\ k <= d
      BY <1>1, <1>3
    <3> QED
      BY <3>1, <3>2, <3>3
  <2>3. \A k \in 1 .. (d + n) : e[k] = g[k]
    <3> TAKE k \in 1 .. (d + n)
    <3>1. CASE k \in 1 .. d
      BY <1>15, <2>2, <3>1
    <3>2. CASE k \notin 1 .. d
      <4>1. k - d \in 1 .. n /\ d + (k - d) = k
        BY <1>1, <1>3, <3>2
      <4> QED
        BY <1>16, <2>1, <2>2, <4>1
    <3> QED
      BY <3>1, <3>2
  <2> HIDE DEF g
  <2> QED
    BY <1>5, <2>2, <2>3, SMTT(30) DEF g, x
<1> QED
  BY <1>3, <1>4, <1>17 DEF c, e, d, m

WriteOps == {"write", "wait"}

LEMMA FifoInitInv == FifoInit => FifoInv /\ FifoQueues!QInit
<1> SUFFICES ASSUME FifoInit PROVE FifoInv /\ FifoQueues!QInit
  OBVIOUS
<1> USE FifoSize DEF FifoInit
<1>1. Junk \in FifoBytes
  BY DEF FifoBytes
<1>2. fifo \in [FifoIds -> FifoObjects]
  BY <1>1 DEF FifoObjects
<1>3. fcall \in [FifoTasks -> FifoCalls]
  BY DEF FifoCalls
<1>4. \A f \in FifoIds : fifo[f].write_pos = 0 /\ fifo[f].read_pos = 0 /\ fifo[f].data_len = 0
  OBVIOUS
<1>5. \A f \in FifoIds : fifo[f].write_pos = (fifo[f].read_pos + fifo[f].data_len) % FIFO_MAX_SIZE
  BY <1>4
<1>6. FifoInv
  BY <1>2, <1>3, <1>5 DEF FifoInv
<1>7. [f \in FifoIds |-> FifoContent(f)] = [f \in FifoIds |-> <<>>]
  <2>1. \A f \in FifoIds : FifoContent(f) = <<>>
    BY <1>4 DEF FifoContent
  <2> QED
    BY <2>1
<1>8. {f \in FifoIds : fifo[f].closed} = {}
  OBVIOUS
<1>9. \A u \in FifoTasks : fcall[u].op \notin WriteOps
  BY DEF Returned, WriteOps
<1>10. Entered = [f \in FifoIds |-> {}]
  BY <1>9 DEF Entered, Writers, WriteOps
<1>11. FifoQueues!QInit
  BY <1>7, <1>8, <1>10 DEF FifoQueues!QInit, Entered, Writers
<1> QED
  BY <1>6, <1>11

\* Steps that change no byte on a ring.
KeepsRings ==
    /\ fifo' \in [FifoIds -> FifoObjects]
    /\ \A f \in FifoIds : /\ fifo'[f].buffer = fifo[f].buffer
                          /\ fifo'[f].read_pos = fifo[f].read_pos
                          /\ fifo'[f].write_pos = fifo[f].write_pos
                          /\ fifo'[f].data_len = fifo[f].data_len

LEMMA RingsKept ==
  ASSUME FifoInv, KeepsRings, fcall' \in [FifoTasks -> FifoCalls]
  PROVE  FifoInv' /\ Content' = Content
<1>1. FifoInv'
  BY DEF FifoInv, KeepsRings
<1>2. \A f \in FifoIds : FifoContent(f)' = FifoContent(f)
  BY DEF FifoContent, KeepsRings
<1> QED
  BY <1>1, <1>2 DEF Content

\* Steps that begin and end no write.
KeepsWriters ==
    \A t \in FifoTasks :
        \/ fcall'[t] = fcall[t]
        \/ fcall[t].op \notin WriteOps /\ fcall'[t].op \notin WriteOps
        \/ /\ fcall[t].op \in WriteOps /\ fcall'[t].op \in WriteOps
           /\ fcall'[t].f = fcall[t].f /\ fcall'[t].data = fcall[t].data

LEMMA WritersKept ==
  ASSUME KeepsWriters
  PROVE  Entered' = Entered
<1>1. \A f : Writers(f)' = Writers(f)
  BY DEF Writers, KeepsWriters, WriteOps
<1>2. \A f : \A t \in Writers(f) : fcall'[t].data = fcall[t].data
  BY DEF Writers, KeepsWriters, WriteOps
<1> QED
  BY <1>1, <1>2 DEF Entered

\* A task's call replaced by another: what the other tasks write stays.
LEMMA OneCall ==
  ASSUME FifoInv, NEW t \in FifoTasks, NEW call \in FifoCalls, fcall' = [fcall EXCEPT ![t] = call]
  PROVE  /\ fcall' \in [FifoTasks -> FifoCalls]
         /\ fcall[t].op \notin WriteOps /\ call.op \notin WriteOps => Entered' = Entered
<1>1. fcall' \in [FifoTasks -> FifoCalls] /\ fcall'[t] = call /\ \A u \in FifoTasks \ {t} : fcall'[u] = fcall[u]
  BY DEF FifoInv
<1>2. ASSUME fcall[t].op \notin WriteOps, call.op \notin WriteOps PROVE KeepsWriters
  BY <1>1, <1>2 DEF KeepsWriters
<1> QED
  BY <1>1, <1>2, WritersKept

LEMMA ReturnedCall == Returned \in FifoCalls /\ Returned.op \notin WriteOps
BY DEF Returned, FifoCalls, WriteOps

\* The step of the abstract queue that stutters.
LEMMA QueueStutters ==
  ASSUME Content' = Content, Closed' = Closed, Entered' = Entered, fout' = fout
  PROVE  UNCHANGED FifoQueues!QVars
BY DEF FifoQueues!QVars, Content, Closed, Entered, Writers

\* A FIFO is made, found or unlinked: the queues do not change.
LEMMA FifoListSteps ==
  ASSUME FifoInv, NEW t \in FifoTasks,
         FifoUnlink(t) \/ fifo_get(t) \/ \E f \in FifoIds : fifo_create(t, f)
  PROVE  FifoInv' /\ UNCHANGED FifoQueues!QVars
<1>1. ASSUME FifoUnlink(t) PROVE KeepsRings /\ Closed' = Closed /\ Entered' = Entered
                                 /\ fcall' \in [FifoTasks -> FifoCalls] /\ fout' = fout
  <2>1. fcall[t].op = "unlink" /\ fcall' = [fcall EXCEPT ![t] = Returned] /\ fifo' = fifo /\ fout' = fout
    BY <1>1 DEF FifoUnlink
  <2>2. fcall[t].op \notin WriteOps
    BY <2>1 DEF WriteOps
  <2> QED
    BY <2>1, <2>2, OneCall, ReturnedCall DEF KeepsRings, FifoInv, Closed
<1>2. ASSUME NEW g, fifo' = [fifo EXCEPT ![g].refcount = 1] \/ fifo' = [fifo EXCEPT ![g].refcount = @ + 1]
      PROVE  KeepsRings /\ Closed' = Closed
  <2>1. fifo \in [FifoIds -> FifoObjects]
    BY DEF FifoInv
  <2>2. ASSUME NEW f \in FifoIds
        PROVE  /\ fifo'[f] \in FifoObjects
               /\ fifo'[f].buffer = fifo[f].buffer /\ fifo'[f].closed = fifo[f].closed
               /\ fifo'[f].read_pos = fifo[f].read_pos /\ fifo'[f].write_pos = fifo[f].write_pos
               /\ fifo'[f].data_len = fifo[f].data_len
    <3>1. PICK x \in Int : fifo'[f] = fifo[f] \/ fifo'[f] = [fifo[f] EXCEPT !.refcount = x]
      <4>1. fifo[f].refcount \in Int
        BY <2>1 DEF FifoObjects
      <4>2. \/ fifo'[f] = fifo[f] \/ fifo'[f] = [fifo[f] EXCEPT !.refcount = 1]
            \/ fifo'[f] = [fifo[f] EXCEPT !.refcount = fifo[f].refcount + 1]
        BY <1>2, <2>1
      <4> QED
        BY <4>1, <4>2
    <3> QED
      BY <2>1, <3>1 DEF FifoObjects
  <2>3. fifo' \in [FifoIds -> FifoObjects]
    BY <1>2, <2>1, <2>2
  <2> QED
    BY <2>2, <2>3 DEF KeepsRings, Closed
<1>3. ASSUME fifo_get(t) PROVE KeepsRings /\ Closed' = Closed /\ fcall' = fcall /\ fout' = fout
  BY <1>2, <1>3 DEF fifo_get
<1>4. ASSUME NEW f \in FifoIds, fifo_create(t, f)
      PROVE  KeepsRings /\ Closed' = Closed /\ fcall' = fcall /\ fout' = fout
  BY <1>2, <1>4 DEF fifo_create
<1>5. ASSUME fcall' = fcall PROVE Entered' = Entered /\ fcall' \in [FifoTasks -> FifoCalls]
  BY <1>5 DEF Entered, Writers, FifoInv
<1> QED
  BY <1>1, <1>3, <1>4, <1>5, RingsKept, QueueStutters

LEMMA FifoDeleteStep ==
  ASSUME FifoInv, NEW t \in FifoTasks, NEW f \in FifoIds, fifo_delete(t, f)
  PROVE  FifoInv' /\ FifoQueues!Shut(f)
<1>1. PICK call \in FifoCalls : call.op \notin WriteOps /\ fcall' = [fcall EXCEPT ![t] = call]
  <2>1. [op |-> "unlink", f |-> f] \in FifoCalls /\ "unlink" \notin WriteOps
    BY DEF FifoCalls, WriteOps
  <2> QED
    BY <2>1, ReturnedCall DEF fifo_delete, Calls
<1>2. fcall[t].op \notin WriteOps
  BY ReturnedCall DEF fifo_delete, Calls
<1>3. fifo' = [fifo EXCEPT ![f].closed = TRUE, ![f].refcount = @ - 1] /\ fout' = fout
  BY DEF fifo_delete
<1>4. KeepsRings /\ Closed' = Closed \cup {f}
  BY <1>3, SMTT(30) DEF KeepsRings, Closed, FifoInv, FifoObjects
<1>5. Entered' = Entered /\ fcall' \in [FifoTasks -> FifoCalls]
  BY <1>1, <1>2, OneCall
<1>6. FifoInv' /\ Content' = Content
  BY <1>4, <1>5, RingsKept
<1> QED
  BY <1>3, <1>4, <1>5, <1>6 DEF FifoQueues!Shut, Content, Closed, Entered, Writers

\* fifo_read is called: no queue changes.
LEMMA ReadCallStep ==
  ASSUME FifoInv, NEW t \in FifoTasks, NEW f \in FifoIds, NEW n \in FifoCounts, ReadCall(t, f, n)
  PROVE  FifoInv' /\ UNCHANGED FifoQueues!QVars
<1> DEFINE call == [op |-> "read", f |-> f, n |-> n]
<1>1. /\ fcall[t] = Returned /\ fcall' = [fcall EXCEPT ![t] = call]
      /\ fifo' = fifo /\ fout' = fout
  BY DEF ReadCall, Calls
<1>2. call \in FifoCalls /\ call.op \notin WriteOps
  BY FifoAssumption DEF FifoCalls, WriteOps
<1> HIDE DEF call
<1>3. Entered' = Entered /\ fcall' \in [FifoTasks -> FifoCalls]
  BY <1>1, <1>2, ReturnedCall, OneCall
<1>4. KeepsRings /\ Closed' = Closed
  BY <1>1 DEF KeepsRings, Closed, FifoInv
<1> QED
  BY <1>1, <1>3, <1>4, RingsKept, QueueStutters

\* fifo_write is called on a FIFO that is open: a put is under way.
LEMMA WriteCallStep ==
  ASSUME FifoInv, NEW t \in FifoTasks, NEW f \in FifoIds, NEW s \in FifoData, WriteCall(t, f, s)
  PROVE  FifoInv' /\ FifoQueues!Enter(f, t)
<1> DEFINE call == [op |-> "write", f |-> f, data |-> s]
<1>1. /\ fcall[t] = Returned /\ fcall' = [fcall EXCEPT ![t] = call]
      /\ fifo' = fifo /\ fout' = fout /\ ~ fifo[f].closed
  BY DEF WriteCall, Calls
<1>2. call \in FifoCalls /\ call.op \in WriteOps /\ call.f = f /\ call.data = s
  BY DEF FifoCalls, WriteOps
<1> HIDE DEF call
<1>3. fcall' \in [FifoTasks -> FifoCalls]
  BY <1>1, <1>2, OneCall
<1>4. KeepsRings /\ Closed' = Closed
  BY <1>1 DEF KeepsRings, Closed, FifoInv
<1>5. FifoInv' /\ Content' = Content
  BY <1>3, <1>4, RingsKept
<1>6. fcall'[t] = call /\ \A u \in FifoTasks \ {t} : fcall'[u] = fcall[u]
  BY <1>1 DEF FifoInv
<1>7. /\ Writers(f)' = Writers(f) \cup {t}
      /\ \A g \in FifoIds \ {f} : Writers(g)' = Writers(g)
      /\ \A g \in FifoIds : t \notin Writers(g)
  BY <1>1, <1>2, <1>6, ReturnedCall DEF Writers, WriteOps
<1>8. Entered' = [Entered EXCEPT ![f] = @ \cup {<<t, s>>}]
  <2>1. \A g \in FifoIds : \A u \in Writers(g) : u # t /\ fcall'[u].data = fcall[u].data
    BY <1>6, <1>7 DEF Writers
  <2>2. \A g \in FifoIds \ {f} : Entered'[g] = Entered[g]
    BY <1>7, <2>1 DEF Entered
  <2>3. Entered'[f] = Entered[f] \cup {<<t, s>>}
    BY <1>2, <1>6, <1>7, <2>1 DEF Entered
  <2> QED
    BY <2>2, <2>3 DEF Entered
<1>9. f \notin Closed
  BY <1>1 DEF Closed
<1> QED
  BY <1>1, <1>4, <1>5, <1>8, <1>9 DEF FifoQueues!Enter, Content, Closed, Entered, Writers

\* read_pos moved by n and data_len by -n, or write_pos and data_len by n: the distance of
\* the two positions stays data_len.
LEMMA RingDistance ==
  ASSUME NEW r \in 0 .. FifoTop, NEW d \in 0 .. FIFO_MAX_SIZE, NEW n \in 0 .. FIFO_MAX_SIZE
  PROVE  /\ RingNext(r, n) \in 0 .. FifoTop
         /\ n <= d => (r + d) % FIFO_MAX_SIZE = (RingNext(r, n) + (d - n)) % FIFO_MAX_SIZE
         /\ d + n <= FIFO_MAX_SIZE =>
               RingNext((r + d) % FIFO_MAX_SIZE, n) = (r + (d + n)) % FIFO_MAX_SIZE
<1> DEFINE m == FIFO_MAX_SIZE
<1>1. m \in Nat \ {0} /\ r \in 0 .. (m - 1) /\ d \in 0 .. m /\ n \in 0 .. m /\ FifoTop = m - 1
  BY FifoSize
<1>2. /\ RingNext(r, n) = Wrap(r + n) /\ Wrap(r + n) \in 0 .. FifoTop
      /\ (r + d) % m = Wrap(r + d) /\ Wrap(r + d) \in 0 .. FifoTop
  BY RingWrap
<1>3. ASSUME n <= d PROVE (r + d) % m = (RingNext(r, n) + (d - n)) % m
  <2> DEFINE z == Wrap(r + n)
             x == d - n
  <2>1. z \in 0 .. FifoTop /\ x \in 0 .. m
    BY <1>1, <1>2, <1>3
  <2>2. Wrap(z + x) = Wrap(r + d)
    BY <1>1, <1>3 DEF Wrap
  <2> HIDE DEF z, x
  <2>3. (z + x) % m = Wrap(z + x)
    BY <2>1, RingWrap
  <2>4. (z + x) % m = Wrap(r + d)
    BY <2>2, <2>3
  <2> QED
    BY <1>2, <2>4 DEF z, x
<1>4. ASSUME d + n <= m PROVE RingNext((r + d) % m, n) = (r + (d + n)) % m
  <2> DEFINE w == Wrap(r + d)
             y == d + n
  <2>1. w \in 0 .. FifoTop /\ y \in 0 .. m
    BY <1>1, <1>2, <1>4
  <2>2. Wrap(w + n) = Wrap(r + y)
    BY <1>1, <1>4 DEF Wrap
  <2> HIDE DEF w, y
  <2>3. RingNext(w, n) = Wrap(w + n) /\ (r + y) % m = Wrap(r + y)
    BY <2>1, RingWrap
  <2>4. RingNext(w, n) = (r + y) % m
    BY <2>2, <2>3
  <2> QED
    BY <1>2, <2>4 DEF w, y
<1> QED
  BY <1>2, <1>3, <1>4

\* One FIFO object replaced by another.
LEMMA OneFifo ==
  ASSUME FifoInv, NEW f \in FifoIds, NEW p \in FifoObjects, fifo' = [fifo EXCEPT ![f] = p],
         p.write_pos = (p.read_pos + p.data_len) % FIFO_MAX_SIZE,
         p.closed = fifo[f].closed,
         fcall' \in [FifoTasks -> FifoCalls]
  PROVE  /\ FifoInv'
         /\ Closed' = Closed
         /\ Content' = [Content EXCEPT ![f] = RingBytes(p)]
         /\ Content[f] = RingBytes(fifo[f])
<1>1. fifo \in [FifoIds -> FifoObjects]
  BY DEF FifoInv
<1>2. /\ fifo' \in [FifoIds -> FifoObjects] /\ fifo'[f] = p
      /\ \A g \in FifoIds \ {f} : fifo'[g] = fifo[g]
  BY <1>1
<1>3. FifoInv'
  BY <1>2 DEF FifoInv
<1>4. Closed' = Closed
  BY <1>2 DEF Closed
<1>5. \A g \in FifoIds : FifoContent(g) = RingBytes(fifo[g]) /\ FifoContent(g)' = RingBytes(fifo'[g])
  BY DEF FifoContent, RingBytes
<1>6. Content' = [Content EXCEPT ![f] = RingBytes(p)]
  BY <1>2, <1>5 DEF Content
<1> QED
  BY <1>3, <1>4, <1>5, <1>6 DEF Content

LEMMA FifoReadStep ==
  ASSUME FifoInv, NEW t \in FifoTasks, fifo_read(t)
  PROVE  FifoInv' /\ (UNCHANGED FifoQueues!QVars \/ \E f \in FifoIds : FifoQueues!Get(f))
<1> DEFINE f == fcall[t].f
           q == fifo[f]
           n == LeastOf(fcall[t].n, q.data_len)
<1>1. /\ fcall[t].op = "read" /\ fcall' = [fcall EXCEPT ![t] = Returned]
  BY DEF fifo_read
<1>2. f \in FifoIds /\ fcall[t].n \in Nat /\ fcall[t].op \notin WriteOps
  BY <1>1 DEF FifoInv, FifoCalls, Returned, WriteOps
<1>3. Entered' = Entered /\ fcall' \in [FifoTasks -> FifoCalls]
  BY <1>1, <1>2, OneCall, ReturnedCall
<1>4. CASE q.data_len = 0
  <2>1. fifo' = fifo /\ fout' = fout
    BY <1>4 DEF fifo_read
  <2>2. KeepsRings /\ Closed' = Closed
    BY <2>1 DEF KeepsRings, Closed, FifoInv
  <2> QED
    BY <1>3, <2>1, <2>2, RingsKept, QueueStutters
<1>5. CASE q.data_len # 0
  <2> DEFINE p == [q EXCEPT !.read_pos = RingNext(q.read_pos, n), !.data_len = q.data_len - n]
             bytes == [k \in 1 .. n |-> q.buffer[RingSlot(q.read_pos, k - 1)]]
  <2>1. fifo' = [fifo EXCEPT ![f] = p] /\ fout' = [fout EXCEPT ![f] = bytes]
    BY <1>5 DEF fifo_read
  <2>2. q \in FifoObjects /\ q.write_pos = (q.read_pos + q.data_len) % FIFO_MAX_SIZE
    BY <1>2 DEF FifoInv
  <2>3. /\ q.read_pos \in 0 .. FifoTop /\ q.data_len \in 0 .. FIFO_MAX_SIZE
    BY <2>2 DEF FifoObjects
  <2>4. n \in 0 .. q.data_len /\ n \in 0 .. FIFO_MAX_SIZE /\ n <= q.data_len
    BY <1>2, <2>3, FifoSize DEF LeastOf
  <2>5. /\ RingNext(q.read_pos, n) \in 0 .. FifoTop
        /\ (q.read_pos + q.data_len) % FIFO_MAX_SIZE
             = (RingNext(q.read_pos, n) + (q.data_len - n)) % FIFO_MAX_SIZE
    BY <2>3, <2>4, RingDistance
  <2>6. /\ p \in FifoObjects /\ p.buffer = q.buffer /\ p.closed = q.closed
        /\ p.read_pos = RingNext(q.read_pos, n) /\ p.data_len = q.data_len - n
        /\ p.write_pos = q.write_pos
    <3>1. q.data_len - n \in 0 .. FIFO_MAX_SIZE
      BY <2>3, <2>4, FifoSize
    <3> HIDE DEF q, n
    <3> QED
      BY <2>2, <2>5, <3>1 DEF FifoObjects
  <2>7. p.write_pos = (p.read_pos + p.data_len) % FIFO_MAX_SIZE
    <3> HIDE DEF p, q, n
    <3> QED
      BY <2>2, <2>5, <2>6
  <2> HIDE DEF n, p, f, bytes
  <2>8. /\ FifoInv' /\ Closed' = Closed
        /\ Content' = [Content EXCEPT ![f] = RingBytes(p)]
        /\ Content[f] = RingBytes(q)
    BY <1>2, <1>3, <2>1, <2>6, <2>7, OneFifo
  <2>9. /\ RingBytes(p) = SubSeq(RingBytes(q), n + 1, Len(RingBytes(q)))
        /\ bytes = SubSeq(RingBytes(q), 1, n)
    BY <2>2, <2>4, <2>6, ReadRing DEF bytes
  <2>10. n \in 0 .. Len(Content[f])
    BY <2>2, <2>4, <2>8, RingType
  <2> HIDE DEF q
  <2>11. /\ fout' = [fout EXCEPT ![f] = SubSeq(Content[f], 1, n)]
         /\ Content' = [Content EXCEPT ![f] = SubSeq(Content[f], n + 1, Len(Content[f]))]
    BY <2>1, <2>8, <2>9
  <2>12. FifoQueues!Get(f)
    BY <1>3, <2>8, <2>10, <2>11 DEF FifoQueues!Get, Content, Closed, Entered, Writers
  <2> QED
    BY <1>2, <2>8, <2>12 DEF f
<1> QED
  BY <1>4, <1>5

\* A write ends: it is no longer under way, and no other is disturbed.
LEMMA WriteEnds ==
  ASSUME FifoInv, NEW t \in FifoTasks, fcall[t].op \in WriteOps, fcall' = [fcall EXCEPT ![t] = Returned],
         NEW f, f = fcall[t].f, NEW s, s = fcall[t].data
  PROVE  /\ f \in FifoIds /\ s \in FifoData
         /\ <<t, s>> \in Entered[f]
         /\ Entered' = [Entered EXCEPT ![f] = @ \ {<<t, s>>}]
         /\ fcall' \in [FifoTasks -> FifoCalls]
<1>1. f \in FifoIds /\ s \in FifoData
  BY DEF FifoInv, FifoCalls, Returned, WriteOps
<1>2. /\ fcall' \in [FifoTasks -> FifoCalls]
      /\ fcall'[t] = Returned /\ \A u \in FifoTasks \ {t} : fcall'[u] = fcall[u]
  BY ReturnedCall DEF FifoInv
<1>3. /\ t \in Writers(f) /\ Writers(f)' = Writers(f) \ {t}
      /\ \A g \in FifoIds \ {f} : Writers(g)' = Writers(g)
      /\ \A g \in FifoIds : t \notin Writers(g)'
  BY <1>1, <1>2, ReturnedCall DEF Writers, WriteOps
<1>4. \A g \in FifoIds : \A u \in Writers(g)' : u # t /\ fcall'[u].data = fcall[u].data
  BY <1>2, <1>3 DEF Writers
<1>5. \A g \in FifoIds \ {f} : Entered'[g] = Entered[g]
  BY <1>3, <1>4 DEF Entered
<1>6. Entered'[f] = Entered[f] \ {<<t, s>>} /\ <<t, s>> \in Entered[f]
  BY <1>1, <1>3, <1>4 DEF Entered
<1>7. Entered' = [Entered EXCEPT ![f] = @ \ {<<t, s>>}]
  BY <1>5, <1>6 DEF Entered
<1> QED
  BY <1>1, <1>2, <1>6, <1>7

\* The bytes that fit are put in behind those on the ring.
LEMMA PutStep ==
  ASSUME FifoInv, NEW t \in FifoTasks, fcall[t].op \in WriteOps,
         fcall' = [fcall EXCEPT ![t] = Returned],
         NEW f, f = fcall[t].f, NEW s, s = fcall[t].data,
         PutBytes(f, s), fout' = fout
  PROVE  FifoInv' /\ f \in FifoIds /\ <<t, s>> \in Entered[f] /\ FifoQueues!Put(f, <<t, s>>)
<1> DEFINE q == fifo[f]
           n == LeastOf(Len(s), FIFO_MAX_SIZE - q.data_len)
           new == NewBuffer(q, s, n)
           p == [q EXCEPT !.write_pos = RingNext(q.write_pos, n), !.data_len = q.data_len + n, !.buffer = new]
<1>1. /\ f \in FifoIds /\ s \in FifoData /\ <<t, s>> \in Entered[f]
      /\ Entered' = [Entered EXCEPT ![f] = @ \ {<<t, s>>}]
      /\ fcall' \in [FifoTasks -> FifoCalls]
  BY WriteEnds
<1>2. q \in FifoObjects /\ q.write_pos = (q.read_pos + q.data_len) % FIFO_MAX_SIZE
  BY <1>1 DEF FifoInv
<1>3. fifo' = [fifo EXCEPT ![f] = p]
  BY DEF PutBytes, NewBuffer
<1>4. s \in Seq(FifoBytes) /\ Len(s) \in Nat
  BY <1>1, FifoDataType
<1>5. q.read_pos \in 0 .. FifoTop /\ q.write_pos \in 0 .. FifoTop /\ q.data_len \in 0 .. FIFO_MAX_SIZE
  BY <1>2 DEF FifoObjects
<1>6. n \in 0 .. Len(s) /\ n \in 0 .. FIFO_MAX_SIZE /\ q.data_len + n \in 0 .. FIFO_MAX_SIZE
  <2> DEFINE d == q.data_len
             l == Len(s)
  <2>1. d \in 0 .. FIFO_MAX_SIZE /\ l \in Nat
    BY <1>4, <1>5
  <2>2. n = IF l < FIFO_MAX_SIZE - d THEN l ELSE FIFO_MAX_SIZE - d
    BY DEF LeastOf
  <2> HIDE DEF d, l, n
  <2>3. n \in 0 .. l /\ n \in 0 .. FIFO_MAX_SIZE /\ d + n \in 0 .. FIFO_MAX_SIZE
    BY <2>1, <2>2, FifoSize
  <2> QED
    BY <2>3 DEF d, l
<1> HIDE DEF q, n
<1>7. new \in [0 .. FifoTop -> FifoBytes]
  <2> USE DEF NewBuffer
  <2> SUFFICES ASSUME NEW i \in 0 .. FifoTop PROVE new[i] \in FifoBytes
    OBVIOUS
  <2>1. CASE i \in {RingSlot(q.write_pos, j) : j \in 0 .. (n - 1)}
    <3> DEFINE k == CHOOSE j \in 0 .. (n - 1) : RingSlot(q.write_pos, j) = i
    <3>1. k \in 0 .. (n - 1)
      BY <2>1
    <3>2. new[i] = s[k + 1]
      BY <2>1
    <3> HIDE DEF k, new
    <3>3. k + 1 \in 1 .. Len(s)
      BY <1>4, <1>6, <3>1
    <3> QED
      BY <1>4, <3>2, <3>3
  <2>2. CASE i \notin {RingSlot(q.write_pos, j) : j \in 0 .. (n - 1)}
    BY <1>2, <2>2 DEF FifoObjects
  <2> QED
    BY <2>1, <2>2
<1>8. /\ RingNext(q.write_pos, n) \in 0 .. FifoTop
      /\ RingNext(q.write_pos, n) = (q.read_pos + (q.data_len + n)) % FIFO_MAX_SIZE
  <2>1. q.data_len + n <= FIFO_MAX_SIZE
    BY <1>6, FifoSize
  <2>2. RingNext((q.read_pos + q.data_len) % FIFO_MAX_SIZE, n) = (q.read_pos + (q.data_len + n)) % FIFO_MAX_SIZE
    BY <1>5, <1>6, <2>1, RingDistance
  <2>3. RingNext(q.write_pos, n) \in 0 .. FifoTop
    BY <1>5, <1>6, RingDistance
  <2> QED
    BY <1>2, <2>2, <2>3
<1>9. p.buffer = new
  BY <1>2 DEF FifoObjects
<1> HIDE DEF new
<1>10. /\ p \in FifoObjects /\ p.read_pos = q.read_pos /\ p.data_len = q.data_len + n
       /\ p.write_pos = RingNext(q.write_pos, n) /\ p.closed = q.closed
  BY <1>2, <1>6, <1>7, <1>8 DEF FifoObjects
<1>11. p.write_pos = (p.read_pos + p.data_len) % FIFO_MAX_SIZE
  BY <1>8, <1>10
<1> HIDE DEF p
<1>12. /\ FifoInv' /\ Closed' = Closed
       /\ Content' = [Content EXCEPT ![f] = RingBytes(p)]
       /\ Content[f] = RingBytes(q)
  BY <1>1, <1>3, <1>10, <1>11, OneFifo DEF q
<1>13. /\ Len(RingBytes(q)) + n <= FIFO_MAX_SIZE
       /\ RingBytes(p) = RingBytes(q) \o SubSeq(s, 1, n)
  BY <1>1, <1>2, <1>9, <1>10, WriteRing DEF n, new
<1>14. FifoQueues!Put(f, <<t, s>>)
  <2>1. /\ Len(Content[f]) + n <= FIFO_MAX_SIZE
        /\ Content' = [Content EXCEPT ![f] = Content[f] \o SubSeq(s, 1, n)]
    BY <1>12, <1>13
  <2> QED
    BY <1>1, <1>6, <1>12, <2>1 DEF FifoQueues!Put, Content, Closed, Entered, Writers
<1> QED
  BY <1>1, <1>12, <1>14

LEMMA FifoWriteStep ==
  ASSUME FifoInv, NEW t \in FifoTasks, fifo_write(t)
  PROVE  /\ FifoInv'
         /\ \/ UNCHANGED FifoQueues!QVars
            \/ \E f \in FifoIds : \E e \in Entered[f] : FifoQueues!Put(f, e)
<1> DEFINE Over == fcall' = [fcall EXCEPT ![t] = Returned]
<1>0. PICK f, s : f = fcall[t].f /\ s = fcall[t].data
  OBVIOUS
<1>1. fout' = fout
  BY DEF fifo_write
<1>2. \/ fcall[t].op \in WriteOps /\ PutBytes(f, s) /\ Over
      \/ fcall[t].op = "write" /\ fcall' = [fcall EXCEPT ![t].op = "wait"] /\ fifo' = fifo
      \/ fcall[t].op \in WriteOps /\ Over /\ fifo' = fifo
  BY <1>0 DEF fifo_write, WriteOps
<1>3. CASE fcall[t].op \in WriteOps /\ PutBytes(f, s) /\ Over
  <2>1. FifoInv' /\ f \in FifoIds /\ <<t, s>> \in Entered[f] /\ FifoQueues!Put(f, <<t, s>>)
    BY <1>0, <1>1, <1>3, PutStep
  <2> QED
    BY <2>1
<1>4. ASSUME fifo' = fifo PROVE KeepsRings /\ Closed' = Closed
  BY <1>4 DEF KeepsRings, Closed, FifoInv
<1>5. CASE fcall[t].op = "write" /\ fcall' = [fcall EXCEPT ![t].op = "wait"] /\ fifo' = fifo
  <2>1. fcall[t] \in [op : {"write", "wait"}, f : FifoIds, data : FifoData]
    BY <1>5 DEF FifoInv, FifoCalls, Returned
  <2>2. /\ fcall'[t].op = "wait" /\ fcall'[t].f = fcall[t].f /\ fcall'[t].data = fcall[t].data
        /\ \A u \in FifoTasks \ {t} : fcall'[u] = fcall[u]
        /\ fcall' \in [FifoTasks -> FifoCalls]
    <3>1. fcall \in [FifoTasks -> FifoCalls]
      BY DEF FifoInv
    <3>2. fcall'[t] = [fcall[t] EXCEPT !.op = "wait"] /\ \A u \in FifoTasks \ {t} : fcall'[u] = fcall[u]
      BY <1>5, <3>1
    <3>3. fcall'[t] \in [op : {"write", "wait"}, f : FifoIds, data : FifoData]
      BY <2>1, <3>2
    <3>4. fcall' \in [FifoTasks -> FifoCalls]
      BY <1>5, <3>1, <3>2, <3>3 DEF FifoCalls
    <3> QED
      BY <2>1, <3>2, <3>4
  <2>3. KeepsWriters
    BY <1>5, <2>2 DEF KeepsWriters, WriteOps
  <2> QED
    BY <1>1, <1>4, <1>5, <2>2, <2>3, RingsKept, WritersKept, QueueStutters
<1>6. CASE fcall[t].op \in WriteOps /\ Over /\ fifo' = fifo
  <2>1. /\ f \in FifoIds /\ s \in FifoData /\ <<t, s>> \in Entered[f]
        /\ Entered' = [Entered EXCEPT ![f] = @ \ {<<t, s>>}]
        /\ fcall' \in [FifoTasks -> FifoCalls]
    BY <1>0, <1>6, WriteEnds
  <2>2. FifoInv' /\ Content' = Content /\ Closed' = Closed
    BY <1>4, <1>6, <2>1, RingsKept
  <2>3. Content[f] = RingBytes(fifo[f]) /\ fifo[f] \in FifoObjects
    BY <2>1 DEF Content, FifoContent, RingBytes, FifoInv
  <2>4. Content[f] \in Seq(FifoBytes) /\ Len(Content[f]) \in 0 .. FIFO_MAX_SIZE
    BY <2>3, RingType DEF FifoObjects
  <2>5. s \in Seq(FifoBytes) /\ Len(s) \in Nat
    BY <2>1, FifoDataType
  <2>6. SubSeq(s, 1, 0) = <<>>
    BY <2>5
  <2>7. Content[f] \o SubSeq(s, 1, 0) = Content[f]
    BY <2>4, <2>6, ConcatEmptySeq
  <2>8. 0 \in 0 .. Len(s) /\ Len(Content[f]) + 0 <= FIFO_MAX_SIZE
    BY <2>4, <2>5, FifoSize
  <2>9. Content' = [Content EXCEPT ![f] = Content[f] \o SubSeq(s, 1, 0)]
    BY <2>2, <2>7 DEF Content
  <2>10. FifoQueues!Put(f, <<t, s>>)
    BY <1>1, <2>1, <2>2, <2>8, <2>9 DEF FifoQueues!Put, Content, Closed, Entered, Writers
  <2> QED
    BY <2>1, <2>2, <2>10
<1> QED
  BY <1>2, <1>3, <1>5, <1>6

\* Every step of the FIFOs is a step of the abstract queue, or none.
LEMMA FifoNextStep ==
  ASSUME FifoInv, [FifoNext]_FifoVars
  PROVE  FifoInv' /\ [FifoQueues!QNext]_(FifoQueues!QVars)
<1>1. ASSUME NEW t \in FifoTasks,
             FifoReturns(t) \/ fifo_get(t) \/ \E f \in FifoIds : fifo_create(t, f)
      PROVE  FifoInv' /\ (UNCHANGED FifoQueues!QVars \/ FifoQueues!QNext)
  <2>1. ASSUME fifo_read(t) PROVE FifoInv' /\ (UNCHANGED FifoQueues!QVars \/ FifoQueues!QNext)
    BY <2>1, FifoReadStep DEF FifoQueues!QNext
  <2>2. ASSUME fifo_write(t) PROVE FifoInv' /\ (UNCHANGED FifoQueues!QVars \/ FifoQueues!QNext)
    BY <2>2, FifoWriteStep DEF FifoQueues!QNext, Entered, Writers
  <2> QED
    BY <1>1, <2>1, <2>2, FifoListSteps DEF FifoReturns
<1>2. ASSUME NEW t \in FifoTasks, NEW f \in FifoIds,
             \/ fifo_delete(t, f)
             \/ \E n \in FifoCounts : ReadCall(t, f, n)
             \/ \E s \in FifoData : WriteCall(t, f, s)
      PROVE  FifoInv' /\ (UNCHANGED FifoQueues!QVars \/ FifoQueues!QNext)
  BY <1>2, FifoDeleteStep, ReadCallStep, WriteCallStep DEF FifoQueues!QNext
<1>3. ASSUME UNCHANGED FifoVars PROVE FifoInv' /\ UNCHANGED FifoQueues!QVars
  <2>1. fifo' = fifo /\ fcall' = fcall /\ fout' = fout
    BY <1>3 DEF FifoVars
  <2> QED
    BY <2>1 DEF FifoInv, FifoQueues!QVars, FifoContent
<1> QED
  BY <1>1, <1>2, <1>3 DEF FifoNext

\* Each part of the file layer takes its own steps, or none.
LEMMA Parts ==
  ASSUME [FSNext]_FSVars
  PROVE  [FifoNext]_FifoVars /\ [RamNext]_RamVars /\ [TmpNext]_TmpVars /\ [VfsNext]_VfsVars
<1>1. CASE UNCHANGED FSVars
  BY <1>1 DEF FSVars
<1>2. CASE FSNext
  BY <1>2 DEF FSNext
<1> QED
  BY <1>1, <1>2

\* The named pipes implement the abstract byte queue, for every size of the ring, every
\* number of readers and writers, and all lengths of transfers: bytes come out in the
\* order in which they went in, each once, and none enters after fifo_delete.
THEOREM FifosAreByteQueues == FSSpec => FifoImplements
<1>1. FSInit => FifoInv /\ FifoQueues!QInit
  BY FifoInitInv DEF FSInit
<1>2. FifoInv /\ [FSNext]_FSVars => FifoInv' /\ [FifoQueues!QNext]_(FifoQueues!QVars)
  BY Parts, FifoNextStep
<1> QED
  BY <1>1, <1>2, PTL DEF FSSpec, FifoImplements, FifoQueues!QSpec
-----------------------------------------------------------------------------
(***************************************************************************)
(* The table of RAM disks.                                                 *)
(***************************************************************************)
RamRecords == [state : {"new", "live", "freed"}, size : Nat, minor : Nat, registered : BOOLEAN,
               data : UNION {[0 .. (n - 1) -> RamValues] : n \in Nat}]

UsedSlots == {i \in RamSlots : ramdisks[i] # NoRam}

RamInv ==
    /\ ramdisks \in [RamSlots -> RamIds \cup {NoRam}]
    /\ ramdisk_count \in Nat
    /\ rdev \in [RamIds -> RamRecords]
    /\ RamdiskTable

\* A finite set of slots, counted.
LEMMA SlotsFinite ==
  ASSUME NEW S \in SUBSET RamSlots
  PROVE  IsFiniteSet(S) /\ Cardinality(S) \in Nat
<1>1. IsFiniteSet(RamSlots)
  BY FS_Interval, RamDiskAssumption DEF RamSlots
<1> QED
  BY <1>1, FS_Subset, FS_CardinalityType

LEMMA OneMore ==
  ASSUME NEW S, NEW x, IsFiniteSet(S)
  PROVE  Cardinality(S \cup {x}) <= Cardinality(S) + 1
<1> DEFINE n == Cardinality(S)
           m == Cardinality(S \cup {x})
<1>1. n \in Nat
  BY FS_CardinalityType
<1>2. m = IF x \in S THEN n ELSE n + 1
  BY FS_AddElement
<1> HIDE DEF n, m
<1>3. m <= n + 1
  BY <1>1, <1>2
<1> QED
  BY <1>3 DEF n, m

LEMMA RamInitInv == ramdisk_init => RamInv
<1> SUFFICES ASSUME ramdisk_init PROVE RamInv
  OBVIOUS
<1>1. UsedSlots = {}
  BY DEF ramdisk_init, UsedSlots
<1>2. Cardinality(UsedSlots) = 0
  BY <1>1, FS_EmptySet
<1>3. RamBlank \in RamRecords
  <2>1. 0 .. (0 - 1) = {}
    OBVIOUS
  <2>2. <<>> \in [0 .. (0 - 1) -> RamValues]
    BY <2>1
  <2>3. 0 \in Nat
    OBVIOUS
  <2>4. <<>> \in UNION {[0 .. (n - 1) -> RamValues] : n \in Nat}
    BY <2>2, <2>3
  <2> QED
    BY <2>4 DEF RamBlank, RamRecords
<1> QED
  BY <1>2, <1>3 DEF ramdisk_init, RamInv, RamdiskTable, UsedSlots

LEMMA CreateInv ==
  ASSUME RamInv, NEW d \in RamIds, NEW size \in RamSizes, ramdisk_create(d, size)
  PROVE  RamInv'
<1> DEFINE fresh == [state |-> "live", size |-> size, minor |-> ramdisk_count,
                     registered |-> FALSE, data |-> [s \in 0 .. (size - 1) |-> 0]]
<1>0. NoRam \notin RamIds /\ size \in Nat /\ 0 \in RamValues
  BY RamDiskAssumption
<1>1. fresh \in RamRecords
  <2>1. [s \in 0 .. (size - 1) |-> 0] \in [0 .. (size - 1) -> RamValues]
    BY <1>0
  <2>2. [s \in 0 .. (size - 1) |-> 0] \in UNION {[0 .. (n - 1) -> RamValues] : n \in Nat}
    BY <2>1, <1>0
  <2> QED
    BY <2>2, <1>0 DEF RamInv, RamRecords
<1> HIDE DEF fresh
<1>2. rdev' = [rdev EXCEPT ![d] = fresh] /\ fresh.state = "live"
  BY DEF ramdisk_create, fresh
<1>3. rdev' \in [RamIds -> RamRecords]
  BY <1>1, <1>2 DEF RamInv
<1>4. /\ ramdisk_count \in RamSlots
      /\ ramdisks' = [ramdisks EXCEPT ![ramdisk_count] = d]
      /\ ramdisk_count' = ramdisk_count + 1
  BY RamDiskAssumption DEF RamInv, ramdisk_create, RamSlots
<1>5. ramdisks' \in [RamSlots -> RamIds \cup {NoRam}]
  BY <1>4 DEF RamInv
\* d was not in the table: what is there is live.
<1>6. \A i \in RamSlots : ramdisks[i] # d
  BY <1>0 DEF RamInv, RamdiskTable, ramdisk_create
<1>7. \A i \in RamSlots : ramdisks'[i] # NoRam =>
          /\ rdev'[ramdisks'[i]].state = "live"
          /\ \A j \in RamSlots : ramdisks'[j] = ramdisks'[i] => j = i
  BY <1>2, <1>4, <1>6 DEF RamInv, RamdiskTable
<1>8. UsedSlots' \subseteq UsedSlots \cup {ramdisk_count} /\ UsedSlots \subseteq RamSlots /\ UsedSlots' \subseteq RamSlots
  BY <1>4 DEF RamInv, UsedSlots
<1>9. Cardinality(UsedSlots') <= Cardinality(UsedSlots) + 1
  <2>1. IsFiniteSet(UsedSlots) /\ Cardinality(UsedSlots) \in Nat /\ Cardinality(UsedSlots') \in Nat
    BY <1>8, SlotsFinite
  <2>2. IsFiniteSet(UsedSlots \cup {ramdisk_count})
    BY <2>1, FS_AddElement
  <2>3. Cardinality(UsedSlots \cup {ramdisk_count}) <= Cardinality(UsedSlots) + 1
    BY <2>1, OneMore
  <2>4. Cardinality(UsedSlots') <= Cardinality(UsedSlots \cup {ramdisk_count})
    BY <2>2, <1>8, FS_Subset
  <2> QED
    BY <2>1, <2>2, <2>3, <2>4, FS_CardinalityType
<1>10. Cardinality(UsedSlots) <= ramdisk_count /\ Cardinality(UsedSlots) \in Nat /\ Cardinality(UsedSlots') \in Nat
  BY <1>8, SlotsFinite DEF RamInv, RamdiskTable, UsedSlots
<1>11. Cardinality(UsedSlots') <= ramdisk_count'
  BY <1>4, <1>9, <1>10 DEF RamInv
<1> QED
  BY <1>3, <1>4, <1>5, <1>7, <1>11 DEF RamInv, RamdiskTable, UsedSlots

LEMMA DeleteInv ==
  ASSUME RamInv, NEW d \in RamIds, ramdisk_delete(d)
  PROVE  RamInv'
<1> DEFINE at == {i \in RamSlots : ramdisks[i] = d /\ \A j \in 0 .. (i - 1) : ramdisks[j] # d}
<1>0. NoRam \notin RamIds
  BY RamDiskAssumption
<1>1. \A i \in RamSlots : ramdisks[i] = d <=> i \in at
  <2>1. \A i, j \in RamSlots : ramdisks[i] = d /\ ramdisks[j] = d => j = i
    BY <1>0 DEF RamInv, RamdiskTable
  <2>2. \A i \in RamSlots : \A j \in 0 .. (i - 1) : j \in RamSlots /\ j # i
    BY RamDiskAssumption DEF RamSlots
  <2> QED
    BY <2>1, <2>2
<1>2. /\ rdev' = [rdev EXCEPT ![d] = [RamBlank EXCEPT !.state = "freed"]]
      /\ ramdisks' = [i \in RamSlots |-> IF i \in at THEN NoRam ELSE ramdisks[i]]
      /\ ramdisk_count' = ramdisk_count - Cardinality(at)
  BY DEF ramdisk_delete
<1>3. at \subseteq UsedSlots /\ UsedSlots \subseteq RamSlots /\ \A i, j \in at : i = j
  BY <1>0, <1>1 DEF RamInv, RamdiskTable, UsedSlots
<1> HIDE DEF at
<1>4. [RamBlank EXCEPT !.state = "freed"] \in RamRecords
  <2>1. 0 .. (0 - 1) = {}
    OBVIOUS
  <2>2. <<>> \in [0 .. (0 - 1) -> RamValues]
    BY <2>1
  <2>3. 0 \in Nat
    OBVIOUS
  <2>4. <<>> \in UNION {[0 .. (n - 1) -> RamValues] : n \in Nat}
    BY <2>2, <2>3
  <2> QED
    BY <2>4 DEF RamBlank, RamRecords
<1>5. rdev' \in [RamIds -> RamRecords]
  BY <1>2, <1>4 DEF RamInv
<1>6. ramdisks' \in [RamSlots -> RamIds \cup {NoRam}]
  BY <1>2 DEF RamInv
<1>7. \A i \in RamSlots : ramdisks'[i] # NoRam =>
          /\ rdev'[ramdisks'[i]].state = "live"
          /\ \A j \in RamSlots : ramdisks'[j] = ramdisks'[i] => j = i
  BY <1>1, <1>2 DEF RamInv, RamdiskTable
<1>8. UsedSlots' = UsedSlots \ at
  BY <1>2 DEF RamInv, UsedSlots
<1>9. IsFiniteSet(UsedSlots) /\ Cardinality(UsedSlots) \in Nat /\ Cardinality(UsedSlots) <= ramdisk_count
  BY <1>3, SlotsFinite DEF RamInv, RamdiskTable, UsedSlots
<1>10. CASE at = {}
  <2>1. Cardinality(at) = 0 /\ UsedSlots' = UsedSlots
    BY <1>8, <1>10, FS_EmptySet
  <2>2. ramdisk_count' = ramdisk_count
    BY <2>1, <1>2 DEF RamInv
  <2> QED
    BY <2>1, <2>2, <1>5, <1>6, <1>7, <1>9 DEF RamInv, RamdiskTable, UsedSlots
<1>11. CASE at # {}
  <2>1. PICK i \in at : at = {i}
    BY <1>3, <1>11
  <2>2. Cardinality(at) = 1
    BY <2>1, FS_Singleton
  <2>3. i \in UsedSlots /\ UsedSlots' = UsedSlots \ {i}
    BY <2>1, <1>3, <1>8
  <2>4. Cardinality(UsedSlots') = Cardinality(UsedSlots) - 1
    BY <2>3, <1>9, FS_RemoveElement
  <2>5. Cardinality(UsedSlots') \in Nat
    BY <2>3, <1>3, SlotsFinite
  <2>6. ramdisk_count' \in Nat /\ Cardinality(UsedSlots') <= ramdisk_count'
    BY <2>2, <2>4, <2>5, <1>2, <1>9 DEF RamInv
  <2> QED
    BY <2>6, <1>5, <1>6, <1>7 DEF RamInv, RamdiskTable, UsedSlots
<1> QED
  BY <1>10, <1>11

LEMMA DeviceInv ==
  ASSUME RamInv, NEW d \in RamIds, UNCHANGED <<ramdisks, ramdisk_count>>,
         rdev' \in [RamIds -> RamRecords], \A x \in RamIds : rdev'[x].state = rdev[x].state
  PROVE  RamInv'
<1>1. \A i \in RamSlots : ramdisks[i] # NoRam => ramdisks[i] \in RamIds
  BY DEF RamInv
<1> QED
  BY <1>1 DEF RamInv, RamdiskTable

LEMMA RamNextInv == RamInv /\ [RamNext]_RamVars => RamInv'
<1> SUFFICES ASSUME RamInv, [RamNext]_RamVars PROVE RamInv'
  OBVIOUS
<1>1. CASE UNCHANGED RamVars
  BY <1>1 DEF RamVars, RamInv, RamdiskTable
<1>2. ASSUME NEW d \in RamIds, NEW size \in RamSizes, ramdisk_create(d, size) PROVE RamInv'
  BY <1>2, CreateInv
<1>3. ASSUME NEW d \in RamIds, ramdisk_delete(d) PROVE RamInv'
  BY <1>3, DeleteInv
<1>4. ASSUME NEW d \in RamIds, NEW sector \in RamSectors, NEW count \in RamSectors, NEW v \in RamValues,
             ramdisk_write(d, sector, count, v)
      PROVE  RamInv'
  <2>1. PICK new : /\ rdev' = [rdev EXCEPT ![d] = [rdev[d] EXCEPT !.data = new]]
                   /\ new = [s \in DOMAIN rdev[d].data |->
                               IF s \in Sectors32(sector) .. (Sectors32(sector) + Sectors32(count) - 1)
                               THEN v ELSE rdev[d].data[s]]
    BY <1>4 DEF ramdisk_write
  <2>2. PICK n \in Nat : rdev[d].data \in [0 .. (n - 1) -> RamValues]
    BY DEF RamInv, RamRecords
  <2>3. new \in [0 .. (n - 1) -> RamValues]
    BY <2>1, <2>2
  <2>4. new \in UNION {[0 .. (k - 1) -> RamValues] : k \in Nat}
    BY <2>3
  <2>5. [rdev[d] EXCEPT !.data = new] \in RamRecords /\ [rdev[d] EXCEPT !.data = new].state = rdev[d].state
    BY <2>4, ZenonT(30) DEF RamInv, RamRecords
  <2>6. rdev' \in [RamIds -> RamRecords] /\ \A x \in RamIds : rdev'[x].state = rdev[x].state
    BY <2>1, <2>5 DEF RamInv
  <2> QED
    BY <2>6, <1>4, DeviceInv DEF ramdisk_write
<1>5. ASSUME NEW d \in RamIds, NEW on \in BOOLEAN, ramdisk_register(d, on) PROVE RamInv'
  <2>1. rdev' = [rdev EXCEPT ![d] = [rdev[d] EXCEPT !.registered = on]]
    BY <1>5 DEF ramdisk_register
  <2>2. [rdev[d] EXCEPT !.registered = on] \in RamRecords /\ [rdev[d] EXCEPT !.registered = on].state = rdev[d].state
    BY ZenonT(30) DEF RamInv, RamRecords
  <2>3. rdev' \in [RamIds -> RamRecords] /\ \A x \in RamIds : rdev'[x].state = rdev[x].state
    BY <2>1, <2>2 DEF RamInv
  <2> QED
    BY <2>3, <1>5, DeviceInv DEF ramdisk_register
<1>6. ASSUME NEW count \in RamSectors, dev_random_read(count) PROVE RamInv'
  BY <1>6 DEF dev_random_read, RamInv, RamdiskTable
<1> QED
  BY <1>1, <1>2, <1>3, <1>4, <1>5, <1>6 DEF RamNext

\* For every size of the table, and through every sequence of creations and deletions,
\* ramdisk_get finds only devices that were not freed, each in one slot, and
\* ramdisk_count bounds the slots in use, so ramdisk_create never writes past the table.
THEOREM RamdiskTableHolds == FSSpec => []RamdiskTable
<1>1. FSInit => RamInv
  BY RamInitInv DEF FSInit
<1>2. RamInv /\ [FSNext]_FSVars => RamInv'
  BY Parts, RamNextInv
<1>3. RamInv => RamdiskTable
  BY DEF RamInv
<1> QED
  BY <1>1, <1>2, <1>3, PTL DEF FSSpec
-----------------------------------------------------------------------------
(***************************************************************************)
(* tmpfs: the lists of children and the contents of the files.             *)
(***************************************************************************)
TmpBytes == {TmpJunk} \cup UNION {{s[i] : i \in DOMAIN s} : s \in TmpData}

TmpLinks == TmpAll \cup {NoInode}

TmpNodes ==
    [state : {"new", "live", "freed"}, parent : TmpLinks, children : TmpLinks, next : TmpLinks,
     prev : TmpLinks, refcount : Int, data : Seq(TmpBytes)]

\* Only a live inode becomes a parent, and no inode is its own.
ParentsOnceLive ==
    /\ inode[TmpRoot].state # "new" /\ inode[TmpRoot].parent = NoInode
    /\ \A i \in TmpLive \ {TmpRoot} : inode[i].parent \in TmpAll
    /\ \A i \in TmpLive : inode[i].parent # NoInode =>
          inode[i].parent # i /\ inode[inode[i].parent].state # "new"

\* A byte that was written is in the data, at its offset.
BytesInPlace ==
    \A i \in TmpAll :
        /\ inode[i].state = "new" => inode[i].data = <<>>
        /\ \A k \in 0 .. (MAX_SIZE - 1) : tmpRef[i][k] # TmpJunk =>
              k + 1 \in 1 .. Len(inode[i].data) /\ inode[i].data[k + 1] = tmpRef[i][k]

\* prev leads to the first child: there is no ring of children beside the list.
PrevDescends ==
    \E rank \in [TmpAll -> Nat] : \A i \in TmpLive \ {TmpRoot} :
        inode[i].prev \in TmpAll => rank[inode[i].prev] < rank[i]

TmpTyped ==
    /\ inode \in [TmpAll -> TmpNodes]
    /\ tmpRef \in [TmpAll -> [0 .. (MAX_SIZE - 1) -> TmpBytes]]
    /\ used_size \in Int

\* used_size is the space of the live inodes.
SpaceCounted == used_size = SumOver(TmpSizes, TmpLive)

TmpInv ==
    /\ TmpTyped /\ ParentsOnceLive /\ ChildrenLinked /\ PrevDescends /\ BytesInPlace /\ SpaceCounted
    /\ used_size <= MAX_SIZE

LEMMA TmpNames == NoInode \notin TmpAll /\ TmpRoot \in TmpAll /\ MAX_SIZE \in Nat /\ MaxOffset \in Nat
BY TmpfsAssumption DEF TmpAll

LEMMA TmpFinite == IsFiniteSet(TmpAll)
BY TmpfsAssumption, FS_AddElement DEF TmpAll

LEMMA SizesAre ==
  TmpTyped => \A j \in TmpAll : TmpSizes[j] = Len(inode[j].data) /\ TmpSizes[j] \in Int
BY DEF TmpTyped, TmpNodes, TmpSizes

\* The sum when one element enters the set, leaves it or changes its value.
LEMMA SumMoves ==
  ASSUME NEW A, IsFiniteSet(A), NEW f, NEW h, \A x \in A : f[x] \in Int /\ h[x] \in Int,
         NEW L \in SUBSET A, NEW M \in SUBSET A, NEW i \in A,
         \A x \in A \ {i} : h[x] = f[x] /\ (x \in L <=> x \in M)
  PROVE  /\ SumOver(f, L) \in Int
         /\ SumOver(h, M) = SumOver(f, L) - (IF i \in L THEN f[i] ELSE 0) + (IF i \in M THEN h[i] ELSE 0)
<1>0. PICK R : R = L \ {i}
  OBVIOUS
<1>1. R = L \ {i} /\ R = M \ {i} /\ R \in SUBSET A /\ i \notin R
  BY <1>0
<1>2. IsFiniteSet(L) /\ IsFiniteSet(M) /\ IsFiniteSet(R)
  BY <1>1, FS_Subset
<1>3. SumOver(f, R) \in Int
  BY <1>1, <1>2, SumType
<1>4. SumOver(h, R) = SumOver(f, R)
  <2>1. \A x \in R : f[x] \in Int /\ h[x] = f[x]
    BY <1>1
  <2> QED
    BY <1>2, <2>1, SumSame
<1>5. SumOver(f, L) = SumOver(f, R) + (IF i \in L THEN f[i] ELSE 0)
  <2>1. CASE i \in L
    <3>1. SumOver(f, L) = f[i] + SumOver(f, L \ {i})
      BY <1>2, <2>1, SumWithout
    <3> QED
      BY <1>1, <1>3, <2>1, <3>1
  <2>2. CASE i \notin L
    <3>1. L = R
      BY <1>1, <2>2
    <3> QED
      BY <1>3, <2>2, <3>1
  <2> QED
    BY <2>1, <2>2
<1>6. SumOver(h, M) = SumOver(h, R) + (IF i \in M THEN h[i] ELSE 0)
  <2>1. CASE i \in M
    <3>1. SumOver(h, M) = h[i] + SumOver(h, M \ {i})
      BY <1>2, <2>1, SumWithout
    <3>2. SumOver(h, M) = h[i] + SumOver(h, R) /\ h[i] \in Int /\ SumOver(h, R) \in Int
      BY <1>1, <1>3, <1>4, <3>1
    <3> QED
      BY <2>1, <3>2
  <2>2. CASE i \notin M
    <3>1. M = R
      BY <1>1, <2>2
    <3> QED
      BY <1>3, <1>4, <2>2, <3>1
  <2> QED
    BY <2>1, <2>2
<1> QED
  BY <1>3, <1>4, <1>5, <1>6

\* The space after a step that changes the state or the data of one inode only.
LEMMA SpaceStep ==
  ASSUME TmpTyped, TmpTyped', SpaceCounted, NEW i \in TmpAll,
         \A j \in TmpAll \ {i} : inode'[j].state = inode[j].state /\ inode'[j].data = inode[j].data,
         used_size' = used_size - (IF inode[i].state = "live" THEN Len(inode[i].data) ELSE 0)
                                + (IF inode'[i].state = "live" THEN Len(inode'[i].data) ELSE 0)
  PROVE  SpaceCounted'
<1>1. PICK f, h, L, M : f = TmpSizes /\ h = TmpSizes' /\ L = TmpLive /\ M = TmpLive'
  OBVIOUS
<1>2. \A j \in TmpAll : f[j] = Len(inode[j].data) /\ f[j] \in Int
  BY <1>1, SizesAre
<1>3. \A j \in TmpAll : h[j] = Len(inode'[j].data) /\ h[j] \in Int
  BY <1>1 DEF TmpTyped, TmpNodes, TmpSizes
<1>4. L \in SUBSET TmpAll /\ M \in SUBSET TmpAll /\ \A x \in TmpAll \ {i} : x \in L <=> x \in M
  BY <1>1 DEF TmpLive
<1>5. (i \in L <=> inode[i].state = "live") /\ (i \in M <=> inode'[i].state = "live")
  BY <1>1 DEF TmpLive
<1>6. \A j \in TmpAll \ {i} : h[j] = f[j]
  BY <1>2, <1>3
<1>7. SumOver(h, M) = SumOver(f, L) - (IF i \in L THEN f[i] ELSE 0) + (IF i \in M THEN h[i] ELSE 0)
  BY <1>2, <1>3, <1>4, <1>6, TmpFinite, SumMoves
<1>8. used_size = SumOver(f, L)
  BY <1>1 DEF SpaceCounted
<1>9. used_size' = SumOver(h, M)
  BY <1>2, <1>3, <1>5, <1>7, <1>8
<1> QED
  BY <1>1, <1>9 DEF SpaceCounted

LEMMA TmpInitInv == tmpfs_init => TmpInv
<1> SUFFICES ASSUME tmpfs_init PROVE TmpInv
  OBVIOUS
<1>1. \A st \in {"new", "live"} : TmpBlank(st, NoInode) \in TmpNodes
  BY DEF TmpBlank, TmpNodes, TmpLinks
<1>2. TmpTyped
  <2>1. Unwritten \in [0 .. (MAX_SIZE - 1) -> TmpBytes]
    BY DEF Unwritten, TmpBytes
  <2> QED
    BY <1>1, <2>1 DEF tmpfs_init, TmpTyped
<1>3. \A i \in TmpAll : inode[i] = TmpBlank(IF i = TmpRoot THEN "live" ELSE "new", NoInode)
  BY DEF tmpfs_init
<1>8. \A i \in TmpAll : /\ inode[i].parent = NoInode /\ inode[i].children = NoInode /\ inode[i].data = <<>>
                        /\ inode[i].state = IF i = TmpRoot THEN "live" ELSE "new"
  <2>1. \A st : /\ TmpBlank(st, NoInode).parent = NoInode /\ TmpBlank(st, NoInode).children = NoInode
                /\ TmpBlank(st, NoInode).data = <<>> /\ TmpBlank(st, NoInode).state = st
    BY DEF TmpBlank
  <2> QED
    BY <1>3, <2>1, Zenon
<1>4. \A dir \in TmpAll : TmpChildren(dir) = {}
  BY <1>8, TmpNames DEF TmpChildren, TmpLive
<1>5. ChildrenLinked
  BY <1>8, <1>4 DEF ChildrenLinked
<1>6. ParentsOnceLive
  BY <1>8, TmpNames DEF ParentsOnceLive, TmpLive
<1>7. BytesInPlace
  BY <1>8 DEF BytesInPlace, TmpBlank, tmpfs_init, Unwritten
<1>9. PrevDescends
  <2>1. [i \in TmpAll |-> 0] \in [TmpAll -> Nat] /\ TmpLive \ {TmpRoot} = {}
    BY <1>8 DEF TmpLive
  <2> QED
    BY <2>1, Zenon DEF PrevDescends
<1>10. SpaceCounted
  <2>1. TmpLive = {TmpRoot} /\ IsFiniteSet({TmpRoot})
    BY <1>8, TmpNames, FS_Singleton DEF TmpLive
  <2>2. TmpSizes[TmpRoot] = 0
    BY <1>2, <1>8, TmpNames, SizesAre
  <2>3. PICK f, S : f = TmpSizes /\ S = {TmpRoot}
    OBVIOUS
  <2>6. TmpRoot \in S /\ f[TmpRoot] = 0 /\ \A x \in S : f[x] \in Int
    BY <2>2, <2>3
  <2>4. SumOver(f, S) = f[TmpRoot] + SumOver(f, S \ {TmpRoot})
    BY <2>1, <2>3, <2>6, SumWithout
  <2>5. S \ {TmpRoot} = {}
    BY <2>3
  <2>7. SumOver(f, S \ {TmpRoot}) = 0
    BY <2>5, SumEmpty, Zenon
  <2>8. SumOver(f, S) = 0
    BY <2>4, <2>6, <2>7
  <2> QED
    BY <2>1, <2>3, <2>8 DEF SpaceCounted, tmpfs_init
<1> QED
  BY <1>2, <1>5, <1>6, <1>7, <1>9, <1>10, TmpNames DEF TmpInv, tmpfs_init

-----------------------------------------------------------------------------
LEMMA TmpCreateInv ==
  ASSUME TmpInv, NEW i \in TmpAll, NEW dir \in TmpAll, tmpfs_create(i, dir)
  PROVE  TmpInv'
<1>0. PICK first : first = inode[dir].children
  OBVIOUS
<1> USE TmpNames
<1>1. inode[i].state = "new" /\ inode[dir].state = "live" /\ i # dir /\ UNCHANGED <<used_size, tmpRef>>
  BY DEF tmpfs_create
\* The three inodes that change are different ones.
<1>d. first # i /\ first # dir
  <2>1. first \in TmpAll => first \in TmpChildren(dir)
    BY <1>0 DEF TmpInv, ChildrenLinked
  <2>2. \A k \in TmpChildren(dir) : k # i /\ k # dir
    BY <1>1 DEF TmpInv, ParentsOnceLive, TmpChildren, TmpLive
  <2> QED
    BY <2>1, <2>2
<1>2. inode' = [j \in TmpAll |->
                   CASE j = i     -> [TmpBlank("live", dir) EXCEPT !.next = first]
                     [] j = dir   -> [inode[j] EXCEPT !.children = i]
                     [] j = first -> [inode[j] EXCEPT !.prev = i]
                     [] OTHER     -> inode[j]]
  BY <1>0 DEF tmpfs_create
<1>3. inode \in [TmpAll -> TmpNodes] /\ first \in TmpLinks
  BY <1>0 DEF TmpInv, TmpTyped, TmpNodes
<1>4. PICK new : /\ new = [TmpBlank("live", dir) EXCEPT !.next = first] /\ new \in TmpNodes
                 /\ new.state = "live" /\ new.parent = dir /\ new.children = NoInode
                 /\ new.next = first /\ new.prev = NoInode /\ new.data = <<>>
  <2>1. TmpBlank("live", dir) = [state |-> "live", parent |-> dir, children |-> NoInode, next |-> NoInode,
                                 prev |-> NoInode, refcount |-> 1, data |-> <<>>]
    BY DEF TmpBlank
  <2>2. [TmpBlank("live", dir) EXCEPT !.next = first] =
          [state |-> "live", parent |-> dir, children |-> NoInode, next |-> first,
           prev |-> NoInode, refcount |-> 1, data |-> <<>>]
    BY <2>1
  <2>3. <<>> \in Seq(TmpBytes) /\ dir \in TmpLinks /\ NoInode \in TmpLinks /\ first \in TmpLinks
    BY <1>3 DEF TmpLinks
  <2>4. PICK new : new = [TmpBlank("live", dir) EXCEPT !.next = first]
    OBVIOUS
  <2>5. /\ new.state = "live" /\ new.parent = dir /\ new.children = NoInode
        /\ new.next = first /\ new.prev = NoInode /\ new.data = <<>>
    BY <2>2, <2>4
  <2>6. new \in TmpNodes
    <3>1. new = [state |-> "live", parent |-> dir, children |-> NoInode, next |-> first,
                 prev |-> NoInode, refcount |-> 1, data |-> <<>>]
      BY <2>2, <2>4
    <3> HIDE TmpNames
    <3> QED
      BY <2>3, <3>1 DEF TmpNodes
  <2> QED
    BY <2>4, <2>5, <2>6, Zenon
<1>5. inode' \in [TmpAll -> TmpNodes]
  <2>1. \A j \in TmpAll : [inode[j] EXCEPT !.children = i] \in TmpNodes /\ [inode[j] EXCEPT !.prev = i] \in TmpNodes
    BY <1>3 DEF TmpNodes, TmpLinks
  <2> QED
    BY <1>2, <1>3, <1>4, <2>1
<1>6. TmpTyped'
  BY <1>5, <1>1 DEF TmpInv, TmpTyped
\* The fields of every inode after the step.
<1>7. /\ inode'[i].state = "live" /\ inode'[i].parent = dir /\ inode'[i].children = NoInode
      /\ inode'[i].next = first /\ inode'[i].prev = NoInode /\ inode'[i].data = <<>>
  <2>1. inode'[i] = new
    BY <1>1, <1>d, <1>2, <1>4
  <2> QED
    BY <1>4, <2>1
<1>8. \A j \in TmpAll \ {i} :
         /\ inode'[j].state = inode[j].state /\ inode'[j].parent = inode[j].parent
         /\ inode'[j].next = inode[j].next /\ inode'[j].data = inode[j].data
         /\ inode'[j].children = IF j = dir THEN i ELSE inode[j].children
         /\ inode'[j].prev = IF j # dir /\ j = first THEN i ELSE inode[j].prev
  <2> TAKE j \in TmpAll \ {i}
  <2>1. inode'[j] = IF j = dir THEN [inode[j] EXCEPT !.children = i]
                    ELSE IF j = first THEN [inode[j] EXCEPT !.prev = i] ELSE inode[j]
    BY <1>1, <1>d, <1>2
  <2>2. inode[j] \in TmpNodes
    BY <1>3
  <2>3. CASE j = dir
    BY <2>1, <2>2, <2>3 DEF TmpNodes
  <2>4. CASE j # dir /\ j = first
    BY <2>1, <2>2, <2>4 DEF TmpNodes
  <2>5. CASE j # dir /\ j # first
    BY <2>1, <2>5
  <2> QED
    BY <2>3, <2>4, <2>5
<1>9. \A j \in TmpAll : inode[j].state = "live" => inode[j].parent # i /\ inode[j].parent # j /\ j # i
  BY <1>1 DEF TmpInv, ParentsOnceLive, TmpLive
<1>10. TmpLive' = TmpLive \cup {i} /\ i \notin TmpLive
  BY <1>1, <1>7, <1>8 DEF TmpLive
<1>11. \A d \in TmpAll : TmpChildren(d)' = IF d = dir THEN TmpChildren(d) \cup {i} ELSE TmpChildren(d)
  BY <1>1, <1>7, <1>8, <1>9 DEF TmpChildren, TmpLive
<1>12. ParentsOnceLive'
  <2>1. inode'[TmpRoot].state # "new" /\ inode'[TmpRoot].parent = NoInode
    BY <1>1, <1>8 DEF TmpInv, ParentsOnceLive
  <2>2. \A j \in TmpLive \ {TmpRoot} : inode[j].parent \in TmpAll
    BY DEF TmpInv, ParentsOnceLive
  <2>3. \A j \in TmpLive : j # i /\ inode'[j].parent = inode[j].parent
    BY <1>8, <1>10 DEF TmpLive
  <2>4. \A j \in TmpLive : inode[j].parent # NoInode =>
           inode[j].parent # j /\ inode[j].parent \in TmpAll /\ inode[inode[j].parent].state # "new"
    BY <1>3 DEF TmpInv, ParentsOnceLive, TmpLive, TmpNodes, TmpLinks
  <2>5. \A j \in TmpAll : inode[j].state # "new" => inode'[j].state # "new"
    BY <1>7, <1>8
  <2>6. dir # i /\ inode'[dir].state # "new"
    BY <1>1, <2>5
  <2> QED
    BY <1>7, <1>10, <2>1, <2>2, <2>3, <2>4, <2>5, <2>6 DEF ParentsOnceLive
<1>13. BytesInPlace'
  BY <1>1, <1>7, <1>8 DEF TmpInv, BytesInPlace
<1>14. ChildrenLinked'
  <2> SUFFICES ASSUME NEW d \in TmpAll
               PROVE  /\ (inode'[d].children = NoInode) <=> (TmpChildren(d)' = {})
                      /\ TmpChildren(d)' # {} => inode'[d].children \in TmpChildren(d)' /\ inode'[inode'[d].children].prev = NoInode
                      /\ \A k \in TmpChildren(d)' :
                            /\ inode'[k].next \in TmpChildren(d)' \cup {NoInode}
                            /\ inode'[k].next # NoInode => inode'[inode'[k].next].prev = k
                            /\ inode'[k].prev = NoInode => inode'[d].children = k
                            /\ inode'[k].prev # NoInode => inode'[k].prev \in TmpChildren(d)' /\ inode'[inode'[k].prev].next = k
    BY DEF ChildrenLinked
  <2>1. \A e \in TmpAll, k \in TmpAll : k \in TmpChildren(e) <=> inode[k].state = "live" /\ inode[k].parent = e
    BY DEF TmpChildren, TmpLive
  <2>2. \A e \in TmpAll : TmpChildren(e) \subseteq TmpAll \ {i}
    BY <1>10 DEF TmpChildren, TmpLive
  <2>3. CASE d # dir
    <3>1. TmpChildren(d)' = TmpChildren(d)
      BY <1>11, <2>3
    <3>2. first \in TmpAll => inode[first].parent = dir
      BY <1>0, <2>1 DEF TmpInv, ChildrenLinked
    <3>3. \A k \in TmpChildren(d) : k # first /\ inode'[k].next = inode[k].next /\ inode'[k].prev = inode[k].prev
      BY <1>8, <2>1, <2>2, <2>3, <3>2
    <3>4. d # i => inode'[d].children = inode[d].children
      BY <1>8, <2>3
    <3>5. CASE d = i
      <4>1. TmpChildren(i) = {}
        BY <1>9 DEF TmpChildren, TmpLive
      <4> QED
        BY <3>1, <3>5, <4>1, <1>7
    <3>6. CASE d # i
      BY <3>1, <3>3, <3>4, <3>6 DEF TmpInv, ChildrenLinked
    <3> QED
      BY <3>5, <3>6
  <2>4. CASE d = dir
    <3>1. TmpChildren(dir)' = TmpChildren(dir) \cup {i}
      BY <1>11
    <3>2. inode'[dir].children = i
      BY <1>1, <1>8
    <3>3. dir \notin TmpChildren(dir)
      BY <1>9 DEF TmpChildren, TmpLive
    <3>4. \A k \in TmpChildren(dir) :
             /\ k # i /\ k # dir /\ inode'[k].next = inode[k].next
             /\ inode'[k].prev = IF k = first THEN i ELSE inode[k].prev
      BY <1>8, <2>2, <3>3
    <3>5. first # NoInode => first \in TmpChildren(dir) /\ inode[first].prev = NoInode
      BY <1>0 DEF TmpInv, ChildrenLinked
    <3>6. first = NoInode => TmpChildren(dir) = {}
      BY <1>0 DEF TmpInv, ChildrenLinked
    <3>7. \A k \in TmpChildren(dir) :
             /\ inode[k].next \in TmpChildren(dir) \cup {NoInode}
             /\ inode[k].next # NoInode => inode[inode[k].next].prev = k
             /\ inode[k].prev = NoInode => first = k
             /\ inode[k].prev # NoInode => inode[k].prev \in TmpChildren(dir) /\ inode[inode[k].prev].next = k
      BY <1>0 DEF TmpInv, ChildrenLinked
    <3> HIDE DEF TmpChildren
    <3>8. inode'[i].next \in TmpChildren(dir)' \cup {NoInode} /\ (first # NoInode => inode'[first].prev = i)
      BY <1>7, <3>1, <3>4, <3>5
    <3>9. ASSUME NEW k \in TmpChildren(dir)
          PROVE  /\ inode'[k].next \in TmpChildren(dir)' \cup {NoInode}
                 /\ inode'[k].next # NoInode => inode'[inode'[k].next].prev = k
                 /\ inode'[k].prev = NoInode => inode'[dir].children = k
                 /\ inode'[k].prev # NoInode => inode'[k].prev \in TmpChildren(dir)' /\ inode'[inode'[k].prev].next = k
      BY <3>9, <1>7, <3>1, <3>2, <3>4, <3>5, <3>7, <2>2
    <3> QED
      BY <2>4, <1>7, <3>1, <3>2, <3>8, <3>9
  <2> QED
    BY <2>3, <2>4
<1>15. PrevDescends'
  <2>1. PICK rank \in [TmpAll -> Nat] : \A k \in TmpLive \ {TmpRoot} : inode[k].prev \in TmpAll => rank[inode[k].prev] < rank[k]
    BY DEF TmpInv, PrevDescends
  <2>2. PICK shifted \in [TmpAll -> Nat] : shifted = [k \in TmpAll |-> IF k = i THEN 0 ELSE rank[k] + 1]
    <3>1. [k \in TmpAll |-> IF k = i THEN 0 ELSE rank[k] + 1] \in [TmpAll -> Nat]
      OBVIOUS
    <3> QED
      BY <3>1, Zenon
  <2>3. \A k \in TmpLive \ {TmpRoot} : k \in TmpAll /\ k # i /\ inode[k].prev # i
    <3> TAKE k \in TmpLive \ {TmpRoot}
    <3>1. k \in TmpAll /\ k # i /\ inode[k].parent \in TmpAll
      BY <1>10 DEF TmpInv, ParentsOnceLive, TmpLive
    <3>2. k \in TmpChildren(inode[k].parent)
      BY DEF TmpChildren
    <3>3. inode[k].prev = NoInode \/ inode[k].prev \in TmpChildren(inode[k].parent)
      BY <3>1, <3>2 DEF TmpInv, ChildrenLinked
    <3>4. TmpChildren(inode[k].parent) \subseteq TmpLive
      BY DEF TmpChildren
    <3> QED
      BY <1>10, <3>1, <3>3, <3>4
  <2>4. \A k \in TmpLive' \ {TmpRoot} : inode'[k].prev \in TmpAll => shifted[inode'[k].prev] < shifted[k]
    <3> SUFFICES ASSUME NEW k \in TmpLive' \ {TmpRoot}, inode'[k].prev \in TmpAll PROVE shifted[inode'[k].prev] < shifted[k]
      OBVIOUS
    <3>1. k # i /\ k \in TmpLive \ {TmpRoot} /\ k \in TmpAll
      BY <1>7, <1>10, <2>3
    <3>2. shifted[k] = rank[k] + 1 /\ rank[k] \in Nat /\ shifted[i] = 0
      BY <2>2, <3>1
    <3>3. CASE k = first
      BY <1>8, <1>d, <3>1, <3>2, <3>3
    <3>4. CASE k # first
      <4>1. inode'[k].prev = inode[k].prev /\ inode[k].prev # i /\ inode[k].prev \in TmpAll
        BY <1>8, <2>3, <3>1, <3>4
      <4>2. rank[inode[k].prev] < rank[k] /\ rank[inode[k].prev] \in Nat
        BY <2>1, <3>1, <4>1
      <4>3. shifted[inode[k].prev] = rank[inode[k].prev] + 1
        BY <2>2, <4>1
      <4> QED
        BY <3>2, <4>1, <4>2, <4>3
    <3> QED
      BY <3>3, <3>4
  <2> QED
    BY <2>2, <2>4, Zenon DEF PrevDescends
<1>16. SpaceCounted'
  <2>1. \A j \in TmpAll \ {i} : inode'[j].state = inode[j].state /\ inode'[j].data = inode[j].data
    BY <1>8
  <2>2. inode'[i].data = <<>> /\ inode[i].state # "live" /\ inode'[i].state = "live" /\ Len(<<>>) = 0
    BY <1>1, <1>7
  <2>3. used_size' = used_size - (IF inode[i].state = "live" THEN Len(inode[i].data) ELSE 0)
                               + (IF inode'[i].state = "live" THEN Len(inode'[i].data) ELSE 0)
    BY <1>1, <2>2 DEF TmpInv, TmpTyped
  <2> QED
    BY <1>6, <2>1, <2>3, SpaceStep DEF TmpInv
<1> QED
  BY <1>1, <1>6, <1>12, <1>13, <1>14, <1>15, <1>16 DEF TmpInv

LEMMA TmpDeleteInv ==
  ASSUME TmpInv, NEW i \in TmpAll, i # TmpRoot, tmpfs_delete(i)
  PROVE  TmpInv'
<1>0. PICK p, q, r : p = inode[i].parent /\ q = inode[i].prev /\ r = inode[i].next
  OBVIOUS
<1> USE TmpNames
<1>1. inode \in [TmpAll -> TmpNodes] /\ inode[i].state = "live" /\ {p, q, r} \subseteq TmpLinks
  BY <1>0 DEF TmpInv, TmpTyped, TmpNodes, tmpfs_delete
<1>2. /\ used_size' = used_size - Len(inode[i].data)
      /\ tmpRef' = [tmpRef EXCEPT ![i] = Unwritten]
  BY DEF tmpfs_delete
<1>3. inode' = [j \in TmpAll |->
                   [inode[j] EXCEPT
                      !.state    = IF j = i THEN "freed" ELSE @,
                      !.refcount = IF j = i THEN @ - 1 ELSE @,
                      !.data     = IF j = i THEN <<>> ELSE @,
                      !.children = IF j = p /\ q = NoInode THEN r ELSE @,
                      !.next     = IF j = q THEN r ELSE @,
                      !.prev     = IF j = r THEN q ELSE @]]
  BY <1>0 DEF tmpfs_delete
\* The fields of every inode after the step.
<1>4. \A j \in TmpAll :
         /\ inode'[j].state = IF j = i THEN "freed" ELSE inode[j].state
         /\ inode'[j].parent = inode[j].parent
         /\ inode'[j].data = IF j = i THEN <<>> ELSE inode[j].data
         /\ inode'[j].children = IF j = p /\ q = NoInode THEN r ELSE inode[j].children
         /\ inode'[j].next = IF j = q THEN r ELSE inode[j].next
         /\ inode'[j].prev = IF j = r THEN q ELSE inode[j].prev
         /\ inode'[j] \in TmpNodes
  <2> TAKE j \in TmpAll
  <2>1. inode[j] \in TmpNodes /\ <<>> \in Seq(TmpBytes)
    BY <1>1
  <2>2. PICK st, rc, dt, ch, nx, pv :
             /\ st = IF j = i THEN "freed" ELSE inode[j].state
             /\ rc = IF j = i THEN inode[j].refcount - 1 ELSE inode[j].refcount
             /\ dt = IF j = i THEN <<>> ELSE inode[j].data
             /\ ch = IF j = p /\ q = NoInode THEN r ELSE inode[j].children
             /\ nx = IF j = q THEN r ELSE inode[j].next
             /\ pv = IF j = r THEN q ELSE inode[j].prev
    OBVIOUS
  <2>3. inode'[j] = [inode[j] EXCEPT !.state = st, !.refcount = rc, !.data = dt, !.children = ch, !.next = nx, !.prev = pv]
    BY <1>3, <2>2
  <2>4. /\ st \in {"new", "live", "freed"} /\ rc \in Int /\ dt \in Seq(TmpBytes)
        /\ ch \in TmpLinks /\ nx \in TmpLinks /\ pv \in TmpLinks
    BY <1>1, <2>1, <2>2 DEF TmpNodes
  <2>5. /\ inode'[j].state = st /\ inode'[j].parent = inode[j].parent /\ inode'[j].data = dt
        /\ inode'[j].children = ch /\ inode'[j].next = nx /\ inode'[j].prev = pv
    BY <2>1, <2>3 DEF TmpNodes
  <2>6. inode'[j] \in TmpNodes
    BY <2>1, <2>3, <2>4 DEF TmpNodes
  <2> QED
    BY <2>2, <2>5, <2>6
<1>5. TmpTyped' /\ used_size' <= MAX_SIZE
  <2>1. inode' \in [TmpAll -> TmpNodes]
    BY <1>3, <1>4
  <2>2. Unwritten \in [0 .. (MAX_SIZE - 1) -> TmpBytes]
    BY DEF Unwritten, TmpBytes
  <2>3. tmpRef' \in [TmpAll -> [0 .. (MAX_SIZE - 1) -> TmpBytes]]
    BY <1>2, <2>2 DEF TmpInv, TmpTyped
  <2>4. Len(inode[i].data) \in Nat
    BY <1>1 DEF TmpNodes
  <2>5. used_size \in Int /\ used_size <= MAX_SIZE
    BY DEF TmpInv, TmpTyped
  <2>6. used_size' \in Int /\ used_size' <= MAX_SIZE
    BY <1>2, <2>4, <2>5
  <2> QED
    BY <2>1, <2>3, <2>6 DEF TmpTyped
<1>6. TmpLive' = TmpLive \ {i} /\ i \in TmpLive
  BY <1>1, <1>4 DEF TmpLive
<1>7. p \in TmpAll /\ p # i /\ i \in TmpChildren(p)
  <2>1. inode[i].parent \in TmpAll
    BY <1>6 DEF TmpInv, ParentsOnceLive
  <2>2. p \in TmpAll /\ p # i
    BY <1>0, <1>6, <2>1 DEF TmpInv, ParentsOnceLive
  <2>3. i \in TmpChildren(p)
    BY <1>0, <1>6 DEF TmpChildren
  <2> QED
    BY <2>2, <2>3
<1>r. PICK rank \in [TmpAll -> Nat] : \A k \in TmpLive \ {TmpRoot} : inode[k].prev \in TmpAll => rank[inode[k].prev] < rank[k]
  BY DEF TmpInv, PrevDescends
<1>8. ParentsOnceLive'
  <2>1. inode'[TmpRoot].state # "new" /\ inode'[TmpRoot].parent = NoInode
    BY <1>4 DEF TmpInv, ParentsOnceLive
  <2>2. \A j \in TmpLive \ {TmpRoot} : inode[j].parent \in TmpAll
    BY DEF TmpInv, ParentsOnceLive
  <2>3. \A j \in TmpLive : inode'[j].parent = inode[j].parent
    BY <1>4 DEF TmpLive
  <2>4. \A j \in TmpLive : inode[j].parent # NoInode =>
           inode[j].parent # j /\ inode[j].parent \in TmpAll /\ inode[inode[j].parent].state # "new"
    BY <1>1 DEF TmpInv, ParentsOnceLive, TmpLive, TmpNodes, TmpLinks
  <2>5. \A j \in TmpAll : inode[j].state # "new" => inode'[j].state # "new"
    BY <1>4
  <2> QED
    BY <1>6, <2>1, <2>2, <2>3, <2>4, <2>5 DEF ParentsOnceLive
<1>9. BytesInPlace'
  <2>1. \A j \in TmpAll : tmpRef'[j] = IF j = i THEN Unwritten ELSE tmpRef[j]
    BY <1>2 DEF TmpInv, TmpTyped
  <2>2. \A k \in 0 .. (MAX_SIZE - 1) : Unwritten[k] = TmpJunk
    BY DEF Unwritten
  <2>3. \A j \in TmpAll : j # i => inode'[j].state = inode[j].state /\ inode'[j].data = inode[j].data
    BY <1>4
  <2>4. inode'[i].state = "freed"
    BY <1>4
  <2>5. ASSUME NEW j \in TmpAll
        PROVE  /\ inode'[j].state = "new" => inode'[j].data = <<>>
               /\ \A k \in 0 .. (MAX_SIZE - 1) : tmpRef'[j][k] # TmpJunk =>
                     k + 1 \in 1 .. Len(inode'[j].data) /\ inode'[j].data[k + 1] = tmpRef'[j][k]
    <3>1. CASE j = i
      BY <2>1, <2>2, <2>4, <3>1
    <3>2. CASE j # i
      <4>1. tmpRef'[j] = tmpRef[j] /\ inode'[j].state = inode[j].state /\ inode'[j].data = inode[j].data
        BY <2>1, <2>3, <3>2
      <4> QED
        BY <4>1 DEF TmpInv, BytesInPlace
    <3> QED
      BY <3>1, <3>2
  <2> QED
    BY <2>5 DEF BytesInPlace
<1>10. \A d \in TmpAll : TmpChildren(d)' = TmpChildren(d) \ {i}
  BY <1>4, <1>6 DEF TmpChildren, TmpLive
\* The neighbours are in the same list.
<1>11. /\ q # NoInode => q \in TmpChildren(p) /\ inode[q].next = i
       /\ r # NoInode => r \in TmpChildren(p) /\ inode[r].prev = i
       /\ q = NoInode => inode[p].children = i
  BY <1>0, <1>1, <1>7 DEF TmpInv, ChildrenLinked
<1>12. \A d \in TmpAll : \A k \in TmpChildren(d) : k \in TmpAll /\ inode[k].parent = d
  BY DEF TmpChildren, TmpLive
<1>15. inode[i].prev # i
  <2>1. rank[i] \in Nat
    OBVIOUS
  <2> QED
    BY <1>6, <1>r, <2>1
<1>13. ChildrenLinked'
  <2> SUFFICES ASSUME NEW d \in TmpAll
               PROVE  /\ (inode'[d].children = NoInode) <=> (TmpChildren(d)' = {})
                      /\ TmpChildren(d)' # {} => inode'[d].children \in TmpChildren(d)' /\ inode'[inode'[d].children].prev = NoInode
                      /\ \A k \in TmpChildren(d)' :
                            /\ inode'[k].next \in TmpChildren(d)' \cup {NoInode}
                            /\ inode'[k].next # NoInode => inode'[inode'[k].next].prev = k
                            /\ inode'[k].prev = NoInode => inode'[d].children = k
                            /\ inode'[k].prev # NoInode => inode'[k].prev \in TmpChildren(d)' /\ inode'[inode'[k].prev].next = k
    BY DEF ChildrenLinked
  <2>1. PICK kids : kids = TmpChildren(d)
    OBVIOUS
  <2>2. /\ (inode[d].children = NoInode) <=> (kids = {})
        /\ kids # {} => inode[d].children \in kids /\ inode[inode[d].children].prev = NoInode
        /\ \A k \in kids :
              /\ inode[k].next \in kids \cup {NoInode}
              /\ inode[k].next # NoInode => inode[inode[k].next].prev = k
              /\ inode[k].prev = NoInode => inode[d].children = k
              /\ inode[k].prev # NoInode => inode[k].prev \in kids /\ inode[inode[k].prev].next = k
    BY <2>1 DEF TmpInv, ChildrenLinked
  <2>3. kids \subseteq TmpAll /\ TmpChildren(d)' = kids \ {i}
    BY <1>10, <1>12, <2>1
  <2>7. \A k \in kids : k \in TmpLive \ {TmpRoot}
    <3>1. kids \subseteq TmpLive
      BY <2>1 DEF TmpChildren
    <3>2. TmpRoot \notin kids
      BY <2>1 DEF TmpInv, ParentsOnceLive, TmpChildren
    <3> QED
      BY <3>1, <3>2
  <2>4. CASE d # p
    <3>1. i \notin kids /\ q \notin kids /\ r \notin kids
      <4>1. \A k \in TmpChildren(p) : inode[k].parent = p
        BY <1>7, <1>12
      <4>2. \A k \in kids : inode[k].parent # p /\ k # NoInode
        BY <1>12, <2>1, <2>3, <2>4
      <4> QED
        BY <1>7, <1>11, <4>1, <4>2
    <3>2. \A k \in kids : inode'[k].next = inode[k].next /\ inode'[k].prev = inode[k].prev
      BY <1>4, <2>3, <3>1
    <3>3. inode'[d].children = inode[d].children /\ TmpChildren(d)' = kids
      BY <1>4, <2>3, <2>4, <3>1
    <3> QED
      BY <2>2, <3>2, <3>3
  <2>5. CASE d = p
    <3>1. i \in kids /\ (q # NoInode => q \in kids /\ inode[q].next = i) /\ (r # NoInode => r \in kids /\ inode[r].prev = i)
      BY <1>7, <1>11, <2>1, <2>5
    <3>2. \A k \in kids : /\ inode'[k].next = IF k = q THEN r ELSE inode[k].next
                          /\ inode'[k].prev = IF k = r THEN q ELSE inode[k].prev
      BY <1>4, <2>3
    <3>3. inode'[d].children = IF q = NoInode THEN r ELSE inode[d].children
      BY <1>4, <2>5
    \* i is followed by r and preceded by q, and by no one else.
    <3>4. inode[i].next = r /\ inode[i].prev = q /\ (q = NoInode => inode[d].children = i)
      BY <1>0, <2>2, <3>1
    <3>5. i # NoInode /\ NoInode \notin kids
      BY <2>3
    <3>6. \A k \in kids : /\ inode[k].next = i => k = q
                          /\ inode[k].prev = i => k = r
      BY <2>2, <3>1, <3>4, <3>5
    <3>7. /\ (inode'[d].children = NoInode) <=> (kids \ {i} = {})
          /\ kids \ {i} # {} => inode'[d].children \in kids \ {i} /\ inode'[inode'[d].children].prev = NoInode
      <4>1. CASE q = NoInode
        <5>1. inode'[d].children = r /\ inode[d].children = i
          BY <4>1, <3>3, <3>4
        <5>2. r = NoInode => kids \ {i} = {}
          <6> SUFFICES ASSUME r = NoInode, kids \ {i} # {} PROVE FALSE
            OBVIOUS
          <6>1. PICK ranks : ranks = {rank[k] : k \in kids \ {i}}
            OBVIOUS
          <6>2. ranks \subseteq Nat /\ ranks # {}
            BY <2>3, <6>1
          <6>3. PICK least \in ranks : \A n \in ranks : least <= n
            BY <6>2, LeastElement
          <6>4. PICK k \in kids \ {i} : \A j \in kids \ {i} : rank[k] <= rank[j]
            BY <6>1, <6>3
          <6>5. inode[k].prev # NoInode /\ inode[k].prev \in kids /\ inode[k].prev \in TmpAll
            BY <2>2, <2>3, <5>1
          <6>6. rank[inode[k].prev] < rank[k] /\ rank[inode[k].prev] \in Nat /\ rank[k] \in Nat
            BY <1>r, <2>3, <2>7, <6>5
          <6>7. inode[k].prev = i
            BY <6>4, <6>5, <6>6
          <6> QED
            BY <3>6, <3>5, <2>3, <6>7
        <5>3. r # NoInode => r \in kids \ {i} /\ inode'[r].prev = NoInode
          BY <1>15, <3>1, <3>2, <4>1, <3>5
        <5> QED
          BY <5>1, <5>2, <5>3
      <4>2. CASE q # NoInode
        <5>1. inode'[d].children = inode[d].children /\ q \in kids
          BY <4>2, <3>1, <3>3
        <5>2. inode[d].children \in kids /\ inode[inode[d].children].prev = NoInode
          BY <2>2, <5>1
        <5>3. inode[d].children # i
          BY <3>4, <4>2, <5>2
        <5>4. inode[d].children # r
          BY <3>1, <3>5, <5>2
        <5> QED
          BY <5>1, <5>2, <5>3, <5>4, <3>2, <3>5
      <4> QED
        BY <4>1, <4>2
    <3>8. ASSUME NEW k \in kids \ {i}
          PROVE  /\ inode'[k].next \in (kids \ {i}) \cup {NoInode}
                 /\ inode'[k].next # NoInode => inode'[inode'[k].next].prev = k
                 /\ inode'[k].prev = NoInode => inode'[d].children = k
                 /\ inode'[k].prev # NoInode => inode'[k].prev \in kids \ {i} /\ inode'[inode'[k].prev].next = k
      <4>1. r # i /\ q # i
        BY <1>15, <3>1, <3>4
      <4>2. /\ inode'[k].next \in (kids \ {i}) \cup {NoInode}
            /\ inode'[k].next # NoInode => inode'[inode'[k].next].prev = k
        BY <2>2, <3>1, <3>2, <3>4, <3>5, <3>6, <3>8, <4>1
      <4>3. inode'[k].prev = NoInode => inode'[d].children = k
        BY <2>2, <3>1, <3>2, <3>3, <3>4, <3>5, <3>6, <3>8, <4>1
      <4>4. inode'[k].prev # NoInode => inode'[k].prev \in kids \ {i} /\ inode'[inode'[k].prev].next = k
        BY <2>2, <3>1, <3>2, <3>4, <3>5, <3>6, <3>8, <4>1
      <4> QED
        BY <4>2, <4>3, <4>4
    <3> QED
      BY <2>3, <3>7, <3>8
  <2> QED
    BY <2>4, <2>5
<1>14. PrevDescends'
  <2> SUFFICES ASSUME NEW k \in TmpLive' \ {TmpRoot}, inode'[k].prev \in TmpAll PROVE rank[inode'[k].prev] < rank[k]
    BY Zenon DEF PrevDescends
  <2>1. k \in TmpLive \ {TmpRoot} /\ k \in TmpAll
    BY <1>6 DEF TmpLive
  <2>2. CASE k = r
    <3>1. inode'[k].prev = q /\ q \in TmpAll
      BY <1>4, <2>1, <2>2
    <3>2. rank[q] < rank[i] /\ inode[r].prev = i
      BY <1>0, <1>6, <1>11, <1>r, <2>1, <2>2, <3>1
    <3>3. rank[i] < rank[r] /\ {rank[q], rank[i], rank[r]} \subseteq Nat
      BY <1>r, <2>1, <2>2, <3>1, <3>2
    <3> QED
      BY <2>2, <3>1, <3>2, <3>3
  <2>3. CASE k # r
    BY <1>4, <1>r, <2>1, <2>3
  <2> QED
    BY <2>2, <2>3
<1>16. SpaceCounted'
  <2>1. \A j \in TmpAll \ {i} : inode'[j].state = inode[j].state /\ inode'[j].data = inode[j].data
    BY <1>4
  <2>2. inode'[i].state = "freed" /\ used_size \in Int /\ Len(inode[i].data) \in Int
    BY <1>1, <1>4 DEF TmpInv, TmpTyped, TmpNodes
  <2>3. used_size' = used_size - (IF inode[i].state = "live" THEN Len(inode[i].data) ELSE 0)
                               + (IF inode'[i].state = "live" THEN Len(inode'[i].data) ELSE 0)
    BY <1>1, <1>2, <2>2
  <2> QED
    BY <1>5, <2>1, <2>3, SpaceStep DEF TmpInv
<1> QED
  BY <1>5, <1>8, <1>9, <1>13, <1>14, <1>16 DEF TmpInv

\* What a write leaves at each position, and how long the data is then.
LEMMA WrittenBytes ==
  ASSUME NEW old \in Seq(TmpBytes), NEW offset \in Nat, NEW s \in Seq(TmpBytes)
  PROVE  /\ Written(old, offset, s) \in Seq(TmpBytes)
         /\ Len(Written(old, offset, s)) = IF Len(old) >= offset + Len(s) THEN Len(old) ELSE offset + Len(s)
         /\ \A k \in 1 .. Len(Written(old, offset, s)) :
               Written(old, offset, s)[k] = IF k \in (offset + 1) .. (offset + Len(s)) THEN s[k - offset]
                                            ELSE IF k \in 1 .. Len(old) THEN old[k] ELSE TmpJunk
<1>1. PICK m : m = IF Len(old) >= offset + Len(s) THEN Len(old) ELSE offset + Len(s)
  OBVIOUS
<1>2. m \in Nat /\ m >= Len(old) /\ m >= offset + Len(s) /\ m \in {Len(old), offset + Len(s)}
  BY <1>1
<1>3. Max({Len(old), offset + Len(s)}) = m
  BY <1>2 DEF Max
<1>4. Written(old, offset, s) =
        [k \in 1 .. m |-> IF k \in (offset + 1) .. (offset + Len(s)) THEN s[k - offset]
                          ELSE IF k \in 1 .. Len(old) THEN old[k] ELSE TmpJunk]
  <2>1. DOMAIN old = 1 .. Len(old)
    OBVIOUS
  <2> QED
    BY <1>3, <2>1 DEF Written
<1>5. \A k \in 1 .. m : (IF k \in (offset + 1) .. (offset + Len(s)) THEN s[k - offset]
                          ELSE IF k \in 1 .. Len(old) THEN old[k] ELSE TmpJunk) \in TmpBytes
  BY <1>2 DEF TmpBytes
<1>6. Written(old, offset, s) \in [1 .. m -> TmpBytes]
  BY <1>4, <1>5
<1>7. Written(old, offset, s) \in Seq(TmpBytes) /\ Len(Written(old, offset, s)) = m
  BY <1>2, <1>6
<1> QED
  BY <1>1, <1>4, <1>7

LEMMA TmpWriteInv ==
  ASSUME TmpInv, NEW i \in TmpAll, NEW offset \in 0 .. MaxOffset, NEW s \in TmpData, tmpfs_write(i, offset, s)
  PROVE  TmpInv'
<1> USE TmpNames
<1>1. offset \in Nat /\ s \in Seq(TmpBytes)
  <2>1. {s[k] : k \in DOMAIN s} \subseteq TmpBytes
    BY DEF TmpBytes
  <2>2. s \in Seq({s[k] : k \in DOMAIN s})
    BY TmpfsAssumption
  <2> QED
    BY <2>1, <2>2
<1>2. PICK old, new : old = inode[i].data /\ new = Written(old, offset, s)
  OBVIOUS
<1>3. inode \in [TmpAll -> TmpNodes] /\ old \in Seq(TmpBytes) /\ used_size \in Int /\ used_size <= MAX_SIZE
  BY <1>2 DEF TmpInv, TmpTyped, TmpNodes
<1>4. /\ new \in Seq(TmpBytes)
      /\ Len(new) = IF Len(old) >= offset + Len(s) THEN Len(old) ELSE offset + Len(s)
      /\ \A k \in 1 .. Len(new) :
            new[k] = IF k \in (offset + 1) .. (offset + Len(s)) THEN s[k - offset]
                     ELSE IF k \in 1 .. Len(old) THEN old[k] ELSE TmpJunk
  BY <1>1, <1>2, <1>3, WrittenBytes
<1>5. /\ inode[i].state = "live"
      /\ Len(new) > Len(old) => used_size + Len(new) <= MAX_SIZE
      /\ inode' = [inode EXCEPT ![i] = [inode[i] EXCEPT !.data = new]]
      /\ used_size' = used_size - Len(old) + Len(new)
  BY <1>2 DEF tmpfs_write
<1>6. tmpRef' = [tmpRef EXCEPT ![i] =
                   [k \in DOMAIN tmpRef[i] |-> IF k - offset + 1 \in DOMAIN s THEN s[k - offset + 1] ELSE tmpRef[i][k]]]
  BY DEF tmpfs_write, Wrote
<1>7. Len(old) \in Nat /\ Len(new) \in Nat /\ Len(s) \in Nat /\ Len(new) >= Len(old) /\ Len(new) >= offset + Len(s)
  BY <1>1, <1>3, <1>4
<1>8. used_size' \in Int /\ used_size' <= MAX_SIZE
  <2>1. CASE Len(new) = Len(old)
    BY <1>3, <1>5, <1>7, <2>1
  <2>2. CASE Len(new) > Len(old)
    BY <1>3, <1>5, <1>7, <2>2
  <2> QED
    BY <1>7, <2>1, <2>2
\* The fields of every inode after the step.
<1>9. \A j \in TmpAll :
         /\ inode'[j].state = inode[j].state /\ inode'[j].parent = inode[j].parent
         /\ inode'[j].children = inode[j].children /\ inode'[j].next = inode[j].next /\ inode'[j].prev = inode[j].prev
         /\ inode'[j].data = IF j = i THEN new ELSE inode[j].data
         /\ inode'[j] \in TmpNodes
  <2> TAKE j \in TmpAll
  <2>1. inode[j] \in TmpNodes
    BY <1>3
  <2>2. CASE j = i
    <3>1. inode'[j] = [inode[j] EXCEPT !.data = new]
      BY <1>3, <1>5, <2>2
    <3> QED
      BY <1>4, <2>1, <2>2, <3>1 DEF TmpNodes
  <2>3. CASE j # i
    BY <1>3, <1>5, <2>1, <2>3
  <2> QED
    BY <2>2, <2>3
<1>10. inode' \in [TmpAll -> TmpNodes]
  BY <1>3, <1>5, <1>9
<1>11. tmpRef \in [TmpAll -> [0 .. (MAX_SIZE - 1) -> TmpBytes]]
  BY DEF TmpInv, TmpTyped
<1>12. PICK ref : /\ ref = [k \in 0 .. (MAX_SIZE - 1) |->
                             IF k - offset + 1 \in 1 .. Len(s) THEN s[k - offset + 1] ELSE tmpRef[i][k]]
                  /\ tmpRef' = [tmpRef EXCEPT ![i] = ref]
  <2>1. DOMAIN tmpRef[i] = 0 .. (MAX_SIZE - 1) /\ DOMAIN s = 1 .. Len(s)
    BY <1>1, <1>11
  <2> QED
    BY <1>6, <2>1
<1>13. ref \in [0 .. (MAX_SIZE - 1) -> TmpBytes]
  <2>1. \A k \in 0 .. (MAX_SIZE - 1) : tmpRef[i][k] \in TmpBytes
    BY <1>11
  <2>2. \A k \in 1 .. Len(s) : s[k] \in TmpBytes
    BY <1>1
  <2> QED
    BY <1>12, <2>1, <2>2
<1>14. tmpRef' \in [TmpAll -> [0 .. (MAX_SIZE - 1) -> TmpBytes]]
  BY <1>11, <1>12, <1>13
<1>15. TmpTyped'
  BY <1>8, <1>10, <1>14 DEF TmpTyped
<1>16. TmpLive' = TmpLive /\ \A d : TmpChildren(d)' = TmpChildren(d)
  BY <1>9 DEF TmpLive, TmpChildren
<1>17. ParentsOnceLive'
  <2>1. \A j \in TmpLive : j \in TmpAll /\ inode'[j].parent = inode[j].parent
    BY <1>9 DEF TmpLive
  <2>2. \A j \in TmpLive : inode[j].parent # NoInode => inode[j].parent \in TmpAll
    BY <1>3 DEF TmpLive, TmpNodes, TmpLinks
  <2> QED
    BY <1>9, <1>16, <2>1, <2>2 DEF TmpInv, ParentsOnceLive
<1>18. ChildrenLinked'
  <2>1. \A d \in TmpAll : TmpChildren(d) \subseteq TmpAll
    BY DEF TmpChildren, TmpLive
  <2> SUFFICES ASSUME NEW d \in TmpAll
               PROVE  /\ (inode'[d].children = NoInode) <=> (TmpChildren(d)' = {})
                      /\ TmpChildren(d)' # {} => inode'[d].children \in TmpChildren(d)' /\ inode'[inode'[d].children].prev = NoInode
                      /\ \A k \in TmpChildren(d)' :
                            /\ inode'[k].next \in TmpChildren(d)' \cup {NoInode}
                            /\ inode'[k].next # NoInode => inode'[inode'[k].next].prev = k
                            /\ inode'[k].prev = NoInode => inode'[d].children = k
                            /\ inode'[k].prev # NoInode => inode'[k].prev \in TmpChildren(d)' /\ inode'[inode'[k].prev].next = k
    BY DEF ChildrenLinked
  <2>2. PICK kids : kids = TmpChildren(d)
    OBVIOUS
  <2>3. kids \subseteq TmpAll /\ TmpChildren(d)' = kids
    BY <1>16, <2>1, <2>2
  <2>4. /\ (inode[d].children = NoInode) <=> (kids = {})
        /\ kids # {} => inode[d].children \in kids /\ inode[inode[d].children].prev = NoInode
        /\ \A k \in kids :
              /\ inode[k].next \in kids \cup {NoInode}
              /\ inode[k].next # NoInode => inode[inode[k].next].prev = k
              /\ inode[k].prev = NoInode => inode[d].children = k
              /\ inode[k].prev # NoInode => inode[k].prev \in kids /\ inode[inode[k].prev].next = k
    BY <2>2 DEF TmpInv, ChildrenLinked
  <2> QED
    BY <1>9, <2>3, <2>4
<1>19. PrevDescends'
  <2>1. \A j \in TmpLive : inode'[j].prev = inode[j].prev
    BY <1>9 DEF TmpLive
  <2> QED
    BY <1>16, <2>1 DEF TmpInv, PrevDescends
<1>20. BytesInPlace'
  <2>1. ASSUME NEW j \in TmpAll
        PROVE  /\ inode'[j].state = "new" => inode'[j].data = <<>>
               /\ \A k \in 0 .. (MAX_SIZE - 1) : tmpRef'[j][k] # TmpJunk =>
                     k + 1 \in 1 .. Len(inode'[j].data) /\ inode'[j].data[k + 1] = tmpRef'[j][k]
    <3>1. CASE j = i
      <4>1. inode'[j].data = new /\ tmpRef'[j] = ref /\ inode'[j].state = "live"
        BY <1>5, <1>9, <1>11, <1>12, <3>1
      <4>2. ASSUME NEW k \in 0 .. (MAX_SIZE - 1), ref[k] # TmpJunk
            PROVE  k + 1 \in 1 .. Len(new) /\ new[k + 1] = ref[k]
        <5>1. CASE k + 1 \in (offset + 1) .. (offset + Len(s))
          <6>1. k - offset + 1 \in 1 .. Len(s) /\ (k + 1) - offset = k - offset + 1 /\ k + 1 \in 1 .. Len(new)
            BY <1>1, <1>7, <5>1
          <6>2. ref[k] = s[k - offset + 1]
            BY <1>12, <6>1
          <6>3. new[k + 1] = s[(k + 1) - offset]
            BY <1>4, <5>1, <6>1
          <6> QED
            BY <6>1, <6>2, <6>3
        <5>2. CASE k + 1 \notin (offset + 1) .. (offset + Len(s))
          <6>1. k - offset + 1 \notin 1 .. Len(s)
            BY <1>1, <1>7, <5>2
          <6>2. ref[k] = tmpRef[i][k]
            BY <1>12, <6>1
          <6>3. k + 1 \in 1 .. Len(old) /\ old[k + 1] = tmpRef[i][k]
            BY <1>2, <4>2, <6>2 DEF TmpInv, BytesInPlace
          <6>4. k + 1 \in 1 .. Len(new)
            BY <1>7, <6>3
          <6>5. new[k + 1] = old[k + 1]
            BY <1>4, <5>2, <6>3, <6>4
          <6> QED
            BY <6>2, <6>3, <6>4, <6>5
        <5> QED
          BY <5>1, <5>2
      <4> QED
        BY <4>1, <4>2
    <3>2. CASE j # i
      <4>1. tmpRef'[j] = tmpRef[j] /\ inode'[j].state = inode[j].state /\ inode'[j].data = inode[j].data
        BY <1>9, <1>11, <1>12, <3>2
      <4> QED
        BY <4>1 DEF TmpInv, BytesInPlace
    <3> QED
      BY <3>1, <3>2
  <2> QED
    BY <2>1 DEF BytesInPlace
<1>21. SpaceCounted'
  <2>1. \A j \in TmpAll \ {i} : inode'[j].state = inode[j].state /\ inode'[j].data = inode[j].data
    BY <1>9
  <2>2. inode'[i].data = new /\ inode'[i].state = "live"
    BY <1>5, <1>9
  <2>3. used_size' = used_size - (IF inode[i].state = "live" THEN Len(inode[i].data) ELSE 0)
                               + (IF inode'[i].state = "live" THEN Len(inode'[i].data) ELSE 0)
    BY <1>2, <1>5, <2>2
  <2> QED
    BY <1>15, <2>1, <2>3, SpaceStep DEF TmpInv
<1> QED
  BY <1>8, <1>15, <1>17, <1>18, <1>19, <1>20, <1>21 DEF TmpInv

LEMMA TmpNextInv == TmpInv /\ [TmpNext]_TmpVars => TmpInv'
<1> SUFFICES ASSUME TmpInv, [TmpNext]_TmpVars PROVE TmpInv'
  OBVIOUS
<1>1. CASE UNCHANGED TmpVars
  <2>1. inode' = inode /\ used_size' = used_size /\ tmpRef' = tmpRef
    BY <1>1 DEF TmpVars
  <2>2. TmpLive' = TmpLive /\ \A d : TmpChildren(d)' = TmpChildren(d)
    BY <2>1 DEF TmpLive, TmpChildren
  <2>3. TmpTyped' /\ BytesInPlace'
    BY <2>1 DEF TmpInv, TmpTyped, BytesInPlace
  <2>4. ParentsOnceLive' /\ PrevDescends'
    BY <2>1, <2>2 DEF TmpInv, ParentsOnceLive, PrevDescends
  <2>5. ChildrenLinked'
    BY <2>1, <2>2, Zenon DEF TmpInv, ChildrenLinked
  <2>6. SpaceCounted'
    BY <2>1, <2>2, Zenon DEF TmpInv, SpaceCounted, TmpSizes
  <2> QED
    BY <2>1, <2>3, <2>4, <2>5, <2>6 DEF TmpInv
<1>2. CASE TmpNext
  <2>1. PICK i \in TmpAll :
          \/ \E dir \in TmpAll : tmpfs_create(i, dir)
          \/ i # TmpRoot /\ tmpfs_delete(i)
          \/ \E offset \in 0 .. MaxOffset, s \in TmpData : tmpfs_write(i, offset, s)
    BY <1>2 DEF TmpNext
  <2> QED
    BY <2>1, TmpCreateInv, TmpDeleteInv, TmpWriteInv
<1> QED
  BY <1>1, <1>2

LEMMA TmpSafe == TmpInv => TmpfsKeepsData
<1> SUFFICES ASSUME TmpInv PROVE ReadsBack
  BY DEF TmpInv, TmpfsKeepsData, SpaceCounted, SumOver
<1> SUFFICES ASSUME NEW i \in TmpLive, NEW k \in DOMAIN tmpRef[i], tmpRef[i][k] # TmpJunk
             PROVE  tmpfs_read(i, k, 1) = <<tmpRef[i][k]>>
  BY DEF ReadsBack
<1>1. i \in TmpAll /\ inode[i].data \in Seq(TmpBytes) /\ k \in 0 .. (MAX_SIZE - 1) /\ k \in Nat
  BY TmpNames DEF TmpLive, TmpInv, TmpTyped, TmpNodes
<1>2. k + 1 \in 1 .. Len(inode[i].data) /\ inode[i].data[k + 1] = tmpRef[i][k]
  BY <1>1 DEF TmpInv, BytesInPlace
<1>3. PICK data \in Seq(TmpBytes) : data = inode[i].data
  BY <1>1
<1>4. tmpfs_read(i, k, 1) = SubSeq(data, k + 1, k + 1)
  BY <1>1, <1>2, <1>3 DEF tmpfs_read
<1>5. SubSeq(data, k + 1, k + 1) = <<data[k + 1]>>
  <2>1. PICK n \in 1 .. Len(data) : n = k + 1
    BY <1>2, <1>3
  <2>2. \A j \in n .. n : data[j] \in TmpBytes
    BY <1>3
  <2>3. PICK one \in Seq(TmpBytes) : one = SubSeq(data, n, n) /\ Len(one) = 1 /\ one[1] = data[n]
    <3>1. /\ SubSeq(data, n, n) \in Seq(TmpBytes) /\ Len(SubSeq(data, n, n)) = 1
          /\ SubSeq(data, n, n)[1] = data[n]
      BY <2>2, SubSeqProperties
    <3> QED
      BY <3>1, Zenon
  <2>4. one = <<data[n]>>
    <3>1. PICK x \in TmpBytes : x = data[n]
      BY <2>2
    <3>2. <<x>> \in Seq(TmpBytes) /\ Len(<<x>>) = 1 /\ <<x>>[1] = x
      OBVIOUS
    <3>3. \A j \in 1 .. 1 : one[j] = <<x>>[j]
      BY <2>3, <3>1, <3>2
    <3> QED
      BY <2>3, <3>1, <3>2, <3>3, SeqEqual
  <2> QED
    BY <2>1, <2>3, <2>4
<1> QED
  BY <1>2, <1>3, <1>4, <1>5

\* For every set of inodes, and through every sequence of creations and deletions, also
\* of directories before their children, a directory's list holds its live children and
\* no other inode, linked both ways; prev leads to the first of them, so there is no
\* ring of children that the list misses.
THEOREM TmpfsChildrenLinked == FSSpec => [](ChildrenLinked /\ PrevDescends)
<1>1. FSInit => TmpInv
  BY TmpInitInv DEF FSInit
<1>2. TmpInv /\ [FSNext]_FSVars => TmpInv'
  BY Parts, TmpNextInv
<1>3. TmpInv => ChildrenLinked /\ PrevDescends
  BY DEF TmpInv
<1> QED
  BY <1>1, <1>2, <1>3, PTL DEF FSSpec

\* For every limit and all lengths and offsets of writes, overlapping, growing and with
\* gaps: tmpfs_read returns the byte that was written last at each offset, and used_size
\* is the sum of the sizes of the live files and never exceeds TMPFS_MAX_SIZE.
THEOREM TmpfsDataIsKept == FSSpec => []TmpfsKeepsData
<1>1. FSInit => TmpInv
  BY TmpInitInv DEF FSInit
<1>2. TmpInv /\ [FSNext]_FSVars => TmpInv'
  BY Parts, TmpNextInv
<1> QED
  BY <1>1, <1>2, TmpSafe, PTL DEF FSSpec
-----------------------------------------------------------------------------
(***************************************************************************)
(* The VFS counts its references.                                          *)
(***************************************************************************)

\* The positions of a sequence whose entries are in P.
PlacesOf(s, P) == {i \in DOMAIN s : s[i] \in P}

\* t is s without its entry at i.
IsRemoved(t, s, i) ==
    /\ Len(s) = Len(t) + 1
    /\ \A j \in 1 .. Len(t) : t[j] = IF j < i THEN s[j] ELSE s[j + 1]

\* How many members a set has when one element may have come or gone.
LEMMA CountMoves ==
  ASSUME NEW A, IsFiniteSet(A), NEW B, NEW x, A \ {x} = B \ {x}
  PROVE  /\ Cardinality(A) \in Nat /\ IsFiniteSet(B)
         /\ Cardinality(B) = Cardinality(A) - (IF x \in A THEN 1 ELSE 0) + (IF x \in B THEN 1 ELSE 0)
<1>1. PICK R : R = A \ {x} /\ R = B \ {x}
  OBVIOUS
<1>2. IsFiniteSet(R) /\ x \notin R /\ Cardinality(R) \in Nat /\ Cardinality(A) \in Nat
  BY <1>1, FS_Subset, FS_CardinalityType
<1>3. Cardinality(A) = Cardinality(R) + (IF x \in A THEN 1 ELSE 0)
  <2>1. CASE x \in A
    BY <1>1, <1>2, <2>1, FS_RemoveElement
  <2>2. CASE x \notin A
    <3>1. A = R
      BY <1>1, <2>2
    <3> QED
      BY <1>2, <2>2, <3>1
  <2> QED
    BY <2>1, <2>2
<1>4. IsFiniteSet(B) /\ Cardinality(B) = Cardinality(R) + (IF x \in B THEN 1 ELSE 0)
  <2>1. CASE x \in B
    <3>1. B = R \cup {x}
      BY <1>1, <2>1
    <3> QED
      BY <1>2, <2>1, <3>1, FS_AddElement
  <2>2. CASE x \notin B
    <3>1. B = R
      BY <1>1, <2>2
    <3> QED
      BY <1>2, <2>2, <3>1
  <2> QED
    BY <2>1, <2>2
<1> QED
  BY <1>2, <1>3, <1>4

LEMMA PlacesFinite ==
  ASSUME NEW S, NEW s \in Seq(S), NEW P
  PROVE  IsFiniteSet(PlacesOf(s, P)) /\ Cardinality(PlacesOf(s, P)) \in Nat
<1>1. PlacesOf(s, P) \in SUBSET (1 .. Len(s)) /\ IsFiniteSet(1 .. Len(s))
  BY FS_Interval DEF PlacesOf
<1> QED
  BY <1>1, FS_Subset, FS_CardinalityType

\* The other entries are where they were, or one place further in front.
LEMMA CountRemoved ==
  ASSUME NEW S, NEW s \in Seq(S), NEW t \in Seq(S), NEW i \in 1 .. Len(s), IsRemoved(t, s, i), NEW P
  PROVE  Cardinality(PlacesOf(s, P)) = Cardinality(PlacesOf(t, P)) + (IF s[i] \in P THEN 1 ELSE 0)
<1>1. PICK A, B, C : A = PlacesOf(t, P) /\ B = PlacesOf(s, P) /\ C = B \ {i}
  OBVIOUS
<1>2. IsFiniteSet(A) /\ IsFiniteSet(B) /\ IsFiniteSet(C) /\ Cardinality(A) \in Nat
  BY <1>1, PlacesFinite, FS_Subset
<1>3. PICK f : f = [j \in A |-> IF j < i THEN j ELSE j + 1]
  OBVIOUS
<1>4. DOMAIN s = 1 .. Len(s) /\ DOMAIN t = 1 .. Len(t) /\ Len(s) = Len(t) + 1 /\ Len(t) \in Nat
  BY DEF IsRemoved
<1>5. \A j \in A : j \in 1 .. Len(t) /\ t[j] \in P
  BY <1>1, <1>4 DEF PlacesOf
<1>6. ASSUME NEW j \in A PROVE f[j] \in C
  <2>1. f[j] \in 1 .. Len(s) /\ f[j] # i /\ s[f[j]] = t[j]
    BY <1>3, <1>4, <1>5 DEF IsRemoved
  <2> QED
    BY <1>1, <1>4, <1>5, <2>1 DEF PlacesOf
<1>7. \A j, k \in A : f[j] = f[k] => j = k
  BY <1>3, <1>5
<1>8. ASSUME NEW k \in C PROVE \E j \in A : f[j] = k
  <2>1. k \in 1 .. Len(s) /\ k # i /\ s[k] \in P
    BY <1>1, <1>4 DEF PlacesOf
  <2>2. PICK j : j = (IF k < i THEN k ELSE k - 1)
    OBVIOUS
  <2>3. j \in 1 .. Len(t) /\ t[j] = s[k]
    BY <1>4, <2>1, <2>2 DEF IsRemoved
  <2>4. j \in A
    BY <1>1, <1>4, <2>1, <2>3 DEF PlacesOf
  <2>5. f[j] = k
    BY <1>3, <2>1, <2>2, <2>4
  <2> QED
    BY <2>4, <2>5
<1>9. f \in Bijection(A, C)
  <2>1. f \in [A -> C]
    BY <1>3, <1>6
  <2> QED
    BY <2>1, <1>7, <1>8 DEF Bijection, Injection, Surjection, IsInjective
<1>10. Cardinality(C) = Cardinality(A)
  BY <1>2, <1>9, FS_Bijection DEF ExistsBijection
<1>11. i \in B <=> s[i] \in P
  BY <1>1, <1>4 DEF PlacesOf
<1>12. Cardinality(B) = Cardinality(C) + (IF i \in B THEN 1 ELSE 0)
  <2>1. CASE i \in B
    <3>1. Cardinality(B \ {i}) = Cardinality(B) - 1 /\ Cardinality(B) \in Nat
      BY <1>2, <2>1, FS_RemoveElement, FS_CardinalityType
    <3> QED
      BY <1>1, <2>1, <3>1
  <2>2. CASE i \notin B
    <3>1. B = C
      BY <1>1, <2>2
    <3> QED
      BY <1>2, <1>10, <2>2, <3>1
  <2> QED
    BY <2>1, <2>2
<1> QED
  BY <1>1, <1>10, <1>11, <1>12

LEMMA RemoveAtRemoves ==
  ASSUME NEW S, NEW s \in Seq(S), NEW i \in 1 .. Len(s)
  PROVE  RemoveAt(s, i) \in Seq(S) /\ IsRemoved(RemoveAt(s, i), s, i)
<1>1. PICK a, b : a = SubSeq(s, 1, i - 1) /\ b = SubSeq(s, i + 1, Len(s))
  OBVIOUS
<1>2. a \in Seq(S) /\ Len(a) = i - 1 /\ \A j \in 1 .. (i - 1) : a[j] = s[j]
  <2>1. \A j \in 1 .. (i - 1) : s[j] \in S
    OBVIOUS
  <2> QED
    BY <1>1, <2>1, SubSeqProperties
<1>3. b \in Seq(S) /\ Len(b) = Len(s) - i /\ \A j \in 1 .. (Len(s) - i) : b[j] = s[i + j]
  <2>1. \A j \in (i + 1) .. Len(s) : s[j] \in S
    OBVIOUS
  <2> QED
    BY <1>1, <2>1, SubSeqProperties
<1>4. RemoveAt(s, i) = a \o b
  BY <1>1 DEF RemoveAt
<1>5. /\ a \o b \in Seq(S) /\ Len(a \o b) = Len(s) - 1
      /\ \A j \in 1 .. (Len(s) - 1) : (a \o b)[j] = IF j <= i - 1 THEN a[j] ELSE b[j - (i - 1)]
  <2>1. /\ a \o b \in Seq(S) /\ Len(a \o b) = Len(a) + Len(b)
        /\ \A j \in 1 .. Len(a) + Len(b) : (a \o b)[j] = IF j <= Len(a) THEN a[j] ELSE b[j - Len(a)]
    BY <1>2, <1>3, ConcatProperties
  <2>2. Len(a) + Len(b) = Len(s) - 1
    BY <1>2, <1>3
  <2> QED
    BY <1>2, <2>1, <2>2
<1>6. PICK t : t = a \o b
  OBVIOUS
<1>7. ASSUME NEW j \in 1 .. (Len(s) - 1) PROVE t[j] = IF j < i THEN s[j] ELSE s[j + 1]
  <2>1. CASE j < i
    BY <1>2, <1>5, <1>6, <2>1
  <2>2. CASE j >= i
    <3>1. j - (i - 1) \in 1 .. (Len(s) - i) /\ i + (j - (i - 1)) = j + 1
      BY <2>2
    <3>2. t[j] = b[j - (i - 1)]
      <4>1. ~ (j <= i - 1) /\ t[j] = (a \o b)[j]
        BY <1>6, <2>2
      <4> QED
        BY <1>5, <4>1
    <3> QED
      BY <1>3, <2>2, <3>1, <3>2
  <2> QED
    BY <2>1, <2>2
<1> QED
  BY <1>4, <1>5, <1>6, <1>7 DEF IsRemoved

LEMMA ConsRemoves ==
  ASSUME NEW S, NEW s \in Seq(S), NEW x \in S
  PROVE  /\ <<x>> \o s \in Seq(S) /\ Len(<<x>> \o s) = Len(s) + 1 /\ (<<x>> \o s)[1] = x
         /\ IsRemoved(s, <<x>> \o s, 1)
<1>1. <<x>> \in Seq(S) /\ Len(<<x>>) = 1 /\ <<x>>[1] = x
  OBVIOUS
<1>2. PICK a : a = <<x>>
  OBVIOUS
<1>3. /\ a \o s \in Seq(S) /\ Len(a \o s) = 1 + Len(s)
      /\ \A j \in 1 .. (1 + Len(s)) : (a \o s)[j] = IF j <= 1 THEN a[j] ELSE s[j - 1]
  BY <1>1, <1>2, ConcatProperties
<1>4. PICK t : t = a \o s
  OBVIOUS
<1>5. t[1] = x
  BY <1>1, <1>2, <1>3, <1>4
<1>6. \A j \in 1 .. Len(s) : s[j] = t[j + 1]
  BY <1>3, <1>4
<1> QED
  BY <1>2, <1>3, <1>4, <1>5, <1>6 DEF IsRemoved

LEMMA TailRemoves ==
  ASSUME NEW S, NEW s \in Seq(S), s # <<>>
  PROVE  /\ Tail(s) \in Seq(S) /\ IsRemoved(Tail(s), s, 1) /\ Head(s) = s[1] /\ 1 \in 1 .. Len(s)
<1>1. Len(s) \in Nat /\ Len(s) # 0
  BY EmptySeq
<1>2. /\ Head(s) = s[1] /\ Tail(s) \in Seq(S) /\ Len(Tail(s)) = Len(s) - 1
      /\ \A j \in 1 .. Len(Tail(s)) : Tail(s)[j] = s[j + 1]
  BY HeadTailProperties
<1> QED
  BY <1>1, <1>2 DEF IsRemoved

LEMMA AppendRemoves ==
  ASSUME NEW S, NEW s \in Seq(S), NEW x \in S
  PROVE  /\ Append(s, x) \in Seq(S) /\ Len(Append(s, x)) = Len(s) + 1 /\ Append(s, x)[Len(s) + 1] = x
         /\ \A j \in 1 .. Len(s) : Append(s, x)[j] = s[j]
         /\ IsRemoved(s, Append(s, x), Len(s) + 1)
<1>1. /\ Append(s, x) \in Seq(S) /\ Len(Append(s, x)) = Len(s) + 1 /\ Append(s, x)[Len(s) + 1] = x
      /\ \A j \in 1 .. Len(s) : Append(s, x)[j] = s[j]
  BY AppendProperties
<1> QED
  BY <1>1 DEF IsRemoved

\* Keep leaves no more entries of a kind than there were.
LEMMA KeepCounts ==
  ASSUME NEW S, NEW s \in Seq(S), NEW at \in SUBSET (DOMAIN s), NEW P
  PROVE  Cardinality(PlacesOf(Keep(s, at), P)) <= Cardinality(PlacesOf(s, P))
<1> DEFINE rank(i) == Cardinality({j \in at : j <= i})
           pos(k) == CHOOSE i \in at : rank(i) = k
           n == Cardinality(at)
<1>1. DOMAIN s = 1 .. Len(s) /\ Len(s) \in Nat
  OBVIOUS
<1>2. n \in Nat /\ \A k \in 1 .. n : \E i \in at : rank(i) = k
  BY <1>1, KeepRanks
<1>3. \A k \in 1 .. n : pos(k) \in at /\ rank(pos(k)) = k
  BY <1>2
<1>4. Keep(s, at) = [k \in 1 .. n |-> s[pos(k)]]
  BY DEF Keep
<1> HIDE DEF rank, pos, n
<1>5. PICK A, B, f : A = PlacesOf(Keep(s, at), P) /\ B = PlacesOf(s, P) /\ f = [k \in A |-> pos(k)]
  OBVIOUS
<1>6. \A k \in A : k \in 1 .. n /\ s[pos(k)] \in P
  BY <1>4, <1>5 DEF PlacesOf
<1>7. \A k \in A : f[k] \in B
  BY <1>3, <1>5, <1>6 DEF PlacesOf
<1>8. \A j, k \in A : f[j] = f[k] => j = k
  BY <1>3, <1>5, <1>6
<1>9. f \in Injection(A, B)
  BY <1>5, <1>7, <1>8 DEF Injection, IsInjective
<1>10. IsFiniteSet(B)
  BY <1>5, PlacesFinite
<1> QED
  BY <1>5, <1>9, <1>10, FS_Injection
-----------------------------------------------------------------------------
PathParts == {"/"} \cup UNION {{path[i] : i \in DOMAIN path} : path \in VfsPaths \cup VfsTargets}
PathNames == Seq(PathParts)
VnodeRecs == [size : Nat, refcount : Int]
MountRecs == [target : PathNames, fs : Filesystems, root : Vnodes]
DentryRecs == [name : PathNames, vnode : Vnodes, refcount : Int]
FileRecs(F, P) == [vnode : Vnodes, flags : F, pos : P, refcount : Int]

VnodesTyped(vn) == vn \in [Vnodes -> VnodeRecs]
IsFile(r) == \E F, P : r \in FileRecs(F, P)
FilesTyped(fl) == \E F, P : fl \in [FileIds -> FileRecs(F, P)]

VfsTyped ==
    /\ mounts \in Seq(MountRecs) /\ VnodesTyped(vnode) /\ dentries \in Seq(DentryRecs)
    /\ FilesTyped(file) /\ fd_files \in [Fds -> FileIds \cup {NoFile}]
    /\ vheld \in [Vnodes -> Nat] /\ fheldv \in [FileIds -> Nat] /\ dheld \in Seq(PathNames)

\* The two halves of ReferencesCounted, of states that a call passes through.
MountRefs(mt, v) == Cardinality(PlacesOf(mt, {m \in MountRecs : m.root = v}))
FileUses(fl, v) == {f \in FileIds : fl[f].refcount > 0 /\ fl[f].vnode = v}
VnodesCounted(vn, mt, fl, vh) ==
    \A v \in Vnodes :
        vn[v].refcount = MountRefs(mt, v) + Cardinality(FileUses(fl, v)) + vh[v] + (IF v = 0 THEN 1 ELSE 0)
FilesCounted(fl, fds, fh) ==
    \A f \in FileIds : fl[f].refcount = Cardinality({i \in Fds : fds[i] = f}) + fh[f]

\* The cache has one entry for a name, with a reference of its own beside those of the
\* callers, and the entries that callers hold are there.
NamesKept(ds, dh) ==
    /\ \A i, j \in DOMAIN ds : ds[i].name = ds[j].name => i = j
    /\ \A i \in DOMAIN ds : ds[i].refcount >= 1 + Cardinality(PlacesOf(dh, {ds[i].name}))
    /\ \A k \in DOMAIN dh : \E i \in DOMAIN ds : ds[i].name = dh[k]

VfsInv ==
    /\ VfsTyped
    /\ VnodesCounted(vnode, mounts, file, vheld) /\ FilesCounted(file, fd_files, fheldv)
    /\ NamesKept(dentries, dheld)

LEMMA PathsAreNames == RootPath \in PathNames /\ \A path \in VfsPaths \cup VfsTargets : path \in PathNames
<1>1. "/" \in PathParts
  BY DEF PathParts
<1>2. RootPath \in PathNames
  BY <1>1 DEF RootPath, PathNames
<1>3. ASSUME NEW path \in VfsPaths \cup VfsTargets PROVE path \in PathNames
  <2>1. path \in Seq({path[i] : i \in DOMAIN path})
    BY VfsAssumption
  <2>2. {path[i] : i \in DOMAIN path} \subseteq PathParts
    BY DEF PathParts
  <2> QED
    BY <2>1, <2>2 DEF PathNames
<1> QED
  BY <1>2, <1>3

\* The vnodes when the count of one of them has changed by n.
Bump(new, vn, v, n) ==
    VnodesTyped(new) /\ \A w \in Vnodes : new[w].refcount = vn[w].refcount + (IF w = v THEN n ELSE 0)

LEMMA RefsBump ==
  ASSUME NEW vn, VnodesTyped(vn), NEW v \in Vnodes, NEW n \in Int
  PROVE  Bump(Refs(vn, v, n), vn, v, n)
<1>1. vn \in [Vnodes -> VnodeRecs]
  BY DEF VnodesTyped
<1>2. Refs(vn, v, n) = [vn EXCEPT ![v] = [vn[v] EXCEPT !.refcount = vn[v].refcount + n]]
  BY DEF Refs
<1>3. PICK r : r = [vn[v] EXCEPT !.refcount = vn[v].refcount + n]
  OBVIOUS
<1>4. r \in VnodeRecs /\ r.refcount = vn[v].refcount + n
  BY <1>1, <1>3 DEF VnodeRecs
<1>5. \A w \in Vnodes : vn[w].refcount \in Int
  BY <1>1 DEF VnodeRecs
<1> QED
  BY <1>1, <1>2, <1>3, <1>4, <1>5 DEF Bump, VnodesTyped

LEMMA FreshBump ==
  ASSUME NEW vn, VnodesTyped(vn), NEW v \in Vnodes, vn[v].refcount = 0, NEW n \in Nat
  PROVE  Bump([vn EXCEPT ![v] = [size |-> n, refcount |-> 1]], vn, v, 1)
<1>1. vn \in [Vnodes -> VnodeRecs]
  BY DEF VnodesTyped
<1>2. PICK r : r = [size |-> n, refcount |-> 1]
  OBVIOUS
<1>3. r \in VnodeRecs /\ r.refcount = 1
  BY <1>2 DEF VnodeRecs
<1>4. \A w \in Vnodes : vn[w].refcount \in Int
  BY <1>1 DEF VnodeRecs
<1>5. \A w \in Vnodes : [vn EXCEPT ![v] = r][w] = IF w = v THEN r ELSE vn[w]
  BY <1>1
<1>6. [vn EXCEPT ![v] = r] \in [Vnodes -> VnodeRecs]
  BY <1>1, <1>3
<1> QED
  BY <1>2, <1>3, <1>4, <1>5, <1>6 DEF Bump, VnodesTyped

LEMMA SizeBump ==
  ASSUME NEW vn, NEW old, NEW v \in Vnodes, NEW n, Bump(vn, old, v, n), NEW w \in Vnodes
  PROVE  Bump([vn EXCEPT ![w].size = 0], old, v, n)
<1>1. vn \in [Vnodes -> VnodeRecs]
  BY DEF Bump, VnodesTyped
<1>2. PICK r : r = [vn[w] EXCEPT !.size = 0]
  OBVIOUS
<1>3. r \in VnodeRecs /\ r.refcount = vn[w].refcount
  BY <1>1, <1>2 DEF VnodeRecs
<1>4. [vn EXCEPT ![w].size = 0] = [vn EXCEPT ![w] = r]
  BY <1>2
<1>5. [vn EXCEPT ![w] = r] \in [Vnodes -> VnodeRecs] /\ \A u \in Vnodes : [vn EXCEPT ![w] = r][u].refcount = vn[u].refcount
  BY <1>1, <1>3
<1> QED
  BY <1>4, <1>5 DEF Bump, VnodesTyped

SetFile(fl, f, r) == [fl EXCEPT ![f] = r]

LEMMA FilesAre ==
  ASSUME NEW fl, FilesTyped(fl), NEW f \in FileIds
  PROVE  IsFile(fl[f]) /\ fl[f].refcount \in Int /\ fl[f].vnode \in Vnodes
<1>1. PICK F, P : fl \in [FileIds -> FileRecs(F, P)]
  BY DEF FilesTyped
<1>2. fl[f] \in FileRecs(F, P)
  BY <1>1
<1> QED
  BY <1>2 DEF IsFile, FileRecs

LEMMA SetFileIs ==
  ASSUME NEW fl, FilesTyped(fl), NEW f \in FileIds, NEW r, IsFile(r)
  PROVE  /\ FilesTyped(SetFile(fl, f, r))
         /\ \A g \in FileIds : SetFile(fl, f, r)[g] = IF g = f THEN r ELSE fl[g]
<1>1. PICK F, P : fl \in [FileIds -> FileRecs(F, P)]
  BY DEF FilesTyped
<1>2. PICK F2, P2 : r \in FileRecs(F2, P2)
  BY DEF IsFile
<1>3. PICK A, B : A = F \cup F2 /\ B = P \cup P2
  OBVIOUS
<1>4. r \in FileRecs(A, B) /\ FileRecs(F, P) \subseteq FileRecs(A, B)
  BY <1>2, <1>3 DEF FileRecs
<1>5. SetFile(fl, f, r) \in [FileIds -> FileRecs(A, B)]
  BY <1>1, <1>4 DEF SetFile
<1> QED
  BY <1>1, <1>5 DEF FilesTyped, SetFile

\* A file with another count is a file, and so is one with another position.
LEMMA FileRecount ==
  ASSUME NEW r, IsFile(r), NEW n \in Int
  PROVE  /\ IsFile([r EXCEPT !.refcount = n])
         /\ [r EXCEPT !.refcount = n].refcount = n /\ [r EXCEPT !.refcount = n].vnode = r.vnode
<1>1. PICK F, P : r \in FileRecs(F, P)
  BY DEF IsFile
<1>2. PICK q : q = [r EXCEPT !.refcount = n]
  OBVIOUS
<1>3. q \in FileRecs(F, P) /\ q.refcount = n /\ q.vnode = r.vnode
  BY <1>1, <1>2 DEF FileRecs
<1> QED
  BY <1>2, <1>3 DEF IsFile

LEMMA FileMoved ==
  ASSUME NEW r, IsFile(r), NEW k
  PROVE  /\ IsFile([r EXCEPT !.pos = k])
         /\ [r EXCEPT !.pos = k].refcount = r.refcount /\ [r EXCEPT !.pos = k].vnode = r.vnode
<1>1. PICK F, P : r \in FileRecs(F, P)
  BY DEF IsFile
<1>2. PICK q, A : q = [r EXCEPT !.pos = k] /\ A = P \cup {k}
  OBVIOUS
<1>3. q \in FileRecs(F, A) /\ q.refcount = r.refcount /\ q.vnode = r.vnode
  BY <1>1, <1>2 DEF FileRecs
<1> QED
  BY <1>2, <1>3 DEF IsFile

LEMMA FileNew ==
  ASSUME NEW v \in Vnodes, NEW a, NEW k, NEW n \in Int
  PROVE  IsFile([vnode |-> v, flags |-> a, pos |-> k, refcount |-> n])
<1>1. [vnode |-> v, flags |-> a, pos |-> k, refcount |-> n] \in FileRecs({a}, {k})
  BY DEF FileRecs
<1> QED
  BY <1>1 DEF IsFile

LEMMA CountTypes ==
  ASSUME NEW mt \in Seq(MountRecs), NEW fl, NEW v
  PROVE  MountRefs(mt, v) \in Nat /\ IsFiniteSet(FileUses(fl, v)) /\ Cardinality(FileUses(fl, v)) \in Nat
<1>1. FileUses(fl, v) \in SUBSET FileIds /\ IsFiniteSet(FileIds)
  BY VfsAssumption DEF FileUses
<1> QED
  BY <1>1, FS_Subset, FS_CardinalityType, PlacesFinite DEF MountRefs

HeldBy(vh, v, n) == [vh EXCEPT ![v] = vh[v] + n]

\* The references after one has moved to or from a caller, a mount or a file.
LEMMA HeldMoves ==
  ASSUME NEW mt \in Seq(MountRecs), NEW fl, NEW vn, NEW vh \in [Vnodes -> Nat], VnodesCounted(vn, mt, fl, vh),
         NEW v \in Vnodes, NEW n \in Int, NEW new, Bump(new, vn, v, n)
  PROVE  VnodesCounted(new, mt, fl, HeldBy(vh, v, n))
<1>1. ASSUME NEW w \in Vnodes
      PROVE  new[w].refcount = MountRefs(mt, w) + Cardinality(FileUses(fl, w)) + HeldBy(vh, v, n)[w]
                               + (IF w = 0 THEN 1 ELSE 0)
  <2>1. PICK a, b, z : a = MountRefs(mt, w) /\ b = Cardinality(FileUses(fl, w)) /\ z = (IF w = 0 THEN 1 ELSE 0)
    OBVIOUS
  <2>2. a \in Nat /\ b \in Nat /\ z \in Nat /\ vh[w] \in Nat
    BY <2>1, CountTypes
  <2>3. vn[w].refcount = a + b + vh[w] + z
    BY <2>1 DEF VnodesCounted
  <2>4. new[w].refcount = vn[w].refcount + (IF w = v THEN n ELSE 0)
    BY DEF Bump
  <2>5. HeldBy(vh, v, n)[w] = IF w = v THEN vh[w] + n ELSE vh[w]
    BY DEF HeldBy
  <2>6. new[w].refcount = a + b + (IF w = v THEN vh[w] + n ELSE vh[w]) + z
    BY <2>2, <2>3, <2>4
  <2> QED
    BY <2>1, <2>5, <2>6
<1> QED
  BY <1>1 DEF VnodesCounted

LEMMA MountMoves ==
  ASSUME NEW mt \in Seq(MountRecs), NEW mt2 \in Seq(MountRecs), NEW fl, NEW vn, NEW vh \in [Vnodes -> Nat],
         VnodesCounted(vn, mt, fl, vh), NEW v \in Vnodes, NEW n \in Int, NEW new, Bump(new, vn, v, n),
         \A w \in Vnodes : MountRefs(mt2, w) = MountRefs(mt, w) + (IF w = v THEN n ELSE 0)
  PROVE  VnodesCounted(new, mt2, fl, vh)
<1>1. ASSUME NEW w \in Vnodes
      PROVE  new[w].refcount = MountRefs(mt2, w) + Cardinality(FileUses(fl, w)) + vh[w] + (IF w = 0 THEN 1 ELSE 0)
  <2>1. PICK a, b, z : a = MountRefs(mt, w) /\ b = Cardinality(FileUses(fl, w)) /\ z = (IF w = 0 THEN 1 ELSE 0)
    OBVIOUS
  <2>2. a \in Nat /\ b \in Nat /\ z \in Nat /\ vh[w] \in Nat
    BY <2>1, CountTypes
  <2>3. vn[w].refcount = a + b + vh[w] + z
    BY <2>1 DEF VnodesCounted
  <2>4. new[w].refcount = vn[w].refcount + (IF w = v THEN n ELSE 0)
    BY DEF Bump
  <2>6. new[w].refcount = (a + (IF w = v THEN n ELSE 0)) + b + vh[w] + z
    BY <2>2, <2>3, <2>4
  <2> QED
    BY <2>1, <2>6
<1> QED
  BY <1>1 DEF VnodesCounted

LEMMA FileMoves ==
  ASSUME NEW mt \in Seq(MountRecs), NEW fl, NEW fl2, NEW vn, NEW vh \in [Vnodes -> Nat],
         VnodesCounted(vn, mt, fl, vh), NEW v \in Vnodes, NEW n \in Int, NEW new, Bump(new, vn, v, n),
         \A w \in Vnodes : Cardinality(FileUses(fl2, w)) = Cardinality(FileUses(fl, w)) + (IF w = v THEN n ELSE 0)
  PROVE  VnodesCounted(new, mt, fl2, vh)
<1>1. ASSUME NEW w \in Vnodes
      PROVE  new[w].refcount = MountRefs(mt, w) + Cardinality(FileUses(fl2, w)) + vh[w] + (IF w = 0 THEN 1 ELSE 0)
  <2>1. PICK a, b, z : a = MountRefs(mt, w) /\ b = Cardinality(FileUses(fl, w)) /\ z = (IF w = 0 THEN 1 ELSE 0)
    OBVIOUS
  <2>2. a \in Nat /\ b \in Nat /\ z \in Nat /\ vh[w] \in Nat
    BY <2>1, CountTypes
  <2>3. vn[w].refcount = a + b + vh[w] + z
    BY <2>1 DEF VnodesCounted
  <2>4. new[w].refcount = vn[w].refcount + (IF w = v THEN n ELSE 0)
    BY DEF Bump
  <2>6. new[w].refcount = a + (b + (IF w = v THEN n ELSE 0)) + vh[w] + z
    BY <2>2, <2>3, <2>4
  <2> QED
    BY <2>1, <2>6
<1> QED
  BY <1>1 DEF VnodesCounted
-----------------------------------------------------------------------------
\* What the operations do to the cache: an entry counts more, a new name comes.
Recounted(ds, old, i, n) ==
    /\ ds \in Seq(DentryRecs) /\ Len(ds) = Len(old)
    /\ \A j \in 1 .. Len(old) : ds[j].name = old[j].name /\ ds[j].refcount = old[j].refcount + (IF j = i THEN n ELSE 0)

Recount(ds, i, n) == [ds EXCEPT ![i].refcount = ds[i].refcount + n]

LEMMA RecountIs ==
  ASSUME NEW ds \in Seq(DentryRecs), NEW i \in 1 .. Len(ds), NEW n \in Int
  PROVE  Recounted(Recount(ds, i, n), ds, i, n)
<1>1. PICK r : r = [ds[i] EXCEPT !.refcount = ds[i].refcount + n]
  OBVIOUS
<1>2. \A j \in 1 .. Len(ds) : ds[j] \in DentryRecs
  OBVIOUS
<1>3. r \in DentryRecs /\ r.name = ds[i].name /\ r.refcount = ds[i].refcount + n
  <2>1. PICK o \in DentryRecs : o = ds[i]
    BY <1>2
  <2>2. r = [o EXCEPT !.refcount = o.refcount + n]
    BY <1>1, <2>1
  <2>3. r \in DentryRecs /\ r.name = o.name /\ r.refcount = o.refcount + n
    BY <2>2 DEF DentryRecs
  <2> QED
    BY <2>1, <2>3
<1>4. PICK new : new = [ds EXCEPT ![i] = r]
  OBVIOUS
<1>5. new \in Seq(DentryRecs) /\ Len(new) = Len(ds) /\ \A j \in 1 .. Len(ds) : new[j] = IF j = i THEN r ELSE ds[j]
  BY <1>3, <1>4, ExceptSeq
<1>6. \A j \in 1 .. Len(ds) : ds[j].refcount \in Int
  BY <1>2 DEF DentryRecs
<1> QED
  BY <1>1, <1>3, <1>4, <1>5, <1>6 DEF Recounted, Recount

LEMMA NamesRecount ==
  ASSUME NEW old \in Seq(DentryRecs), NEW dh \in Seq(PathNames), NamesKept(old, dh),
         NEW ds, NEW i, NEW n \in Nat, Recounted(ds, old, i, n)
  PROVE  NamesKept(ds, dh)
<1>1. DOMAIN ds = 1 .. Len(old) /\ DOMAIN old = 1 .. Len(old)
  BY DEF Recounted
<1>2. \A j \in 1 .. Len(old) : ds[j].name = old[j].name /\ ds[j].refcount >= old[j].refcount /\ {ds[j].refcount, old[j].refcount} \subseteq Int
  <2>1. \A j \in 1 .. Len(old) : old[j] \in DentryRecs
    OBVIOUS
  <2>2. \A j \in 1 .. Len(old) : old[j].refcount \in Int
    BY <2>1 DEF DentryRecs
  <2> TAKE j \in 1 .. Len(old)
  <2>3. ds[j].name = old[j].name /\ ds[j].refcount = old[j].refcount + (IF j = i THEN n ELSE 0)
    BY DEF Recounted
  <2> QED
    BY <2>2, <2>3
<1>3. ASSUME NEW j \in DOMAIN ds PROVE ds[j].refcount >= 1 + Cardinality(PlacesOf(dh, {ds[j].name}))
  <2>1. PICK c : c = Cardinality(PlacesOf(dh, {old[j].name}))
    OBVIOUS
  <2>2. c \in Nat /\ old[j].refcount >= 1 + c
    BY <1>1, <2>1, PlacesFinite DEF NamesKept
  <2>3. ds[j].refcount >= 1 + c
    BY <1>1, <1>2, <2>2
  <2> QED
    BY <1>1, <1>2, <2>1, <2>3
<1> QED
  BY <1>1, <1>2, <1>3 DEF NamesKept

LEMMA NamesAdd ==
  ASSUME NEW ds \in Seq(DentryRecs), NEW dh \in Seq(PathNames), NamesKept(ds, dh),
         NEW d \in DentryRecs, d.refcount = 1, \A i \in DOMAIN ds : ds[i].name # d.name
  PROVE  <<d>> \o ds \in Seq(DentryRecs) /\ NamesKept(<<d>> \o ds, dh)
<1>1. PICK new : new = <<d>> \o ds
  OBVIOUS
<1>2. new \in Seq(DentryRecs) /\ Len(new) = Len(ds) + 1 /\ new[1] = d /\ IsRemoved(ds, new, 1)
  BY <1>1, ConsRemoves
<1>3. DOMAIN new = 1 .. (Len(ds) + 1) /\ DOMAIN ds = 1 .. Len(ds) /\ Len(ds) \in Nat
  BY <1>2
<1>4. \A j \in 1 .. Len(ds) : new[j + 1] = ds[j]
  BY <1>2, <1>3 DEF IsRemoved
<1>5. \A k \in DOMAIN new : k # 1 => k - 1 \in DOMAIN ds /\ new[k] = ds[k - 1]
  <2> TAKE k \in DOMAIN new
  <2> HAVE k # 1
  <2>1. k - 1 \in 1 .. Len(ds) /\ (k - 1) + 1 = k
    BY <1>3
  <2> QED
    BY <1>3, <1>4, <2>1
<1>6. PlacesOf(dh, {d.name}) = {}
  <2>1. \A k \in DOMAIN dh : dh[k] # d.name
    BY DEF NamesKept
  <2> QED
    BY <2>1 DEF PlacesOf
<1>7. Cardinality(PlacesOf(dh, {d.name})) = 0
  BY <1>6, FS_EmptySet
<1>8. ASSUME NEW i \in DOMAIN new, NEW j \in DOMAIN new, new[i].name = new[j].name PROVE i = j
  <2>1. CASE i = 1 /\ j # 1
    BY <1>2, <1>5, <1>8, <2>1
  <2>2. CASE i # 1 /\ j = 1
    BY <1>2, <1>5, <1>8, <2>2
  <2>3. CASE i # 1 /\ j # 1
    <3>1. i - 1 = j - 1
      BY <1>5, <1>8, <2>3 DEF NamesKept
    <3> QED
      BY <1>3, <3>1
  <2> QED
    BY <2>1, <2>2, <2>3
<1>9. ASSUME NEW i \in DOMAIN new PROVE new[i].refcount >= 1 + Cardinality(PlacesOf(dh, {new[i].name}))
  <2>1. CASE i = 1
    <3>1. new[i].name = d.name /\ new[i].refcount = 1
      BY <1>2, <2>1
    <3> QED
      BY <1>7, <3>1
  <2>2. CASE i # 1
    BY <1>5, <2>2 DEF NamesKept
  <2> QED
    BY <2>1, <2>2
<1>10. ASSUME NEW k \in DOMAIN dh PROVE \E i \in DOMAIN new : new[i].name = dh[k]
  <2>1. PICK i \in DOMAIN ds : ds[i].name = dh[k]
    BY DEF NamesKept
  <2>2. i + 1 \in DOMAIN new /\ new[i + 1] = ds[i]
    BY <1>3, <1>4, <2>1
  <2> QED
    BY <2>1, <2>2
<1> QED
  BY <1>1, <1>2, <1>8, <1>9, <1>10 DEF NamesKept

\* The walk of dentry_prune finds nothing to remove: each entry has a reference.
LEMMA PruneKeeps ==
  ASSUME NEW list \in Seq(DentryRecs), \A i \in DOMAIN list : list[i].refcount >= 1
  PROVE  dentry_prune(list) = list
<1> DEFINE N == Len(list)
           T == [list : Seq(DentryRecs), left : Int]
           step(i, a) == IF a.left > MAX_DENTRY_CACHE \div 2 /\ list[i].refcount <= 0
                         THEN [a EXCEPT !.left = a.left - 1] ELSE [a EXCEPT !.list = Append(a.list, list[i])]
           x == [list |-> <<>>, left |-> Len(list)]
           g == [p \in (1 .. N) \X T |-> step(p[1], p[2])]
           after[i \in 0 .. Len(list)] ==
            IF i = 0 THEN [list |-> <<>>, left |-> Len(list)]
            ELSE IF after[i - 1].left > MAX_DENTRY_CACHE \div 2 /\ list[i].refcount <= 0
                 THEN [after[i - 1] EXCEPT !.left = @ - 1]
                 ELSE [after[i - 1] EXCEPT !.list = Append(@, list[i])]
<1>1. N \in Nat /\ x \in T /\ DOMAIN list = 1 .. N
  OBVIOUS
<1>2. \A i \in 1 .. N : list[i] \in DentryRecs /\ list[i].refcount \in Int
  <2>1. \A i \in 1 .. N : list[i] \in DentryRecs
    OBVIOUS
  <2> QED
    BY <2>1 DEF DentryRecs
<1>3. ASSUME NEW i \in 1 .. N, NEW a \in T PROVE step(i, a) \in T /\ step(i, a).list = Append(a.list, list[i])
  <2>1. Append(a.list, list[i]) \in Seq(DentryRecs)
    BY <1>2
  <2>2. ~ (list[i].refcount <= 0)
    BY <1>1, <1>2
  <2>3. step(i, a) = [a EXCEPT !.list = Append(a.list, list[i])]
    BY <2>2
  <2> QED
    BY <2>1, <2>3
<1>4. g \in [(1 .. N) \X T -> T]
  <2> HIDE DEF step, T, N
  <2> QED
    BY <1>3
<1>5. dentry_prune(list) = after[N].list
  BY DEF dentry_prune
<1>6. after = CHOOSE f : f = [i \in 0 .. N |-> IF i = 0 THEN x ELSE step(i, f[i - 1])]
  BY DEF after
<1> HIDE DEF after, N, x, T
<1>7. PICK f : IsIterate(f, T, g, x, N)
  <2> HIDE DEF g
  <2> QED
    BY <1>1, <1>4, IterateExists
<1> HIDE DEF step
<1>8. \A i \in 1 .. N : f[i] = step(i, f[i - 1])
  <2> TAKE i \in 1 .. N
  <2>1. i - 1 \in 0 .. N
    BY <1>1
  <2>2. f[i - 1] \in T /\ f[i] = g[<<i, f[i - 1]>>]
    BY <1>7, <2>1 DEF IsIterate
  <2> QED
    BY <2>2
<1>9. f = [i \in 0 .. N |-> IF i = 0 THEN x ELSE step(i, f[i - 1])]
  <2> HIDE DEF g
  <2>1. f \in [0 .. N -> T] /\ f[0] = x
    BY <1>7 DEF IsIterate
  <2>2. \A i \in 0 .. N : f[i] = IF i = 0 THEN x ELSE step(i, f[i - 1])
    BY <1>1, <1>8, <2>1
  <2> QED
    BY <2>1, <2>2
<1>10. after = [i \in 0 .. N |-> IF i = 0 THEN x ELSE step(i, after[i - 1])]
  BY <1>6, <1>9, Zenon
<1> DEFINE G == {i \in 0 .. N : after[i] \in T /\ after[i].list \in Seq(DentryRecs) /\ Len(after[i].list) = i
                                /\ \A j \in 1 .. i : after[i].list[j] = list[j]}
<1>11. 0 \in G
  <2>1. after[0] = x
    BY <1>1, <1>10
  <2>2. x.list = <<>> /\ <<>> \in Seq(DentryRecs) /\ Len(<<>>) = 0
    BY DEF x
  <2>3. 0 \in 0 .. N /\ \A j \in 1 .. 0 : FALSE
    BY <1>1
  <2> QED
    BY <1>1, <2>1, <2>2, <2>3
<1>12. ASSUME NEW i \in 1 .. N, i - 1 \in G PROVE i \in G
  <2>0. i \in Nat /\ i \in 0 .. N /\ i # 0
    BY <1>1
  <2>7. after[i] = step(i, after[i - 1])
    BY <1>10, <2>0
  <2>1. PICK a : a = after[i - 1] /\ after[i] = step(i, a) /\ i \in Nat /\ i \in 0 .. N
    BY <2>0, <2>7
  <2>2. a \in T /\ a.list \in Seq(DentryRecs) /\ Len(a.list) = i - 1 /\ \A j \in 1 .. (i - 1) : a.list[j] = list[j]
    BY <1>12, <2>1
  <2>3. after[i] \in T /\ after[i].list = Append(a.list, list[i])
    BY <1>3, <2>1, <2>2
  <2>4. PICK b : b = Append(a.list, list[i])
    OBVIOUS
  <2>5. b \in Seq(DentryRecs) /\ Len(b) = i /\ b[i] = list[i] /\ \A j \in 1 .. (i - 1) : b[j] = a.list[j]
    <3>1. PICK s \in Seq(DentryRecs) : s = a.list
      BY <2>2
    <3>2. list[i] \in DentryRecs
      BY <1>2
    <3>3. /\ Append(s, list[i]) \in Seq(DentryRecs) /\ Len(Append(s, list[i])) = Len(s) + 1
          /\ Append(s, list[i])[Len(s) + 1] = list[i] /\ \A j \in 1 .. Len(s) : Append(s, list[i])[j] = s[j]
      BY <3>2, AppendRemoves
    <3>4. Len(s) = i - 1 /\ Len(s) + 1 = i
      BY <2>1, <2>2, <3>1
    <3> QED
      BY <2>4, <3>1, <3>3, <3>4
  <2>6. \A j \in 1 .. i : b[j] = list[j]
    <3> TAKE j \in 1 .. i
    <3>1. j = i \/ j \in 1 .. (i - 1)
      BY <2>1
    <3> QED
      BY <2>2, <2>5, <3>1
  <2> QED
    BY <2>1, <2>3, <2>4, <2>5, <2>6
<1> HIDE DEF G
<1>13. \A i \in 0 .. N : i \in G
  BY <1>1, <1>11, <1>12, UpTo
<1>14. N \in G
  BY <1>1, <1>13
<1>15. after[N].list \in Seq(DentryRecs) /\ Len(after[N].list) = N /\ \A j \in 1 .. N : after[N].list[j] = list[j]
  BY <1>14 DEF G
<1>16. PICK s \in Seq(DentryRecs) : s = after[N].list
  BY <1>15
<1>17. Len(s) = Len(list) /\ \A j \in 1 .. Len(s) : s[j] = list[j]
  BY <1>15, <1>16 DEF N
<1>18. s = list
  BY <1>17, SeqEqual
<1> QED
  BY <1>5, <1>16, <1>18

LEMMA DentryAddKeeps ==
  ASSUME VfsTyped, NamesKept(dentries, dheld), NEW name \in PathNames, NEW v \in Vnodes
  PROVE  dentry_add(name, v) \in Seq(DentryRecs) /\ NamesKept(dentry_add(name, v), dheld)
<1>1. dentries \in Seq(DentryRecs) /\ dheld \in Seq(PathNames)
  BY DEF VfsTyped
<1>2. PICK d : d = [name |-> name, vnode |-> v, refcount |-> 1]
  OBVIOUS
<1>3. d \in DentryRecs /\ d.refcount = 1 /\ d.name = name
  BY <1>2 DEF DentryRecs
<1>4. PICK new : new = <<d>> \o dentries
  OBVIOUS
<1>5. CASE DentryAt(name) # {}
  BY <1>1, <1>5 DEF dentry_add
<1>6. CASE DentryAt(name) = {}
  <2>1. \A i \in DOMAIN dentries : dentries[i].name # d.name
    BY <1>3, <1>6 DEF DentryAt
  <2>2. new \in Seq(DentryRecs) /\ NamesKept(new, dheld)
    BY <1>1, <1>3, <1>4, <2>1, NamesAdd
  <2>3. ASSUME NEW i \in DOMAIN new PROVE new[i].refcount >= 1
    <3>1. PICK c : c = Cardinality(PlacesOf(dheld, {new[i].name}))
      OBVIOUS
    <3>2. c \in Nat /\ new[i].refcount >= 1 + c /\ new[i] \in DentryRecs
      <4>1. c \in Nat
        BY <1>1, <3>1, PlacesFinite
      <4>2. new[i].refcount >= 1 + c
        BY <2>2, <3>1 DEF NamesKept
      <4> QED
        BY <2>2, <4>1, <4>2
    <3>3. new[i].refcount \in Int
      BY <3>2 DEF DentryRecs
    <3> QED
      BY <3>2, <3>3
  <2>4. dentry_prune(new) = new
    BY <2>2, <2>3, PruneKeeps
  <2>5. dentry_add(name, v) = new
    BY <1>2, <1>4, <1>6, <2>4 DEF dentry_add
  <2> QED
    BY <2>2, <2>5
<1> QED
  BY <1>5, <1>6
-----------------------------------------------------------------------------
NoMount == [target |-> <<>>, root |-> 0]

LEMMA FindMountIs ==
  ASSUME VfsTyped, NEW path
  PROVE  vfs_find_mount(path) \in MountRecs \cup {NoMount}
<1> DEFINE N == Len(mounts)
           T == MountRecs \cup {NoMount}
           x == [target |-> <<>>, root |-> 0]
           step(i, b) == IF Len(mounts[i].target) > Len(b.target) /\ IsPrefix(mounts[i].target, path)
                         THEN mounts[i] ELSE b
           g == [p \in (1 .. N) \X T |-> step(p[1], p[2])]
           best[i \in 0 .. Len(mounts)] ==
            IF i = 0 THEN [target |-> <<>>, root |-> 0]
            ELSE IF Len(mounts[i].target) > Len(best[i - 1].target) /\ IsPrefix(mounts[i].target, path)
                 THEN mounts[i] ELSE best[i - 1]
<1>0. mounts \in Seq(MountRecs)
  BY DEF VfsTyped
<1>1. N \in Nat /\ x \in T /\ \A i \in 1 .. N : mounts[i] \in T
  BY <1>0 DEF NoMount
<1>5. vfs_find_mount(path) = best[N]
  BY DEF vfs_find_mount
<1>6. best = CHOOSE f : f = [i \in 0 .. N |-> IF i = 0 THEN x ELSE step(i, f[i - 1])]
  BY DEF best
<1> HIDE DEF best, N, x, T
<1>4. g \in [(1 .. N) \X T -> T]
  BY <1>1
<1>3. \A i \in 1 .. N : \A b \in T : step(i, b) \in T
  BY <1>1
<1> HIDE DEF step
<1>7. PICK f : IsIterate(f, T, g, x, N)
  <2> HIDE DEF g
  <2> QED
    BY <1>1, <1>4, IterateExists
<1>8. \A i \in 1 .. N : f[i] = step(i, f[i - 1])
  <2> TAKE i \in 1 .. N
  <2>1. i - 1 \in 0 .. N
    BY <1>1
  <2>2. f[i - 1] \in T /\ f[i] = g[<<i, f[i - 1]>>]
    BY <1>7, <2>1 DEF IsIterate
  <2> QED
    BY <2>2
<1>9. f = [i \in 0 .. N |-> IF i = 0 THEN x ELSE step(i, f[i - 1])]
  <2> HIDE DEF g
  <2>1. f \in [0 .. N -> T] /\ f[0] = x
    BY <1>7 DEF IsIterate
  <2>2. \A i \in 0 .. N : f[i] = IF i = 0 THEN x ELSE step(i, f[i - 1])
    BY <1>1, <1>8, <2>1
  <2> QED
    BY <2>1, <2>2
<1>10. best = [i \in 0 .. N |-> IF i = 0 THEN x ELSE step(i, best[i - 1])]
  BY <1>6, <1>9, Zenon
<1> DEFINE G == {i \in 0 .. N : best[i] \in T}
<1>11. 0 \in G
  BY <1>1, <1>10
<1>12. ASSUME NEW i \in 1 .. N, i - 1 \in G PROVE i \in G
  <2>1. i \in 0 .. N /\ i # 0 /\ best[i - 1] \in T
    BY <1>1, <1>12
  <2>2. best[i] = step(i, best[i - 1])
    BY <1>10, <2>1
  <2> QED
    BY <1>3, <2>1, <2>2
<1> HIDE DEF G
<1>13. \A i \in 0 .. N : i \in G
  BY <1>1, <1>11, <1>12, UpTo
<1>14. N \in G
  BY <1>1, <1>13
<1> QED
  BY <1>5, <1>14 DEF G, T

LEMMA FreshIs ==
  ASSUME VfsTyped, FreshVnodes # {}
  PROVE  FreshVnode \in Vnodes \ {0} /\ vnode[FreshVnode].refcount = 0
<1>1. FreshVnodes \in SUBSET Nat
  BY VfsAssumption DEF FreshVnodes
<1>2. \E v \in FreshVnodes : \A w \in FreshVnodes : v <= w
  BY <1>1, LeastElement
<1>3. FreshVnode \in FreshVnodes
  BY <1>2 DEF FreshVnode
<1> QED
  BY <1>3 DEF FreshVnodes

\* What path_lookup gives: a vnode with one reference more than before.
Found(r) ==
    /\ r.v \in Vnodes /\ Bump(r.vnode, vnode, r.v, 1)
    /\ r.dentries \in Seq(DentryRecs) /\ NamesKept(r.dentries, dheld)

LEMMA LookupFinds ==
  ASSUME VfsInv, NEW path \in VfsPaths, LookupFits(path_lookup(path)), path_lookup(path).ok
  PROVE  Found(path_lookup(path))
<1>1. /\ VfsTyped /\ VnodesTyped(vnode) /\ dentries \in Seq(DentryRecs) /\ dheld \in Seq(PathNames)
      /\ NamesKept(dentries, dheld) /\ FreshVnodes # {}
  BY DEF VfsInv, VfsTyped, LookupFits
<1>2. PICK r : r = path_lookup(path)
  OBVIOUS
<1>3. PICK mnt : mnt = vfs_find_mount(path) /\ mnt \in MountRecs \cup {NoMount}
  BY <1>1, FindMountIs
<1>4. PICK rest : rest = (IF mnt.target = <<>> THEN path ELSE SubSeq(path, Len(mnt.target) + 1, Len(path)))
  OBVIOUS
<1>5. rest \in PathNames /\ mnt.root \in Vnodes
  <2>1. path \in PathNames /\ path \in Seq(PathParts)
    BY PathsAreNames DEF PathNames
  <2>2. mnt.target = <<>> \/ mnt.target \in Seq(PathParts)
    BY <1>3 DEF MountRecs, NoMount, PathNames
  <2>3. mnt.root \in Vnodes
    BY <1>3, VfsAssumption DEF MountRecs, NoMount
  <2>4. CASE mnt.target = <<>>
    BY <1>4, <2>1, <2>3, <2>4
  <2>5. CASE mnt.target # <<>>
    <3>1. PICK k \in Nat, n \in Nat : k = Len(mnt.target) + 1 /\ n = Len(path)
      BY <2>1, <2>2, <2>5
    <3>2. \A j \in k .. n : path[j] \in PathParts
      <4>1. k >= 1
        BY <2>2, <2>5, <3>1
      <4> QED
        BY <2>1, <3>1, <4>1
    <3>3. SubSeq(path, k, n) \in Seq(PathParts)
      BY <3>2, SubSeqProperties
    <3> QED
      BY <1>4, <2>3, <2>5, <3>1, <3>3 DEF PathNames
  <2> QED
    BY <2>4, <2>5
<1>6. CASE DentryAt(path) # {}
  <2>1. PICK i : i = CHOOSE j \in DentryAt(path) : TRUE
    OBVIOUS
  <2>2. i \in 1 .. Len(dentries)
    BY <1>1, <1>6, <2>1 DEF DentryAt
  <2>3. dentries[i] \in DentryRecs /\ dentries[i].vnode \in Vnodes
    <3>1. dentries[i] \in DentryRecs
      BY <1>1, <2>2
    <3> QED
      BY <3>1 DEF DentryRecs
  <2>4. r = [ok |-> TRUE, v |-> dentries[i].vnode, vnode |-> vnode_get(vnode, dentries[i].vnode),
             dentries |-> [dentries EXCEPT ![i].refcount = dentries[i].refcount + 1]]
    BY <1>2, <1>6, <2>1 DEF path_lookup
  <2>5. Bump(vnode_get(vnode, dentries[i].vnode), vnode, dentries[i].vnode, 1)
    BY <1>1, <2>3, RefsBump DEF vnode_get
  <2>6. PICK ds : ds = [dentries EXCEPT ![i].refcount = dentries[i].refcount + 1] /\ ds = Recount(dentries, i, 1)
    BY DEF Recount
  <2>7. Recounted(ds, dentries, i, 1)
    <3>1. Recounted(Recount(dentries, i, 1), dentries, i, 1)
      BY <1>1, <2>2, RecountIs
    <3> QED
      BY <2>6, <3>1
  <2>8. ds \in Seq(DentryRecs) /\ NamesKept(ds, dheld)
    BY <1>1, <2>7, NamesRecount DEF Recounted
  <2> QED
    BY <1>2, <2>3, <2>4, <2>5, <2>6, <2>8 DEF Found
<1>7. CASE DentryAt(path) = {} /\ rest \in {<<>>, RootPath}
  <2>1. r = [ok |-> TRUE, v |-> mnt.root, vnode |-> vnode_get(vnode, mnt.root), dentries |-> dentries]
    BY <1>2, <1>3, <1>4, <1>7 DEF path_lookup
  <2>2. Bump(vnode_get(vnode, mnt.root), vnode, mnt.root, 1)
    BY <1>1, <1>5, RefsBump DEF vnode_get
  <2> QED
    BY <1>1, <1>2, <1>5, <2>1, <2>2 DEF Found
<1>8. CASE DentryAt(path) = {} /\ rest \notin {<<>>, RootPath}
  <2>1. PICK node : node = (IF mnt.target = <<>> THEN "missing" ELSE Walk(mnt.fs, rest))
    OBVIOUS
  <2>2. r = IF node = "missing" THEN [ok |-> FALSE, v |-> 0, vnode |-> vnode, dentries |-> dentries]
            ELSE [ok |-> TRUE, v |-> FreshVnode,
                  vnode |-> [vnode EXCEPT ![FreshVnode] = [size |-> 1, refcount |-> 1]],
                  dentries |-> dentry_add(rest, FreshVnode)]
    BY <1>2, <1>3, <1>4, <1>8, <2>1 DEF path_lookup
  <2>3. r.ok
    BY <1>2
  <2>4. r = [ok |-> TRUE, v |-> FreshVnode,
             vnode |-> [vnode EXCEPT ![FreshVnode] = [size |-> 1, refcount |-> 1]],
             dentries |-> dentry_add(rest, FreshVnode)]
    BY <2>2, <2>3
  <2>5. PICK v : v = FreshVnode /\ v \in Vnodes /\ vnode[v].refcount = 0
    BY <1>1, FreshIs
  <2>6. Bump([vnode EXCEPT ![v] = [size |-> 1, refcount |-> 1]], vnode, v, 1)
    BY <1>1, <2>5, FreshBump
  <2>7. dentry_add(rest, v) \in Seq(DentryRecs) /\ NamesKept(dentry_add(rest, v), dheld)
    BY <1>1, <1>5, <2>5, DentryAddKeeps
  <2>8. r.v = v /\ r.vnode = [vnode EXCEPT ![v] = [size |-> 1, refcount |-> 1]] /\ r.dentries = dentry_add(rest, v)
    BY <2>4, <2>5
  <2> QED
    BY <1>2, <2>5, <2>6, <2>7, <2>8 DEF Found
<1> QED
  BY <1>6, <1>7, <1>8
-----------------------------------------------------------------------------
SameElsewhere(fl2, fl, f) ==
    \A g \in FileIds \ {f} : fl2[g].refcount = fl[g].refcount /\ fl2[g].vnode = fl[g].vnode

\* The files that use a vnode when one file has changed.
LEMMA UsesMove ==
  ASSUME NEW fl, NEW fl2, NEW f \in FileIds, SameElsewhere(fl2, fl, f), NEW w
  PROVE  /\ Cardinality(FileUses(fl, w)) \in Nat
         /\ Cardinality(FileUses(fl2, w)) = Cardinality(FileUses(fl, w))
              - (IF fl[f].refcount > 0 /\ fl[f].vnode = w THEN 1 ELSE 0)
              + (IF fl2[f].refcount > 0 /\ fl2[f].vnode = w THEN 1 ELSE 0)
<1>1. PICK A, B : A = FileUses(fl, w) /\ B = FileUses(fl2, w)
  OBVIOUS
<1>2. A \ {f} = B \ {f}
  BY <1>1 DEF FileUses, SameElsewhere
<1>3. IsFiniteSet(A)
  <2>1. A \in SUBSET FileIds /\ IsFiniteSet(FileIds)
    BY <1>1, VfsAssumption DEF FileUses
  <2> QED
    BY <2>1, FS_Subset
<1>4. /\ Cardinality(A) \in Nat
      /\ Cardinality(B) = Cardinality(A) - (IF f \in A THEN 1 ELSE 0) + (IF f \in B THEN 1 ELSE 0)
  BY <1>2, <1>3, CountMoves
<1>5. (f \in A <=> fl[f].refcount > 0 /\ fl[f].vnode = w) /\ (f \in B <=> fl2[f].refcount > 0 /\ fl2[f].vnode = w)
  BY <1>1 DEF FileUses
<1> QED
  BY <1>1, <1>4, <1>5

\* vfs_close gives one reference to the file back, and with the last one that of the file
\* to its vnode.
LEMMA ClosingCounts ==
  ASSUME NEW mt \in Seq(MountRecs), NEW vh \in [Vnodes -> Nat], NEW fl, FilesTyped(fl), NEW vn, VnodesTyped(vn),
         VnodesCounted(vn, mt, fl, vh), NEW f \in FileIds, fl[f].refcount > 0
  PROVE  /\ FilesTyped(Closing(fl, vn, f).file) /\ VnodesTyped(Closing(fl, vn, f).vnode)
         /\ VnodesCounted(Closing(fl, vn, f).vnode, mt, Closing(fl, vn, f).file, vh)
         /\ \A g \in FileIds : Closing(fl, vn, f).file[g].refcount = fl[g].refcount - (IF g = f THEN 1 ELSE 0)
<1>1. PICK fl2, vn2 : fl2 = Closing(fl, vn, f).file /\ vn2 = Closing(fl, vn, f).vnode
  OBVIOUS
<1>2. \A g \in FileIds : fl[g].refcount \in Int /\ fl[g].vnode \in Vnodes
  BY FilesAre
<1>3. CASE fl[f].refcount - 1 > 0
  <2>1. vn2 = vn /\ fl2 = [fl EXCEPT ![f] = [fl[f] EXCEPT !.refcount = fl[f].refcount - 1]]
    BY <1>1, <1>3 DEF Closing
  <2>2. PICK r : r = [fl[f] EXCEPT !.refcount = fl[f].refcount - 1]
    OBVIOUS
  <2>3. IsFile(r) /\ r.refcount = fl[f].refcount - 1 /\ r.vnode = fl[f].vnode
    <3>1. PICK n \in Int : n = fl[f].refcount - 1
      BY <1>2
    <3>2. r = [fl[f] EXCEPT !.refcount = n]
      BY <2>2, <3>1
    <3>3. IsFile(fl[f])
      BY FilesAre
    <3> QED
      BY <3>1, <3>2, <3>3, FileRecount
  <2>5. fl2 = SetFile(fl, f, r)
    BY <2>1, <2>2 DEF SetFile
  <2>4. \A g \in FileIds : fl2[g] = IF g = f THEN r ELSE fl[g]
    BY <2>3, <2>5, SetFileIs
  <2>6. FilesTyped(fl2)
    BY <2>3, <2>5, SetFileIs
  <2>7. \A g \in FileIds : fl2[g].refcount = fl[g].refcount - (IF g = f THEN 1 ELSE 0)
    BY <1>2, <2>3, <2>4
  <2>8. \A g \in FileIds : fl2[g].vnode = fl[g].vnode /\ (fl2[g].refcount > 0 <=> fl[g].refcount > 0)
    BY <1>2, <1>3, <2>3, <2>4
  <2>9. \A w : FileUses(fl2, w) = FileUses(fl, w)
    BY <2>8 DEF FileUses
  <2>10. VnodesCounted(vn2, mt, fl2, vh)
    BY <2>1, <2>9 DEF VnodesCounted
  <2> QED
    BY <1>1, <2>1, <2>6, <2>7, <2>10
<1>4. CASE ~ (fl[f].refcount - 1 > 0)
  <2>1. vn2 = vnode_put(vn, fl[f].vnode) /\ fl2 = [fl EXCEPT ![f] = ClosedFile]
    BY <1>1, <1>4 DEF Closing
  <2>2. PICK r, v : r = ClosedFile /\ v = fl[f].vnode
    OBVIOUS
  <2>3. IsFile(r) /\ r.refcount = 0 /\ v \in Vnodes
    BY <1>2, <2>2, VfsAssumption, FileNew DEF ClosedFile
  <2>5. fl2 = SetFile(fl, f, r)
    BY <2>1, <2>2 DEF SetFile
  <2>4. \A g \in FileIds : fl2[g] = IF g = f THEN r ELSE fl[g]
    BY <2>3, <2>5, SetFileIs
  <2>6. FilesTyped(fl2)
    BY <2>3, <2>5, SetFileIs
  <2>7. \A g \in FileIds : fl2[g].refcount = fl[g].refcount - (IF g = f THEN 1 ELSE 0)
    BY <1>2, <1>4, <2>3, <2>4
  <2>8. Bump(vn2, vn, v, -1)
    BY <2>1, <2>2, <2>3, RefsBump DEF vnode_put
  <2>9. ASSUME NEW w \in Vnodes
        PROVE  Cardinality(FileUses(fl2, w)) = Cardinality(FileUses(fl, w)) + (IF w = v THEN -1 ELSE 0)
    <3>1. SameElsewhere(fl2, fl, f)
      BY <2>4 DEF SameElsewhere
    <3>2. /\ Cardinality(FileUses(fl, w)) \in Nat
          /\ Cardinality(FileUses(fl2, w)) = Cardinality(FileUses(fl, w))
              - (IF fl[f].refcount > 0 /\ fl[f].vnode = w THEN 1 ELSE 0)
              + (IF fl2[f].refcount > 0 /\ fl2[f].vnode = w THEN 1 ELSE 0)
      BY <3>1, UsesMove
    <3>3. fl2[f].refcount = 0
      BY <2>3, <2>4
    <3> QED
      BY <2>2, <3>2, <3>3
  <2>10. VnodesCounted(vn2, mt, fl2, vh)
    BY <2>3, <2>8, <2>9, FileMoves
  <2> QED
    BY <1>1, <2>6, <2>7, <2>8, <2>10 DEF Bump
<1> QED
  BY <1>3, <1>4
-----------------------------------------------------------------------------
LEMMA ClosingStays ==
  ASSUME NEW A, NEW B, "RDONLY" \in A, 0 \in B, NEW fl \in [FileIds -> FileRecs(A, B)],
         NEW vn \in [Vnodes -> VnodeRecs], NEW f \in FileIds
  PROVE  Closing(fl, vn, f) \in [file : [FileIds -> FileRecs(A, B)], vnode : [Vnodes -> VnodeRecs]]
<1>1. PICK r, v, n : r = fl[f] /\ v = fl[f].vnode /\ n = fl[f].refcount - 1
  OBVIOUS
<1>2. r \in FileRecs(A, B) /\ v \in Vnodes /\ n \in Int
  BY <1>1 DEF FileRecs
<1>3. [r EXCEPT !.refcount = n] \in FileRecs(A, B)
  BY <1>2 DEF FileRecs
<1>4. ClosedFile \in FileRecs(A, B)
  BY VfsAssumption DEF ClosedFile, FileRecs
<1>5. PICK q \in FileRecs(A, B), c \in FileRecs(A, B) : q = [r EXCEPT !.refcount = n] /\ c = ClosedFile
  BY <1>3, <1>4
<1>6. vnode_put(vn, v) \in [Vnodes -> VnodeRecs]
  BY <1>2, RefsBump DEF vnode_put, Bump, VnodesTyped
<1>7. CASE n > 0
  <2>1. Closing(fl, vn, f) = [file |-> [fl EXCEPT ![f] = q], vnode |-> vn]
    BY <1>1, <1>5, <1>7 DEF Closing
  <2> QED
    BY <2>1
<1>8. CASE ~ (n > 0)
  <2>1. Closing(fl, vn, f) = [file |-> [fl EXCEPT ![f] = c], vnode |-> vnode_put(vn, v)]
    BY <1>1, <1>5, <1>8 DEF Closing
  <2> QED
    BY <1>6, <2>1
<1> QED
  BY <1>7, <1>8

\* The descriptors of a file from number i on.
FdsFrom(fds, i, f) == {j \in Fds : j >= i /\ fds[j] = f}

\* Every entry of the descriptor table is closed: after i turns of the loop the files have
\* the references of callers and of the descriptors from i on.
LEMMA DestroyCounts ==
  ASSUME VfsInv, fd_table_destroy
  PROVE  /\ FilesTyped(file') /\ VnodesTyped(vnode') /\ VnodesCounted(vnode', mounts, file', vheld)
         /\ \A f \in FileIds : file'[f].refcount = fheldv[f]
<1>1. /\ mounts \in Seq(MountRecs) /\ VnodesTyped(vnode) /\ FilesTyped(file) /\ vheld \in [Vnodes -> Nat]
      /\ fd_files \in [Fds -> FileIds \cup {NoFile}] /\ fheldv \in [FileIds -> Nat] /\ MAX_FD \in Nat
      /\ Fds = 0 .. (MAX_FD - 1)
  BY VfsAssumption DEF VfsInv, VfsTyped, Fds
<1>2. PICK F, P : file \in [FileIds -> FileRecs(F, P)]
  BY <1>1 DEF FilesTyped
<1>3. PICK A, B : A = F \cup {"RDONLY"} /\ B = P \cup {0}
  OBVIOUS
<1> DEFINE N == MAX_FD
           T == [file : [FileIds -> FileRecs(A, B)], vnode : [Vnodes -> VnodeRecs]]
           x == [file |-> file, vnode |-> vnode]
           step(i, c) == IF fd_files[i - 1] = NoFile THEN c ELSE Closing(c.file, c.vnode, fd_files[i - 1])
           g == [p \in (1 .. N) \X T |-> step(p[1], p[2])]
           after[i \in 0 .. MAX_FD] ==
            IF i = 0 THEN [file |-> file, vnode |-> vnode]
            ELSE IF fd_files[i - 1] = NoFile THEN after[i - 1]
                 ELSE Closing(after[i - 1].file, after[i - 1].vnode, fd_files[i - 1])
<1>4. x \in T
  <2>1. FileRecs(F, P) \subseteq FileRecs(A, B)
    BY <1>3 DEF FileRecs
  <2>2. file \in [FileIds -> FileRecs(A, B)]
    BY <1>2, <2>1
  <2> QED
    BY <1>1, <2>2 DEF VnodesTyped
<1>5. \A i \in 1 .. N : i - 1 \in Fds /\ fd_files[i - 1] \in FileIds \cup {NoFile}
  BY <1>1
<1>6. ASSUME NEW i \in 1 .. N, NEW c \in T PROVE step(i, c) \in T
  <2>1. CASE fd_files[i - 1] = NoFile
    BY <2>1
  <2>2. CASE fd_files[i - 1] # NoFile
    <3>1. fd_files[i - 1] \in FileIds /\ "RDONLY" \in A /\ 0 \in B
      BY <1>3, <1>5, <2>2
    <3>2. c.file \in [FileIds -> FileRecs(A, B)] /\ c.vnode \in [Vnodes -> VnodeRecs]
      OBVIOUS
    <3>3. Closing(c.file, c.vnode, fd_files[i - 1]) \in T
      BY <3>1, <3>2, ClosingStays
    <3> QED
      BY <2>2, <3>3
  <2> QED
    BY <2>1, <2>2
<1>7. file' = after[N].file /\ vnode' = after[N].vnode
  BY DEF fd_table_destroy
<1>8. after = CHOOSE f : f = [i \in 0 .. N |-> IF i = 0 THEN x ELSE step(i, f[i - 1])]
  BY DEF after
<1>n. N \in Nat
  BY <1>1
<1>t. \A c \in T : c.file \in [FileIds -> FileRecs(A, B)] /\ c.vnode \in [Vnodes -> VnodeRecs]
  OBVIOUS
<1>x. x.file = file /\ x.vnode = vnode
  OBVIOUS
<1> HIDE DEF after, N, x, T
<1>9. g \in [(1 .. N) \X T -> T]
  <2> HIDE DEF step
  <2> QED
    BY <1>6
<1>10. PICK f : IsIterate(f, T, g, x, N)
  <2> HIDE DEF g
  <2> QED
    BY <1>4, <1>n, <1>9, IterateExists
<1>s. \A i, c : step(i, c) = IF fd_files[i - 1] = NoFile THEN c ELSE Closing(c.file, c.vnode, fd_files[i - 1])
  OBVIOUS
<1> HIDE DEF step
<1>11. \A i \in 1 .. N : f[i] = step(i, f[i - 1])
  <2> TAKE i \in 1 .. N
  <2>1. i - 1 \in 0 .. N
    BY <1>n
  <2>2. f[i - 1] \in T /\ f[i] = g[<<i, f[i - 1]>>]
    BY <1>10, <2>1 DEF IsIterate
  <2> QED
    BY <2>2
<1>12. f = [i \in 0 .. N |-> IF i = 0 THEN x ELSE step(i, f[i - 1])]
  <2> HIDE DEF g
  <2>1. f \in [0 .. N -> T] /\ f[0] = x
    BY <1>10 DEF IsIterate
  <2>2. \A i \in 0 .. N : f[i] = IF i = 0 THEN x ELSE step(i, f[i - 1])
    BY <1>n, <1>11, <2>1
  <2> QED
    BY <2>1, <2>2
<1>13. after = [i \in 0 .. N |-> IF i = 0 THEN x ELSE step(i, after[i - 1])]
  BY <1>8, <1>12, Zenon
<1> HIDE DEF g
<1> DEFINE Counted(c, i) ==
             /\ VnodesCounted(c.vnode, mounts, c.file, vheld)
             /\ \A k \in FileIds : c.file[k].refcount = Cardinality(FdsFrom(fd_files, i, k)) + fheldv[k]
           G == {i \in 0 .. N : after[i] \in T /\ Counted(after[i], i)}
<1>14. 0 \in G
  <2>1. after[0] = x /\ 0 \in 0 .. N
    BY <1>n, <1>13
  <2>2. \A k : FdsFrom(fd_files, 0, k) = {j \in Fds : fd_files[j] = k}
    BY <1>1 DEF FdsFrom
  <2>3. Counted(x, 0)
    BY <1>x, <2>2 DEF VfsInv, FilesCounted
  <2> QED
    BY <1>4, <2>1, <2>3
<1>15. ASSUME NEW i \in 1 .. N, i - 1 \in G PROVE i \in G
  <2>0. i \in Nat /\ i \in 0 .. N /\ i # 0 /\ i - 1 \in Fds /\ i - 1 \in Nat
    BY <1>n, <1>5
  <2>1. after[i] = step(i, after[i - 1])
    BY <1>13, <2>0
  <2>2. PICK c, h : c = after[i - 1] /\ h = fd_files[i - 1] /\ h \in FileIds \cup {NoFile}
    BY <1>5
  <2>3. c \in T /\ VnodesCounted(c.vnode, mounts, c.file, vheld)
        /\ \A k \in FileIds : c.file[k].refcount = Cardinality(FdsFrom(fd_files, i - 1, k)) + fheldv[k]
    BY <1>15, <2>2
  <2>4. after[i] = IF h = NoFile THEN c ELSE Closing(c.file, c.vnode, h)
    BY <1>s, <2>1, <2>2
  <2>5. after[i] \in T
    BY <1>6, <2>1, <2>2, <2>3
  <2>6. ASSUME NEW k \in FileIds
        PROVE  /\ Cardinality(FdsFrom(fd_files, i, k)) \in Nat
               /\ Cardinality(FdsFrom(fd_files, i - 1, k)) = Cardinality(FdsFrom(fd_files, i, k)) + (IF h = k THEN 1 ELSE 0)
    <3>1. PICK X, Y, z : X = FdsFrom(fd_files, i, k) /\ Y = FdsFrom(fd_files, i - 1, k) /\ z = i - 1
      OBVIOUS
    <3>2. X \ {z} = Y \ {z} /\ z \notin X /\ (z \in Y <=> h = k)
      BY <1>1, <2>0, <2>2, <3>1 DEF FdsFrom
    <3>3. IsFiniteSet(X)
      <4>1. X \in SUBSET (0 .. (MAX_FD - 1)) /\ IsFiniteSet(0 .. (MAX_FD - 1))
        BY <1>1, <3>1, FS_Interval DEF FdsFrom
      <4> QED
        BY <4>1, FS_Subset
    <3>4. /\ Cardinality(X) \in Nat
          /\ Cardinality(Y) = Cardinality(X) - (IF z \in X THEN 1 ELSE 0) + (IF z \in Y THEN 1 ELSE 0)
      BY <3>2, <3>3, CountMoves
    <3> QED
      BY <3>1, <3>2, <3>4
  <2>7. CASE h = NoFile
    <3>1. \A k \in FileIds : h # k
      BY <2>7, VfsAssumption
    <3>2. \A k \in FileIds : Cardinality(FdsFrom(fd_files, i - 1, k)) = Cardinality(FdsFrom(fd_files, i, k))
      BY <2>6, <3>1
    <3>3. Counted(c, i)
      BY <2>3, <3>2
    <3> QED
      BY <2>0, <2>4, <2>5, <2>7, <3>3
  <2>8. CASE h # NoFile
    <3>1. h \in FileIds /\ after[i] = Closing(c.file, c.vnode, h)
      BY <2>2, <2>4, <2>8
    <3>2. FilesTyped(c.file) /\ VnodesTyped(c.vnode)
      BY <1>t, <2>3 DEF FilesTyped, VnodesTyped
    <3>3. c.file[h].refcount > 0
      <4>1. fheldv[h] \in Nat
        BY <1>1, <3>1
      <4> QED
        BY <2>3, <2>6, <3>1, <4>1
    <3>4. /\ VnodesCounted(Closing(c.file, c.vnode, h).vnode, mounts, Closing(c.file, c.vnode, h).file, vheld)
          /\ \A k \in FileIds : Closing(c.file, c.vnode, h).file[k].refcount = c.file[k].refcount - (IF k = h THEN 1 ELSE 0)
      BY <1>1, <2>3, <3>1, <3>2, <3>3, ClosingCounts
    <3>5. ASSUME NEW k \in FileIds
          PROVE  after[i].file[k].refcount = Cardinality(FdsFrom(fd_files, i, k)) + fheldv[k]
      <4>1. fheldv[k] \in Nat
        BY <1>1
      <4>2. PICK a, b : a = Cardinality(FdsFrom(fd_files, i, k)) /\ b = Cardinality(FdsFrom(fd_files, i - 1, k))
        OBVIOUS
      <4>3. a \in Nat /\ b = a + (IF h = k THEN 1 ELSE 0) /\ c.file[k].refcount = b + fheldv[k]
        BY <2>3, <2>6, <4>2
      <4>4. after[i].file[k].refcount = c.file[k].refcount - (IF k = h THEN 1 ELSE 0)
        BY <3>1, <3>4
      <4>5. after[i].file[k].refcount = a + fheldv[k]
        BY <4>1, <4>3, <4>4
      <4> QED
        BY <4>2, <4>5
    <3>6. Counted(after[i], i)
      BY <3>1, <3>4, <3>5
    <3> QED
      BY <2>0, <2>5, <3>6
  <2> QED
    BY <2>7, <2>8
<1>16. \A i \in 0 .. N : i \in G
  <2> HIDE DEF G
  <2> QED
    BY <1>n, <1>14, <1>15, UpTo
<1>17. after[N] \in T /\ Counted(after[N], N)
  <2>1. N \in 0 .. N
    BY <1>n
  <2> QED
    BY <1>16, <2>1
<1>18. FilesTyped(file') /\ VnodesTyped(vnode')
  BY <1>7, <1>t, <1>17 DEF FilesTyped, VnodesTyped
<1>19. ASSUME NEW k \in FileIds PROVE file'[k].refcount = fheldv[k]
  <2>1. FdsFrom(fd_files, N, k) = {}
    BY <1>1 DEF N, FdsFrom
  <2>2. Cardinality(FdsFrom(fd_files, N, k)) = 0 /\ fheldv[k] \in Nat
    BY <1>1, <2>1, FS_EmptySet
  <2> QED
    BY <1>7, <1>17, <2>2
<1> QED
  BY <1>7, <1>17, <1>18, <1>19
-----------------------------------------------------------------------------
FdUses(fds, f) == {i \in Fds : fds[i] = f}
SetFd(fds, i, h) == [fds EXCEPT ![i] = h]

LEMMA FdsFinite ==
  ASSUME NEW fds, NEW f
  PROVE  IsFiniteSet(FdUses(fds, f)) /\ Cardinality(FdUses(fds, f)) \in Nat
<1>1. FdUses(fds, f) \in SUBSET (0 .. (MAX_FD - 1)) /\ IsFiniteSet(0 .. (MAX_FD - 1))
  <2>1. 0 \in Int /\ MAX_FD - 1 \in Int
    BY VfsAssumption
  <2> QED
    BY <2>1, FS_Interval DEF FdUses, Fds
<1> QED
  BY <1>1, FS_Subset, FS_CardinalityType

LEMMA FdsMove ==
  ASSUME NEW fds \in [Fds -> FileIds \cup {NoFile}], NEW i \in Fds, NEW h \in FileIds \cup {NoFile}, NEW f
  PROVE  /\ SetFd(fds, i, h) \in [Fds -> FileIds \cup {NoFile}]
         /\ Cardinality(FdUses(SetFd(fds, i, h), f)) = Cardinality(FdUses(fds, f))
              - (IF fds[i] = f THEN 1 ELSE 0) + (IF h = f THEN 1 ELSE 0)
<1>1. PICK A, B : A = FdUses(fds, f) /\ B = FdUses(SetFd(fds, i, h), f)
  OBVIOUS
<1>2. A \ {i} = B \ {i} /\ (i \in A <=> fds[i] = f) /\ (i \in B <=> h = f)
  BY <1>1 DEF FdUses, SetFd
<1>3. IsFiniteSet(A)
  BY <1>1, FdsFinite
<1>4. Cardinality(B) = Cardinality(A) - (IF i \in A THEN 1 ELSE 0) + (IF i \in B THEN 1 ELSE 0)
  BY <1>2, <1>3, CountMoves
<1>5. SetFd(fds, i, h) \in [Fds -> FileIds \cup {NoFile}]
  BY DEF SetFd
<1> QED
  BY <1>1, <1>2, <1>4, <1>5

LEMMA FilesCountedIs ==
  ASSUME NEW fl, NEW fds, NEW fh
  PROVE  FilesCounted(fl, fds, fh) <=> \A f \in FileIds : fl[f].refcount = Cardinality(FdUses(fds, f)) + fh[f]
BY DEF FilesCounted, FdUses

\* A file that someone refers to has a reference.
LEMMA UsedIsOpen ==
  ASSUME VfsInv, NEW f \in FileIds
  PROVE  /\ Cardinality(FdUses(fd_files, f)) \in Nat /\ fheldv[f] \in Nat
         /\ file[f].refcount = Cardinality(FdUses(fd_files, f)) + fheldv[f]
BY FdsFinite, FilesCountedIs DEF VfsInv, VfsTyped

LEMMA VfsInitInv == vfs_init => VfsInv
<1> SUFFICES ASSUME vfs_init PROVE VfsInv
  OBVIOUS
<1>1. 0 \in Vnodes /\ RootPath \in PathNames /\ MAX_FD \in Nat /\ NoFile \notin FileIds
  <2>4. 0 \in Vnodes /\ MAX_FD \in Nat /\ NoFile \notin FileIds
    BY VfsAssumption
  <2> QED
    BY <2>4, PathsAreNames
<1>2. VnodesTyped(vnode)
  BY DEF vfs_init, VnodesTyped, VnodeRecs
<1>3. PICK d : d = [name |-> RootPath, vnode |-> 0, refcount |-> 1]
  OBVIOUS
<1>4. d \in DentryRecs /\ dentries = <<d>>
  BY <1>1, <1>3 DEF vfs_init, DentryRecs
<1>5. dentries \in Seq(DentryRecs) /\ DOMAIN dentries = {1} /\ dentries[1] = d
  BY <1>4
<1>6. FilesTyped(file) /\ \A f \in FileIds : file[f].refcount = 0
  <2>1. file = [f \in FileIds |-> ClosedFile] /\ ClosedFile.refcount = 0
    BY DEF vfs_init, ClosedFile
  <2>2. ClosedFile \in FileRecs({"RDONLY"}, {0})
    BY <1>1 DEF ClosedFile, FileRecs
  <2>3. file \in [FileIds -> FileRecs({"RDONLY"}, {0})]
    BY <2>1, <2>2
  <2> QED
    BY <2>1, <2>3 DEF FilesTyped
<1>7. VfsTyped
  BY <1>2, <1>5, <1>6 DEF vfs_init, VfsTyped
<1>8. VnodesCounted(vnode, mounts, file, vheld)
  <2> SUFFICES ASSUME NEW v \in Vnodes
               PROVE  vnode[v].refcount = MountRefs(mounts, v) + Cardinality(FileUses(file, v)) + vheld[v]
                                          + (IF v = 0 THEN 1 ELSE 0)
    BY DEF VnodesCounted
  <2>1. PlacesOf(mounts, {m \in MountRecs : m.root = v}) = {}
    BY DEF vfs_init, PlacesOf
  <2>2. FileUses(file, v) = {}
    BY <1>6 DEF FileUses
  <2>3. MountRefs(mounts, v) = 0 /\ Cardinality(FileUses(file, v)) = 0
    BY <2>1, <2>2, FS_EmptySet DEF MountRefs
  <2>4. vnode[v].refcount = (IF v = 0 THEN 1 ELSE 0) /\ vheld[v] = 0
    BY DEF vfs_init
  <2> QED
    BY <2>3, <2>4
<1>9. FilesCounted(file, fd_files, fheldv)
  <2> SUFFICES ASSUME NEW f \in FileIds PROVE file[f].refcount = Cardinality(FdUses(fd_files, f)) + fheldv[f]
    BY FilesCountedIs
  <2>1. FdUses(fd_files, f) = {}
    BY <1>1 DEF vfs_init, FdUses
  <2>2. Cardinality(FdUses(fd_files, f)) = 0 /\ fheldv[f] = 0
    BY <2>1, FS_EmptySet DEF vfs_init
  <2> QED
    BY <1>6, <2>2
<1>10. NamesKept(dentries, dheld)
  <2>1. dheld = <<>> /\ DOMAIN dheld = {} /\ d.refcount = 1
    BY <1>3 DEF vfs_init
  <2>2. PlacesOf(dheld, {d.name}) = {}
    BY <2>1 DEF PlacesOf
  <2>3. Cardinality(PlacesOf(dheld, {d.name})) = 0
    BY <2>2, FS_EmptySet
  <2>4. \A i \in DOMAIN dentries : i = 1 /\ dentries[i].name = d.name /\ dentries[i].refcount = 1
    BY <1>5, <2>1
  <2>5. \A i \in DOMAIN dentries : dentries[i].refcount >= 1 + Cardinality(PlacesOf(dheld, {dentries[i].name}))
    BY <2>3, <2>4
  <2> QED
    BY <2>1, <2>4, <2>5 DEF NamesKept
<1> QED
  BY <1>7, <1>8, <1>9, <1>10 DEF VfsInv
-----------------------------------------------------------------------------
LEMMA MountInv ==
  ASSUME VfsInv, NEW target \in VfsTargets, NEW fs \in Filesystems, vfs_mount(target, fs)
  PROVE  VfsInv'
<1>1. /\ mounts \in Seq(MountRecs) /\ VnodesTyped(vnode) /\ vheld \in [Vnodes -> Nat] /\ VfsTyped
      /\ VnodesCounted(vnode, mounts, file, vheld)
  BY DEF VfsInv, VfsTyped
<1>2. UNCHANGED <<dentries, file, fd_files, vheld, fheldv, dheld>> /\ FreshVnodes # {}
  BY DEF vfs_mount
<1>3. PICK v : v = FreshVnode /\ v \in Vnodes /\ vnode[v].refcount = 0
  BY <1>1, <1>2, FreshIs
<1>4. PICK m : m = [target |-> target, fs |-> fs, root |-> v]
  OBVIOUS
<1>5. m \in MountRecs /\ m.root = v
  BY <1>3, <1>4, PathsAreNames DEF MountRecs
<1>6. mounts' = <<m>> \o mounts /\ vnode' = [vnode EXCEPT ![v] = [size |-> 0, refcount |-> 1]]
  BY <1>3, <1>4 DEF vfs_mount
<1>7. Bump(vnode', vnode, v, 1)
  BY <1>1, <1>3, <1>6, FreshBump
<1>8. mounts' \in Seq(MountRecs) /\ Len(mounts') = Len(mounts) + 1 /\ mounts'[1] = m /\ IsRemoved(mounts, mounts', 1)
  BY <1>1, <1>5, <1>6, ConsRemoves
<1>9. ASSUME NEW w \in Vnodes PROVE MountRefs(mounts', w) = MountRefs(mounts, w) + (IF w = v THEN 1 ELSE 0)
  <2>1. PICK P : P = {k \in MountRecs : k.root = w}
    OBVIOUS
  <2>2. 1 \in 1 .. Len(mounts')
    BY <1>1, <1>8
  <2>3. Cardinality(PlacesOf(mounts', P)) = Cardinality(PlacesOf(mounts, P)) + (IF mounts'[1] \in P THEN 1 ELSE 0)
    BY <1>1, <1>8, <2>2, CountRemoved
  <2>4. mounts'[1] \in P <=> w = v
    BY <1>5, <1>8, <2>1
  <2> QED
    BY <2>1, <2>3, <2>4 DEF MountRefs
<1>10. VnodesCounted(vnode', mounts', file, vheld)
  BY <1>1, <1>3, <1>7, <1>8, <1>9, MountMoves
<1> QED
  BY <1>2, <1>7, <1>8, <1>10 DEF VfsInv, VfsTyped, Bump

LEMMA UnmountInv ==
  ASSUME VfsInv, NEW target \in VfsTargets, vfs_unmount(target)
  PROVE  VfsInv'
<1>1. /\ mounts \in Seq(MountRecs) /\ VnodesTyped(vnode) /\ vheld \in [Vnodes -> Nat]
      /\ VnodesCounted(vnode, mounts, file, vheld)
  BY DEF VfsInv, VfsTyped
<1>2. PICK i \in DOMAIN mounts : /\ mounts' = RemoveAt(mounts, i) /\ vnode' = Refs(vnode, mounts[i].root, -1)
                                 /\ UNCHANGED <<dentries, file, fd_files, vheld, fheldv, dheld>>
  BY DEF vfs_unmount
<1>3. PICK v : v = mounts[i].root
  OBVIOUS
<1>4. i \in 1 .. Len(mounts) /\ mounts[i] \in MountRecs /\ v \in Vnodes
  <2>1. i \in 1 .. Len(mounts) /\ mounts[i] \in MountRecs
    BY <1>1
  <2> QED
    BY <1>3, <2>1 DEF MountRecs
<1>5. Bump(vnode', vnode, v, -1)
  BY <1>1, <1>2, <1>3, <1>4, RefsBump
<1>6. mounts' \in Seq(MountRecs) /\ IsRemoved(mounts', mounts, i)
  BY <1>1, <1>2, <1>4, RemoveAtRemoves
<1>7. ASSUME NEW w \in Vnodes PROVE MountRefs(mounts', w) = MountRefs(mounts, w) + (IF w = v THEN -1 ELSE 0)
  <2>1. PICK P : P = {k \in MountRecs : k.root = w}
    OBVIOUS
  <2>2. Cardinality(PlacesOf(mounts, P)) = Cardinality(PlacesOf(mounts', P)) + (IF mounts[i] \in P THEN 1 ELSE 0)
    BY <1>1, <1>4, <1>6, CountRemoved
  <2>3. mounts[i] \in P <=> w = v
    BY <1>3, <1>4, <2>1
  <2>4. Cardinality(PlacesOf(mounts', P)) \in Nat
    BY <1>6, PlacesFinite
  <2> QED
    BY <2>1, <2>2, <2>3, <2>4 DEF MountRefs
<1>8. VnodesCounted(vnode', mounts', file, vheld)
  BY <1>1, <1>4, <1>5, <1>6, <1>7, MountMoves
<1> QED
  BY <1>2, <1>5, <1>6, <1>8 DEF VfsInv, VfsTyped, Bump
-----------------------------------------------------------------------------
LEMMA DentryLookupInv ==
  ASSUME VfsInv, NEW name \in VfsPaths, dentry_lookup(name)
  PROVE  VfsInv'
<1>1. dentries \in Seq(DentryRecs) /\ dheld \in Seq(PathNames) /\ NamesKept(dentries, dheld) /\ name \in PathNames
  BY PathsAreNames DEF VfsInv, VfsTyped
<1>2. PICK i \in DentryAt(name) :
         /\ dentries' = [dentries EXCEPT ![i].refcount = dentries[i].refcount + 1] /\ dheld' = Append(dheld, name)
         /\ UNCHANGED <<mounts, vnode, file, fd_files, vheld, fheldv>>
  BY DEF dentry_lookup
<1>3. i \in 1 .. Len(dentries) /\ dentries[i].name = name
  BY <1>1, <1>2 DEF DentryAt
<1>4. Recounted(dentries', dentries, i, 1)
  <2>1. Recounted(Recount(dentries, i, 1), dentries, i, 1)
    BY <1>1, <1>3, RecountIs
  <2>2. dentries' = Recount(dentries, i, 1)
    BY <1>2 DEF Recount
  <2> QED
    BY <2>1, <2>2
<1>5. PICK ds, dh : ds = dentries' /\ dh = dheld'
  OBVIOUS
<1>6. /\ dh \in Seq(PathNames) /\ Len(dh) = Len(dheld) + 1 /\ dh[Len(dheld) + 1] = name
      /\ IsRemoved(dheld, dh, Len(dheld) + 1) /\ \A k \in 1 .. Len(dheld) : dh[k] = dheld[k]
  BY <1>1, <1>2, <1>5, AppendRemoves
<1>7. /\ ds \in Seq(DentryRecs) /\ DOMAIN ds = 1 .. Len(dentries) /\ DOMAIN dentries = 1 .. Len(dentries)
      /\ \A j \in 1 .. Len(dentries) : /\ ds[j].name = dentries[j].name
                                       /\ ds[j].refcount = dentries[j].refcount + (IF j = i THEN 1 ELSE 0)
  BY <1>1, <1>4, <1>5 DEF Recounted
<1>8. ASSUME NEW j \in DOMAIN ds PROVE ds[j].refcount >= 1 + Cardinality(PlacesOf(dh, {ds[j].name}))
  <2>1. PICK c, c2, P : /\ P = {ds[j].name} /\ c = Cardinality(PlacesOf(dheld, P)) /\ c2 = Cardinality(PlacesOf(dh, P))
    OBVIOUS
  <2>2. Len(dheld) + 1 \in 1 .. Len(dh)
    BY <1>1, <1>6
  <2>3. c2 = c + (IF dh[Len(dheld) + 1] \in P THEN 1 ELSE 0) /\ c \in Nat
    BY <1>1, <1>6, <2>1, <2>2, CountRemoved, PlacesFinite
  <2>4. dh[Len(dheld) + 1] \in P => j = i
    BY <1>1, <1>3, <1>6, <1>7, <2>1 DEF NamesKept
  <2>5. dentries[j].refcount >= 1 + c
    BY <1>1, <1>7, <2>1 DEF NamesKept
  <2>6. dentries[j].refcount \in Int
    <3>1. dentries[j] \in DentryRecs
      BY <1>1, <1>7
    <3> QED
      BY <3>1 DEF DentryRecs
  <2>7. ds[j].refcount >= 1 + c2
    BY <1>7, <2>3, <2>4, <2>5, <2>6
  <2> QED
    BY <2>1, <2>7
<1>9. ASSUME NEW k \in DOMAIN dh PROVE \E j \in DOMAIN ds : ds[j].name = dh[k]
  <2>1. k \in 1 .. (Len(dheld) + 1) /\ DOMAIN dheld = 1 .. Len(dheld) /\ Len(dheld) \in Nat
    BY <1>1, <1>6
  <2>2. CASE k = Len(dheld) + 1
    BY <1>3, <1>6, <1>7, <2>2
  <2>3. CASE k # Len(dheld) + 1
    <3>1. k \in 1 .. Len(dheld)
      BY <2>1, <2>3
    <3>2. PICK j \in DOMAIN dentries : dentries[j].name = dheld[k]
      BY <1>1, <2>1, <3>1 DEF NamesKept
    <3> QED
      BY <1>6, <1>7, <3>1, <3>2
  <2> QED
    BY <2>2, <2>3
<1>10. NamesKept(ds, dh)
  <2>1. \A j, k \in DOMAIN ds : ds[j].name = ds[k].name => j = k
    BY <1>1, <1>7 DEF NamesKept
  <2> QED
    BY <1>8, <1>9, <2>1 DEF NamesKept
<1> QED
  BY <1>2, <1>5, <1>6, <1>7, <1>10 DEF VfsInv, VfsTyped

\* The entry of a name that is held has another reference, so it stays.
LEMMA DentryReleaseInv ==
  ASSUME VfsInv, dentry_release
  PROVE  VfsInv'
<1>1. dentries \in Seq(DentryRecs) /\ dheld \in Seq(PathNames) /\ NamesKept(dentries, dheld) /\ dheld # <<>>
  BY DEF VfsInv, VfsTyped, dentry_release
<1>2. PICK i \in DentryAt(Head(dheld)) :
          IF dentries[i].refcount - 1 <= 0
          THEN dentries' = RemoveAt(dentries, i) /\ vnode' = vnode_put(vnode, dentries[i].vnode)
          ELSE dentries' = [dentries EXCEPT ![i].refcount = dentries[i].refcount - 1] /\ UNCHANGED vnode
  BY DEF dentry_release
<1>3. dheld' = Tail(dheld) /\ UNCHANGED <<mounts, file, fd_files, vheld, fheldv>>
  BY DEF dentry_release
<1>4. PICK ds, dh : ds = dentries' /\ dh = dheld'
  OBVIOUS
<1>5. dh \in Seq(PathNames) /\ IsRemoved(dh, dheld, 1) /\ Head(dheld) = dheld[1] /\ 1 \in 1 .. Len(dheld)
  BY <1>1, <1>3, <1>4, TailRemoves
<1>6. i \in 1 .. Len(dentries) /\ dentries[i].name = dheld[1] /\ DOMAIN dentries = 1 .. Len(dentries)
  BY <1>1, <1>2, <1>5 DEF DentryAt
<1>7. \A j \in 1 .. Len(dentries) : dentries[j].refcount \in Int
  <2>1. \A j \in 1 .. Len(dentries) : dentries[j] \in DentryRecs
    BY <1>1
  <2> QED
    BY <2>1 DEF DentryRecs
\* What the callers hold of each name before and after.
<1>8. ASSUME NEW j \in 1 .. Len(dentries)
      PROVE  /\ Cardinality(PlacesOf(dh, {dentries[j].name})) \in Nat
             /\ dentries[j].refcount >= 1 + Cardinality(PlacesOf(dh, {dentries[j].name})) + (IF j = i THEN 1 ELSE 0)
  <2>1. PICK c, c2, P : /\ P = {dentries[j].name} /\ c = Cardinality(PlacesOf(dheld, P)) /\ c2 = Cardinality(PlacesOf(dh, P))
    OBVIOUS
  <2>2. c = c2 + (IF dheld[1] \in P THEN 1 ELSE 0)
    BY <1>1, <1>5, <2>1, CountRemoved
  <2>3. c2 \in Nat
    BY <1>5, <2>1, PlacesFinite
  <2>4. j = i => dheld[1] \in P
    BY <1>6, <2>1
  <2>5. dentries[j].refcount >= 1 + c
    BY <1>1, <1>6, <2>1 DEF NamesKept
  <2>6. dentries[j].refcount >= 1 + c2 + (IF j = i THEN 1 ELSE 0)
    BY <1>7, <2>2, <2>3, <2>4, <2>5
  <2> QED
    BY <2>1, <2>3, <2>6
<1>9. ~ (dentries[i].refcount - 1 <= 0)
  <2>1. PICK c2, n : c2 = Cardinality(PlacesOf(dh, {dentries[i].name})) /\ n = dentries[i].refcount
    OBVIOUS
  <2>2. c2 \in Nat /\ n >= 1 + c2 + (IF i = i THEN 1 ELSE 0)
    BY <1>6, <1>8, <2>1
  <2>3. n \in Int
    BY <1>6, <1>7, <2>1
  <2> QED
    BY <2>1, <2>2, <2>3
<1>10. ds = Recount(dentries, i, -1) /\ UNCHANGED vnode
  <2>1. dentries[i].refcount - 1 = dentries[i].refcount + (-1)
    BY <1>6, <1>7
  <2> QED
    BY <1>2, <1>4, <1>9, <2>1 DEF Recount
<1>11. Recounted(ds, dentries, i, -1)
  <2>1. Recounted(Recount(dentries, i, -1), dentries, i, -1)
    BY <1>1, <1>6, RecountIs
  <2> QED
    BY <1>10, <2>1
<1>12. /\ ds \in Seq(DentryRecs) /\ DOMAIN ds = 1 .. Len(dentries)
       /\ \A j \in 1 .. Len(dentries) : /\ ds[j].name = dentries[j].name
                                        /\ ds[j].refcount = dentries[j].refcount + (IF j = i THEN -1 ELSE 0)
  BY <1>1, <1>11 DEF Recounted
<1>13. ASSUME NEW j \in DOMAIN ds PROVE ds[j].refcount >= 1 + Cardinality(PlacesOf(dh, {ds[j].name}))
  <2>1. PICK c2 : c2 = Cardinality(PlacesOf(dh, {dentries[j].name}))
    OBVIOUS
  <2>2. c2 \in Nat /\ dentries[j].refcount >= 1 + c2 + (IF j = i THEN 1 ELSE 0)
    BY <1>8, <1>12, <2>1
  <2>3. ds[j].refcount >= 1 + c2
    BY <1>7, <1>12, <2>2
  <2>4. ds[j].name = dentries[j].name
    BY <1>12
  <2> QED
    BY <2>1, <2>3, <2>4
<1>14. ASSUME NEW k \in DOMAIN dh PROVE \E j \in DOMAIN ds : ds[j].name = dh[k]
  <2>1. k \in 1 .. Len(dh) /\ k + 1 \in DOMAIN dheld /\ dh[k] = dheld[k + 1]
    BY <1>1, <1>5 DEF IsRemoved
  <2>2. PICK j \in DOMAIN dentries : dentries[j].name = dheld[k + 1]
    BY <1>1, <2>1 DEF NamesKept
  <2> QED
    BY <1>6, <1>12, <2>1, <2>2
<1>15. NamesKept(ds, dh)
  <2>1. \A j, k \in DOMAIN ds : ds[j].name = ds[k].name => j = k
    BY <1>1, <1>6, <1>12 DEF NamesKept
  <2> QED
    BY <1>13, <1>14, <2>1 DEF NamesKept
<1> QED
  BY <1>3, <1>4, <1>5, <1>10, <1>12, <1>15 DEF VfsInv, VfsTyped

LEMMA DentryRemoveInv ==
  ASSUME VfsInv, dentry_remove
  PROVE  VfsInv'
<1>1. dentries \in Seq(DentryRecs) /\ dheld \in Seq(PathNames) /\ NamesKept(dentries, dheld) /\ dheld # <<>>
  BY DEF VfsInv, VfsTyped, dentry_remove
<1>2. PICK name : name = Head(dheld)
  OBVIOUS
<1>3. PICK i \in DentryAt(name) : dentries' = RemoveAt(dentries, i)
  BY <1>2 DEF dentry_remove
<1>4. dheld' = Without(dheld, name) /\ UNCHANGED <<mounts, vnode, file, fd_files, vheld, fheldv>>
  BY <1>2 DEF dentry_remove
<1>5. PICK ds, dh, at : ds = dentries' /\ dh = dheld' /\ at = {k \in DOMAIN dheld : dheld[k] # name}
  OBVIOUS
<1>6. dh = Keep(dheld, at) /\ at \in SUBSET (DOMAIN dheld)
  BY <1>4, <1>5 DEF Without
<1>7. dh \in Seq(PathNames) /\ \A k \in DOMAIN dh : \E h \in at : dh[k] = dheld[h]
  BY <1>1, <1>6, KeepEntries
<1>8. i \in 1 .. Len(dentries) /\ dentries[i].name = name /\ DOMAIN dentries = 1 .. Len(dentries)
  BY <1>1, <1>3 DEF DentryAt
<1>9. ds \in Seq(DentryRecs) /\ IsRemoved(ds, dentries, i)
  BY <1>1, <1>3, <1>5, <1>8, RemoveAtRemoves
<1>10. /\ DOMAIN ds = 1 .. Len(ds) /\ Len(ds) \in Nat /\ Len(dentries) = Len(ds) + 1
       /\ \A j \in 1 .. Len(ds) : ds[j] = IF j < i THEN dentries[j] ELSE dentries[j + 1]
  BY <1>9 DEF IsRemoved
<1>11. PICK old : old = [j \in 1 .. Len(ds) |-> IF j < i THEN j ELSE j + 1]
  OBVIOUS
<1>12. /\ \A j \in 1 .. Len(ds) : old[j] \in 1 .. Len(dentries) /\ old[j] # i /\ ds[j] = dentries[old[j]]
       /\ \A j, k \in 1 .. Len(ds) : old[j] = old[k] => j = k
  BY <1>8, <1>10, <1>11
<1>13. ASSUME NEW h \in 1 .. Len(dentries), h # i PROVE \E j \in 1 .. Len(ds) : ds[j] = dentries[h]
  <2>1. PICK j : j = (IF h < i THEN h ELSE h - 1)
    OBVIOUS
  <2>2. j \in 1 .. Len(ds) /\ old[j] = h
    BY <1>8, <1>10, <1>11, <1>13, <2>1
  <2> QED
    BY <1>12, <2>2
<1>14. ASSUME NEW j \in DOMAIN ds PROVE ds[j].refcount >= 1 + Cardinality(PlacesOf(dh, {ds[j].name}))
  <2>1. PICK h, P : h = old[j] /\ P = {ds[j].name}
    OBVIOUS
  <2>2. h \in DOMAIN dentries /\ ds[j] = dentries[h]
    BY <1>8, <1>10, <1>12, <2>1
  <2>3. PICK c, c2 : c = Cardinality(PlacesOf(dheld, P)) /\ c2 = Cardinality(PlacesOf(dh, P))
    OBVIOUS
  <2>4. c2 <= c
    BY <1>1, <1>6, <2>3, KeepCounts
  <2>5. c \in Nat /\ c2 \in Nat
    BY <1>1, <1>7, <2>3, PlacesFinite
  <2>6. dentries[h].refcount >= 1 + c
    BY <1>1, <2>1, <2>2, <2>3 DEF NamesKept
  <2>7. dentries[h].refcount \in Int
    <3>1. dentries[h] \in DentryRecs
      BY <1>1, <2>2
    <3> QED
      BY <3>1 DEF DentryRecs
  <2>8. ds[j].refcount >= 1 + c2
    BY <2>2, <2>4, <2>5, <2>6, <2>7
  <2> QED
    BY <2>1, <2>3, <2>8
<1>15. ASSUME NEW k \in DOMAIN dh PROVE \E j \in DOMAIN ds : ds[j].name = dh[k]
  <2>1. PICK h \in at : dh[k] = dheld[h]
    BY <1>7
  <2>2. h \in DOMAIN dheld /\ dheld[h] # name
    BY <1>5, <2>1
  <2>3. PICK n \in DOMAIN dentries : dentries[n].name = dheld[h]
    BY <1>1, <2>2 DEF NamesKept
  <2>4. n # i
    BY <1>8, <2>2, <2>3
  <2>5. PICK j \in 1 .. Len(ds) : ds[j] = dentries[n]
    BY <1>8, <1>13, <2>3, <2>4
  <2> QED
    BY <1>10, <2>1, <2>3, <2>5
<1>16. ASSUME NEW j \in DOMAIN ds, NEW k \in DOMAIN ds, ds[j].name = ds[k].name PROVE j = k
  <2>1. old[j] = old[k]
    BY <1>1, <1>8, <1>10, <1>12, <1>16 DEF NamesKept
  <2> QED
    BY <1>10, <1>12, <2>1
<1>17. NamesKept(ds, dh)
  BY <1>14, <1>15, <1>16 DEF NamesKept
<1> QED
  BY <1>4, <1>5, <1>7, <1>9, <1>17 DEF VfsInv, VfsTyped
-----------------------------------------------------------------------------
LEMMA VnodeLookupInv ==
  ASSUME VfsInv, NEW path \in VfsPaths, Lookup(path)
  PROVE  VfsInv'
<1>1. /\ mounts \in Seq(MountRecs) /\ vheld \in [Vnodes -> Nat]
      /\ VnodesCounted(vnode, mounts, file, vheld)
  BY DEF VfsInv, VfsTyped
<1>2. PICK r : r = path_lookup(path)
  OBVIOUS
<1>3. LookupFits(path_lookup(path)) /\ path_lookup(path).ok
  BY DEF Lookup
<1>4. Found(r)
  BY <1>2, <1>3, LookupFinds
<1>5. PICK v \in Vnodes : v = r.v /\ Bump(r.vnode, vnode, v, 1)
  BY <1>4 DEF Found
<1>6. /\ vnode' = r.vnode /\ dentries' = r.dentries /\ vheld' = [vheld EXCEPT ![v] = vheld[v] + 1]
      /\ UNCHANGED <<mounts, file, fd_files, fheldv, dheld>>
  BY <1>2, <1>5 DEF Lookup
<1>7. VnodesCounted(vnode', mounts, file, vheld')
  <2>1. VnodesCounted(r.vnode, mounts, file, HeldBy(vheld, v, 1))
    BY <1>1, <1>5, HeldMoves
  <2> QED
    BY <1>6, <2>1 DEF HeldBy
<1>8. vheld' \in [Vnodes -> Nat]
  BY <1>1, <1>6
<1>9. VnodesTyped(vnode')
  BY <1>5, <1>6 DEF Bump
<1>10. dentries' \in Seq(DentryRecs) /\ NamesKept(dentries', dheld)
  BY <1>4, <1>6 DEF Found
<1> QED
  BY <1>6, <1>7, <1>8, <1>9, <1>10 DEF VfsInv, VfsTyped

LEMMA PutVnodeInv ==
  ASSUME VfsInv, NEW v \in Vnodes, PutVnode(v)
  PROVE  VfsInv'
<1>1. /\ mounts \in Seq(MountRecs) /\ vheld \in [Vnodes -> Nat] /\ VnodesTyped(vnode)
      /\ VnodesCounted(vnode, mounts, file, vheld)
  BY DEF VfsInv, VfsTyped
<1>2. /\ vheld[v] > 0 /\ vheld' = [vheld EXCEPT ![v] = vheld[v] - 1] /\ vnode' = Refs(vnode, v, -1)
      /\ UNCHANGED <<mounts, dentries, file, fd_files, fheldv, dheld>>
  BY DEF PutVnode, vnode_put
<1>3. Bump(vnode', vnode, v, -1)
  BY <1>1, <1>2, RefsBump
<1>4. VnodesCounted(vnode', mounts, file, vheld')
  <2>1. VnodesCounted(vnode', mounts, file, HeldBy(vheld, v, -1))
    BY <1>1, <1>3, HeldMoves
  <2>2. vheld[v] + (-1) = vheld[v] - 1
    BY <1>1
  <2> QED
    BY <1>2, <2>1, <2>2 DEF HeldBy
<1>5. vheld' \in [Vnodes -> Nat]
  <2>1. vheld[v] - 1 \in Nat
    BY <1>1, <1>2
  <2> QED
    BY <1>1, <1>2, <2>1
<1> QED
  BY <1>2, <1>3, <1>4, <1>5 DEF VfsInv, VfsTyped, Bump

LEMMA OpenRefusedInv ==
  ASSUME VfsInv, NEW path \in VfsPaths, NEW r, Found(r), OpenRefused(path, r),
         UNCHANGED <<filesystems, mounts, fd_files, vheld, dheld>>
  PROVE  VfsInv'
<1>1. PICK v \in Vnodes : v = r.v /\ Bump(r.vnode, vnode, v, 1)
  BY DEF Found
<1>2. /\ vnode' = Refs(r.vnode, v, -1) /\ dentries' = r.dentries
      /\ UNCHANGED <<mounts, file, fd_files, vheld, fheldv, dheld>>
  BY <1>1 DEF OpenRefused, vnode_put
<1>3. VnodesTyped(r.vnode) /\ VnodesTyped(vnode)
  BY <1>1 DEF Bump, VfsInv, VfsTyped
<1>4. Bump(vnode', r.vnode, v, -1)
  BY <1>2, <1>3, RefsBump
<1>5. \A w \in Vnodes : vnode[w].refcount \in Int
  BY <1>3 DEF VnodesTyped, VnodeRecs
<1>6. \A w \in Vnodes : vnode'[w].refcount = vnode[w].refcount
  BY <1>1, <1>4, <1>5 DEF Bump
<1>7. VnodesCounted(vnode', mounts, file, vheld)
  BY <1>6 DEF VfsInv, VnodesCounted
<1>8. dentries' \in Seq(DentryRecs) /\ NamesKept(dentries', dheld) /\ VnodesTyped(vnode')
  BY <1>2, <1>4 DEF Found, Bump
<1> QED
  BY <1>2, <1>7, <1>8 DEF VfsInv, VfsTyped

\* The step of an open that succeeds.
Opened(r, flags, trunc, f) ==
    /\ file[f].refcount = 0
    /\ vnode' = IF trunc THEN [r.vnode EXCEPT ![r.v].size = 0] ELSE r.vnode
    /\ dentries' = r.dentries
    /\ file' = [file EXCEPT ![f] = [vnode |-> r.v, flags |-> flags, pos |-> 0, refcount |-> 1]]
    /\ fheldv' = [fheldv EXCEPT ![f] = 1]

LEMMA OpenedInv ==
  ASSUME VfsInv, NEW r, Found(r), NEW flags, NEW trunc \in BOOLEAN, NEW f \in FileIds, Opened(r, flags, trunc, f),
         UNCHANGED <<filesystems, mounts, fd_files, vheld, dheld>>
  PROVE  VfsInv'
<1>1. /\ mounts \in Seq(MountRecs) /\ vheld \in [Vnodes -> Nat] /\ fheldv \in [FileIds -> Nat] /\ FilesTyped(file)
      /\ VnodesCounted(vnode, mounts, file, vheld)
  BY DEF VfsInv, VfsTyped
<1>2. PICK v \in Vnodes : v = r.v /\ Bump(r.vnode, vnode, v, 1)
  BY DEF Found
<1>3. Bump(vnode', vnode, v, 1)
  <2>1. Bump([r.vnode EXCEPT ![v].size = 0], vnode, v, 1)
    BY <1>2, SizeBump
  <2>2. CASE trunc
    BY <1>2, <2>1, <2>2 DEF Opened
  <2>3. CASE ~ trunc
    BY <1>2, <2>3 DEF Opened
  <2> QED
    BY <2>2, <2>3
<1>4. PICK h : h = [vnode |-> v, flags |-> flags, pos |-> 0, refcount |-> 1]
  OBVIOUS
<1>5. IsFile(h) /\ h.vnode = v /\ h.refcount = 1
  BY <1>4, FileNew
<1>6. file' = SetFile(file, f, h)
  BY <1>2, <1>4 DEF SetFile, Opened
<1>7. FilesTyped(file') /\ \A g \in FileIds : file'[g] = IF g = f THEN h ELSE file[g]
  BY <1>1, <1>5, <1>6, SetFileIs
<1>8. ASSUME NEW w \in Vnodes
      PROVE  Cardinality(FileUses(file', w)) = Cardinality(FileUses(file, w)) + (IF w = v THEN 1 ELSE 0)
  <2>1. SameElsewhere(file', file, f)
    BY <1>7 DEF SameElsewhere
  <2>2. /\ Cardinality(FileUses(file, w)) \in Nat
        /\ Cardinality(FileUses(file', w)) = Cardinality(FileUses(file, w))
              - (IF file[f].refcount > 0 /\ file[f].vnode = w THEN 1 ELSE 0)
              + (IF file'[f].refcount > 0 /\ file'[f].vnode = w THEN 1 ELSE 0)
    BY <2>1, UsesMove
  <2>3. file'[f].refcount = 1 /\ file'[f].vnode = v
    BY <1>5, <1>7
  <2> QED
    BY <2>2, <2>3 DEF Opened
<1>9. VnodesCounted(vnode', mounts, file', vheld)
  BY <1>1, <1>3, <1>8, FileMoves
<1>10. FilesCounted(file', fd_files, fheldv')
  <2> SUFFICES ASSUME NEW g \in FileIds PROVE file'[g].refcount = Cardinality(FdUses(fd_files, g)) + fheldv'[g]
    BY FilesCountedIs
  <2>1. PICK c : c = Cardinality(FdUses(fd_files, g))
    OBVIOUS
  <2>2. c \in Nat /\ fheldv[g] \in Nat /\ file[g].refcount = c + fheldv[g]
    BY <2>1, UsedIsOpen
  <2>3. file'[g].refcount = IF g = f THEN 1 ELSE file[g].refcount
    BY <1>5, <1>7
  <2>4. fheldv'[g] = IF g = f THEN 1 ELSE fheldv[g]
    BY <1>1 DEF Opened
  <2>5. file'[g].refcount = c + fheldv'[g]
    BY <2>2, <2>3, <2>4 DEF Opened
  <2> QED
    BY <2>1, <2>5
<1>11. dentries' \in Seq(DentryRecs) /\ NamesKept(dentries', dheld) /\ VnodesTyped(vnode') /\ fheldv' \in [FileIds -> Nat]
  BY <1>1, <1>3 DEF Found, Bump, Opened
<1> QED
  BY <1>7, <1>9, <1>10, <1>11 DEF VfsInv, VfsTyped

LEMMA OpenInv ==
  ASSUME VfsInv, NEW path \in VfsPaths, NEW flags, NEW trunc \in BOOLEAN, vfs_open(path, flags, trunc)
  PROVE  VfsInv'
<1>1. PICK r : r = path_lookup(path)
  OBVIOUS
<1>2. LookupFits(path_lookup(path)) /\ path_lookup(path).ok
  BY DEF vfs_open
<1>3. Found(r)
  BY <1>1, <1>2, LookupFinds
<1>4. UNCHANGED <<filesystems, mounts, fd_files, vheld, dheld>>
  BY DEF vfs_open
<1>5. OpenRefused(path, r) \/ \E f \in FileIds : Opened(r, flags, trunc, f)
  BY <1>1 DEF vfs_open, Opened
<1>6. CASE OpenRefused(path, r)
  BY <1>3, <1>4, <1>6, OpenRefusedInv
<1>7. ASSUME NEW f \in FileIds, Opened(r, flags, trunc, f) PROVE VfsInv'
  BY <1>3, <1>4, <1>7, OpenedInv
<1> QED
  BY <1>5, <1>6, <1>7
-----------------------------------------------------------------------------
LEMMA CloseInv ==
  ASSUME VfsInv, NEW f \in FileIds, vfs_close(f)
  PROVE  VfsInv'
<1>1. /\ mounts \in Seq(MountRecs) /\ vheld \in [Vnodes -> Nat] /\ fheldv \in [FileIds -> Nat] /\ FilesTyped(file)
      /\ VnodesTyped(vnode) /\ VnodesCounted(vnode, mounts, file, vheld)
  BY DEF VfsInv, VfsTyped
<1>2. /\ fheldv[f] > 0 /\ fheldv' = [fheldv EXCEPT ![f] = fheldv[f] - 1]
      /\ file' = Closing(file, vnode, f).file /\ vnode' = Closing(file, vnode, f).vnode
      /\ UNCHANGED <<mounts, dentries, fd_files, vheld, dheld>>
  BY DEF vfs_close
<1>3. file[f].refcount > 0
  <2>1. PICK c \in Nat : file[f].refcount = c + fheldv[f]
    BY UsedIsOpen
  <2> QED
    BY <1>1, <1>2, <2>1
<1>4. /\ FilesTyped(file') /\ VnodesTyped(vnode') /\ VnodesCounted(vnode', mounts, file', vheld)
      /\ \A g \in FileIds : file'[g].refcount = file[g].refcount - (IF g = f THEN 1 ELSE 0)
  BY <1>1, <1>2, <1>3, ClosingCounts
<1>5. FilesCounted(file', fd_files, fheldv')
  <2> SUFFICES ASSUME NEW g \in FileIds PROVE file'[g].refcount = Cardinality(FdUses(fd_files, g)) + fheldv'[g]
    BY FilesCountedIs
  <2>1. PICK c : c = Cardinality(FdUses(fd_files, g))
    OBVIOUS
  <2>2. c \in Nat /\ fheldv[g] \in Nat /\ file[g].refcount = c + fheldv[g]
    BY <2>1, UsedIsOpen
  <2>4. fheldv'[g] = IF g = f THEN fheldv[g] - 1 ELSE fheldv[g]
    BY <1>1, <1>2
  <2>5. file'[g].refcount = c + fheldv'[g]
    BY <1>4, <2>2, <2>4
  <2> QED
    BY <2>1, <2>5
<1>6. fheldv' \in [FileIds -> Nat]
  <2>1. fheldv[f] - 1 \in Nat
    BY <1>1, <1>2
  <2> QED
    BY <1>1, <1>2, <2>1
<1> QED
  BY <1>2, <1>4, <1>5, <1>6 DEF VfsInv, VfsTyped

LEMMA MovesInv ==
  ASSUME VfsInv, NEW f \in FileIds, NEW pos, Moves(f, pos)
  PROVE  VfsInv'
<1>1. FilesTyped(file) /\ VnodesCounted(vnode, mounts, file, vheld) /\ FilesCounted(file, fd_files, fheldv)
  BY DEF VfsInv, VfsTyped
<1>2. PICK k : k = pos % 2 ^ PosBits
  OBVIOUS
<1>3. PICK h : h = [file[f] EXCEPT !.pos = k]
  OBVIOUS
<1>4. IsFile(h) /\ h.refcount = file[f].refcount /\ h.vnode = file[f].vnode
  <2>1. IsFile(file[f])
    BY <1>1, FilesAre
  <2> QED
    BY <1>3, <2>1, FileMoved
<1>5. file' = SetFile(file, f, h) /\ UNCHANGED <<mounts, vnode, dentries, fd_files, vheld, fheldv, dheld>>
  BY <1>2, <1>3 DEF Moves, SetFile
<1>6. FilesTyped(file') /\ \A g \in FileIds : file'[g] = IF g = f THEN h ELSE file[g]
  BY <1>1, <1>4, <1>5, SetFileIs
<1>7. \A g \in FileIds : file'[g].refcount = file[g].refcount /\ file'[g].vnode = file[g].vnode
  BY <1>4, <1>6
<1>8. \A w : FileUses(file', w) = FileUses(file, w)
  BY <1>7 DEF FileUses
<1>9. VnodesCounted(vnode, mounts, file', vheld)
  BY <1>1, <1>8 DEF VnodesCounted
<1>10. FilesCounted(file', fd_files, fheldv)
  BY <1>1, <1>7 DEF FilesCounted
<1> QED
  BY <1>5, <1>6, <1>9, <1>10 DEF VfsInv, VfsTyped

\* One reference more to a file that is open.
Referred(f) == file' = [file EXCEPT ![f].refcount = @ + 1]

LEMMA FileReferred ==
  ASSUME VfsInv, NEW f \in FileIds, file[f].refcount > 0, Referred(f)
  PROVE  /\ FilesTyped(file') /\ VnodesCounted(vnode, mounts, file', vheld)
         /\ \A g \in FileIds : file'[g].refcount = file[g].refcount + (IF g = f THEN 1 ELSE 0)
<1>1. FilesTyped(file) /\ VnodesCounted(vnode, mounts, file, vheld)
  BY DEF VfsInv, VfsTyped
<1>2. \A g \in FileIds : file[g].refcount \in Int
  BY <1>1, FilesAre
<1>3. PICK n \in Int : n = file[f].refcount + 1
  BY <1>2
<1>4. PICK h : h = [file[f] EXCEPT !.refcount = n]
  OBVIOUS
<1>5. IsFile(h) /\ h.refcount = n /\ h.vnode = file[f].vnode
  <2>1. IsFile(file[f])
    BY <1>1, FilesAre
  <2> QED
    BY <1>4, <2>1, FileRecount
<1>6. file' = SetFile(file, f, h)
  BY <1>3, <1>4 DEF SetFile, Referred
<1>7. FilesTyped(file') /\ \A g \in FileIds : file'[g] = IF g = f THEN h ELSE file[g]
  BY <1>1, <1>5, <1>6, SetFileIs
<1>8. \A g \in FileIds : file'[g].vnode = file[g].vnode /\ (file'[g].refcount > 0 <=> file[g].refcount > 0)
  BY <1>2, <1>3, <1>5, <1>7
<1>9. \A w : FileUses(file', w) = FileUses(file, w)
  BY <1>8 DEF FileUses
<1>10. VnodesCounted(vnode, mounts, file', vheld)
  BY <1>1, <1>9 DEF VnodesCounted
<1>11. \A g \in FileIds : file'[g].refcount = file[g].refcount + (IF g = f THEN 1 ELSE 0)
  BY <1>2, <1>3, <1>5, <1>7
<1> QED
  BY <1>7, <1>10, <1>11
-----------------------------------------------------------------------------
LEMMA FdAllocInv ==
  ASSUME VfsInv, NEW f \in FileIds, fd_table_alloc(f)
  PROVE  VfsInv'
<1>1. fd_files \in [Fds -> FileIds \cup {NoFile}] /\ fheldv \in [FileIds -> Nat]
  BY DEF VfsInv, VfsTyped
<1>2. PICK free : free = {i \in Fds : fd_files[i] = NoFile}
  OBVIOUS
<1>3. PICK k : k = CHOOSE i \in free : \A j \in free : i <= j
  OBVIOUS
<1>4. k \in Fds /\ fd_files[k] = NoFile
  <2>1. free \in SUBSET Nat /\ free # {}
    BY <1>2, VfsAssumption DEF Fds, fd_table_alloc
  <2>2. \E i \in free : \A j \in free : i <= j
    BY <2>1, LeastElement
  <2>3. k \in free
    BY <1>3, <2>2
  <2> QED
    BY <1>2, <2>3
<1>5. /\ fheldv[f] > 0 /\ fd_files' = SetFd(fd_files, k, f) /\ Referred(f)
      /\ UNCHANGED <<mounts, vnode, dentries, vheld, fheldv, dheld>>
  BY <1>2, <1>3 DEF fd_table_alloc, SetFd, Referred
<1>6. file[f].refcount > 0
  <2>1. PICK c \in Nat : file[f].refcount = c + fheldv[f]
    BY UsedIsOpen
  <2> QED
    BY <1>1, <1>5, <2>1
<1>7. /\ FilesTyped(file') /\ VnodesCounted(vnode, mounts, file', vheld)
      /\ \A g \in FileIds : file'[g].refcount = file[g].refcount + (IF g = f THEN 1 ELSE 0)
  BY <1>5, <1>6, FileReferred
<1>8. fd_files' \in [Fds -> FileIds \cup {NoFile}]
  BY <1>1, <1>4, <1>5, FdsMove
<1>9. FilesCounted(file', fd_files', fheldv)
  <2> SUFFICES ASSUME NEW g \in FileIds PROVE file'[g].refcount = Cardinality(FdUses(fd_files', g)) + fheldv[g]
    BY FilesCountedIs
  <2>1. PICK c, c2 : c = Cardinality(FdUses(fd_files, g)) /\ c2 = Cardinality(FdUses(fd_files', g))
    OBVIOUS
  <2>2. c \in Nat /\ fheldv[g] \in Nat /\ file[g].refcount = c + fheldv[g]
    BY <2>1, UsedIsOpen
  <2>3. c2 = c - (IF fd_files[k] = g THEN 1 ELSE 0) + (IF f = g THEN 1 ELSE 0)
    BY <1>1, <1>4, <1>5, <2>1, FdsMove
  <2>4. fd_files[k] # g
    BY <1>4, VfsAssumption
  <2>5. file'[g].refcount = c2 + fheldv[g]
    BY <1>7, <2>2, <2>3, <2>4
  <2> QED
    BY <2>1, <2>5
<1> QED
  BY <1>5, <1>7, <1>8, <1>9 DEF VfsInv, VfsTyped

LEMMA FdFreeInv ==
  ASSUME VfsInv, NEW i \in Fds, fd_table_free(i)
  PROVE  VfsInv'
<1>1. /\ mounts \in Seq(MountRecs) /\ vheld \in [Vnodes -> Nat] /\ fheldv \in [FileIds -> Nat] /\ FilesTyped(file)
      /\ VnodesTyped(vnode) /\ VnodesCounted(vnode, mounts, file, vheld) /\ fd_files \in [Fds -> FileIds \cup {NoFile}]
  BY DEF VfsInv, VfsTyped
<1>2. PICK f \in FileIds : f = fd_files[i]
  BY <1>1 DEF fd_table_free
<1>3. /\ fd_files' = SetFd(fd_files, i, NoFile)
      /\ file' = Closing(file, vnode, f).file /\ vnode' = Closing(file, vnode, f).vnode
      /\ UNCHANGED <<mounts, dentries, vheld, fheldv, dheld>>
  BY <1>2 DEF fd_table_free, SetFd
<1>4. file[f].refcount > 0
  <2>1. PICK c : c = Cardinality(FdUses(fd_files, f))
    OBVIOUS
  <2>2. c \in Nat /\ file[f].refcount = c + fheldv[f]
    BY <2>1, UsedIsOpen
  <2>3. i \in FdUses(fd_files, f)
    BY <1>2 DEF FdUses
  <2>4. c # 0
    BY <2>1, <2>3, FdsFinite, FS_EmptySet
  <2> QED
    BY <1>1, <2>2, <2>4
<1>5. /\ FilesTyped(file') /\ VnodesTyped(vnode') /\ VnodesCounted(vnode', mounts, file', vheld)
      /\ \A g \in FileIds : file'[g].refcount = file[g].refcount - (IF g = f THEN 1 ELSE 0)
  BY <1>1, <1>3, <1>4, ClosingCounts
<1>6. fd_files' \in [Fds -> FileIds \cup {NoFile}]
  BY <1>1, <1>3, FdsMove
<1>7. FilesCounted(file', fd_files', fheldv)
  <2> SUFFICES ASSUME NEW g \in FileIds PROVE file'[g].refcount = Cardinality(FdUses(fd_files', g)) + fheldv[g]
    BY FilesCountedIs
  <2>1. PICK c, c2 : c = Cardinality(FdUses(fd_files, g)) /\ c2 = Cardinality(FdUses(fd_files', g))
    OBVIOUS
  <2>2. c \in Nat /\ fheldv[g] \in Nat /\ file[g].refcount = c + fheldv[g]
    BY <2>1, UsedIsOpen
  <2>3. c2 = c - (IF fd_files[i] = g THEN 1 ELSE 0) + (IF NoFile = g THEN 1 ELSE 0)
    BY <1>1, <1>3, <2>1, FdsMove
  <2>4. NoFile # g
    BY VfsAssumption
  <2>5. file'[g].refcount = c2 + fheldv[g]
    BY <1>2, <1>5, <2>2, <2>3, <2>4
  <2> QED
    BY <2>1, <2>5
<1> QED
  BY <1>3, <1>5, <1>6, <1>7 DEF VfsInv, VfsTyped

LEMMA FdGetInv ==
  ASSUME VfsInv, NEW i \in Fds, fd_table_get(i)
  PROVE  VfsInv'
<1>1. fd_files \in [Fds -> FileIds \cup {NoFile}] /\ fheldv \in [FileIds -> Nat]
  BY DEF VfsInv, VfsTyped
<1>2. PICK f \in FileIds : f = fd_files[i]
  BY <1>1 DEF fd_table_get
<1>3. /\ Referred(f) /\ fheldv' = [fheldv EXCEPT ![f] = fheldv[f] + 1]
      /\ UNCHANGED <<mounts, vnode, dentries, fd_files, vheld, dheld>>
  BY <1>2 DEF fd_table_get, Referred
<1>4. file[f].refcount > 0
  <2>1. PICK c : c = Cardinality(FdUses(fd_files, f))
    OBVIOUS
  <2>2. c \in Nat /\ file[f].refcount = c + fheldv[f]
    BY <2>1, UsedIsOpen
  <2>3. i \in FdUses(fd_files, f)
    BY <1>2 DEF FdUses
  <2>4. c # 0
    BY <2>1, <2>3, FdsFinite, FS_EmptySet
  <2> QED
    BY <1>1, <2>2, <2>4
<1>5. /\ FilesTyped(file') /\ VnodesCounted(vnode, mounts, file', vheld)
      /\ \A g \in FileIds : file'[g].refcount = file[g].refcount + (IF g = f THEN 1 ELSE 0)
  BY <1>3, <1>4, FileReferred
<1>6. FilesCounted(file', fd_files, fheldv')
  <2> SUFFICES ASSUME NEW g \in FileIds PROVE file'[g].refcount = Cardinality(FdUses(fd_files, g)) + fheldv'[g]
    BY FilesCountedIs
  <2>1. PICK c : c = Cardinality(FdUses(fd_files, g))
    OBVIOUS
  <2>2. c \in Nat /\ fheldv[g] \in Nat /\ file[g].refcount = c + fheldv[g]
    BY <2>1, UsedIsOpen
  <2>3. fheldv'[g] = IF g = f THEN fheldv[g] + 1 ELSE fheldv[g]
    BY <1>1, <1>3
  <2>4. file'[g].refcount = c + fheldv'[g]
    BY <1>5, <2>2, <2>3
  <2> QED
    BY <2>1, <2>4
<1>7. fheldv' \in [FileIds -> Nat]
  BY <1>1, <1>3
<1> QED
  BY <1>3, <1>5, <1>6, <1>7 DEF VfsInv, VfsTyped

LEMMA FdDestroyInv ==
  ASSUME VfsInv, fd_table_destroy
  PROVE  VfsInv'
<1>1. /\ FilesTyped(file') /\ VnodesTyped(vnode') /\ VnodesCounted(vnode', mounts, file', vheld)
      /\ \A f \in FileIds : file'[f].refcount = fheldv[f]
  BY DestroyCounts
<1>2. fd_files' = [i \in Fds |-> NoFile] /\ UNCHANGED <<mounts, dentries, vheld, fheldv, dheld>>
  BY DEF fd_table_destroy
<1>3. FilesCounted(file', fd_files', fheldv)
  <2> SUFFICES ASSUME NEW g \in FileIds PROVE file'[g].refcount = Cardinality(FdUses(fd_files', g)) + fheldv[g]
    BY FilesCountedIs
  <2>1. FdUses(fd_files', g) = {}
    BY <1>2, VfsAssumption DEF FdUses
  <2>2. Cardinality(FdUses(fd_files', g)) = 0 /\ fheldv[g] \in Nat
    BY <2>1, FS_EmptySet DEF VfsInv, VfsTyped
  <2> QED
    BY <1>1, <2>2
<1>4. fd_files' \in [Fds -> FileIds \cup {NoFile}]
  BY <1>2
<1> QED
  BY <1>1, <1>2, <1>3, <1>4 DEF VfsInv, VfsTyped

LEMMA VfsStep == VfsInv /\ [VfsNext]_VfsVars => VfsInv'
<1> SUFFICES ASSUME VfsInv, [VfsNext]_VfsVars PROVE VfsInv'
  OBVIOUS
<1>1. CASE UNCHANGED VfsVars
  BY <1>1 DEF VfsVars, VfsInv, VfsTyped
<1>2. ASSUME NEW fs \in Filesystems, register_filesystem(fs) \/ unregister_filesystem(fs) PROVE VfsInv'
  BY <1>2 DEF register_filesystem, unregister_filesystem, VfsInv, VfsTyped
<1>3. ASSUME NEW target \in VfsTargets, vfs_unmount(target) \/ \E fs \in Filesystems : vfs_mount(target, fs) PROVE VfsInv'
  BY <1>3, UnmountInv, MountInv
<1>4. CASE dentry_release \/ dentry_remove \/ fd_table_destroy
  BY <1>4, DentryReleaseInv, DentryRemoveInv, FdDestroyInv
<1>5. ASSUME NEW path \in VfsPaths, dentry_lookup(path) \/ Lookup(path) PROVE VfsInv'
  BY <1>5, DentryLookupInv, VnodeLookupInv
<1>6. ASSUME NEW path \in VfsPaths, NEW flags \in VfsFlags, NEW trunc \in BOOLEAN, vfs_open(path, flags, trunc) PROVE VfsInv'
  BY <1>6, OpenInv
<1>7. ASSUME NEW v \in Vnodes, PutVnode(v) PROVE VfsInv'
  BY <1>7, PutVnodeInv
<1>8. ASSUME NEW f \in FileIds, vfs_close(f) \/ fd_table_alloc(f) PROVE VfsInv'
  BY <1>8, CloseInv, FdAllocInv
<1>9. ASSUME NEW f \in FileIds, vfs_read(f) \/ vfs_write(f) \/ vfs_readdir(f) PROVE VfsInv'
  <2>1. PICK pos : Moves(f, pos)
    BY <1>9 DEF vfs_read, vfs_write, vfs_readdir
  <2> QED
    BY <2>1, MovesInv
<1>10. ASSUME NEW f \in FileIds, NEW mode, vfs_lseek(f, 1, mode) PROVE VfsInv'
  <2>1. PICK pos : Moves(f, pos)
    BY <1>10 DEF vfs_lseek
  <2> QED
    BY <2>1, MovesInv
<1>11. ASSUME NEW i \in Fds, fd_table_free(i) \/ fd_table_get(i) PROVE VfsInv'
  BY <1>11, FdFreeInv, FdGetInv
<1> QED
  BY <1>1, <1>2, <1>3, <1>4, <1>5, <1>6, <1>7, <1>8, <1>9, <1>10, <1>11 DEF VfsNext

LEMMA CountedRefs == VfsInv => ReferencesCounted
<1> SUFFICES ASSUME VfsInv PROVE ReferencesCounted
  OBVIOUS
<1>1. mounts \in Seq(MountRecs)
  BY DEF VfsInv, VfsTyped
<1>2. ASSUME NEW v \in Vnodes
      PROVE  vnode[v].refcount = Cardinality({i \in DOMAIN mounts : mounts[i].root = v})
                              + Cardinality({f \in FileIds : file[f].refcount > 0 /\ file[f].vnode = v})
                              + vheld[v] + (IF v = 0 THEN 1 ELSE 0)
  <2>1. \A i \in DOMAIN mounts : mounts[i] \in MountRecs
    BY <1>1
  <2>2. PlacesOf(mounts, {m \in MountRecs : m.root = v}) = {i \in DOMAIN mounts : mounts[i].root = v}
    BY <2>1 DEF PlacesOf
  <2>3. vnode[v].refcount = MountRefs(mounts, v) + Cardinality(FileUses(file, v)) + vheld[v] + (IF v = 0 THEN 1 ELSE 0)
    BY DEF VfsInv, VnodesCounted
  <2> QED
    BY <2>2, <2>3 DEF MountRefs, FileUses
<1>3. \A f \in FileIds : file[f].refcount = Cardinality({i \in Fds : fd_files[i] = f}) + fheldv[f]
  BY DEF VfsInv, FilesCounted
<1> QED
  BY <1>2, <1>3 DEF ReferencesCounted

\* For every number of vnodes, files, descriptors and dentries, every tree and every
\* limit of the cache, along every order of open, failed open, close, lookup, mount,
\* unmount and of the descriptor table: the refcount of a vnode is the number of mounts,
\* open files and callers that refer to it, and that of a file the number of descriptors
\* and callers, so that neither is freed in use and neither leaks.
THEOREM ReferencesAreCounted == FSSpec => []ReferencesCounted
<1>1. FSInit => VfsInv
  BY VfsInitInv DEF FSInit
<1>2. VfsInv /\ [FSNext]_FSVars => VfsInv'
  BY Parts, VfsStep
<1> QED
  BY <1>1, <1>2, CountedRefs, PTL DEF FSSpec
=============================================================================
