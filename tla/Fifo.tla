-------------------------------- MODULE Fifo --------------------------------
(***************************************************************************)
(* The named pipes of kernel/fs/ramdisk.c: ring buffers that tasks read    *)
(* and write, waiting while they are empty or full, and that are closed    *)
(* under the tasks that use them.  What runs between spin_lock and         *)
(* spin_unlock of one FIFO is one step; the tests of closed before the     *)
(* lock, and the decrement of refcount in fifo_delete, are steps of their  *)
(* own.  The heap never reuses memory, so a freed FIFO keeps its contents. *)
(* A caller deletes only a FIFO it holds a reference to.                   *)
(***************************************************************************)
EXTENDS Integers, Sequences, FiniteSets, SeqFilter

CONSTANTS FifoTasks,
          FifoIds,          \* the fifo_t that kmalloc may return
          FifoTraffic,      \* bound: the FIFOs that are read and written
          FIFO_MAX_SIZE,
          FifoData,         \* bound: the byte sequences that callers write
          FifoCounts,       \* bound: the counts that callers read
          MaxRefs,          \* bound on the references to a FIFO
          Junk              \* the contents of fresh memory

ASSUME FifoAssumption ==
    /\ FIFO_MAX_SIZE \in Nat \ {0}
    /\ FifoTraffic \subseteq FifoIds
    /\ FifoCounts \subseteq Nat
    /\ \A s \in FifoData : s \in Seq({s[i] : i \in DOMAIN s})

VARIABLES fifo,     \* the FIFO objects
          fifos,    \* the list, from its head
          fcall,    \* the call each task is in
          fheld,    \* the references each task holds
          freed,    \* the FIFOs given to kfree
          fout      \* the bytes the last fifo_read of each FIFO copied out

FifoVars == <<fifo, fifos, fcall, fheld, freed, fout>>

Returned == [op |-> "none"]
FifoTop == FIFO_MAX_SIZE - 1

FifoInit ==
    /\ fifo = [f \in FifoIds |->
                 [buffer |-> [i \in 0 .. FifoTop |-> Junk], read_pos |-> 0, write_pos |-> 0,
                  data_len |-> 0, closed |-> FALSE, refcount |-> 0]]
    /\ fifos = <<>>
    /\ fcall = [t \in FifoTasks |-> Returned]
    /\ fheld = [t \in FifoTasks |-> [f \in FifoIds |-> 0]]
    /\ freed = {}
    /\ fout = [f \in FifoIds |-> <<>>]

Made(f) == f \in freed \/ fifo[f].refcount > 0 \/ \E i \in DOMAIN fifos : fifos[i] = f

Calls(t, call) ==
    /\ fcall[t] = Returned
    /\ fcall' = [fcall EXCEPT ![t] = call]

Hold(t, f, n) == fheld' = [fheld EXCEPT ![t][f] = @ + n]

\* kmalloc of the object and of its buffer, and the new head of the list.
fifo_create(t, f) ==
    /\ fcall[t] = Returned /\ ~Made(f)
    /\ fifo' = [fifo EXCEPT ![f].refcount = 1]
    /\ fifos' = <<f>> \o fifos
    /\ Hold(t, f, 1)
    /\ UNCHANGED <<fcall, freed, fout>>

\* All FIFOs have one name, and the first of the list is found.
fifo_get(t) ==
    /\ fcall[t] = Returned
    /\ fifos # <<>> /\ fifo[Head(fifos)].refcount < MaxRefs
    /\ fifo' = [fifo EXCEPT ![Head(fifos)].refcount = @ + 1]
    /\ Hold(t, Head(fifos), 1)
    /\ UNCHANGED <<fifos, fcall, freed, fout>>

\* The part of fifo_delete behind the test of refcount.
FifoUnlink(t) ==
    LET f == fcall[t].f IN
    /\ fcall[t].op = "unlink"
    /\ fifos' = Without(fifos, f)
    /\ freed' = freed \cup {f}
    /\ fcall' = [fcall EXCEPT ![t] = Returned]
    /\ UNCHANGED <<fifo, fheld, fout>>

fifo_delete(t, f) ==
    LET last == fifo[f].refcount - 1 <= 0 IN
    /\ fheld[t][f] > 0
    /\ Calls(t, IF last THEN [op |-> "unlink", f |-> f] ELSE Returned)
    /\ fifo' = [fifo EXCEPT ![f].closed = TRUE, ![f].refcount = @ - 1]
    /\ Hold(t, f, -1)
    /\ UNCHANGED <<fifos, freed, fout>>

\* The calls themselves: fifo_write looks at closed before it takes the lock.
ReadCall(t, f, n) ==
    /\ f \in FifoTraffic /\ fheld[t][f] > 0
    /\ Calls(t, [op |-> "read", f |-> f, n |-> n])
    /\ UNCHANGED <<fifo, fifos, fheld, freed, fout>>

WriteCall(t, f, s) ==
    /\ f \in FifoTraffic /\ fheld[t][f] > 0
    /\ ~fifo[f].closed
    /\ Calls(t, [op |-> "write", f |-> f, data |-> s])
    /\ UNCHANGED <<fifo, fifos, fheld, freed, fout>>
-----------------------------------------------------------------------------
LeastOf(a, b) == IF a < b THEN a ELSE b

\* The two memcpy of a transfer of n bytes that starts at position pos: the k-th
\* byte (from 0) lies behind pos, or in the second part at the start of the buffer.
RingSlot(pos, k) ==
    LET first_part == FIFO_MAX_SIZE - pos
    IN  IF k < first_part THEN pos + k ELSE k - first_part

\* read_pos or write_pos after a transfer of n bytes.
RingNext(pos, n) ==
    LET first_part == FIFO_MAX_SIZE - pos
    IN  IF first_part >= n THEN (pos + n) % FIFO_MAX_SIZE ELSE n - first_part

\* Mutant: a reader that waits does not look at closed.
fifo_read_deaf(t) ==
    LET q == fifo[fcall[t].f]
        n == LeastOf(fcall[t].n, q.data_len) IN
    /\ fcall[t].op = "read"
    /\ q.data_len > 0
    /\ fcall' = [fcall EXCEPT ![t] = Returned]
    /\ fifo' = [fifo EXCEPT ![fcall[t].f].read_pos = RingNext(@, n), ![fcall[t].f].data_len = @ - n]
    /\ fout' = [fout EXCEPT ![fcall[t].f] = [k \in 1 .. n |-> q.buffer[RingSlot(q.read_pos, k - 1)]]]
    /\ UNCHANGED <<fifos, fheld, freed>>

\* A turn of the loop that ends it: with data, or because the FIFO is closed.
fifo_read(t) ==
    LET q == fifo[fcall[t].f]
        n == LeastOf(fcall[t].n, q.data_len) IN
    /\ fcall[t].op = "read"
    /\ q.data_len > 0 \/ q.closed
    /\ fcall' = [fcall EXCEPT ![t] = Returned]
    /\ IF q.data_len = 0
       THEN UNCHANGED <<fifo, fout>>
       ELSE /\ fifo' = [fifo EXCEPT ![fcall[t].f].read_pos = RingNext(@, n),
                                    ![fcall[t].f].data_len = @ - n]
            /\ fout' = [fout EXCEPT ![fcall[t].f] =
                          [k \in 1 .. n |-> q.buffer[RingSlot(q.read_pos, k - 1)]]]
    /\ UNCHANGED <<fifos, fheld, freed>>

\* Mutant: the second part is copied from the start of the caller's bytes again.
PutBytes_again(f, s) ==
    LET q == fifo[f]
        n == LeastOf(Len(s), FIFO_MAX_SIZE - q.data_len)
        k(i) == IF i >= q.write_pos THEN i - q.write_pos ELSE i
        new == {RingSlot(q.write_pos, j) : j \in 0 .. (n - 1)}
    IN  fifo' = [fifo EXCEPT ![f].write_pos = RingNext(@, n),
                             ![f].data_len = @ + n,
                             ![f].buffer = [i \in 0 .. FifoTop |-> IF i \in new THEN s[k(i) + 1] ELSE @[i]]]

\* The bytes that fit are copied in; the rest of the caller's bytes is not.
PutBytes(f, s) ==
    LET q == fifo[f]
        n == LeastOf(Len(s), FIFO_MAX_SIZE - q.data_len)
        k(i) == CHOOSE j \in 0 .. (n - 1) : RingSlot(q.write_pos, j) = i
        new == {RingSlot(q.write_pos, j) : j \in 0 .. (n - 1)}
    IN  fifo' = [fifo EXCEPT ![f].write_pos = RingNext(@, n),
                             ![f].data_len = @ + n,
                             ![f].buffer = [i \in 0 .. FifoTop |-> IF i \in new THEN s[k(i) + 1] ELSE @[i]]]

\* The first look at the buffer does not test closed again; those after a wait do.
fifo_write(t) ==
    LET f == fcall[t].f
        full == fifo[f].data_len = FIFO_MAX_SIZE IN
    /\ \/ /\ fcall[t].op = "write" /\ ~full
          /\ PutBytes(f, fcall[t].data)
          /\ fcall' = [fcall EXCEPT ![t] = Returned]
       \/ /\ fcall[t].op = "write" /\ full
          /\ fcall' = [fcall EXCEPT ![t].op = "wait"]
          /\ UNCHANGED fifo
       \/ /\ fcall[t].op = "wait" /\ fifo[f].closed
          /\ fcall' = [fcall EXCEPT ![t] = Returned]
          /\ UNCHANGED fifo
       \/ /\ fcall[t].op = "wait" /\ ~fifo[f].closed /\ ~full
          /\ PutBytes(f, fcall[t].data)
          /\ fcall' = [fcall EXCEPT ![t] = Returned]
    /\ UNCHANGED <<fifos, fheld, freed, fout>>

FifoReturns(t) == fifo_read(t) \/ fifo_write(t) \/ FifoUnlink(t)

FifoNext ==
    \E t \in FifoTasks :
        \/ FifoReturns(t)
        \/ fifo_get(t)
        \/ \E f \in FifoIds :
              \/ fifo_create(t, f)
              \/ fifo_delete(t, f)
              \/ \E n \in FifoCounts : ReadCall(t, f, n)
              \/ \E s \in FifoData : WriteCall(t, f, s)
-----------------------------------------------------------------------------
FifoTypeOK ==
    /\ \A f \in FifoIds :
          /\ fifo[f].read_pos \in 0 .. FifoTop /\ fifo[f].write_pos \in 0 .. FifoTop
          /\ fifo[f].data_len \in 0 .. FIFO_MAX_SIZE
          /\ fifo[f].refcount \in 0 .. MaxRefs
    /\ freed \subseteq FifoIds
    /\ \A t \in FifoTasks : fcall[t].op \in {"none", "read", "write", "wait", "unlink"}

\* The bytes a FIFO holds, from the oldest.
FifoContent(f) ==
    [k \in 1 .. fifo[f].data_len |-> fifo[f].buffer[(fifo[f].read_pos + k - 1) % FIFO_MAX_SIZE]]

FifoQueues ==
    INSTANCE ByteQueue WITH
        Queues  <- FifoIds,
        Users   <- FifoTasks,
        Inputs  <- FifoData,
        Limit   <- FIFO_MAX_SIZE,
        content <- [f \in FifoIds |-> FifoContent(f)],
        shut    <- {f \in FifoIds : fifo[f].closed},
        entered <- [f \in FifoIds |->
                      {<<t, fcall[t].data>> : t \in {u \in FifoTasks : fcall[u].op \in {"write", "wait"} /\ fcall[u].f = f}}],
        out     <- fout

\* Every FIFO implements the abstract queue: whatever readers and writers, partial
\* transfers and wrap-arounds of the ring, bytes arrive in order and once, and
\* nothing is put by a call that started after fifo_delete.
FifoImplements == FifoQueues!QSpec

\* fifo_delete wakes everybody: each call on a closed FIFO returns.
CloseReleases ==
    \A t \in FifoTasks :
        (fcall[t] # Returned /\ fifo[fcall[t].f].closed) ~> (fcall[t] = Returned)
=============================================================================
