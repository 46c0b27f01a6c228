------------------------------ MODULE BlockIO ------------------------------
(***************************************************************************)
(* kernel/drivers/ata.c: block devices, the buffer cache with its hash     *)
(* chains, and the queue of requests.  The port protocol of ata_read and   *)
(* ata_write is their result, done or failed, and the sectors a device     *)
(* holds.  A buffer does not know its device, so a cache serves one.       *)
(* A walk along a hash chain that never ends holds buffer_lock forever:    *)
(* the cache is `locked', and nothing of it runs any more.                 *)
(***************************************************************************)
EXTENDS Integers, Sequences, FiniteSets, Functions, LinkedList

CONSTANTS BUFFER_CACHE_SIZE,
          HASH_SIZE,            \* 64 in the code
          Sectors, DiskValues,  \* bound: the sectors used, and their contents
          MaxRefs,              \* bound on the references held at a time
          Bios,                 \* the requests, owned by the callers
          RequestSectors,       \* bound: the sectors they are for
          NoBuf, NoBio

ASSUME BlockAssumption ==
    /\ {BUFFER_CACHE_SIZE, HASH_SIZE} \subseteq Nat \ {0} /\ MaxRefs \in Nat
    /\ Sectors \subseteq Nat /\ RequestSectors \subseteq Sectors /\ 0 \in DiskValues
    /\ NoBuf \notin Nat /\ NoBio \notin Bios

VARIABLES buf,      \* the buffer heads
          buffer_hashtable,
          disk,     \* the contents of the sectors
          holds,    \* history: references held, by buffer and the sector asked for
          locked,
          bio,      \* the links, sector, operation and state of each request
          rqueue,   \* head, tail and pending of the request queue
          added     \* history: the requests in the queue as they were added

CacheVars == <<buf, buffer_hashtable, holds, locked>>
QueueVars == <<bio, rqueue, added>>
BlockVars == <<CacheVars, QueueVars, disk>>

Bufs == 0 .. (BUFFER_CACHE_SIZE - 1)
hash_sector(s) == s % HASH_SIZE
EmptyBuffer == [sector |-> 0, flags |-> {}, data |-> 0, ref_count |-> 0, next |-> NoBuf]
IdleBio == [next |-> NoBio, prev |-> NoBio, sector |-> 0, op |-> "none", st |-> "idle"]

buffer_cache_init ==
    /\ buf = [b \in Bufs |-> EmptyBuffer]
    /\ buffer_hashtable = [h \in 0 .. (HASH_SIZE - 1) |-> NoBuf]
    /\ holds = [x \in Bufs \X Sectors |-> 0]
    /\ locked = FALSE

init_request_queue ==
    /\ rqueue = [head |-> NoBio, tail |-> NoBio, pending |-> 0]
    /\ bio = [r \in Bios |-> IdleBio]
    /\ added = <<>>

\* One disk was found; the queue is that of its driver.
ata_init ==
    /\ buffer_cache_init /\ init_request_queue
    /\ disk = [s \in Sectors |-> 0]

\* What block_read leaves in a buffer, and block_write on the disk; ata_read and
\* ata_write fail when the device reports an error.
block_read(d, s, old, ok) == IF ok THEN d[s] ELSE old
block_write(d, s, v, ok) == IF ok THEN [d EXCEPT ![s] = v] ELSE d
-----------------------------------------------------------------------------
\* The walk along the chain of sector s, to a buffer of s with all of the flags.
Lookup(s, flags) ==
    LET walk[i \in 0 .. BUFFER_CACHE_SIZE] ==
            IF i = 0 THEN buffer_hashtable[hash_sector(s)]
            ELSE LET b == walk[i - 1] IN
                 IF b = NoBuf \/ (buf[b].sector = s /\ flags \subseteq buf[b].flags) THEN b ELSE buf[b].next
    IN  walk[BUFFER_CACHE_SIZE]

Found(s, flags) == LET b == Lookup(s, flags) IN b # NoBuf /\ buf[b].sector = s /\ flags \subseteq buf[b].flags

Hold(b, s) == holds' = [holds EXCEPT ![<<b, s>>] = @ + 1]
Held(b) == {s \in Sectors : holds[<<b, s>>] > 0}
RefsLeft == SumFunction(holds) < MaxRefs

\* Mutant: a buffer with one reference counts as free.
FreeBufs_held == {b \in Bufs : buf[b].ref_count <= 1}

FreeBufs == {b \in Bufs : buf[b].ref_count = 0}

\* The first free buffer becomes the buffer of s; its old contents are written back
\* when it is dirty, and it is put in front of the chain of s.
Recycle(s, flags, filled, okw, okr) ==
    LET b == CHOOSE x \in FreeBufs : \A y \in FreeBufs : x <= y
        d == IF "DIRTY" \in buf[b].flags THEN block_write(disk, buf[b].sector, buf[b].data, okw) ELSE disk
    IN  /\ FreeBufs # {}
        /\ disk' = d
        /\ buf' = [buf EXCEPT ![b] =
                     [sector |-> s, flags |-> flags, ref_count |-> 1, next |-> buffer_hashtable[hash_sector(s)],
                      data |-> IF filled THEN block_read(d, s, buf[b].data, okr) ELSE buf[b].data]]
        /\ buffer_hashtable' = [buffer_hashtable EXCEPT ![hash_sector(s)] = b]
        /\ Hold(b, s)
        /\ UNCHANGED locked

\* bread wants a valid buffer and fills a new one; getblk takes any, and a new one is dirty.
GetBuffer(s, wanted, flags, filled) ==
    /\ ~locked /\ RefsLeft
    /\ IF Found(s, wanted)
       THEN LET b == Lookup(s, wanted)
            IN  buf' = [buf EXCEPT ![b].ref_count = @ + 1] /\ Hold(b, s)
                /\ UNCHANGED <<buffer_hashtable, locked, disk>>
       ELSE IF Lookup(s, wanted) # NoBuf THEN locked' = TRUE /\ UNCHANGED <<buf, buffer_hashtable, holds, disk>>
       ELSE \E okw, okr \in BOOLEAN : Recycle(s, flags, filled, okw, okr)
    /\ UNCHANGED QueueVars

bread(s) == GetBuffer(s, {"VALID"}, {"VALID"}, TRUE)
getblk(s) == GetBuffer(s, {}, {"DIRTY"}, FALSE)

\* A holder writes the data of its buffer.
FillBuffer(b, v) ==
    /\ Held(b) # {} /\ buf' = [buf EXCEPT ![b].data = v]
    /\ UNCHANGED <<buffer_hashtable, holds, locked, disk, QueueVars>>

brelse(b, s) ==
    /\ ~locked /\ holds[<<b, s>>] > 0
    /\ buf' = [buf EXCEPT ![b].ref_count = @ - 1]
    /\ holds' = [holds EXCEPT ![<<b, s>>] = @ - 1]
    /\ UNCHANGED <<buffer_hashtable, locked, disk, QueueVars>>

\* bwrite and submit_bio: the buffer is clean, and nothing is written.
bwrite(b) ==
    /\ Held(b) # {} /\ "DIRTY" \in buf[b].flags
    /\ buf' = [buf EXCEPT ![b].flags = @ \ {"DIRTY"}]
    /\ UNCHANGED <<buffer_hashtable, holds, locked, disk, QueueVars>>

\* Every dirty buffer is written, in the order of the array; then the device is flushed.
sync_dev(ok) ==
    LET after[i \in 0 .. BUFFER_CACHE_SIZE] ==
            IF i = 0 THEN disk
            ELSE LET b == buf[i - 1] IN
                 IF "DIRTY" \in b.flags THEN block_write(after[i - 1], b.sector, b.data, ok) ELSE after[i - 1]
    IN  /\ ~locked /\ \E b \in Bufs : "DIRTY" \in buf[b].flags
        /\ disk' = after[BUFFER_CACHE_SIZE]
        /\ buf' = [b \in Bufs |-> [buf[b] EXCEPT !.flags = @ \ {"DIRTY"}]]
        /\ UNCHANGED <<buffer_hashtable, holds, locked, QueueVars>>

CacheNext ==
    \/ \E s \in Sectors : bread(s) \/ getblk(s)
    \/ \E b \in Bufs : \/ \E v \in DiskValues : FillBuffer(b, v)
                       \/ \E s \in Sectors : brelse(b, s)
                       \/ bwrite(b)
    \/ \E ok \in BOOLEAN : sync_dev(ok)
-----------------------------------------------------------------------------
add_request(r, s, op) ==
    LET tail == rqueue.tail
        new  == [IdleBio EXCEPT !.prev = tail, !.sector = s, !.op = op, !.st = "queued"]
        b1   == [bio EXCEPT ![r] = new] IN
    /\ bio[r].st # "queued"
    /\ bio' = IF tail # NoBio THEN [b1 EXCEPT ![tail].next = r] ELSE b1
    /\ rqueue' = [head |-> IF tail # NoBio THEN rqueue.head ELSE r, tail |-> r, pending |-> rqueue.pending + 1]
    /\ added' = Append(added, r)
    /\ UNCHANGED <<CacheVars, disk>>

\* Mutant: the tail is left behind when the last request is taken.
get_request_tail ==
    LET r == rqueue.head
        next == bio[r].next
        b1 == IF next # NoBio THEN [bio EXCEPT ![next].prev = NoBio] ELSE bio
    IN  [queue |-> [head |-> next, tail |-> rqueue.tail, pending |-> rqueue.pending - 1],
         bio |-> [b1 EXCEPT ![r].next = NoBio, ![r].prev = NoBio]]

get_request ==
    LET r == rqueue.head
        next == bio[r].next
        b1 == IF next # NoBio THEN [bio EXCEPT ![next].prev = NoBio] ELSE bio
    IN  [queue |-> [head |-> next, tail |-> IF next # NoBio THEN rqueue.tail ELSE NoBio,
                    pending |-> rqueue.pending - 1],
         bio |-> [b1 EXCEPT ![r].next = NoBio, ![r].prev = NoBio]]

\* One turn of the loop; the callback may add a request before the next one.
process_requests(ok, v) ==
    LET r == rqueue.head
        got == get_request IN
    /\ r # NoBio
    /\ bio' = [got.bio EXCEPT ![r].st = IF ok THEN "done" ELSE "error"]
    /\ rqueue' = got.queue
    /\ added' = IF added # <<>> THEN Tail(added) ELSE added
    /\ disk' = IF bio[r].op = "write" THEN block_write(disk, bio[r].sector, v, ok) ELSE disk
    /\ UNCHANGED CacheVars

QueueNext ==
    \/ \E r \in Bios, s \in RequestSectors, op \in {"read", "write", "flush"} : add_request(r, s, op)
    \/ \E ok \in BOOLEAN, v \in DiskValues : process_requests(ok, v)
-----------------------------------------------------------------------------
\* A buffer that somebody holds is not recycled: it goes on being the buffer of the
\* sector it was asked for, however many lookups, evictions and failed transfers
\* come in between, and its count is the number of references to it.
HeldBuffersStay ==
    \A b \in Bufs :
        /\ \A s \in Held(b) : buf[b].sector = s
        /\ \A s \in Held(b) : buf[b].ref_count = holds[<<b, s>>]
        /\ Held(b) = {} => buf[b].ref_count = 0

\* Requests are carried out in the order in which they were added, also those that
\* a callback adds, none that was added is lost, and the queue is a whole list, along
\* the links in either direction.
RequestsInOrder ==
    /\ LinkedAs(bio, rqueue.head, rqueue.tail, NoBio, added) /\ rqueue.pending = Len(added)
    /\ \A i \in 1 .. Len(added) : bio[added[i]].st = "queued"
=============================================================================
