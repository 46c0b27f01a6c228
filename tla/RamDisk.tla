------------------------------ MODULE RamDisk ------------------------------
(***************************************************************************)
(* The RAM disks of kernel/fs/ramdisk.c and their table, and the position  *)
(* of /dev/random.  Calls run to completion one after the other; a caller  *)
(* deletes a device once.  A sector holds one value.  The other devices    *)
(* (/dev/null, /dev/zero) keep no state; counters of operations and the    *)
(* name of a device, which is the device itself here, are left out.        *)
(***************************************************************************)
EXTENDS Integers, FiniteSets

CONSTANTS RamIds,               \* the ramdisk_t that kmalloc may return
          RAMDISK_MAX_DEVICES,
          RamSizes,             \* bound: the sizes callers ask for, in sectors
          RamValues,            \* bound: the contents of a sector, 0 included
          RamSectors,           \* bound: the sector numbers and counts of calls
          RANDOM_SIZE,          \* the length of random_buffer
          NoRam

ASSUME RamDiskAssumption ==
    /\ RAMDISK_MAX_DEVICES \in Nat \ {0}
    /\ RamSizes \subseteq Nat /\ 0 \in RamValues /\ RamSectors \subseteq Nat
    /\ RANDOM_SIZE \in Nat \ {0}
    /\ NoRam \notin RamIds

VARIABLES ramdisks,         \* the table
          ramdisk_count,
          rdev,             \* the devices
          random_pos

RamVars == <<ramdisks, ramdisk_count, rdev, random_pos>>

RamSlots == 0 .. (RAMDISK_MAX_DEVICES - 1)

\* uint32_t arithmetic on byte offsets, counted in sectors of 512 bytes.
Sectors32(n) == n % 2 ^ 23

RamBlank == [state |-> "new", size |-> 0, minor |-> 0, registered |-> FALSE, data |-> <<>>]

ramdisk_init ==
    /\ ramdisks = [i \in RamSlots |-> NoRam]
    /\ ramdisk_count = 0
    /\ rdev = [d \in RamIds |-> RamBlank]
    /\ random_pos = 0

\* The device goes to the slot that the count names, whatever that slot holds.
ramdisk_create(d, size) ==
    /\ rdev[d].state = "new"
    /\ ramdisk_count < RAMDISK_MAX_DEVICES
    /\ rdev' = [rdev EXCEPT ![d] = [state |-> "live", size |-> size, minor |-> ramdisk_count,
                                    registered |-> FALSE, data |-> [s \in 0 .. (size - 1) |-> 0]]]
    /\ ramdisks' = [ramdisks EXCEPT ![ramdisk_count] = d]
    /\ ramdisk_count' = ramdisk_count + 1
    /\ UNCHANGED random_pos

\* Mutant: the search ends at the count instead of at the end of the table.
ramdisk_delete_counted(d) ==
    LET at == {i \in RamSlots : i < ramdisk_count /\ ramdisks[i] = d} IN
    /\ rdev[d].state = "live"
    /\ rdev' = [rdev EXCEPT ![d] = [RamBlank EXCEPT !.state = "freed"]]
    /\ ramdisks' = [i \in RamSlots |-> IF i \in at THEN NoRam ELSE ramdisks[i]]
    /\ ramdisk_count' = ramdisk_count - Cardinality(at)
    /\ UNCHANGED random_pos

\* The first slot that holds the device is emptied.
ramdisk_delete(d) ==
    LET at == {i \in RamSlots : ramdisks[i] = d /\ \A j \in 0 .. (i - 1) : ramdisks[j] # d} IN
    /\ rdev[d].state = "live"
    /\ rdev' = [rdev EXCEPT ![d] = [RamBlank EXCEPT !.state = "freed"]]
    /\ ramdisks' = [i \in RamSlots |-> IF i \in at THEN NoRam ELSE ramdisks[i]]
    /\ ramdisk_count' = ramdisk_count - Cardinality(at)
    /\ UNCHANGED random_pos

\* The bounds test of ramdisk_read and ramdisk_write.
RamFits(d, sector, count) ==
    Sectors32(Sectors32(sector) + Sectors32(count)) <= rdev[d].size

\* ramdisk_read copies the sectors out and changes nothing.
ramdisk_write(d, sector, count, v) ==
    LET from == Sectors32(sector)
        to   == from + Sectors32(count) - 1 IN
    /\ rdev[d].state = "live" /\ RamFits(d, sector, count)
    /\ rdev' = [rdev EXCEPT ![d].data =
                  [s \in DOMAIN @ |-> IF s \in from .. to THEN v ELSE @[s]]]
    /\ UNCHANGED <<ramdisks, ramdisk_count, random_pos>>

ramdisk_register(d, on) ==
    /\ rdev[d].state = "live"
    /\ rdev' = [rdev EXCEPT ![d].registered = on]
    /\ UNCHANGED <<ramdisks, ramdisk_count, random_pos>>

dev_random_read(count) ==
    /\ random_pos' = (random_pos + count) % RANDOM_SIZE
    /\ UNCHANGED <<ramdisks, ramdisk_count, rdev>>

RamNext ==
    \/ \E d \in RamIds :
          \/ \E size \in RamSizes : ramdisk_create(d, size)
          \/ ramdisk_delete(d)
          \/ \E sector, count \in RamSectors, v \in RamValues : ramdisk_write(d, sector, count, v)
          \/ \E on \in BOOLEAN : ramdisk_register(d, on)
    \/ \E count \in RamSectors : dev_random_read(count)
-----------------------------------------------------------------------------
RamTypeOK ==
    /\ ramdisks \in [RamSlots -> RamIds \cup {NoRam}]
    /\ ramdisk_count \in 0 .. RAMDISK_MAX_DEVICES
    /\ \A d \in RamIds : \A s \in DOMAIN rdev[d].data : rdev[d].data[s] \in RamValues
    /\ random_pos \in 0 .. (RANDOM_SIZE - 1)

\* Through any sequence of creations and deletions, the holes they leave and the
\* slots they overwrite, ramdisk_get finds only devices whose memory was not freed,
\* each in one slot, and the count bounds the slots in use.
RamdiskTable ==
    /\ \A i \in RamSlots : ramdisks[i] # NoRam =>
          /\ rdev[ramdisks[i]].state = "live"
          /\ \A j \in RamSlots : ramdisks[j] = ramdisks[i] => j = i
    /\ Cardinality({i \in RamSlots : ramdisks[i] # NoRam}) <= ramdisk_count
=============================================================================
