------------------------------- MODULE Tmpfs -------------------------------
(***************************************************************************)
(* The tmpfs of kernel/fs/ramdisk.c: inodes in doubly linked lists of      *)
(* children, data that grows by reallocation, and the space they use.      *)
(* Calls run to completion one after the other.  A caller deletes an inode *)
(* that is alive, and creates in a directory that is alive; it may delete  *)
(* a directory before its children.  Offsets stay small enough for offset  *)
(* + count not to wrap.  Times, modes and inode numbers are left out.      *)
(***************************************************************************)
EXTENDS Integers, Sequences, FiniteSets, FiniteSetsExt, Functions

CONSTANTS Inodes,       \* the inodes that tmpfs_create may return
          TmpRoot,      \* the root inode
          TmpFiles,     \* bound: the inodes that are written
          MAX_SIZE,     \* TMPFS_MAX_SIZE
          TmpData,      \* bound: the byte sequences that callers write
          MaxOffset,    \* bound on the offsets that callers write at
          NoInode,
          TmpJunk       \* the contents of fresh memory

ASSUME TmpfsAssumption ==
    /\ MAX_SIZE \in Nat /\ MaxOffset \in Nat
    /\ IsFiniteSet(Inodes) /\ TmpFiles \subseteq Inodes
    /\ TmpRoot \notin Inodes /\ NoInode \notin Inodes \cup {TmpRoot}
    /\ \A s \in TmpData : s \in Seq({s[i] : i \in DOMAIN s})

VARIABLES inode,        \* the inodes
          used_size,
          tmpRef        \* history: the byte last written at each offset of each inode

TmpVars == <<inode, used_size, tmpRef>>

TmpAll == Inodes \cup {TmpRoot}

\* An inode as memset leaves it; size is the length of data.
TmpBlank(st, dir) == [state |-> st, parent |-> dir, children |-> NoInode, next |-> NoInode,
                      prev |-> NoInode, refcount |-> IF st = "live" THEN 1 ELSE 0, data |-> <<>>]

Unwritten == [k \in 0 .. (MAX_SIZE - 1) |-> TmpJunk]

tmpfs_init ==
    /\ inode = [i \in TmpAll |-> TmpBlank(IF i = TmpRoot THEN "live" ELSE "new", NoInode)]
    /\ used_size = 0
    /\ tmpRef = [i \in TmpAll |-> Unwritten]

\* Mutant: the old first child does not learn of the new one.
tmpfs_create_singly(i, dir) ==
    LET first == inode[dir].children IN
    /\ inode[i].state = "new" /\ inode[dir].state = "live"
    /\ inode' = [j \in TmpAll |->
                   CASE j = i   -> [TmpBlank("live", dir) EXCEPT !.next = first]
                     [] j = dir -> [inode[j] EXCEPT !.children = i]
                     [] OTHER   -> inode[j]]
    /\ UNCHANGED <<used_size, tmpRef>>

\* The new inode becomes the first child.
tmpfs_create(i, dir) ==
    LET first == inode[dir].children IN
    /\ inode[i].state = "new" /\ inode[dir].state = "live"
    /\ inode' = [j \in TmpAll |->
                   CASE j = i     -> [TmpBlank("live", dir) EXCEPT !.next = first]
                     [] j = dir   -> [inode[j] EXCEPT !.children = i]
                     [] j = first -> [inode[j] EXCEPT !.prev = i]
                     [] OTHER     -> inode[j]]
    /\ UNCHANGED <<used_size, tmpRef>>

\* The inode leaves its parent's list and gives its space back.
tmpfs_delete(i) ==
    LET n == inode[i] IN
    /\ n.state = "live"
    /\ inode' = [j \in TmpAll |->
                   [inode[j] EXCEPT
                      !.state    = IF j = i THEN "freed" ELSE @,
                      !.refcount = IF j = i THEN @ - 1 ELSE @,
                      !.data     = IF j = i THEN <<>> ELSE @,
                      !.children = IF j = n.parent /\ n.prev = NoInode THEN n.next ELSE @,
                      !.next     = IF j = n.prev THEN n.next ELSE @,
                      !.prev     = IF j = n.next THEN n.prev ELSE @]]
    /\ used_size' = used_size - Len(n.data)
    /\ tmpRef' = [tmpRef EXCEPT ![i] = Unwritten]

\* The data after s is written at offset: the buffer grows to the end of the
\* write, keeping the old bytes; a gap between them is fresh memory.
Written(old, offset, s) ==
    [k \in 1 .. Max({Len(old), offset + Len(s)}) |->
        IF k \in (offset + 1) .. (offset + Len(s)) THEN s[k - offset]
        ELSE IF k \in DOMAIN old THEN old[k] ELSE TmpJunk]

Wrote(i, offset, s) ==
    tmpRef' = [tmpRef EXCEPT ![i] =
                 [k \in DOMAIN @ |-> IF k - offset + 1 \in DOMAIN s THEN s[k - offset + 1] ELSE @[k]]]

\* Mutant: the old buffer is not copied into the new one.
tmpfs_write_fresh(i, offset, s) ==
    LET old   == inode[i].data
        grows == offset + Len(s) > Len(old)
        new   == Written(IF grows THEN <<>> ELSE old, offset, s) IN
    /\ inode[i].state = "live"
    /\ grows => used_size + offset + Len(s) <= MAX_SIZE
    /\ inode' = [inode EXCEPT ![i].data = new]
    /\ used_size' = used_size + Len(new) - Len(old)
    /\ Wrote(i, offset, s)

\* The limit is tested with the old buffer and the new one both counted.
tmpfs_write(i, offset, s) ==
    LET old   == inode[i].data
        new   == Written(old, offset, s)
        grows == Len(new) > Len(old) IN
    /\ inode[i].state = "live"
    /\ grows => used_size + Len(new) <= MAX_SIZE
    /\ inode' = [inode EXCEPT ![i].data = new]
    /\ used_size' = used_size - Len(old) + Len(new)
    /\ Wrote(i, offset, s)

\* What tmpfs_read copies, for an offset within the file (behind the end the
\* remaining count wraps, and the copy leaves the buffer).
tmpfs_read(i, offset, count) ==
    SubSeq(inode[i].data, offset + 1,
           IF offset + count > Len(inode[i].data) THEN Len(inode[i].data) ELSE offset + count)

TmpNext ==
    \E i \in TmpAll :
        \/ \E dir \in TmpAll : tmpfs_create(i, dir)
        \/ i # TmpRoot /\ tmpfs_delete(i)
        \/ i \in TmpFiles /\ \E offset \in 0 .. MaxOffset, s \in TmpData : tmpfs_write(i, offset, s)
-----------------------------------------------------------------------------
TmpTypeOK ==
    /\ \A i \in TmpAll :
          /\ inode[i].state \in {"new", "live", "freed"}
          /\ {inode[i].parent, inode[i].children, inode[i].next, inode[i].prev} \subseteq TmpAll \cup {NoInode}
          /\ inode[i].refcount \in 0 .. 1
    /\ used_size \in Nat

TmpLive == {i \in TmpAll : inode[i].state = "live"}
TmpChildren(dir) == {i \in TmpLive : inode[i].parent = dir}

\* Whatever is created and deleted, in any order, also below deleted directories,
\* a directory's list holds exactly its live children: the first is the one without
\* a predecessor, next leads from child to child, and prev leads back.
ChildrenLinked ==
    \A dir \in TmpAll :
        LET kids == TmpChildren(dir) IN
        /\ (inode[dir].children = NoInode) <=> (kids = {})
        /\ kids # {} => inode[dir].children \in kids /\ inode[inode[dir].children].prev = NoInode
        /\ \A i \in kids :
              /\ inode[i].next \in kids \cup {NoInode}
              /\ inode[i].next # NoInode => inode[inode[i].next].prev = i
              /\ inode[i].prev = NoInode => inode[dir].children = i
              /\ inode[i].prev # NoInode => inode[i].prev \in kids /\ inode[inode[i].prev].next = i

ReadsBack ==
    \A i \in TmpLive : \A k \in DOMAIN tmpRef[i] :
        tmpRef[i][k] # TmpJunk => tmpfs_read(i, k, 1) = <<tmpRef[i][k]>>

TmpSizes == [i \in TmpAll |-> Len(inode[i].data)]

\* Through every sequence of writes, overlapping, growing and with gaps, a read gives
\* the bytes written last at each offset, and used_size is the space of the live
\* files and stays within the limit.
TmpfsKeepsData ==
    /\ ReadsBack
    /\ used_size = FoldFunctionOnSet(+, 0, TmpSizes, TmpLive)
    /\ used_size <= MAX_SIZE
=============================================================================
