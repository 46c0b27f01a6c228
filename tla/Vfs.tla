-------------------------------- MODULE Vfs --------------------------------
(***************************************************************************)
(* The virtual file system of kernel/fs/vfs.c: mounts, path lookup with    *)
(* the dentry cache, open files, one descriptor table, and the reference   *)
(* counts that hold them together.  Calls run to completion one after the  *)
(* other, each with its locks.                                             *)
(*                                                                         *)
(* A path is the sequence of its components, an absolute one with "/" in   *)
(* front; no name is a prefix of another, so the comparison of characters  *)
(* with mount targets compares components; "." and "..", which the lookup  *)
(* skips, do not occur.  A file system is outside src: its tree is a       *)
(* constant, and its lookup and root allocate a vnode with one reference,  *)
(* as vnode_put, which frees a vnode without telling it, requires.         *)
(* A vnode that nothing points to any more stands for fresh memory.  The   *)
(* callers give back the references they got, each once.  Superblocks and  *)
(* statistics are left out, and so are mount sources and file contents.    *)
(***************************************************************************)
EXTENDS Integers, Sequences, FiniteSets, SequencesExt, SeqFilter

CONSTANTS Filesystems,
          Tree,                 \* for each file system and node, the children by name
          VfsPaths, VfsTargets, \* bound: the paths and the mount targets of calls
          VfsFlags,             \* bound: access modes: RDONLY, WRONLY, RDWR
          Vnodes,               \* bound: the numbers of the vnodes, 0 for root_vnode
          FileIds,              \* bound: the file_t that kmalloc may return
          MAX_FD, MAX_DENTRY_CACHE,
          MaxDentries,          \* bound on the dentries
          MaxVfsRefs,           \* bound on the references of callers to one object
          PosBits,              \* the width of f_pos
          NoFile

\* kmalloc's memory is finite, and a path is a sequence.
ASSUME VfsAssumption ==
    /\ {MAX_FD, MAX_DENTRY_CACHE, MaxDentries, MaxVfsRefs, PosBits} \subseteq Nat
    /\ 0 \in Vnodes /\ Vnodes \subseteq Nat
    /\ IsFiniteSet(FileIds) /\ NoFile \notin FileIds
    /\ \A path \in VfsPaths \cup VfsTargets : path \in Seq({path[i] : i \in DOMAIN path})

VARIABLES filesystems,  \* the registered ones
          mounts,       \* the list from its head: target, file system, root vnode
          vnode,        \* size and refcount
          dentries,     \* the cache from its head: name, vnode, refcount
          file,         \* the open files: vnode, flags, position, refcount
          fd_files,     \* the descriptor table
          vheld, fheldv, dheld  \* the callers' references to vnodes, files and names

VfsVars == <<filesystems, mounts, vnode, dentries, file, fd_files, vheld, fheldv, dheld>>

RootPath == <<"/">>
Fds == 0 .. (MAX_FD - 1)
ClosedFile == [vnode |-> 0, flags |-> "RDONLY", pos |-> 0, refcount |-> 0]

vfs_init ==
    /\ filesystems = {} /\ mounts = <<>>
    /\ vnode = [v \in Vnodes |-> [size |-> 0, refcount |-> IF v = 0 THEN 1 ELSE 0]]
    /\ dentries = <<[name |-> RootPath, vnode |-> 0, refcount |-> 1]>>
    /\ file = [f \in FileIds |-> ClosedFile]
    /\ fd_files = [i \in Fds |-> NoFile]
    /\ vheld = [v \in Vnodes |-> 0]
    /\ fheldv = [f \in FileIds |-> 0]
    /\ dheld = <<>>

register_filesystem(fs) ==
    /\ fs \notin filesystems
    /\ filesystems' = filesystems \cup {fs}
    /\ UNCHANGED <<mounts, vnode, dentries, file, fd_files, vheld, fheldv, dheld>>

unregister_filesystem(fs) ==
    /\ fs \in filesystems
    /\ filesystems' = filesystems \ {fs}
    /\ UNCHANGED <<mounts, vnode, dentries, file, fd_files, vheld, fheldv, dheld>>
-----------------------------------------------------------------------------
\* References to vnodes.
Refs(vn, v, n) == [vn EXCEPT ![v].refcount = @ + n]
vnode_get(vn, v) == Refs(vn, v, 1)
vnode_put(vn, v) == Refs(vn, v, -1)

\* The vnodes whose memory no one can reach, of which kmalloc returns one.
FreshVnodes == {v \in Vnodes \ {0} : vnode[v].refcount = 0 /\ \A i \in DOMAIN dentries : dentries[i].vnode # v}
FreshVnode == CHOOSE v \in FreshVnodes : \A w \in FreshVnodes : v <= w

\* fs->mount, fs->root and kmalloc may fail; each failure undoes what was done.
vfs_mount(target, fs) ==
    /\ \A i \in DOMAIN mounts : mounts[i].target # target
    /\ fs \in filesystems
    /\ FreshVnodes # {}
    /\ vnode' = [vnode EXCEPT ![FreshVnode] = [size |-> 0, refcount |-> 1]]
    /\ mounts' = <<[target |-> target, fs |-> fs, root |-> FreshVnode]>> \o mounts
    /\ UNCHANGED <<filesystems, dentries, file, fd_files, vheld, fheldv, dheld>>

\* The dentries of the mount stay in the cache.
vfs_unmount(target) ==
    \E i \in DOMAIN mounts :
        /\ mounts[i].target = target
        /\ mounts' = RemoveAt(mounts, i)
        /\ vnode' = Refs(vnode, mounts[i].root, -1)
        /\ UNCHANGED <<filesystems, dentries, file, fd_files, vheld, fheldv, dheld>>

\* The loop keeps the first mount whose target is longer than the best so far.
vfs_find_mount(path) ==
    LET best[i \in 0 .. Len(mounts)] ==
            IF i = 0 THEN [target |-> <<>>, root |-> 0]
            ELSE IF Len(mounts[i].target) > Len(best[i - 1].target) /\ IsPrefix(mounts[i].target, path)
                 THEN mounts[i] ELSE best[i - 1]
    IN  best[Len(mounts)]
-----------------------------------------------------------------------------
\* The dentry cache.
DentryAt(name) == {i \in DOMAIN dentries : dentries[i].name = name}

\* The walk over the list, which stops when enough entries are gone.
dentry_prune(list) ==
    LET after[i \in 0 .. Len(list)] ==
            IF i = 0 THEN [list |-> <<>>, left |-> Len(list)]
            ELSE IF after[i - 1].left > MAX_DENTRY_CACHE \div 2 /\ list[i].refcount <= 0
                 THEN [after[i - 1] EXCEPT !.left = @ - 1]
                 ELSE [after[i - 1] EXCEPT !.list = Append(@, list[i])]
    IN  after[Len(list)].list

\* No entry for a name that has one; the vnode is kept without a reference.
dentry_add(name, v) ==
    LET new == <<[name |-> name, vnode |-> v, refcount |-> 1]>> \o dentries
    IN  IF DentryAt(name) # {} THEN dentries
        ELSE IF Len(new) > MAX_DENTRY_CACHE THEN dentry_prune(new) ELSE new

\* A caller's own lookup in the cache.
dentry_lookup(name) ==
    \E i \in DentryAt(name) :
        /\ Len(dheld) < MaxVfsRefs
        /\ dentries' = [dentries EXCEPT ![i].refcount = @ + 1]
        /\ dheld' = Append(dheld, name)
        /\ UNCHANGED <<filesystems, mounts, vnode, file, fd_files, vheld, fheldv>>

\* The entry goes with its last reference, and then gives a reference to its vnode back.
dentry_release ==
    /\ dheld # <<>>
    /\ dheld' = Tail(dheld)
    /\ \E i \in DentryAt(Head(dheld)) :
          IF dentries[i].refcount - 1 <= 0
          THEN dentries' = RemoveAt(dentries, i) /\ vnode' = vnode_put(vnode, dentries[i].vnode)
          ELSE dentries' = [dentries EXCEPT ![i].refcount = @ - 1] /\ UNCHANGED vnode
    /\ UNCHANGED <<filesystems, mounts, file, fd_files, vheld, fheldv>>

\* The holder takes the entry out, whoever else refers to it.
dentry_remove ==
    /\ dheld # <<>>
    /\ dheld' = Without(dheld, Head(dheld))
    /\ \E i \in DentryAt(Head(dheld)) : dentries' = RemoveAt(dentries, i)
    /\ UNCHANGED <<filesystems, mounts, vnode, file, fd_files, vheld, fheldv>>
-----------------------------------------------------------------------------
\* The node reached from the root of a file system by the components of a path.
Walk(fs, path) ==
    FoldLeft(LAMBDA node, c :
                IF node # "missing" /\ c \in DOMAIN Tree[fs][node] THEN Tree[fs][node][c] ELSE "missing",
             "root", path)

\* path_lookup(path, ..., result): what it returns and the state it leaves.  A hit
\* in the cache counts a reference to the entry, which nobody gives back.  The
\* vnodes on the way are allocated and put again, and leave no trace.
path_lookup(path) ==
    LET hit  == DentryAt(path)
        d    == dentries[CHOOSE i \in hit : TRUE]
        mnt  == vfs_find_mount(path)
        rest == IF mnt.target = <<>> THEN path ELSE SubSeq(path, Len(mnt.target) + 1, Len(path))
        node == IF mnt.target = <<>> THEN "missing" ELSE Walk(mnt.fs, rest)
        fail == [ok |-> FALSE, v |-> 0, vnode |-> vnode, dentries |-> dentries]
    IN  CASE hit # {} ->
                [ok |-> TRUE, v |-> d.vnode, vnode |-> vnode_get(vnode, d.vnode),
                 dentries |-> [dentries EXCEPT ![CHOOSE i \in hit : TRUE].refcount = @ + 1]]
          [] hit = {} /\ rest \in {<<>>, RootPath} ->
                [ok |-> TRUE, v |-> mnt.root, vnode |-> vnode_get(vnode, mnt.root), dentries |-> dentries]
          [] hit = {} /\ rest \notin {<<>>, RootPath} /\ node = "missing" -> fail
          [] OTHER ->
                [ok |-> TRUE, v |-> FreshVnode,
                 vnode |-> [vnode EXCEPT ![FreshVnode] = [size |-> 1, refcount |-> 1]],
                 dentries |-> dentry_add(rest, FreshVnode)]

\* Bounds: a vnode can be allocated, and counts and the cache stay small.
LookupFits(r) ==
    /\ FreshVnodes # {}
    /\ Len(r.dentries) <= MaxDentries
    /\ \A i \in DOMAIN r.dentries : r.dentries[i].refcount <= MaxVfsRefs + 1

\* A caller that keeps the vnode itself, and puts it later.
Lookup(path) ==
    LET r == path_lookup(path) IN
    /\ LookupFits(r) /\ r.ok /\ vheld[r.v] < MaxVfsRefs
    /\ vnode' = r.vnode /\ dentries' = r.dentries
    /\ vheld' = [vheld EXCEPT ![r.v] = @ + 1]
    /\ UNCHANGED <<filesystems, mounts, file, fd_files, fheldv, dheld>>

PutVnode(v) ==
    /\ vheld[v] > 0
    /\ vheld' = [vheld EXCEPT ![v] = @ - 1]
    /\ vnode' = vnode_put(vnode, v)
    /\ UNCHANGED <<filesystems, mounts, dentries, file, fd_files, fheldv, dheld>>
-----------------------------------------------------------------------------
\* Mutant: an open that the file system refuses forgets the vnode.
OpenRefused_leak(path, r) ==
    /\ vnode' = r.vnode /\ dentries' = r.dentries
    /\ UNCHANGED <<file, fheldv>>

\* kmalloc or fops->open fails: the vnode is put again.
OpenRefused(path, r) ==
    /\ vnode' = vnode_put(r.vnode, r.v) /\ dentries' = r.dentries
    /\ UNCHANGED <<file, fheldv>>

vfs_open(path, flags, trunc) ==
    LET r == path_lookup(path) IN
    /\ LookupFits(r) /\ r.ok
    /\ \/ OpenRefused(path, r)
       \/ \E f \in FileIds :
             /\ file[f].refcount = 0
             /\ vnode' = IF trunc THEN [r.vnode EXCEPT ![r.v].size = 0] ELSE r.vnode
             /\ dentries' = r.dentries
             /\ file' = [file EXCEPT ![f] = [vnode |-> r.v, flags |-> flags, pos |-> 0, refcount |-> 1]]
             /\ fheldv' = [fheldv EXCEPT ![f] = 1]
    /\ UNCHANGED <<filesystems, mounts, fd_files, vheld, dheld>>

\* The files and vnodes after vfs_close(f) on the given ones.
Closing(fl, vn, f) ==
    [file |-> IF fl[f].refcount - 1 > 0 THEN [fl EXCEPT ![f].refcount = @ - 1] ELSE [fl EXCEPT ![f] = ClosedFile],
     vnode |-> IF fl[f].refcount - 1 > 0 THEN vn ELSE vnode_put(vn, fl[f].vnode)]

vfs_close(f) ==
    LET c == Closing(file, vnode, f) IN
    /\ fheldv[f] > 0
    /\ fheldv' = [fheldv EXCEPT ![f] = @ - 1]
    /\ file' = c.file /\ vnode' = c.vnode
    /\ UNCHANGED <<filesystems, mounts, dentries, fd_files, vheld, dheld>>

\* f_pos is set to what the file system or the caller says; reading needs the flag
\* bits of VFS_O_RDONLY, which are none, or VFS_O_RDWR.
Moves(f, pos) ==
    /\ fheldv[f] > 0
    /\ file' = [file EXCEPT ![f].pos = pos % 2 ^ PosBits]
    /\ UNCHANGED <<filesystems, mounts, vnode, dentries, fd_files, vheld, fheldv, dheld>>

vfs_read(f) == file[f].flags = "RDWR" /\ Moves(f, file[f].pos + 1)
vfs_write(f) == file[f].flags \in {"WRONLY", "RDWR"} /\ Moves(f, file[f].pos + 1)
vfs_readdir(f) == Moves(f, file[f].pos + 1)

vfs_lseek(f, offset, mode) ==
    Moves(f, CASE mode = "SET" -> offset
               [] mode = "CUR" -> file[f].pos + offset
               [] mode = "END" -> vnode[file[f].vnode].size + offset)
-----------------------------------------------------------------------------
\* The descriptor table takes a reference of its own.
fd_table_alloc(f) ==
    LET free == {i \in Fds : fd_files[i] = NoFile} IN
    /\ fheldv[f] > 0 /\ free # {}
    /\ fd_files' = [fd_files EXCEPT ![CHOOSE i \in free : \A j \in free : i <= j] = f]
    /\ file' = [file EXCEPT ![f].refcount = @ + 1]
    /\ UNCHANGED <<filesystems, mounts, vnode, dentries, vheld, fheldv, dheld>>

fd_table_free(i) ==
    LET c == Closing(file, vnode, fd_files[i]) IN
    /\ fd_files[i] # NoFile
    /\ file' = c.file /\ vnode' = c.vnode
    /\ fd_files' = [fd_files EXCEPT ![i] = NoFile]
    /\ UNCHANGED <<filesystems, mounts, dentries, vheld, fheldv, dheld>>

fd_table_get(i) ==
    /\ fd_files[i] # NoFile /\ fheldv[fd_files[i]] < MaxVfsRefs
    /\ file' = [file EXCEPT ![fd_files[i]].refcount = @ + 1]
    /\ fheldv' = [fheldv EXCEPT ![fd_files[i]] = @ + 1]
    /\ UNCHANGED <<filesystems, mounts, vnode, dentries, fd_files, vheld, dheld>>

\* Every entry is closed in turn; the next table starts empty.
fd_table_destroy ==
    LET after[i \in 0 .. MAX_FD] ==
            IF i = 0 THEN [file |-> file, vnode |-> vnode]
            ELSE IF fd_files[i - 1] = NoFile THEN after[i - 1]
                 ELSE Closing(after[i - 1].file, after[i - 1].vnode, fd_files[i - 1])
    IN  /\ \E i \in Fds : fd_files[i] # NoFile
        /\ file' = after[MAX_FD].file /\ vnode' = after[MAX_FD].vnode
        /\ fd_files' = [i \in Fds |-> NoFile]
        /\ UNCHANGED <<filesystems, mounts, dentries, vheld, fheldv, dheld>>

VfsNext ==
    \/ \E fs \in Filesystems : register_filesystem(fs) \/ unregister_filesystem(fs)
    \/ \E target \in VfsTargets : vfs_unmount(target) \/ \E fs \in Filesystems : vfs_mount(target, fs)
    \/ dentry_release \/ dentry_remove \/ fd_table_destroy
    \/ \E path \in VfsPaths :
          \/ dentry_lookup(path) \/ Lookup(path)
          \/ \E flags \in VfsFlags, trunc \in BOOLEAN : vfs_open(path, flags, trunc)
    \/ \E v \in Vnodes : PutVnode(v)
    \/ \E f \in FileIds :
          \/ vfs_close(f) \/ vfs_read(f) \/ vfs_write(f) \/ vfs_readdir(f) \/ fd_table_alloc(f)
          \/ \E mode \in {"SET", "CUR", "END"} : vfs_lseek(f, 1, mode)
    \/ \E i \in Fds : fd_table_free(i) \/ fd_table_get(i)
-----------------------------------------------------------------------------
VfsTypeOK ==
    /\ filesystems \subseteq Filesystems
    /\ \A v \in Vnodes : vnode[v].refcount \in Nat
    /\ \A f \in FileIds : file[f].vnode \in Vnodes /\ file[f].refcount \in Nat /\ file[f].pos \in 0 .. (2 ^ PosBits - 1)
    /\ fd_files \in [Fds -> FileIds \cup {NoFile}]
    /\ \A i \in DOMAIN dentries : dentries[i].vnode \in Vnodes

\* Along every path of open, failed open, close, lookup, mount, unmount and of the
\* descriptor table, also for a vnode that the cache brings back after it was freed,
\* the refcount of a vnode is the number of mounts, open files and callers that refer
\* to it, and that of a file the number of descriptors and callers: neither is freed
\* while someone uses it, and neither leaks.
ReferencesCounted ==
    /\ \A v \in Vnodes :
          vnode[v].refcount = Cardinality({i \in DOMAIN mounts : mounts[i].root = v})
                              + Cardinality({f \in FileIds : file[f].refcount > 0 /\ file[f].vnode = v})
                              + vheld[v] + (IF v = 0 THEN 1 ELSE 0)
    /\ \A f \in FileIds :
          file[f].refcount = Cardinality({i \in Fds : fd_files[i] = f}) + fheldv[f]
=============================================================================
