---------------------------- MODULE FileSystems ----------------------------
(***************************************************************************)
(* The file layer: named pipes, RAM disks, tmpfs and the VFS.  At this     *)
(* commit they share no state (nothing registers a file system with the    *)
(* VFS), so a behaviour exercises one of them, chosen at the start.        *)
(***************************************************************************)
EXTENDS Fifo, RamDisk, Tmpfs, Vfs

VARIABLE part   \* the component that runs

FSVars == <<FifoVars, RamVars, TmpVars, VfsVars, part>>

FSInit ==
    /\ FifoInit /\ ramdisk_init /\ tmpfs_init /\ vfs_init
    /\ part \in {"fifo", "ramdisk", "tmpfs", "vfs"}

FSNext ==
    /\ \/ part = "fifo"    /\ FifoNext /\ UNCHANGED <<RamVars, TmpVars, VfsVars>>
       \/ part = "ramdisk" /\ RamNext  /\ UNCHANGED <<FifoVars, TmpVars, VfsVars>>
       \/ part = "tmpfs"   /\ TmpNext  /\ UNCHANGED <<FifoVars, RamVars, VfsVars>>
       \/ part = "vfs"     /\ VfsNext  /\ UNCHANGED <<FifoVars, RamVars, TmpVars>>
    /\ UNCHANGED part

\* A task inside fifo_read, fifo_write or fifo_delete runs on: delay_ms returns, and
\* the spinlock is held for a bounded copy only.
FSFairness ==
    \A t \in FifoTasks :
        WF_FSVars(FifoReturns(t) /\ UNCHANGED <<RamVars, TmpVars, VfsVars, part>>)

FSSpec == FSInit /\ [][FSNext]_FSVars /\ FSFairness

FSTypeOK == FifoTypeOK /\ RamTypeOK /\ TmpTypeOK /\ VfsTypeOK
=============================================================================
