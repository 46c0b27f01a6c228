------------------------------ MODULE Machine ------------------------------
(***************************************************************************)
(* The parts of the kernel that share no state with one another at this    *)
(* commit: eth_rx frees IP packets and does not call ip_rx, so the link    *)
(* layer and the sockets are apart; nothing fills the buffer of sys_read   *)
(* from the keyboard driver; the block layer has no file system above it;  *)
(* nothing outside the tests calls the containers.  The areas of vma.c     *)
(* stand on the page tables, which Vma takes for a set of mapped pages:    *)
(* TranslatesAsMapped is what allows it.  A behaviour exercises one of     *)
(* these parts, and the others keep their initial state.                   *)
(***************************************************************************)
EXTENDS Net, Sockets, Sched, Vma, BlockIO, Input, Syscalls, Containers, Paging

CONSTANT Parts   \* the parts that a model exercises

VARIABLE part    \* the part that runs

MachineVars == <<NetVars, SockVars, sched, VmaVars, BlockVars, InputVars, SyscallVars, ContainerVars, paging, part>>

MachineInit ==
    /\ part \in Parts
    /\ network_init /\ socket_init /\ sched_init
    /\ IF part = "vma" THEN vma_init ELSE VmaUnset
    /\ ata_init /\ syscall_init /\ containers_init /\ paging_init
    /\ InputInit /\ (part = "controller" \/ ps2.selftest) /\ (part = "mouse" \/ ~ps2.wheelmouse)

\* Beside the part that runs, the others stay as they are.
NetworkPart ==
    /\ \/ part = "link"   /\ NetNext   /\ UNCHANGED SockVars
       \/ part = "socket" /\ SockNext  /\ UNCHANGED NetVars
       \/ part = "route"  /\ RouteNext /\ UNCHANGED NetVars
    /\ UNCHANGED <<sched, VmaVars, BlockVars, InputVars, SyscallVars, ContainerVars, paging>>

SchedPart ==
    /\ part = "sched" /\ SchedNext
    /\ UNCHANGED <<NetVars, SockVars, VmaVars, BlockVars, InputVars, SyscallVars, ContainerVars, paging>>

VmaPart ==
    /\ part = "vma" /\ VmaNext
    /\ UNCHANGED <<NetVars, SockVars, sched, BlockVars, InputVars, SyscallVars, ContainerVars, paging>>

BlockPart ==
    /\ (part = "cache" /\ CacheNext) \/ (part = "queue" /\ QueueNext)
    /\ UNCHANGED <<NetVars, SockVars, sched, VmaVars, InputVars, SyscallVars, ContainerVars, paging>>

InputPart ==
    /\ \/ part = "controller" /\ ControllerNext
       \/ part = "keyboard" /\ KeyboardNext
       \/ part = "mouse" /\ MouseNext
    /\ UNCHANGED <<NetVars, SockVars, sched, VmaVars, BlockVars, SyscallVars, ContainerVars, paging>>

SyscallPart ==
    /\ (part = "stdin" /\ StdinNext) \/ (part = "fd" /\ FdNext)
    /\ UNCHANGED <<NetVars, SockVars, sched, VmaVars, BlockVars, InputVars, ContainerVars, paging>>

ContainerPart ==
    /\ \/ part = "vector" /\ VectorNext
       \/ part = "list" /\ ListNext
       \/ part = "ring" /\ RingBufNext
       \/ part = "hash" /\ HashNext
       \/ part = "strings" /\ StrHashNext
    /\ UNCHANGED <<NetVars, SockVars, sched, VmaVars, BlockVars, InputVars, SyscallVars, paging>>

PagingPart ==
    /\ part = "paging" /\ PagingNext
    /\ UNCHANGED <<NetVars, SockVars, sched, VmaVars, BlockVars, InputVars, SyscallVars, ContainerVars>>

MachineNext ==
    /\ \/ NetworkPart \/ SchedPart \/ VmaPart \/ BlockPart
       \/ InputPart \/ SyscallPart \/ ContainerPart \/ PagingPart
    /\ UNCHANGED part

MachineSpec == MachineInit /\ [][MachineNext]_MachineVars
=============================================================================
