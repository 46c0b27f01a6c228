------------------------------ MODULE Syscalls ------------------------------
(***************************************************************************)
(* kernel/syscall_impl.c: the system calls of user programs.  A keyboard   *)
(* interrupt, which calls keyboard_buffer_put as the comment there says,   *)
(* comes between any two accesses of sys_read to memory; keyboard_count--  *)
(* reads and writes it in two accesses.  sys_write, sys_getpid and         *)
(* sys_getcwd change no state, and sys_execve does nothing.                *)
(***************************************************************************)
EXTENDS Integers, Sequences, FiniteSets

CONSTANTS StdinSize,        \* KEYBOARD_BUFFER_SIZE of this file
          Chars, Newline,   \* Newline stands for both ends of a line
          ReadCounts,       \* bound: the counts passed to sys_read
          MaxTyped,         \* bound on the characters typed
          MAX_FD, FIRST_FD, \* 128 and 10 in the code
          Paths, NoPath, NoChar

ASSUME SyscallAssumption ==
    /\ StdinSize \in Nat \ {0} /\ MaxTyped \in Nat /\ ReadCounts \subseteq Nat \ {0}
    /\ {MAX_FD, FIRST_FD} \subseteq Nat /\ FIRST_FD < MAX_FD
    /\ Newline \in Chars /\ NoChar \notin Chars /\ NoPath \notin Paths

VARIABLES stdin,      \* keyboard_buffer, keyboard_head, keyboard_tail, keyboard_count
          typed,      \* history: the number of characters typed
          taken,      \* history: which characters they are, numbered as they were put: puts and
                      \* gets count them, who has the one in each slot, lost the increments
                      \* of keyboard_count that a decrement wrote over
          call,       \* the program: where it is in sys_read
          fd_table, next_fd

StdinVars == <<stdin, taken, typed>>
FdVars == <<fd_table, next_fd>>
SyscallVars == <<StdinVars, call, FdVars>>

Idle_call == [pc |-> "user", left |-> 0, c |-> NoChar, count |-> 0]

syscall_init ==
    /\ stdin = [buffer |-> [i \in 0 .. (StdinSize - 1) |-> NoChar], head |-> 0, tail |-> 0, count |-> 0]
    /\ taken = [puts |-> 0, gets |-> 0, lost |-> 0, who |-> [i \in 0 .. (StdinSize - 1) |-> -1]]
    /\ typed = 0
    /\ call = Idle_call
    /\ fd_table = [fd \in 0 .. (MAX_FD - 1) |-> NoPath]
    /\ next_fd = FIRST_FD
-----------------------------------------------------------------------------
\* The interrupt handler, as a whole.
keyboard_buffer_put(c) ==
    /\ typed < MaxTyped /\ typed' = typed + 1
    /\ IF stdin.count < StdinSize
       THEN /\ stdin' = [stdin EXCEPT !.buffer[stdin.tail] = c, !.tail = (@ + 1) % StdinSize, !.count = @ + 1]
            /\ taken' = [taken EXCEPT !.who[stdin.tail] = taken.puts, !.puts = @ + 1]
       ELSE UNCHANGED <<stdin, taken>>
    /\ UNCHANGED <<call, FdVars>>

Go(c) == call' = c /\ UNCHANGED <<typed, FdVars>>

\* sys_read on descriptor 0; any other fails.
sys_read(count) ==
    /\ call.pc = "user"
    /\ Go([Idle_call EXCEPT !.pc = "check", !.left = count]) /\ UNCHANGED <<stdin, taken>>

\* keyboard_buffer_available, and the same test in keyboard_buffer_get.
ReadCheck ==
    /\ call.pc = "check"
    /\ Go(IF stdin.count > 0 THEN [call EXCEPT !.pc = "get"] ELSE Idle_call) /\ UNCHANGED <<stdin, taken>>

ReadGet ==
    /\ call.pc = "get"
    /\ stdin' = [stdin EXCEPT !.head = (@ + 1) % StdinSize]
    /\ taken' = [taken EXCEPT !.gets = @ + 1]
    /\ Go([call EXCEPT !.pc = "load", !.c = stdin.buffer[stdin.head]])

\* keyboard_count--, whose two accesses an interrupt may come between.
ReadLoad ==
    /\ call.pc = "load"
    /\ Go([call EXCEPT !.pc = "store", !.count = stdin.count]) /\ UNCHANGED <<stdin, taken>>

\* Mutant: the character stays in the count.
ReadStore_kept ==
    /\ call.pc = "store"
    /\ Go(IF call.left = 1 \/ call.c = Newline THEN Idle_call
          ELSE [Idle_call EXCEPT !.pc = "check", !.left = call.left - 1])
    /\ UNCHANGED <<stdin, taken>>

\* The character is echoed; sys_read ends with its count or at the end of a line.
ReadStore ==
    /\ call.pc = "store"
    /\ stdin' = [stdin EXCEPT !.count = call.count - 1]
    /\ Go(IF call.left = 1 \/ call.c = Newline THEN Idle_call
          ELSE [Idle_call EXCEPT !.pc = "check", !.left = call.left - 1])
    /\ taken' = [taken EXCEPT !.lost = @ + (stdin.count - call.count)]
-----------------------------------------------------------------------------
FreeFds == {fd \in next_fd .. (MAX_FD - 1) : fd_table[fd] = NoPath}

\* The search begins at next_fd and does not go round: it fails when only descriptors
\* below are free.
sys_open(path) ==
    LET fd == CHOOSE x \in FreeFds : \A y \in FreeFds : x <= y IN
    /\ call.pc = "user" /\ FreeFds # {}
    /\ next_fd' = IF fd + 1 >= MAX_FD THEN FIRST_FD ELSE fd + 1
    /\ fd_table' = [fd_table EXCEPT ![fd] = path]
    /\ UNCHANGED <<StdinVars, call>>

sys_close(fd) ==
    /\ call.pc = "user" /\ fd_table[fd] # NoPath
    /\ fd_table' = [fd_table EXCEPT ![fd] = NoPath]
    /\ UNCHANGED <<StdinVars, call, next_fd>>

\* The program ends in a halt from which nothing returns; interrupts go on.
sys_exit ==
    /\ call.pc = "user"
    /\ Go([Idle_call EXCEPT !.pc = "halted"]) /\ UNCHANGED <<stdin, taken>>

StdinNext ==
    \/ \E c \in Chars : keyboard_buffer_put(c)
    \/ \E count \in ReadCounts : sys_read(count)
    \/ ReadCheck \/ ReadGet \/ ReadLoad \/ ReadStore \/ sys_exit

FdNext ==
    \/ \E path \in Paths : sys_open(path)
    \/ \E fd \in DOMAIN fd_table : sys_close(fd)
-----------------------------------------------------------------------------
\* An interrupt that comes between the two accesses of a decrement has its increment
\* written over.  Whatever the interleaving, sys_read takes a slot that holds a character,
\* never one of an earlier turn round the ring than the one it has come to; the count
\* differs from the characters put and not taken by the increments lost; and as long as
\* none was lost, each character is delivered once, in the order of typing.  After a loss
\* the ring takes more than it holds: characters are overwritten, and the newer ones
\* that take their slots may come twice.
StdinInOrder ==
    LET unread == taken.puts - taken.gets
        n == taken.who[stdin.head]
    IN  /\ call.pc = "get" =>
              /\ unread > 0 /\ n \in taken.gets .. (taken.puts - 1)
              /\ n % StdinSize = taken.gets % StdinSize
              /\ taken.lost = 0 => n = taken.gets
        /\ stdin.count + taken.lost = unread + (IF call.pc \in {"load", "store"} THEN 1 ELSE 0)
=============================================================================
