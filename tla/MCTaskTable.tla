---------------------------- MODULE MCTaskTable ----------------------------
\* Four tasks over three PIDs, so that PIDs run out and are used again.
EXTENDS TaskTable, TLC

\* The tasks that wait, the others, and the wait queues are interchangeable.
TaskSymmetry ==
    Permutations(Waiters) \cup Permutations(Threads \ Waiters) \cup Permutations(Queues)
=============================================================================
