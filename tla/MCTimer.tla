------------------------------ MODULE MCTimer ------------------------------
\* Two timers on a wheel of four slots per level, so that the levels cover the
\* expiry times 0 to 3, 4 to 15, and from 16 on.
EXTENDS Timer, TLC

\* The timers are interchangeable.
TimerSymmetry == Permutations(Timers)
=============================================================================
