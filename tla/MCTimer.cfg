SPECIFICATION TimerSpec
CONSTANTS
    Timers = {a, b}
    TIMER_WHEEL_BITS = 2
    Periods = {0, 1, 4}
    Expiries = {1, 3, 6, 16}
    MaxJiffies = 18
SYMMETRY TimerSymmetry
INVARIANTS
    NeverEarly
    Placed
    LowTimersOnTime
