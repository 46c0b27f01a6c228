SPECIFICATION TimerSpec
CONSTANTS
    Timers = {a}
    TIMER_WHEEL_BITS = 2
    Periods = {0, 1, 4}
    Expiries = {1, 3, 6, 16}
    MaxJiffies = 18
INVARIANTS
    NoOverdueTimer
