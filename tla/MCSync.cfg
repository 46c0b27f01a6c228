SPECIFICATION SyncSpec
CONSTANTS
    Tasks = {t1, t2, t3}
    SemInit = 2
INVARIANTS
    SpinExclusion
    RWExclusion
    ReadersCounted
    MutexOwned
    SemConserved
    SignalConsumedOnce
PROPERTIES
    WaitersProgress
    RWProgress
