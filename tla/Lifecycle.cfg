\* The process ends: when every caller has returned nothing is left to do.
CONSTANTS
    Runners = {r1, r2}
    Stoppers = {s1}
    Conns = {c1, c2}
    None = None
SPECIFICATION FairSpec
CHECK_DEADLOCK FALSE
INVARIANTS
    CompleteCleanup
    CleanerNeverUsesClosed
    DrainedBeforeClose
    BootLeaksNothing
PROPERTIES
    NothingStartsAfterClosed
    ReadinessIsTrue
    CallersReturn
