\* Half-second ticks.  Lifetimes on and off the whole second, and on both sides
\* of what the configuration accepts; the minute and the quarter of an hour of
\* the access token are scaled down to four and five ticks.  Time runs out.
CONSTANTS
    Instances = {i1, i2}
    Second = 2
    MinimumAccess = 4
    MaximumAccess = 5
    AccessLifetimes = {3, 4, 5, 6}
    RefreshLifetimes = {0, 1, 3, 7}
    SessionLifetimes = {0, 1, 3, 6}
    MaxSkew = 2
    MaxTime = 11
    MaxAnswers = 2
SPECIFICATION Spec
INVARIANTS
    NeverPastTold
    UsableThroughLife
CHECK_DEADLOCK FALSE
