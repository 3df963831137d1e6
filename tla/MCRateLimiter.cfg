\* A window of two seconds and a third, which EXPIRE cuts to two, so that the
\* told waits are rounded up and down; clocks that disagree by a tick and
\* stamps that are a tick under way.  Time and requests run out.
CONSTANTS
    Requests = {q1, q2, q3, q4}
    Limit = 2
    Window = 7
    Second = 3
    MaxLag = 1
    MaxSkew = 1
    MaxTime = 10
SYMMETRY Symmetry
SPECIFICATION Spec
CHECK_DEADLOCK FALSE
INVARIANTS
    SlidingWindowLimit
    RetryAfterNearlySuffices
    RefusalsJustified
