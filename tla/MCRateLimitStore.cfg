\* Two requests at a time, on a key with window 1 and limit 2 or one with window 2 and limit 1; a clock up to 3.
SPECIFICATION Spec
CONSTANTS
    short = short
    long = long
    Key = {short, long}
    Request = {r1, r2}
    NoKey = NoKey
    Window <- WindowOf
    Limit <- LimitOf
    Longest = 1
    MaxTime = 3
SYMMETRY Symmetry
INVARIANTS TypeOK LimitHolds
PROPERTY RetryMeansProgress
