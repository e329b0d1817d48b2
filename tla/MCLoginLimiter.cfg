\* Two counters, a limit of two, three overlapping requests; Redis fails twice.
SPECIFICATION LiveSpec
CONSTANTS
    Key = {k1, k2}
    Request = {r1, r2, r3}
    NoKey = NoKey
    Limit = 2
    Window = 2
    MaxFaults = 2
INVARIANT GuessesBounded
PROPERTY LockoutEnds
