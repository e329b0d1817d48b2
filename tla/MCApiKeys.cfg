\* Two processes start, serve one key, stop and crash; three migrations, of which the second is repeatable.
SPECIFICATION KeysLiveSpec
CONSTANTS
    Instance = {s1, s2}
    Last = 3
    Repeatable = {2}
    Key = {k1}
    Request = {r1}
    Routine = {g1, g2}
    NoKey = NoKey
    NoInstance = NoInstance
    MaxTime = 3
INVARIANTS KeysTypeOK ServingComplete FailedBehind LastUseNoted
PROPERTIES StartsEnd DeletedForGood
