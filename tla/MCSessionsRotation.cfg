\* Two refreshes of one token, no failures.
SPECIFICATION Spec
CONSTANTS
    Token = {t1, t2, t3}
    User = {u1}
    Request = {r1, r2}
    NoToken = NoToken
    NoUser = NoUser
    RefreshTTL = 1
    AccessTTL = 1
    MaxTime = 1
    Faults = {}
SYMMETRY Symmetry
INVARIANT RotationSingleUse
