\* One user, two sessions, two requests; both stores may fail.
SPECIFICATION Spec
CONSTANTS
    Token = {t1, t2}
    User = {u1}
    Request = {r1, r2}
    NoToken = NoToken
    NoUser = NoUser
    RefreshTTL = 1
    AccessTTL = 1
    MaxTime = 2
    Faults = {"redis", "postgres"}
SYMMETRY Symmetry
INVARIANTS TypeOK CleanEndIsFinal EndedTokenNotRedeemed
PROPERTIES AdmissionWithinLifetime KeepsContract
