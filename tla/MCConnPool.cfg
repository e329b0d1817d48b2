\* Two connections and two requests: sign-ups that join, owners who withdraw and delete.
\* It stops when every id is used and no request is left, and when the pool is stuck.
SPECIFICATION PoolLiveSpec
CONSTANTS
    User = {u1, u2}
    Org = {o1, o2}
    Invite = {i1, i2}
    Request = {r1, r2}
    NoOrg = NoOrg
    NoUser = NoUser
    NoInvite = NoInvite
    NoRequest = NoRequest
    Ops = {"google", "accept", "create_invite", "delete_invite"}
    PoolSize = 2
INVARIANTS StuckOnlyJoining SignupSettles
PROPERTIES KeepsOrgContract AcceptedByRecipient PoolServes
CHECK_DEADLOCK FALSE
