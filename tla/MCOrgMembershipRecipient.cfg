\* An invite is sent on to another email while its first recipient accepts it.
\* It stops when every id is used and no request is left.
SPECIFICATION Spec
CONSTANTS
    User = {u1, u2, u3}
    Org = {o1}
    Invite = {i1}
    Request = {r1, r2}
    NoOrg = NoOrg
    NoUser = NoUser
    NoInvite = NoInvite
    NoRequest = NoRequest
    Ops = {"accept", "create_invite", "update_invite"}
SYMMETRY Symmetry
PROPERTIES RecipientAccepts
CHECK_DEADLOCK FALSE
