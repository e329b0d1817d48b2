\* One organization, three emails, one invite, three requests, every operation.
\* It stops when every id is used and no request is left.
SPECIFICATION Spec
CONSTANTS
    User = {u1, u2, u3}
    Org = {o1}
    Invite = {i1}
    Request = {r1, r2, r3}
    NoOrg = NoOrg
    NoUser = NoUser
    NoInvite = NoInvite
    NoRequest = NoRequest
    Ops = {"google", "accept", "create_invite", "add_member", "update_invite", "delete_invite", "member_status", "remove_member"}
SYMMETRY Symmetry
INVARIANTS TypeOK SignupSettles
PROPERTIES OwnerStands KeepsOrgContract
CHECK_DEADLOCK FALSE
