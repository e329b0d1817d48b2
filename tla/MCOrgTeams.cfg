\* One organization and team: seats and placeholders while people join and leave, under fair scheduling.
\* It stops when every id is used and no request is left.
SPECIFICATION TeamLiveSpec
CONSTANTS
    User = {u1, u2}
    Org = {o1}
    Invite = {i1}
    Request = {r1, r2}
    NoOrg = NoOrg
    NoUser = NoUser
    NoInvite = NoInvite
    NoRequest = NoRequest
    Ops = {"accept", "create_invite", "delete_invite", "remove_member"}
    Team = {t1}
    TeamRequest = {q1}
    NoTeam = NoTeam
    TeamOps = {"add_team_members", "remove_team_member", "bulk_remove_team_members"}
    MaxPick = 2
    MaxLimit = 2
    DefaultLimit = 1
    IntEnd = 8
INVARIANTS PlaceholdersBelong TeamsFromOrg ListsAgree PagesCoverList
PROPERTIES NoPlaceLost TeamRequestsFinish RequestsFinish
CHECK_DEADLOCK FALSE
