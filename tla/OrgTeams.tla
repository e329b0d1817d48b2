-------------------------------- MODULE OrgTeams --------------------------------
(***************************************************************************)
(* Teams of an organization, on top of OrgMembership.  A team holds users, *)
(* and placeholders for people who are only invited; accepting the invite  *)
(* promotes them, deleting it removes them.  Requests on teams interleave  *)
(* with those of OrgMembership, whose every step is kept here: some get an *)
(* effect on the teams, and AcceptInvite's transaction has more steps.     *)
(*                                                                         *)
(*   AppOrgService (service/app_org.go) and AppOrgPG (repository), teams.  *)
(*                                                                         *)
(* Names of teams are left out.  No operation deletes a team.              *)
(***************************************************************************)
EXTENDS OrgMembership

CONSTANTS
    Team,         \* team ids that can be created
    TeamRequest,  \* requests on teams in progress at the same time
    NoTeam,
    TeamOps,      \* the team operations clients call (bounds a model)
    MaxPick       \* the most ids in one request (bounds a model)

AllTeamOps == {"add_team_members", "remove_team_member", "bulk_remove_team_members"}

ASSUME TeamAssumption ==
    /\ NoTeam \notin Team
    /\ User \cap Invite = {}     \* an invite's id has the prefix "invite:"
    /\ TeamOps \subseteq AllTeamOps

VARIABLES
    teamOrg,    \* teamOrg[t]: the organization of team t, or NoOrg
    roster,     \* roster[t]: rows of app_org_team_memberships (users) and of
                \* app_org_team_invite_memberships (invites)
    promotion,  \* promotion[r]: what r's transaction in AcceptInvite did to teams
    teamPc,     \* teamPc[q], teamCall[q]: request q's next step and what it works on
    teamCall,
    joined      \* history: who was a member of which organization at some time

teamRequests == <<teamPc, teamCall>>
teams == <<teamOrg, roster>>
teamVars == <<vars, teams, promotion, teamRequests, joined>>

Ref == User \union Invite

TeamStep == {"idle", "check_users", "check_invites", "insert", "remove", "bulk_users", "bulk_invites"}
TeamCall == [team : Team \union {NoTeam}, left : SUBSET Ref]
NoTeamCall == [team |-> NoTeam, left |-> {}]

\* found: the teams with a placeholder; left: those still to be seen to; added:
\* those whose row was inserted, which nobody else sees before the commit.
Promotion == [begun : BOOLEAN, found : SUBSET Team, left : SUBSET Team, added : SUBSET Team]
NoPromotion == [begun |-> FALSE, found |-> {}, left |-> {}, added |-> {}]

TeamTypeOK ==
    /\ teamOrg \in [Team -> Org \union {NoOrg}]
    /\ roster \in [Team -> SUBSET Ref]
    /\ promotion \in [Request -> Promotion]
    /\ teamPc \in [TeamRequest -> TeamStep]
    /\ teamCall \in [TeamRequest -> TeamCall]
    /\ joined \subseteq Org \X User

TeamInit ==
    /\ Init
    /\ teamOrg = [t \in Team |-> NoOrg]
    /\ roster = [t \in Team |-> {}]
    /\ promotion = [r \in Request |-> NoPromotion]
    /\ teamPc = [q \in TeamRequest |-> "idle"]
    /\ teamCall = [q \in TeamRequest |-> NoTeamCall]
    /\ joined = {}

Holding(i) == {t \in Team : i \in roster[t]}

\* No open transaction has inserted u's row in team t.
SeatFree(t, u) == \A r \in Request : t \in promotion[r].added => call[r].user # u

\* Mutant of AreOrgMembers: it is enough to have an account.
AreUsers(o, S) == S \subseteq registered

AreOrgMembers(o, S) == \A u \in S : HasMembership(o, u)

AreOrgInvites(o, S) ==
    \A i \in S : invite[i].org = o /\ invite[i].status \in {"pending", "deactive"}

--------------------------------------------------------------------------------
\* Requests on teams

TeamStart(q, to, t, S) ==
    /\ teamPc[q] = "idle"
    /\ teamOrg[t] # NoOrg /\ RequireOrgOwner(teamOrg[t])
    /\ teamPc' = [teamPc EXCEPT ![q] = to]
    /\ teamCall' = [teamCall EXCEPT ![q] = [team |-> t, left |-> S]]
    /\ UNCHANGED teams

TeamGoto(q, to) ==
    /\ teamPc' = [teamPc EXCEPT ![q] = to]
    /\ UNCHANGED teamCall

TeamFinish(q) ==
    /\ teamPc' = [teamPc EXCEPT ![q] = "idle"]
    /\ teamCall' = [teamCall EXCEPT ![q] = NoTeamCall]

CreateTeam(t, o) ==
    /\ teamOrg[t] = NoOrg
    /\ RequireOrgOwner(o)
    /\ teamOrg' = [teamOrg EXCEPT ![t] = o]
    /\ UNCHANGED <<roster, teamRequests>>

Picks == {S \in SUBSET Ref : S # {} /\ Cardinality(S) <= MaxPick}

AddTeamMembers(q, t, S) ==
    /\ "add_team_members" \in TeamOps
    /\ TeamStart(q, "check_users", t, S)

TeamCheckUsers(q) ==
    /\ teamPc[q] = "check_users"
    /\ IF AreOrgMembers(teamOrg[teamCall[q].team], teamCall[q].left \cap User)
       THEN TeamGoto(q, "check_invites")
       ELSE TeamFinish(q)
    /\ UNCHANGED teams

TeamCheckInvites(q) ==
    /\ teamPc[q] = "check_invites"
    /\ IF AreOrgInvites(teamOrg[teamCall[q].team], teamCall[q].left \cap Invite)
       THEN TeamGoto(q, "insert")
       ELSE TeamFinish(q)
    /\ UNCHANGED teams

\* The loop goes on with the ids that are left, in the order of the request.
TeamNextId(q, x) ==
    /\ teamCall' = [teamCall EXCEPT ![q].left = @ \ {x}]
    /\ UNCHANGED teamPc

SeatUser(q, u) ==
    LET t == teamCall[q].team IN
    /\ teamPc[q] = "insert" /\ u \in teamCall[q].left
    /\ SeatFree(t, u)
    /\ roster' = [roster EXCEPT ![t] = @ \union {u}]
    /\ TeamNextId(q, u)
    /\ UNCHANGED teamOrg

\* Mutant of SeatInvite: it does not wait for the transaction that accepts the
\* invite (as without the foreign key to app_org_invites).
SeatInviteAtOnce(q, i) ==
    LET t == teamCall[q].team IN
    /\ teamPc[q] = "insert" /\ i \in teamCall[q].left
    /\ roster' = [roster EXCEPT ![t] = @ \union {i}]
    /\ TeamNextId(q, i)
    /\ UNCHANGED teamOrg

\* The new row refers to the invite's: it waits for the row's lock, and fails
\* when the invite is gone.
SeatInvite(q, i) ==
    LET t == teamCall[q].team IN
    /\ teamPc[q] = "insert" /\ i \in teamCall[q].left
    /\ \/ /\ i \in roster[t]
          /\ TeamNextId(q, i) /\ UNCHANGED roster
       \/ /\ i \notin roster[t] /\ Free(i) /\ invite[i].status # "deleted"
          /\ roster' = [roster EXCEPT ![t] = @ \union {i}]
          /\ TeamNextId(q, i)
       \/ /\ i \notin roster[t] /\ invite[i].status = "deleted"
          /\ TeamFinish(q) /\ UNCHANGED roster
    /\ UNCHANGED teamOrg

Seated(q) ==
    /\ teamPc[q] = "insert" /\ teamCall[q].left = {}
    /\ TeamFinish(q)
    /\ UNCHANGED teams

\* isTeamMemberRef, then the DELETE.
RemoveTeamMember(q, t, x) ==
    /\ "remove_team_member" \in TeamOps
    /\ x \in roster[t]
    /\ TeamStart(q, "remove", t, {x})

TeamRemove(q) ==
    /\ teamPc[q] = "remove"
    /\ roster' = [roster EXCEPT ![teamCall[q].team] = @ \ teamCall[q].left]
    /\ TeamFinish(q)
    /\ UNCHANGED teamOrg

\* One DELETE for the users, one for the invites.
BulkRemoveTeamMembers(q, t, S) ==
    /\ "bulk_remove_team_members" \in TeamOps
    /\ TeamStart(q, "bulk_users", t, S)

BulkUsers(q) ==
    /\ teamPc[q] = "bulk_users"
    /\ roster' = [roster EXCEPT ![teamCall[q].team] = @ \ (teamCall[q].left \cap User)]
    /\ TeamGoto(q, "bulk_invites")
    /\ UNCHANGED teamOrg

BulkInvites(q) ==
    /\ teamPc[q] = "bulk_invites"
    /\ roster' = [roster EXCEPT ![teamCall[q].team] = @ \ (teamCall[q].left \cap Invite)]
    /\ TeamFinish(q)
    /\ UNCHANGED teamOrg

\* A crash, a lost connection or a cancelled request: what was inserted stays.
TeamAbandon(q) ==
    /\ teamPc[q] # "idle"
    /\ TeamFinish(q)
    /\ UNCHANGED teams

TeamBegin(q) ==
    \/ \E t \in Team, S \in Picks : AddTeamMembers(q, t, S) \/ BulkRemoveTeamMembers(q, t, S)
    \/ \E t \in Team, x \in Ref : RemoveTeamMember(q, t, x)

TeamAdvance(q) ==
    \/ TeamCheckUsers(q) \/ TeamCheckInvites(q)
    \/ (\E u \in User : SeatUser(q, u)) \/ (\E i \in Invite : SeatInvite(q, i)) \/ Seated(q)
    \/ TeamRemove(q) \/ BulkUsers(q) \/ BulkInvites(q)

--------------------------------------------------------------------------------
\* What the operations of OrgMembership do to teams

Accepts(r) == pc[r] = "accept_write" /\ invite'[call[r].inv].status = "accepted"

\* AcceptInvite: INSERT ... SELECT, inside the transaction.  The statement sees the
\* placeholders of the moment it begins.
Promote(r) ==
    LET S == Holding(call[r].inv) IN
    /\ pc[r] = "accept_write" /\ ~promotion[r].begun
    /\ promotion' = [promotion EXCEPT ![r] = [begun |-> TRUE, found |-> S, left |-> S, added |-> {}]]
    /\ UNCHANGED <<vars, roster>>

\* It inserts row by row, ON CONFLICT DO NOTHING: for a row that another transaction has
\* inserted it waits, and keeps what it has inserted so far.
PromoteRow(r, t) ==
    LET u == call[r].user IN
    /\ t \in promotion[r].left
    /\ SeatFree(t, u)
    /\ promotion' = [promotion EXCEPT ![r].left = @ \ {t},
                                      ![r].added = IF u \in roster[t] THEN @ ELSE @ \union {t}]
    /\ UNCHANGED <<vars, roster>>

\* The placeholders are cleared and the inserted rows appear with the commit.
AcceptedRoster(r, t) ==
    (roster[t] \ {call[r].inv})
        \union (IF t \in promotion[r].added THEN {call[r].user} ELSE {})

AcceptCommit(r) ==
    /\ promotion[r].begun /\ promotion[r].left = {}
    /\ AcceptWrite(r)
    /\ roster' = IF Accepts(r) THEN [t \in Team |-> AcceptedRoster(r, t)] ELSE roster
    /\ promotion' = [promotion EXCEPT ![r] = NoPromotion]

\* Mutant of InviteDeleteCascade: the placeholders stay.
InviteDeleteAlone(r) ==
    /\ InviteDelete(r)
    /\ UNCHANGED <<roster, promotion>>

\* ON DELETE CASCADE.
InviteDeleteCascade(r) ==
    LET i == call[r].inv IN
    /\ InviteDelete(r)
    /\ roster' = IF invite'[i].status = "deleted" THEN [t \in Team |-> roster[t] \ {i}]
                                                  ELSE roster
    /\ UNCHANGED promotion

AbandonTransaction(r) ==
    /\ Abandon(r)
    /\ promotion' = [promotion EXCEPT ![r] = NoPromotion]
    /\ UNCHANGED roster

\* Every other step of the request leaves the teams alone.
OtherAdvance(r) ==
    /\ pc[r] \notin {"accept_write", "invite_delete"}
    /\ Advance(r)
    /\ UNCHANGED <<roster, promotion>>

OrgAdvance(r) ==
    \/ Promote(r) \/ (\E t \in Team : PromoteRow(r, t)) \/ AcceptCommit(r)
    \/ InviteDeleteCascade(r) \/ OtherAdvance(r)

OrgBegin(r) == Begin(r) /\ UNCHANGED <<roster, promotion>>

OrgCreate == (\E o \in Org, u \in User : CreateOrg(o, u)) /\ UNCHANGED <<roster, promotion>>

--------------------------------------------------------------------------------
OrgSide ==
    /\ (\E r \in Request : OrgBegin(r) \/ OrgAdvance(r) \/ AbandonTransaction(r)) \/ OrgCreate
    /\ UNCHANGED <<teamOrg, teamRequests>>

TeamSide ==
    /\ \/ \E q \in TeamRequest : TeamBegin(q) \/ TeamAdvance(q) \/ TeamAbandon(q)
       \/ \E t \in Team, o \in Org : CreateTeam(t, o)
    /\ UNCHANGED <<vars, promotion>>

Remember == joined' = joined \union {p \in Org \X User : HasMembership(p[1], p[2])'}

TeamNext == (OrgSide \/ TeamSide) /\ Remember

TeamSpec == TeamInit /\ [][TeamNext]_teamVars

TeamFairness ==
    /\ \A r \in Request : SF_teamVars(OrgAdvance(r) /\ UNCHANGED <<teamOrg, teamRequests>> /\ Remember)
    /\ \A q \in TeamRequest : SF_teamVars(TeamAdvance(q) /\ UNCHANGED <<vars, promotion>> /\ Remember)

TeamLiveSpec == TeamSpec /\ TeamFairness

--------------------------------------------------------------------------------
\* Properties

\* No foreign key says so, but a placeholder is of an invite to the team's own
\* organization that is still there: AddTeamMembers has checked it before a
\* series of separate statements, and invites are accepted and deleted meanwhile.
PlaceholdersBelong ==
    \A t \in Team : \A i \in roster[t] \cap Invite :
        invite[i].org = teamOrg[t] /\ invite[i].status # "deleted"

\* Nobody is in a team of an organization he never was a member of, however he
\* came there: by AddTeamMembers, whose check may be out of date, or by
\* AcceptInvite, which may find his membership there, gone, or deactivated.
TeamsFromOrg ==
    \A t \in Team : \A u \in roster[t] \cap User : <<teamOrg[t], u>> \in joined

\* Accepting an invite loses no place: where a placeholder is cleared, the user
\* has a seat (or had one of his own when this one was promoted).  A
\* placeholder inserted between the two statements would be cleared only.
NoPlaceLost ==
    [][\A r \in Request : Accepts(r) =>
          \A t \in Holding(call[r].inv) :
              \/ call[r].user \in roster'[t]
              \/ t \in promotion[r].found \ (promotion[r].left \union promotion[r].added)]_teamVars

\* Every request on a team ends, also one that waits for the row of an invite.
TeamRequestsFinish == \A q \in TeamRequest : teamPc[q] # "idle" ~> teamPc[q] = "idle"
================================================================================
