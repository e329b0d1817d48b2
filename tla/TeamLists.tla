------------------------------- MODULE TeamLists --------------------------------
(***************************************************************************)
(* The lists that members of an organization read: its users, its teams,   *)
(* who is in a team and who could be added.  Each is a query of its own    *)
(* over the tables of OrgTeams, and is read page by page.                  *)
(*                                                                         *)
(* Of the filters there is the status; those that match text are left out, *)
(* and so is every column but the id.                                      *)
(***************************************************************************)
EXTENDS OrgTeams, Pagination, SequencesExt

\* Lists are no longer than an int can count.
ASSUME ListsAssumption ==
    /\ IsFiniteSet(User) /\ IsFiniteSet(Invite) /\ IsFiniteSet(Team)
    /\ Cardinality(Ref) < IntEnd /\ Cardinality(Team) < IntEnd

Status == {"active", "deactive"}
Filter == Status \union {""}       \* normalizeOrgUserListFilters refuses others

\* GetOrgForMember: any active member may read the lists.
Readable(o) == \E u \in User : HasMemberWithEmail(o, u)

\* org_users: members, and the invites that can still be accepted.
OrgUsers(o) ==
    {u \in User : HasMembership(o, u)}
        \union {i \in Invite : invite[i].org = o /\ invite[i].status \in {"pending", "deactive"}}

\* teamMembersBase: seats of members, and placeholders of the organization's
\* invites, whatever became of them.
TeamMembers(t) ==
    {u \in roster[t] \cap User : HasMembership(teamOrg[t], u)}
        \union {i \in roster[t] \cap Invite : invite[i].org = teamOrg[t]}

\* Mutant of NotInTeam: only app_org_team_memberships is looked at.
NotSeated(t) == OrgUsers(teamOrg[t]) \ (roster[t] \cap User)

NotInTeam(t) == OrgUsers(teamOrg[t]) \ roster[t]

\* The status column of both queries.
Shown(o, x) ==
    IF x \in User THEN member[o][x].status
    ELSE IF invite[x].status = "pending" THEN "active" ELSE "deactive"

WithStatus(S, o, status) == {x \in S : status \in {"", Shown(o, x)}}

ListMembers(o, status) == WithStatus(OrgUsers(o), o, status)

ListTeamMembers(t, membership, status) ==
    WithStatus(IF membership = "not_in" THEN NotInTeam(t) ELSE TeamMembers(t),
               teamOrg[t], status)

ListTeams(o) == {t \in Team : teamOrg[t] = o}

\* Two COUNTs that join nothing.
MemberCount(t) == Cardinality(roster[t])

--------------------------------------------------------------------------------
\* Pages

\* Mutant of Orders: ORDER BY the names alone.  Rows with the same names come in
\* any order, and in another one for the next page.
OrdersByName(S) == SetToSeqs(S)

\* The orders a query may return the rows S in: the id is the last column of
\* every ORDER BY, which leaves one.
Orders(S) == {SetToSeq(S)}

Rows(list, p) == {list[n] : n \in PageRows(Len(list), p)}

Answer(list, p) == [rows |-> Rows(list, p), meta |-> NewMeta(Len(list), p)]

ListsOf(o) ==
    {ListTeams(o)} \union {ListMembers(o, s) : s \in Filter}
        \union {ListTeamMembers(t, m, s) : t \in ListTeams(o), m \in {"in", "not_in"}, s \in Filter}

--------------------------------------------------------------------------------
\* Properties

\* The three queries agree, though each reads the tables in its own way: with
\* any filter, a user of the organization is in exactly one of the lists "in"
\* and "not_in" of a team.  Who is "in" without being a user of the organization
\* is a placeholder left behind by an accepted invite, and member_count exceeds
\* the list by the seats of former members.
ListsAgree ==
    \A o \in Org : \A t \in ListTeams(o) :
        /\ \A s \in Filter :
              LET inside == ListTeamMembers(t, "in", s)
                  outside == ListTeamMembers(t, "not_in", s) IN
              /\ inside \cap outside = {}
              /\ ListMembers(o, s) \subseteq inside \union outside
              /\ \A x \in (inside \union outside) \ ListMembers(o, s) :
                    x \in Invite /\ invite[x].status = "accepted"
        /\ MemberCount(t) - Cardinality(TeamMembers(t))
              = Cardinality({u \in roster[t] \cap User : <<o, u>> \in joined /\ ~HasMembership(o, u)})

\* Whoever reads the pages of a list that does not change, up to the number he
\* is told, gets every row once, and nothing on the page after, with whatever
\* limit he asks for.
PagesCoverList ==
    \A o \in {x \in Org : Readable(x)} : \A S \in ListsOf(o), asked \in 0..(MaxLimit + 1) :
        LET P(n) == ParsePageLimit(n, asked)
            last == TotalPages(Cardinality(S), P(1).limit) IN
        \A seen \in [1..(last + 1) -> Orders(S)] :
            LET got == [n \in 1..(last + 1) |-> Answer(seen[n], P(n))] IN
            /\ \A n \in 1..(last + 1) : got[n].meta.totalPages = last
            /\ UNION {got[n].rows : n \in 1..last} = S
            /\ \A n, k \in 1..(last + 1) : n # k => got[n].rows \cap got[k].rows = {}
            /\ got[last + 1].rows = {}
================================================================================
