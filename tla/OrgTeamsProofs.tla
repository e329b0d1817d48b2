----------------------------- MODULE OrgTeamsProofs -----------------------------
(***************************************************************************)
(* Theorems about OrgTeams.  Its steps are steps of OrgMembership or leave *)
(* that module's state alone, so the invariant of OrgMembershipProofs may  *)
(* be used throughout.  The last two parts are about TeamLists and         *)
(* Pagination: that the lists agree in every state, and that a list's      *)
(* pages are complete, for every length and every limit asked for.         *)
(***************************************************************************)
EXTENDS TeamLists, OrgMembershipProofs, FiniteSetTheorems

--------------------------------------------------------------------------------
\* Teams and organizations

LEMMA OrgSideSteps ==
    ASSUME OrgSide
    PROVE  [Next]_vars
  <1>1. ASSUME NEW r \in Request, OrgAdvance(r)
        PROVE  Advance(r) \/ UNCHANGED vars
    BY <1>1 DEF OrgAdvance, Promote, PromoteRow, AcceptCommit, InviteDeleteCascade, OtherAdvance, Advance
  <1> QED
    BY <1>1 DEF OrgSide, OrgBegin, AbandonTransaction, OrgCreate, Next

\* Teams change nothing in how memberships and invites behave: every theorem
\* about Spec is one about TeamSpec.
THEOREM TeamsKeepOrganizations == TeamSpec => Spec
  <1>1. TeamInit => Init
    BY DEF TeamInit
  <1>2. [TeamNext]_teamVars => [Next]_vars
    BY OrgSideSteps DEF TeamNext, TeamSide, teamVars
  <1> QED
    BY <1>1, <1>2, PTL DEF TeamSpec, Spec

--------------------------------------------------------------------------------
\* The invariant

\* What sits in a team comes from the team's organization.
SeatsBelong ==
    \A t \in Team :
        /\ roster[t] # {} => teamOrg[t] \in Org
        /\ \A i \in roster[t] \cap Invite :
              invite[i].status \notin {"unused", "deleted"} /\ invite[i].org = teamOrg[t]
        /\ \A u \in roster[t] \cap User : <<teamOrg[t], u>> \in joined

MembersJoined == \A o \in Org, u \in User : HasMembership(o, u) => <<o, u>> \in joined

\* What the transaction of AcceptInvite did, and knows.
Promotes(r) ==
    /\ promotion[r].begun =>
          /\ pc[r] = "accept_write"
          /\ Holding(call[r].inv) \subseteq promotion[r].found
          /\ \A t \in promotion[r].found : teamOrg[t] = call[r].org
    /\ ~promotion[r].begun => promotion[r] = NoPromotion
    /\ promotion[r].left \subseteq promotion[r].found /\ promotion[r].added \subseteq promotion[r].found
    /\ pc[r] = "accept_write" /\ call[r].mark # "none" => <<call[r].org, call[r].user>> \in joined

Promoting == \A r \in Request : Promotes(r)

\* What a request on a team has checked stays true enough.
TeamKnows(q) ==
    LET t == teamCall[q].team IN
    /\ teamPc[q] # "idle" => t \in Team /\ teamOrg[t] \in Org
    /\ teamPc[q] \in {"check_invites", "insert"} =>
          \A u \in teamCall[q].left \cap User : <<teamOrg[t], u>> \in joined
    /\ teamPc[q] = "insert" =>
          \A i \in teamCall[q].left \cap Invite :
              invite[i].status # "unused" /\ invite[i].org = teamOrg[t]

Checked == \A q \in TeamRequest : TeamKnows(q)

TInv == TeamTypeOK /\ SeatsBelong /\ MembersJoined /\ Promoting /\ Checked

LEMMA InitTInv == TeamInit => TInv
  BY NoneAssumption, TeamAssumption
     DEF TeamInit, Init, TInv, TeamTypeOK, SeatsBelong, MembersJoined, HasMembership, NoRow, Promoting,
         Promotes, NoPromotion, Promotion, Checked, TeamKnows, TeamStep, TeamCall, NoTeamCall

--------------------------------------------------------------------------------
\* What the steps of OrgMembership may do to invites

InvitesStay ==
    \A i \in Invite : invite[i].status # "unused" =>
        invite'[i].status # "unused" /\ invite'[i].org = invite[i].org

LEMMA NextInvitesStay ==
    ASSUME IInv, [Next]_vars
    PROVE  InvitesStay
  <1>1. CASE UNCHANGED invite
    BY <1>1 DEF InvitesStay
  <1>2. ASSUME NEW r \in Request, NEW i \in Invite, InviteInsert(r, i)
        PROVE  InvitesStay
    <2>1. invite[i].status = "unused" /\ \A j \in Invite \ {i} : invite'[j] = invite[j]
      BY <1>2 DEF InviteInsert, IInv, TypeOK
    <2> QED
      BY <2>1 DEF InvitesStay
  <1>3. ASSUME NEW r \in Request, InviteUpdate(r)
        PROVE  InvitesStay
    <2> DEFINE i == call[r].inv
    <2>1. i \in Invite /\ call[r].mark # "unused"
      BY <1>3 DEF InviteUpdate, IInv, Requests, Knows, InviteSteps
    <2>2. CASE invite' = [invite EXCEPT ![i].email = call[r].user, ![i].status = call[r].mark]
      BY <2>1, <2>2 DEF InvitesStay, IInv, TypeOK, InviteRow
    <2> QED
      BY <1>1, <1>3, <2>2 DEF InviteUpdate
  <1>4. ASSUME NEW r \in Request, InviteWithdraw(r) \/ InviteDelete(r) \/ AcceptWrite(r)
        PROVE  InvitesStay
    <2> DEFINE i == call[r].inv
    <2>1. ASSUME NEW s \in {"deactive", "deleted", "accepted"}, invite' = [invite EXCEPT ![i].status = s]
          PROVE  InvitesStay
      BY <2>1 DEF InvitesStay, IInv, TypeOK, InviteRow
    <2> QED
      BY <1>1, <1>4, <2>1 DEF InviteWithdraw, InviteDelete, AcceptWrite
  <1>5. ASSUME NEW o \in Org, NEW u \in User, CreateOrg(o, u)
        PROVE  UNCHANGED invite
    BY <1>5 DEF CreateOrg
  <1>6. ASSUME NEW r \in Request,
               MemberUpsert(r) \/ MemberUpdate(r) \/ MemberDeactivate(r) \/ MemberDelete(r)
        PROVE  UNCHANGED invite
    BY <1>6 DEF MemberUpsert, MemberUpdate, MemberDeactivate, MemberDelete
  <1> QED
    BY <1>1, <1>2, <1>3, <1>4, <1>5, <1>6, QuietStep DEF Next, Advance, vars, tables

\* Only InviteDelete deletes.
LEMMA OnlyDeletion ==
    ASSUME IInv, NEW r \in Request, Begin(r) \/ Advance(r) \/ Abandon(r), pc[r] # "invite_delete",
           NEW i \in Invite, invite[i].status # "deleted"
    PROVE  invite'[i].status # "deleted"
  <1>1. CASE UNCHANGED invite
    BY <1>1
  <1>2. ASSUME NEW j \in Invite, InviteInsert(r, j)
        PROVE  invite'[i].status # "deleted"
    BY <1>2 DEF InviteInsert, IInv, TypeOK
  <1>3. CASE InviteUpdate(r)
    <2>1. call[r].mark # "deleted"
      BY <1>3 DEF InviteUpdate, IInv, Requests, Knows
    <2> QED
      BY <1>1, <1>3, <2>1 DEF InviteUpdate, IInv, TypeOK, InviteRow
  <1>4. CASE InviteWithdraw(r) \/ AcceptWrite(r)
    <2>1. ASSUME NEW s \in {"deactive", "accepted"}, invite' = [invite EXCEPT ![call[r].inv].status = s]
          PROVE  invite'[i].status # "deleted"
      BY <2>1 DEF IInv, TypeOK, InviteRow
    <2> QED
      BY <1>1, <1>4, <2>1 DEF InviteWithdraw, AcceptWrite
  <1>5. CASE MemberUpsert(r) \/ MemberUpdate(r) \/ MemberDeactivate(r) \/ MemberDelete(r)
    BY <1>1, <1>5 DEF MemberUpsert, MemberUpdate, MemberDeactivate, MemberDelete
  <1>6. ~InviteDelete(r)
    BY DEF InviteDelete
  <1> QED
    BY <1>1, <1>2, <1>3, <1>4, <1>5, <1>6, QuietStep DEF Advance

--------------------------------------------------------------------------------
\* What is true of every step

JoinedGrows == joined \subseteq joined' /\ joined' \subseteq Org \X User /\ MembersJoined'

LEMMA NextJoined ==
    ASSUME IInv', TInv, [TeamNext]_teamVars
    PROVE  JoinedGrows
  <1>1. CASE UNCHANGED teamVars
    BY <1>1 DEF teamVars, vars, tables, JoinedGrows, TInv, TeamTypeOK, MembersJoined, HasMembership
  <1>2. CASE Remember
    <2>1. ASSUME NEW o \in Org, NEW u \in User, HasMembership(o, u)'
          PROVE  <<o, u>> \in joined'
      BY <1>2, <2>1 DEF Remember
    <2> QED
      BY <1>2, <2>1 DEF Remember, JoinedGrows, MembersJoined, TInv, TeamTypeOK
  <1> QED
    BY <1>1, <1>2 DEF TeamNext

\* The rows of rosters stay justified where invites only gain teams' trust: a row
\* that is there was there before, or has a reason to be.
Justified(t, x) ==
    \/ x \in roster[t]
    \/ x \in User /\ <<teamOrg[t], x>> \in joined' /\ teamOrg[t] \in Org
    \/ /\ x \in Invite /\ invite[x].status # "unused" /\ invite[x].org = teamOrg[t]
       /\ teamOrg[t] \in Org

LEMMA SeatsStep ==
    ASSUME TInv, InvitesStay, joined \subseteq joined',
           UNCHANGED teamOrg, roster' \in [Team -> SUBSET Ref],
           \A t \in Team : \A x \in roster'[t] : Justified(t, x),
           \A t \in Team : \A i \in roster'[t] \cap Invite : invite'[i].status # "deleted"
    PROVE  SeatsBelong'
  <1> SUFFICES ASSUME NEW t \in Team
               PROVE  /\ roster'[t] # {} => teamOrg[t] \in Org
                      /\ \A i \in roster'[t] \cap Invite :
                            invite'[i].status \notin {"unused", "deleted"} /\ invite'[i].org = teamOrg[t]
                      /\ \A u \in roster'[t] \cap User : <<teamOrg[t], u>> \in joined'
    BY DEF SeatsBelong
  <1>1. roster'[t] # {} => teamOrg[t] \in Org
    BY DEF Justified, TInv, SeatsBelong
  <1>2. ASSUME NEW i \in roster'[t] \cap Invite
        PROVE  invite'[i].status \notin {"unused", "deleted"} /\ invite'[i].org = teamOrg[t]
    <2>1. invite[i].status # "unused" /\ invite[i].org = teamOrg[t]
      BY TeamAssumption DEF Justified, TInv, SeatsBelong
    <2> QED
      BY <2>1 DEF InvitesStay
  <1>3. ASSUME NEW u \in roster'[t] \cap User
        PROVE  <<teamOrg[t], u>> \in joined'
    BY TeamAssumption DEF Justified, TInv, SeatsBelong
  <1> QED
    BY <1>1, <1>2, <1>3

\* A request on a team that does not move knows what it knew.
LEMMA CheckedStep ==
    ASSUME TInv, InvitesStay, joined \subseteq joined', NEW q \in TeamRequest,
           teamPc'[q] = teamPc[q], teamCall'[q] = teamCall[q],
           \A t \in Team : teamOrg[t] \in Org => teamOrg'[t] = teamOrg[t]
    PROVE  TeamKnows(q)'
  <1>1. TeamKnows(q)
    BY DEF TInv, Checked
  <1>2. teamPc[q] = "idle" => TeamKnows(q)'
    BY DEF TeamKnows
  <1>3. CASE teamPc[q] # "idle"
    <2>1. LET t == teamCall[q].team IN t \in Team /\ teamOrg[t] \in Org /\ teamOrg'[t] = teamOrg[t]
      BY <1>1, <1>3 DEF TeamKnows
    <2> QED
      BY <1>1, <2>1 DEF TeamKnows, InvitesStay
  <1> QED
    BY <1>2, <1>3

\* Of a request that is elsewhere, with the teams its transaction found.
LEMMA PromotesStep ==
    ASSUME TInv, joined \subseteq joined', NEW r \in Request,
           pc'[r] = pc[r], call'[r] = call[r], promotion'[r] = promotion[r],
           promotion[r].begun => Holding(call[r].inv)' \subseteq Holding(call[r].inv),
           \A t \in Team : teamOrg[t] \in Org => teamOrg'[t] = teamOrg[t],
           pc[r] = "accept_write" => call[r].org \in Org
    PROVE  Promotes(r)'
  <1>1. Promotes(r) /\ promotion[r] \in Promotion
    BY DEF TInv, Promoting, TeamTypeOK
  <1> QED
    BY <1>1 DEF Promotes, Promotion, NoPromotion

LEMMA AcceptingOrg ==
    ASSUME IInv, NEW r \in Request, pc[r] = "accept_write"
    PROVE  /\ call[r].inv \in Invite /\ call[r].user \in User
           /\ call[r].org \in Org /\ invite[call[r].inv].org = call[r].org
           /\ invite[call[r].inv].status = "pending"
           /\ lock[call[r].inv] = r
  BY DEF IInv, Requests, Knows, InviteSteps, AcceptFlight, Invites, Sent, Locking

--------------------------------------------------------------------------------
\* The steps of OrgMembership with their effect on teams

\* What a step of request r must show.
LEMMA OrgStep ==
    ASSUME IInv, TInv, JoinedGrows, NEW r \in Request, [Next]_vars,
           Begin(r) \/ Advance(r) \/ Abandon(r) \/ UNCHANGED vars,
           UNCHANGED <<teamOrg, teamRequests>>,
           roster' \in [Team -> SUBSET Ref],
           \A t \in Team : \A i \in roster'[t] \cap Invite :
               i \in roster[t] /\ invite'[i].status # "deleted",
           \A t \in Team : \A u \in roster'[t] \cap User : Justified(t, u),
           promotion' \in [Request -> Promotion],
           \A q \in Request \ {r} : promotion'[q] = promotion[q],
           Promotes(r)'
    PROVE  TInv'
  <1>1. InvitesStay
    BY NextInvitesStay
  <1>2. TeamTypeOK'
    BY DEF TInv, TeamTypeOK, teamRequests, JoinedGrows
  <1>3. SeatsBelong'
    <2>1. \A t \in Team : \A x \in roster'[t] : Justified(t, x)
      BY DEF Ref, Justified
    <2> QED
      BY <1>1, <2>1, SeatsStep DEF JoinedGrows
  <1>4. Checked'
    BY <1>1, CheckedStep DEF Checked, teamRequests, JoinedGrows
  <1>5. ASSUME NEW q \in Request \ {r}
        PROVE  Promotes(q)'
    <2>1. pc'[q] = pc[q] /\ call'[q] = call[q]
      BY OthersStay DEF vars, requests
    <2>2. promotion[q].begun => call[q].inv \in Invite
      BY AcceptingOrg DEF TInv, Promoting, Promotes
    <2>3. promotion[q].begun => Holding(call[q].inv)' \subseteq Holding(call[q].inv)
      BY <2>1, <2>2 DEF Holding
    <2> QED
      BY <2>1, <2>3, AcceptingOrg, PromotesStep DEF JoinedGrows
  <1> QED
    BY <1>2, <1>3, <1>4, <1>5 DEF TInv, Promoting, JoinedGrows

LEMMA PromoteTInv ==
    ASSUME IInv, TInv, JoinedGrows, NEW r \in Request, Promote(r), UNCHANGED <<teamOrg, teamRequests>>
    PROVE  TInv'
  <1> DEFINE S == Holding(call[r].inv)
             p == [begun |-> TRUE, found |-> S, left |-> S, added |-> {}]
  <1>1. /\ promotion' = [promotion EXCEPT ![r] = p]
        /\ UNCHANGED <<vars, roster>> /\ pc[r] = "accept_write"
    BY DEF Promote
  <1>2. p \in Promotion
    BY DEF Promotion, Holding
  <1>3. \A t \in S : teamOrg[t] = call[r].org
    BY <1>1, AcceptingOrg DEF Holding, TInv, SeatsBelong
  <1>4. promotion'[r] = p /\ promotion' \in [Request -> Promotion]
    BY <1>1, <1>2 DEF TInv, TeamTypeOK
  <1>5. UNCHANGED <<pc, call, invite, roster>>
    BY <1>1 DEF vars, tables, requests
  <1>6. Promotes(r)'
    <2>1. Promotes(r)
      BY DEF TInv, Promoting
    <2>2. Holding(call[r].inv)' = S
      BY <1>5 DEF Holding
    <2> QED
      BY <1>1, <1>3, <1>4, <1>5, <2>1, <2>2 DEF Promotes, JoinedGrows
  <1>7. \A t \in Team : \A x \in roster'[t] : x \in roster[t] /\ Justified(t, x)
    BY <1>5 DEF Justified
  <1>8. \A t \in Team : \A i \in roster'[t] \cap Invite : invite'[i].status # "deleted"
    BY <1>5 DEF TInv, SeatsBelong
  <1>9. /\ roster' \in [Team -> SUBSET Ref]
        /\ \A q \in Request \ {r} : promotion'[q] = promotion[q]
    BY <1>1, <1>5 DEF TInv, TeamTypeOK
  <1> QED
    BY <1>1, <1>4, <1>6, <1>7, <1>8, <1>9, OrgStep

LEMMA PromoteRowTInv ==
    ASSUME IInv, TInv, JoinedGrows, NEW r \in Request, NEW t \in Team, PromoteRow(r, t),
           UNCHANGED <<teamOrg, teamRequests>>
    PROVE  TInv'
  <1> DEFINE p == [promotion[r] EXCEPT !.left = @ \ {t},
                      !.added = IF call[r].user \in roster[t] THEN @ ELSE @ \union {t}]
  <1>1. /\ promotion[r] \in Promotion /\ promotion \in [Request -> Promotion] /\ Promotes(r)
        /\ t \in promotion[r].left
    BY DEF PromoteRow, TInv, TeamTypeOK, Promoting
  <1>2. promotion' = [promotion EXCEPT ![r] = p] /\ UNCHANGED <<vars, roster>>
    BY <1>1 DEF PromoteRow
  <1>3. /\ p \in Promotion /\ p.begun = promotion[r].begun /\ p.found = promotion[r].found
        /\ p.left \subseteq promotion[r].left /\ p.added \subseteq promotion[r].added \union {t}
    BY <1>1 DEF Promotion
  <1> HIDE DEF p
  <1>4. promotion'[r] = p /\ promotion' \in [Request -> Promotion]
    BY <1>1, <1>2, <1>3
  <1>5. UNCHANGED <<pc, call, invite, roster>>
    BY <1>2 DEF vars, tables, requests
  <1>6. Promotes(r)'
    <2>1. promotion[r].begun
      BY <1>1 DEF Promotes, NoPromotion
    <2>2. Holding(call[r].inv)' = Holding(call[r].inv)
      BY <1>5 DEF Holding
    <2> QED
      BY <1>1, <1>3, <1>4, <1>5, <2>1, <2>2 DEF Promotes, JoinedGrows
  <1>7. \A s \in Team : \A x \in roster'[s] : x \in roster[s] /\ Justified(s, x)
    BY <1>5 DEF Justified
  <1>8. \A s \in Team : \A i \in roster'[s] \cap Invite : invite'[i].status # "deleted"
    BY <1>5 DEF TInv, SeatsBelong
  <1>9. /\ roster' \in [Team -> SUBSET Ref]
        /\ \A q \in Request \ {r} : promotion'[q] = promotion[q]
    BY <1>2, <1>5 DEF TInv, TeamTypeOK
  <1> QED
    BY <1>2, <1>4, <1>6, <1>7, <1>8, <1>9, OrgStep

\* A finished or rolled back transaction.
LEMMA NothingPromoted ==
    ASSUME NEW r \in Request, promotion'[r] = NoPromotion, pc'[r] # "accept_write"
    PROVE  Promotes(r)'
  BY DEF Promotes, NoPromotion

LEMMA AfterAccepting ==
    ASSUME IInv, NEW r \in Request, AcceptReturns(r) \/ Finish(r)
    PROVE  pc'[r] # "accept_write"
  BY DEF AcceptReturns, AcceptNext, Finish, IInv, TypeOK

LEMMA AcceptCommitTInv ==
    ASSUME IInv, IInv', TInv, JoinedGrows, NEW r \in Request, AcceptCommit(r),
           UNCHANGED <<teamOrg, teamRequests>>
    PROVE  TInv'
  <1> DEFINE o == call[r].org
             u == call[r].user
  <1>1. AcceptWrite(r) /\ pc[r] = "accept_write" /\ promotion[r].begun
    BY DEF AcceptCommit, AcceptWrite
  <1>2. /\ promotion' = [promotion EXCEPT ![r] = NoPromotion] /\ NoPromotion \in Promotion
        /\ promotion[r] \in Promotion
    BY DEF AcceptCommit, NoPromotion, Promotion, TInv, TeamTypeOK
  <1>3. Promotes(r)'
    BY <1>1, <1>2, AfterAccepting, NothingPromoted DEF AcceptWrite, TInv, TeamTypeOK
  <1>4. /\ o \in Org /\ u \in User /\ call[r].inv \in Invite
        /\ \A t \in promotion[r].found : teamOrg[t] = o
        /\ promotion[r].added \subseteq promotion[r].found
        /\ invite[call[r].inv].status = "pending"
    BY <1>1, AcceptingOrg DEF TInv, Promoting, Promotes
  <1>5. ASSUME Accepts(r)
        PROVE  <<o, u>> \in joined'
    <2>1. CASE call[r].mark # "none"
      BY <1>1, <2>1 DEF TInv, Promoting, Promotes, JoinedGrows
    <2>2. CASE call[r].mark = "none"
      <3>1. invite' # invite
        BY <1>4, <1>5 DEF Accepts
      <3>2. member' = [member EXCEPT ![o][u] = ActiveMember]
        BY <1>1, <2>2, <3>1 DEF AcceptWrite
      <3>3. member'[o][u].role # "none"
        BY <1>4, <3>2 DEF ActiveMember, IInv, TypeOK
      <3> QED
        BY <1>4, <3>3 DEF JoinedGrows, MembersJoined, HasMembership
    <2> QED
      BY <2>1, <2>2
  <1>6. ASSUME NEW t \in Team, NEW x \in roster'[t]
        PROVE  Justified(t, x) /\ (x \in Invite => x \in roster[t])
    <2>1. CASE x \in roster[t]
      BY <2>1 DEF Justified
    <2>2. CASE x \notin roster[t]
      <3>1. Accepts(r) /\ t \in promotion[r].added /\ x = u
        BY <2>2 DEF AcceptCommit, AcceptedRoster
      <3> QED
        BY <1>4, <1>5, <3>1, TeamAssumption DEF Justified
    <2> QED
      BY <2>1, <2>2
  <1>7. roster' \in [Team -> SUBSET Ref]
    BY <1>4 DEF AcceptCommit, AcceptedRoster, TInv, TeamTypeOK, Ref
  <1>8. ASSUME NEW i \in Invite, invite[i].status # "deleted"
        PROVE  invite'[i].status # "deleted"
    BY <1>1, <1>8, OnlyDeletion DEF Advance
  <1>9. \A t \in Team : \A i \in roster'[t] \cap Invite : i \in roster[t] /\ invite'[i].status # "deleted"
    BY <1>6, <1>8 DEF TInv, SeatsBelong
  <1>10. [Next]_vars /\ Advance(r)
    BY <1>1 DEF Next, Advance
  <1>11. /\ promotion' \in [Request -> Promotion]
         /\ \A q \in Request \ {r} : promotion'[q] = promotion[q]
    BY <1>2 DEF TInv, TeamTypeOK
  <1> QED
    BY <1>3, <1>6, <1>7, <1>9, <1>10, <1>11, OrgStep

LEMMA InviteDeleteTInv ==
    ASSUME IInv, IInv', TInv, JoinedGrows, NEW r \in Request, InviteDeleteCascade(r),
           UNCHANGED <<teamOrg, teamRequests>>
    PROVE  TInv'
  <1> DEFINE d == call[r].inv
  <1>1. InviteDelete(r) /\ pc[r] = "invite_delete" /\ promotion' = promotion
    BY DEF InviteDeleteCascade, InviteDelete
  <1>2. pc'[r] = "idle" /\ d \in Invite
    BY <1>1 DEF InviteDelete, Finish, IInv, TypeOK, Requests, Knows, InviteSteps
  <1>3. Promotes(r)'
    <2>1. promotion[r] = NoPromotion
      BY <1>1 DEF TInv, Promoting, Promotes
    <2> QED
      BY <1>1, <1>2, <2>1, NothingPromoted
  <1>4. \A i \in Invite \ {d} : invite'[i] = invite[i]
    BY <1>1 DEF InviteDelete, IInv, TypeOK
  <1>5. \A t \in Team : roster'[t] \subseteq roster[t] /\ (invite'[d].status = "deleted" => d \notin roster'[t])
    BY <1>2 DEF InviteDeleteCascade
  <1>6. roster' \in [Team -> SUBSET Ref]
    BY DEF InviteDeleteCascade, TInv, TeamTypeOK
  <1>7. ASSUME NEW t \in Team, NEW i \in roster'[t] \cap Invite
        PROVE  i \in roster[t] /\ invite'[i].status # "deleted"
    BY <1>4, <1>5 DEF TInv, SeatsBelong
  <1>8. \A t \in Team : \A u \in roster'[t] \cap User : Justified(t, u)
    BY <1>5 DEF Justified
  <1>9. [Next]_vars /\ Advance(r)
    BY <1>1 DEF Next, Advance
  <1>10. /\ promotion' \in [Request -> Promotion]
         /\ \A q \in Request \ {r} : promotion'[q] = promotion[q]
    BY <1>1 DEF TInv, TeamTypeOK
  <1> QED
    BY <1>3, <1>6, <1>7, <1>8, <1>9, <1>10, OrgStep

\* A request gets into the middle of AcceptInvite by locking the invite only.
LEMMA OnlyLocking ==
    ASSUME IInv, NEW r \in Request, Begin(r) \/ Advance(r), pc[r] # "accept_write",
           pc'[r] = "accept_write"
    PROVE  LockInvite(r) /\ pc[r] = "accept_lock"
  <1> USE DEF IInv, TypeOK
  <1>1. ~Finish(r)
    BY DEF Finish
  <1>2. ASSUME NEW to, NEW c, to # "accept_write"
        PROVE  ~Start(r, to, c) /\ ~Goto(r, to)
    BY <1>2 DEF Start, Goto
  <1>3. \A S, u : ~AcceptNext(r, S, u)
    BY DEF AcceptNext
  <1>4. ~Begin(r)
    BY <1>2 DEF Begin, SignUp, LinkGoogle, Accept, CreateInvite, AddMember, RemoveMember,
                DeleteInvite, UpdateInvite, UpdateMemberStatus
  <1>5. ~AvailMember(r) /\ ~AvailInvite(r) /\ ~AddUser(r) /\ ~AddDeactivated(r)
    <2>1. pc[r] \in AvailSteps => AfterAvailable[call[r].op] # "accept_write"
      BY DEF Requests, Knows, AfterAvailable
    <2> QED
      BY <1>1, <1>2, <2>1 DEF AvailMember, AvailInvite, AddUser, AddDeactivated, AvailSteps
  <1>6. ~JoinList(r) /\ ~SignedUp(r) /\ ~AcceptReturns(r)
    BY <1>1, <1>3 DEF JoinList, SignedUp, AcceptReturns
  <1>7. AcceptLock(r)
    BY <1>1, <1>4, <1>5, <1>6
       DEF Advance, AcceptWrite, InviteInsert, InviteUpdate, InviteWithdraw, InviteDelete,
           MemberUpsert, MemberUpdate, MemberDeactivate, MemberDelete
  <1> QED
    BY <1>1, <1>6, <1>7 DEF AcceptLock

LEMMA OtherTInv ==
    ASSUME IInv, IInv', TInv, JoinedGrows, NEW r \in Request,
           \/ Begin(r)
           \/ Advance(r) /\ pc[r] \notin {"accept_write", "invite_delete"},
           UNCHANGED <<roster, promotion, teamOrg, teamRequests>>
    PROVE  TInv'
  <1>1. pc[r] \notin {"accept_write", "invite_delete"}
    BY DEF Begin, SignUp, LinkGoogle, Accept, CreateInvite, AddMember, RemoveMember,
           DeleteInvite, UpdateInvite, UpdateMemberStatus, Start
  <1>2. promotion[r] = NoPromotion
    BY <1>1 DEF TInv, Promoting, Promotes
  <1>3. Promotes(r)'
    <2>1. CASE pc'[r] # "accept_write"
      BY <1>2, <2>1, NothingPromoted
    <2>2. CASE pc'[r] = "accept_write"
      <3> DEFINE i == call[r].inv
                 o == invite[i].org
                 u == call[r].user
      <3>1. LockInvite(r) /\ pc[r] = "accept_lock"
        BY <1>1, <2>2, OnlyLocking
      <3>2. o \in Org /\ u \in User
        BY <3>1 DEF IInv, Requests, Knows, InviteSteps, AcceptFlight, Invites, Sent
      <3> DEFINE m == IF HasMembership(o, u) THEN member[o][u].status ELSE "none"
                 c == [call[r] EXCEPT !.org = o, !.mark = m]
      <3>3. call'[r] = c /\ c.org = o /\ c.user = u /\ c.mark = m
        <4>1. call[r] \in Call /\ call \in [Request -> Call]
          BY DEF IInv, TypeOK
        <4>2. c.org = o /\ c.user = u /\ c.mark = m
          BY <4>1 DEF Call
        <4>3. call' = [call EXCEPT ![r] = c]
          BY <3>1, <4>1 DEF LockInvite
        <4> QED
          BY <4>1, <4>2, <4>3
      <3>4. HasMembership(o, u) => <<o, u>> \in joined'
        BY <3>2 DEF TInv, MembersJoined, JoinedGrows
      <3> QED
        BY <1>2, <3>3, <3>4 DEF Promotes, NoPromotion, HasMembership
    <2> QED
      BY <2>1, <2>2
  <1>4. ASSUME NEW t \in Team, NEW i \in roster'[t] \cap Invite
        PROVE  i \in roster[t] /\ invite'[i].status # "deleted"
    BY <1>1, OnlyDeletion DEF TInv, SeatsBelong
  <1>5. \A t \in Team : \A u \in roster'[t] \cap User : Justified(t, u)
    BY DEF Justified
  <1>6. [Next]_vars
    BY DEF Next
  <1> QED
    BY <1>3, <1>4, <1>5, <1>6, OrgStep DEF TInv, TeamTypeOK

LEMMA AbandonTInv ==
    ASSUME IInv, IInv', TInv, JoinedGrows, NEW r \in Request, AbandonTransaction(r),
           UNCHANGED <<teamOrg, teamRequests>>
    PROVE  TInv'
  <1>1. /\ Abandon(r) /\ pc'[r] = "idle" /\ UNCHANGED <<roster, invite>>
        /\ promotion' = [promotion EXCEPT ![r] = NoPromotion] /\ NoPromotion \in Promotion
    BY DEF AbandonTransaction, Abandon, Finish, tables, IInv, TypeOK, NoPromotion, Promotion
  <1>2. /\ promotion' \in [Request -> Promotion] /\ promotion'[r] = NoPromotion
        /\ \A q \in Request \ {r} : promotion'[q] = promotion[q]
    BY <1>1 DEF TInv, TeamTypeOK
  <1>3. Promotes(r)'
    BY <1>1, <1>2, NothingPromoted
  <1>4. \A t \in Team : \A x \in roster'[t] :
          Justified(t, x) /\ (x \in Invite => x \in roster[t] /\ invite'[x].status # "deleted")
    BY <1>1 DEF Justified, TInv, SeatsBelong
  <1>5. [Next]_vars
    BY <1>1 DEF Next
  <1> QED
    BY <1>1, <1>2, <1>3, <1>4, <1>5, OrgStep DEF TInv, TeamTypeOK

LEMMA OrgCreateTInv ==
    ASSUME IInv, TInv, JoinedGrows, OrgCreate, UNCHANGED <<teamOrg, teamRequests>>
    PROVE  TInv'
  <1>1. UNCHANGED <<invite, pc, call, roster, promotion>>
    BY DEF OrgCreate, CreateOrg, requests
  <1>2. Promoting'
    BY <1>1 DEF TInv, Promoting, Promotes, Holding, JoinedGrows
  <1>3. TeamTypeOK' /\ SeatsBelong' /\ Checked'
    BY <1>1 DEF TInv, TeamTypeOK, SeatsBelong, Checked, TeamKnows, teamRequests, JoinedGrows
  <1> QED
    BY <1>2, <1>3 DEF TInv, JoinedGrows

LEMMA OrgSideTInv ==
    ASSUME IInv, IInv', TInv, JoinedGrows, OrgSide
    PROVE  TInv'
  BY PromoteTInv, PromoteRowTInv, AcceptCommitTInv, InviteDeleteTInv, OtherTInv, AbandonTInv, OrgCreateTInv
     DEF OrgSide, OrgAdvance, OrgBegin, OtherAdvance

--------------------------------------------------------------------------------
\* Requests on teams

\* A step of request q that changes no table of organizations.
LEMMA TeamStepKeeps ==
    ASSUME IInv, TInv, JoinedGrows, NEW q \in TeamRequest, UNCHANGED <<vars, promotion, teamOrg>>,
           teamPc' \in [TeamRequest -> TeamStep], teamCall' \in [TeamRequest -> TeamCall],
           \A p \in TeamRequest \ {q} : teamPc'[p] = teamPc[p] /\ teamCall'[p] = teamCall[p],
           TeamKnows(q)',
           roster' \in [Team -> SUBSET Ref],
           \A t \in Team : \A x \in roster'[t] : Justified(t, x),
           \A t \in Team : \A i \in (roster'[t] \ roster[t]) \cap Invite :
               Free(i) /\ invite[i].status # "deleted"
    PROVE  TInv'
  <1>1. UNCHANGED <<invite, pc, call, lock>> /\ InvitesStay
    BY DEF vars, tables, requests, InvitesStay
  <1>2. TeamTypeOK'
    BY DEF TInv, TeamTypeOK, JoinedGrows
  <1>3. SeatsBelong'
    <2>1. \A t \in Team : \A i \in roster'[t] \cap Invite : invite'[i].status # "deleted"
      BY <1>1 DEF TInv, SeatsBelong
    <2> QED
      BY <1>1, <2>1, SeatsStep DEF JoinedGrows
  <1>4. Checked'
    BY <1>1, CheckedStep DEF Checked, JoinedGrows
  <1>5. ASSUME NEW r \in Request
        PROVE  Promotes(r)'
    <2>1. promotion[r].begun => call[r].inv \in Invite /\ lock[call[r].inv] = r
      BY AcceptingOrg DEF TInv, Promoting, Promotes
    <2>2. promotion[r].begun => Holding(call[r].inv)' \subseteq Holding(call[r].inv)
      BY <1>1, <2>1, NoneAssumption DEF Holding, Free
    <2> QED
      BY <1>1, <2>2, AcceptingOrg, PromotesStep DEF JoinedGrows
  <1> QED
    BY <1>2, <1>3, <1>4, <1>5 DEF TInv, Promoting, JoinedGrows

\* Beginning, going on, ending: what request q then knows.
Moved(q) ==
    /\ teamPc' \in [TeamRequest -> TeamStep] /\ teamCall' \in [TeamRequest -> TeamCall]
    /\ \A p \in TeamRequest \ {q} : teamPc'[p] = teamPc[p] /\ teamCall'[p] = teamCall[p]
    /\ TeamKnows(q)'

LEMMA TeamStartMoves ==
    ASSUME TInv, NEW q \in TeamRequest, UNCHANGED teamOrg, NEW t \in Team, NEW S \in SUBSET Ref,
           NEW to \in {"check_users", "remove", "bulk_users"}, TeamStart(q, to, t, S)
    PROVE  Moved(q)
  <1>1. teamOrg[t] \in Org
    BY DEF TeamStart, TInv, TeamTypeOK
  <1>2. [team |-> t, left |-> S] \in TeamCall
    BY DEF TeamCall
  <1> QED
    BY <1>1, <1>2 DEF Moved, TeamStart, TInv, TeamTypeOK, TeamStep, TeamKnows

LEMMA TeamFinishMoves ==
    ASSUME TInv, NEW q \in TeamRequest, TeamFinish(q)
    PROVE  Moved(q)
  <1>1. NoTeamCall \in TeamCall
    BY DEF NoTeamCall, TeamCall
  <1> QED
    BY <1>1 DEF Moved, TeamFinish, TInv, TeamTypeOK, TeamStep, TeamKnows

LEMMA TeamNextIdMoves ==
    ASSUME TInv, JoinedGrows, NEW q \in TeamRequest, UNCHANGED <<invite, teamOrg>>, NEW x,
           TeamNextId(q, x)
    PROVE  Moved(q)
  <1> DEFINE c == [teamCall[q] EXCEPT !.left = teamCall[q].left \ {x}]
  <1>1. /\ teamCall[q] \in TeamCall /\ teamCall \in [TeamRequest -> TeamCall]
        /\ TeamKnows(q)
    BY DEF TInv, TeamTypeOK, Checked
  <1>2. c \in TeamCall /\ c.team = teamCall[q].team /\ c.left = teamCall[q].left \ {x}
    BY <1>1 DEF TeamCall
  <1>3. teamCall' = [teamCall EXCEPT ![q] = c] /\ teamPc' = teamPc
    BY <1>1 DEF TeamNextId
  <1> HIDE DEF c
  <1> QED
    BY <1>1, <1>2, <1>3 DEF Moved, TInv, TeamTypeOK, TeamKnows, JoinedGrows

\* A step that only takes rows from rosters.
LEMMA RemovalTInv ==
    ASSUME IInv, TInv, JoinedGrows, NEW q \in TeamRequest, UNCHANGED <<vars, promotion, teamOrg>>,
           Moved(q), roster' \in [Team -> SUBSET Ref], \A t \in Team : roster'[t] \subseteq roster[t]
    PROVE  TInv'
  <1>1. \A t \in Team : \A x \in roster'[t] : Justified(t, x)
    BY DEF Justified
  <1> QED
    BY <1>1, TeamStepKeeps DEF Moved

LEMMA TeamBeginTInv ==
    ASSUME IInv, TInv, JoinedGrows, NEW q \in TeamRequest, UNCHANGED <<vars, promotion>>,
           TeamBegin(q)
    PROVE  TInv'
  <1>1. PICK t \in Team, S \in SUBSET Ref, to \in {"check_users", "remove", "bulk_users"} :
            TeamStart(q, to, t, S)
    BY DEF TeamBegin, AddTeamMembers, BulkRemoveTeamMembers, RemoveTeamMember, Picks
  <1>2. UNCHANGED <<teamOrg, roster>>
    BY <1>1 DEF TeamStart, teams
  <1>3. Moved(q)
    BY <1>1, <1>2, TeamStartMoves
  <1> QED
    BY <1>2, <1>3, RemovalTInv DEF TInv, TeamTypeOK

\* A step that leaves the rosters alone.
LEMMA TeamGotoTInv ==
    ASSUME IInv, TInv, JoinedGrows, NEW q \in TeamRequest, UNCHANGED <<vars, promotion, teams>>, Moved(q)
    PROVE  TInv'
  BY RemovalTInv DEF teams, TInv, TeamTypeOK

LEMMA TeamCheckTInv ==
    ASSUME IInv, TInv, JoinedGrows, NEW q \in TeamRequest, UNCHANGED <<vars, promotion>>,
           TeamCheckUsers(q) \/ TeamCheckInvites(q) \/ Seated(q) \/ TeamAbandon(q)
    PROVE  TInv'
  <1> DEFINE t == teamCall[q].team
  <1>1. TeamKnows(q) /\ UNCHANGED teams /\ teamOrg' = teamOrg /\ invite' = invite
    BY DEF TInv, Checked, TeamCheckUsers, TeamCheckInvites, Seated, TeamAbandon, teams, vars, tables
  <1>2. CASE TeamFinish(q)
    BY <1>1, <1>2, TeamFinishMoves, TeamGotoTInv
  <1>3. ASSUME NEW to \in {"check_invites", "insert"}, TeamGoto(q, to),
               t \in Team /\ teamOrg[t] \in Org,
               \A u \in teamCall[q].left \cap User : <<teamOrg[t], u>> \in joined,
               to = "insert" => \A i \in teamCall[q].left \cap Invite :
                                    invite[i].status # "unused" /\ invite[i].org = teamOrg[t]
        PROVE  TInv'
    <2>1. Moved(q)
      BY <1>1, <1>3 DEF Moved, TeamGoto, TInv, TeamTypeOK, TeamStep, TeamKnows, JoinedGrows
    <2> QED
      BY <1>1, <2>1, TeamGotoTInv
  <1>4. CASE TeamCheckUsers(q) /\ TeamGoto(q, "check_invites")
    <2>1. t \in Team /\ teamOrg[t] \in Org
      BY <1>1, <1>4 DEF TeamCheckUsers, TeamKnows
    <2>2. \A u \in teamCall[q].left \cap User : HasMembership(teamOrg[t], u)
      <3>1. AreOrgMembers(teamOrg[t], teamCall[q].left \cap User)
        BY <1>4 DEF TeamCheckUsers, TeamGoto, TeamFinish, TInv, TeamTypeOK
      <3> QED
        BY <3>1 DEF AreOrgMembers
    <2> QED
      BY <1>3, <1>4, <2>1, <2>2 DEF TInv, MembersJoined
  <1>5. CASE TeamCheckInvites(q) /\ TeamGoto(q, "insert")
    <2>1. AreOrgInvites(teamOrg[t], teamCall[q].left \cap Invite)
      BY <1>5 DEF TeamCheckInvites, TeamGoto, TeamFinish, TInv, TeamTypeOK
    <2> QED
      BY <1>1, <1>3, <1>5, <2>1 DEF AreOrgInvites, TeamCheckInvites, TeamKnows
  <1> QED
    BY <1>2, <1>4, <1>5 DEF TeamCheckUsers, TeamCheckInvites, Seated, TeamAbandon

LEMMA SeatTInv ==
    ASSUME IInv, TInv, JoinedGrows, NEW q \in TeamRequest, UNCHANGED <<vars, promotion>>,
           NEW x \in Ref, (x \in User /\ SeatUser(q, x)) \/ (x \in Invite /\ SeatInvite(q, x))
    PROVE  TInv'
  <1> DEFINE t == teamCall[q].team
  <1>1. /\ TeamKnows(q) /\ UNCHANGED teamOrg /\ teamPc[q] = "insert" /\ x \in teamCall[q].left
        /\ UNCHANGED invite
    BY DEF TInv, Checked, SeatUser, SeatInvite, vars, tables
  <1>2. t \in Team /\ teamOrg[t] \in Org
    BY <1>1 DEF TeamKnows
  <1>3. Moved(q)
    BY <1>1, TeamFinishMoves, TeamNextIdMoves DEF SeatUser, SeatInvite
  <1>4. CASE UNCHANGED roster
    BY <1>1, <1>3, <1>4, TeamGotoTInv DEF teams
  <1>5. CASE roster' = [roster EXCEPT ![t] = @ \union {x}] /\
             (x \in Invite => x \in roster[t] \/ (Free(x) /\ invite[x].status # "deleted"))
    <2>1. \A s \in Team : roster'[s] = IF s = t THEN roster[s] \union {x} ELSE roster[s]
      BY <1>2, <1>5 DEF TInv, TeamTypeOK
    <2>2. roster' \in [Team -> SUBSET Ref]
      BY <1>2, <1>5 DEF TInv, TeamTypeOK
    <2>3. Justified(t, x)
      BY <1>1, <1>2 DEF Justified, TeamKnows, Ref, JoinedGrows
    <2>4. \A s \in Team : \A y \in roster'[s] : Justified(s, y)
      BY <2>1, <2>3 DEF Justified
    <2>5. \A s \in Team : \A i \in (roster'[s] \ roster[s]) \cap Invite :
              Free(i) /\ invite[i].status # "deleted"
      BY <1>5, <2>1
    <2> QED
      BY <1>1, <1>3, <2>2, <2>4, <2>5, TeamStepKeeps DEF Moved
  <1> QED
    BY <1>4, <1>5, TeamAssumption DEF SeatUser, SeatInvite

LEMMA TeamRemoveTInv ==
    ASSUME IInv, TInv, JoinedGrows, NEW q \in TeamRequest, UNCHANGED <<vars, promotion>>,
           TeamRemove(q) \/ BulkUsers(q) \/ BulkInvites(q)
    PROVE  TInv'
  <1>1. UNCHANGED <<teamOrg, invite>>
    BY DEF TeamRemove, BulkUsers, BulkInvites, vars, tables
  <1>2. Moved(q)
    <2>1. CASE TeamFinish(q)
      BY <2>1, TeamFinishMoves
    <2>2. CASE BulkUsers(q)
      BY <1>1, <2>2 DEF BulkUsers, TeamGoto, Moved, TInv, TeamTypeOK, TeamStep, Checked, TeamKnows
    <2> QED
      BY <2>1, <2>2 DEF TeamRemove, BulkInvites
  <1>3. \E S : roster' = [roster EXCEPT ![teamCall[q].team] = @ \ S]
    BY DEF TeamRemove, BulkUsers, BulkInvites
  <1>4. roster' \in [Team -> SUBSET Ref] /\ \A t \in Team : roster'[t] \subseteq roster[t]
    BY <1>3 DEF TInv, TeamTypeOK
  <1> QED
    BY <1>1, <1>2, <1>4, RemovalTInv

LEMMA CreateTeamTInv ==
    ASSUME IInv, TInv, JoinedGrows, NEW t \in Team, NEW o \in Org, UNCHANGED <<vars, promotion>>,
           CreateTeam(t, o)
    PROVE  TInv'
  <1>1. UNCHANGED <<roster, teamPc, teamCall, promotion, invite, pc, call>>
    BY DEF CreateTeam, teamRequests, vars, tables, requests
  <1>2. /\ teamOrg' \in [Team -> Org \union {NoOrg}] /\ teamOrg'[t] = o
        /\ \A s \in Team \ {t} : teamOrg'[s] = teamOrg[s]
    BY DEF CreateTeam, TInv, TeamTypeOK
  <1>3. teamOrg[t] \notin Org
    BY NoneAssumption DEF CreateTeam
  <1>4. \A s \in Team : teamOrg[s] \in Org => teamOrg'[s] = teamOrg[s]
    BY <1>2, <1>3
  <1>5. SeatsBelong'
    BY <1>1, <1>4 DEF TInv, SeatsBelong, JoinedGrows
  <1>6. Checked'
    BY <1>1, <1>4, CheckedStep DEF Checked, InvitesStay, JoinedGrows
  <1>7. ASSUME NEW r \in Request
        PROVE  Promotes(r)'
    BY <1>1, <1>4, AcceptingOrg, PromotesStep DEF Holding, JoinedGrows
  <1> QED
    BY <1>1, <1>2, <1>5, <1>6, <1>7 DEF TInv, TeamTypeOK, Promoting, JoinedGrows

LEMMA TeamSideTInv ==
    ASSUME IInv, TInv, JoinedGrows, TeamSide
    PROVE  TInv'
  <1>1. UNCHANGED <<vars, promotion>>
    BY DEF TeamSide
  <1>2. ASSUME NEW q \in TeamRequest, TeamAdvance(q)
        PROVE  TInv'
    BY <1>1, <1>2, TeamCheckTInv, SeatTInv, TeamRemoveTInv DEF TeamAdvance, Ref
  <1> QED
    BY <1>1, <1>2, TeamBeginTInv, TeamCheckTInv, CreateTeamTInv DEF TeamSide

LEMMA NextTInv == IInv /\ IInv' /\ TInv /\ [TeamNext]_teamVars => TInv'
  <1> SUFFICES ASSUME IInv, IInv', TInv, [TeamNext]_teamVars
               PROVE  TInv'
    OBVIOUS
  <1>1. JoinedGrows
    BY NextJoined
  <1>2. CASE UNCHANGED teamVars
    BY <1>2
       DEF teamVars, vars, tables, requests, teams, teamRequests, TInv, TeamTypeOK, SeatsBelong,
           MembersJoined, HasMembership, Promoting, Promotes, Holding, Checked, TeamKnows
  <1> QED
    BY <1>1, <1>2, OrgSideTInv, TeamSideTInv DEF TeamNext

LEMMA TeamSpecInv == TeamSpec => [](IInv /\ TInv)
  <1>1. TeamSpec => []IInv
    BY TeamsKeepOrganizations, SpecIInv, PTL
  <1> QED
    BY <1>1, InitTInv, NextTInv, PTL DEF TeamSpec

--------------------------------------------------------------------------------
\* Every reachable state is well typed.
THEOREM TeamTypeCorrect == TeamSpec => []TeamTypeOK
  <1>1. TInv => TeamTypeOK
    BY DEF TInv
  <1> QED
    BY TeamSpecInv, <1>1, PTL

\* A placeholder is always of an invite to the team's own organization that has
\* not been deleted.
THEOREM PlaceholdersAlwaysBelong == TeamSpec => []PlaceholdersBelong
  <1>1. TInv => PlaceholdersBelong
    BY DEF TInv, SeatsBelong, PlaceholdersBelong
  <1> QED
    BY TeamSpecInv, <1>1, PTL

\* Nobody is ever in a team of an organization he never was a member of.
THEOREM TeamsAlwaysFromOrg == TeamSpec => []TeamsFromOrg
  <1>1. TInv => TeamsFromOrg
    BY DEF TInv, SeatsBelong, TeamsFromOrg
  <1> QED
    BY TeamSpecInv, <1>1, PTL

\* An invite becomes accepted by the write of a transaction that holds its row.
LEMMA OnlyAccepting ==
    ASSUME IInv, NEW r \in Request, Begin(r) \/ Advance(r) \/ Abandon(r),
           NEW i \in Invite, invite[i].status # "accepted", invite'[i].status = "accepted"
    PROVE  AcceptWrite(r) /\ call[r].inv = i
  <1>1. ~UNCHANGED invite
    OBVIOUS
  <1>2. ASSUME NEW j \in Invite
        PROVE  ~InviteInsert(r, j)
    BY DEF InviteInsert, IInv, TypeOK
  <1>3. ~InviteUpdate(r)
    <2>1. pc[r] = "invite_update" => call[r].mark # "accepted"
      BY DEF IInv, Requests, Knows
    <2> QED
      BY <1>1, <2>1 DEF InviteUpdate, IInv, TypeOK, InviteRow
  <1>4. ASSUME NEW s, invite' = [invite EXCEPT ![call[r].inv].status = s]
        PROVE  s = "accepted" /\ call[r].inv = i
    BY <1>4 DEF IInv, TypeOK, InviteRow
  <1>5. ~InviteWithdraw(r) /\ ~InviteDelete(r)
    BY <1>1, <1>4 DEF InviteWithdraw, InviteDelete
  <1>6. ~MemberUpsert(r) /\ ~MemberUpdate(r) /\ ~MemberDeactivate(r) /\ ~MemberDelete(r)
    BY <1>1 DEF MemberUpsert, MemberUpdate, MemberDeactivate, MemberDelete
  <1>7. AcceptWrite(r)
    BY <1>1, <1>2, <1>3, <1>5, <1>6, QuietStep DEF Advance
  <1> QED
    BY <1>1, <1>4, <1>7 DEF AcceptWrite

\* Accepting an invite turns every placeholder into a seat: the lock on the
\* invite keeps new placeholders out between the two statements.
THEOREM NoPlaceEverLost == TeamSpec => NoPlaceLost
  <1>1. ASSUME IInv, TInv, TeamNext, NEW r \in Request, Accepts(r), NEW t \in Holding(call[r].inv)
        PROVE  \/ call[r].user \in roster'[t]
               \/ t \in promotion[r].found \ (promotion[r].left \union promotion[r].added)
    <2>1. /\ pc[r] = "accept_write" /\ call[r].inv \in Invite /\ lock[call[r].inv] = r
          /\ invite[call[r].inv].status # "accepted" /\ invite'[call[r].inv].status = "accepted"
      BY <1>1, AcceptingOrg DEF Accepts
    <2>2. ~UNCHANGED vars
      BY <2>1 DEF vars, tables
    <2>3. ASSUME NEW q \in Request, Begin(q) \/ Advance(q) \/ Abandon(q)
          PROVE  AcceptWrite(q) /\ q = r
      <3>1. AcceptWrite(q) /\ call[q].inv = call[r].inv
        BY <1>1, <2>1, <2>3, OnlyAccepting
      <3>2. lock[call[q].inv] = q
        BY <1>1, <3>1, AcceptingOrg DEF AcceptWrite
      <3> QED
        BY <2>1, <3>1, <3>2
    <2>4. AcceptCommit(r)
      <3>1. OrgSide /\ ~OrgCreate
        BY <1>1, <2>1, <2>2 DEF TeamNext, TeamSide, OrgCreate, CreateOrg
      <3>2. PICK q \in Request : OrgBegin(q) \/ OrgAdvance(q) \/ AbandonTransaction(q)
        BY <3>1 DEF OrgSide
      <3>3. ~Promote(q) /\ \A s \in Team : ~PromoteRow(q, s)
        BY <2>2 DEF Promote, PromoteRow
      <3>4. Begin(q) \/ Advance(q) \/ Abandon(q)
        BY <3>2, <3>3
           DEF OrgBegin, OrgAdvance, AbandonTransaction, AcceptCommit, InviteDeleteCascade, OtherAdvance,
               Advance
      <3>5. pc[q] = "accept_write" /\ q = r
        BY <2>3, <3>4 DEF AcceptWrite
      <3>6. ~OrgBegin(q)
        <4>1. ASSUME NEW to, NEW c
              PROVE  ~Start(q, to, c)
          BY <3>5 DEF Start
        <4> QED
          BY <4>1 DEF OrgBegin, Begin, SignUp, LinkGoogle, Accept, CreateInvite, AddMember, RemoveMember,
                      DeleteInvite, UpdateInvite, UpdateMemberStatus
      <3>7. ~AbandonTransaction(q)
        BY <2>1 DEF AbandonTransaction, Abandon, tables
      <3> QED
        BY <3>2, <3>3, <3>5, <3>6, <3>7 DEF OrgAdvance, InviteDeleteCascade, InviteDelete, OtherAdvance
    <2>5. t \in promotion[r].found /\ promotion[r].left = {}
      BY <1>1, <2>4 DEF AcceptCommit, TInv, Promoting, Promotes
    <2>6. t \in promotion[r].added => call[r].user \in roster'[t]
      BY <1>1, <2>4 DEF AcceptCommit, AcceptedRoster, Holding
    <2> QED
      BY <2>5, <2>6
  <1>2. IInv /\ TInv /\ [TeamNext]_teamVars =>
          [\A r \in Request : Accepts(r) =>
              \A t \in Holding(call[r].inv) :
                  \/ call[r].user \in roster'[t]
                  \/ t \in promotion[r].found \ (promotion[r].left \union promotion[r].added)]_teamVars
    BY <1>1
  <1> QED
    BY TeamSpecInv, <1>2, PTL DEF TeamSpec, NoPlaceLost

--------------------------------------------------------------------------------
\* Lists

\* The three lists with one filter.
LEMMA ListsPartition ==
    ASSUME IInv, TInv, NEW t \in Team, teamOrg[t] \in Org, NEW s \in Filter
    PROVE  LET o == teamOrg[t]
               inside == ListTeamMembers(t, "in", s)
               outside == ListTeamMembers(t, "not_in", s) IN
           /\ inside \cap outside = {}
           /\ ListMembers(o, s) \subseteq inside \union outside
           /\ \A x \in (inside \union outside) \ ListMembers(o, s) :
                 x \in Invite /\ invite[x].status = "accepted"
<1> DEFINE o == teamOrg[t]
           inside == ListTeamMembers(t, "in", s)
           outside == ListTeamMembers(t, "not_in", s)
<1>1. /\ inside = {x \in TeamMembers(t) : s \in {"", Shown(o, x)}}
      /\ outside = {x \in OrgUsers(o) \ roster[t] : s \in {"", Shown(o, x)}}
      /\ ListMembers(o, s) = {x \in OrgUsers(o) : s \in {"", Shown(o, x)}}
  BY DEF ListTeamMembers, ListMembers, WithStatus, NotInTeam
<1>2. TeamMembers(t) \subseteq roster[t]
  BY DEF TeamMembers
<1>3. roster[t] \subseteq User \union Invite
  BY DEF TInv, TeamTypeOK, Ref
<1>4. \A i \in roster[t] \cap Invite : invite[i].org = o /\ invite[i].status \notin {"unused", "deleted"}
  BY DEF TInv, SeatsBelong
<1>5. \A i \in Invite : invite[i].status \in {"unused", "pending", "deactive", "accepted", "deleted"}
  BY DEF IInv, TypeOK, InviteRow
<1>6. \A x \in roster[t] \cap OrgUsers(o) : x \in TeamMembers(t)
  BY <1>3, <1>4, TeamAssumption DEF TeamMembers, OrgUsers
<1>7. \A x \in TeamMembers(t) \ OrgUsers(o) : x \in Invite /\ invite[x].status = "accepted"
  BY <1>4, <1>5 DEF TeamMembers, OrgUsers
<1> QED
  BY <1>1, <1>2, <1>6, <1>7

\* member_count counts the former members, too.
LEMMA CountsFormer ==
    ASSUME TInv, NEW t \in Team, teamOrg[t] \in Org
    PROVE  MemberCount(t) - Cardinality(TeamMembers(t))
              = Cardinality({u \in roster[t] \cap User :
                                 <<teamOrg[t], u>> \in joined /\ ~HasMembership(teamOrg[t], u)})
<1> DEFINE o == teamOrg[t]
           Former == {u \in roster[t] \cap User : <<o, u>> \in joined /\ ~HasMembership(o, u)}
<1>1. roster[t] \subseteq User \union Invite
  BY DEF TInv, TeamTypeOK, Ref
<1>2. /\ \A i \in roster[t] \cap Invite : invite[i].org = o
      /\ \A u \in roster[t] \cap User : <<o, u>> \in joined
  BY DEF TInv, SeatsBelong
<1>3. roster[t] = TeamMembers(t) \union Former
  BY <1>1, <1>2 DEF TeamMembers
<1>4. TeamMembers(t) \cap Former = {}
  BY TeamAssumption DEF TeamMembers
<1>5. IsFiniteSet(roster[t])
  <2>1. IsFiniteSet(User \union Invite)
    BY ListsAssumption, FS_Union
  <2> QED
    BY <1>1, <2>1, FS_Subset
<1>6. IsFiniteSet(TeamMembers(t)) /\ IsFiniteSet(Former)
  BY <1>3, <1>5, FS_Subset
<1> HIDE DEF Former
<1>7. Cardinality(roster[t]) = Cardinality(TeamMembers(t)) + Cardinality(Former) - Cardinality({})
  BY <1>3, <1>4, <1>6, FS_Union
<1>8. Cardinality({}) = 0 /\ Cardinality(TeamMembers(t)) \in Nat /\ Cardinality(Former) \in Nat
  BY <1>6, FS_EmptySet, FS_CardinalityType
<1> QED
  BY <1>7, <1>8 DEF MemberCount, Former

\* In every reachable state, with any filter, the lists of users, of a team's
\* members and of those who could be added agree.
THEOREM ListsAlwaysAgree == TeamSpec => []ListsAgree
<1>1. IInv /\ TInv => ListsAgree
  BY ListsPartition, CountsFormer DEF ListsAgree, ListTeams
<1> QED
  BY <1>1, TeamSpecInv, PTL

--------------------------------------------------------------------------------
\* Pages

LEMMA Division ==
    ASSUME NEW a \in Nat, NEW l \in Nat \ {0}
    PROVE  /\ a \div l \in Nat
           /\ l * (a \div l) <= a
           /\ a < l * (a \div l) + l
  OBVIOUS

LEMMA Limits ==
    ASSUME NEW page \in Int, NEW asked \in Int
    PROVE  /\ ParsePageLimit(page, asked).limit \in 1..MaxLimit
           /\ page > 0 => ParsePageLimit(page, asked).page = page
  BY PaginationAssumption DEF ParsePageLimit, NormalizeLimit, DefaultPage

LEMMA Monotone ==
    ASSUME NEW a \in Int, NEW b \in Int, NEW l \in Nat, a <= b
    PROVE  a * l <= b * l
  OBVIOUS

LEMMA NoWrap ==
    ASSUME NEW n \in Int, 0 <= n, n < IntEnd
    PROVE  Wrap(n) = n
  BY PaginationAssumption DEF Wrap

\* Up to the last page the offset is the product, unwrapped.
LEMMA OffsetExact ==
    ASSUME NEW total \in 1..(IntEnd - 1), NEW asked \in Int,
           NEW page \in 1..TotalPages(total, ParsePageLimit(1, asked).limit)
    PROVE  LET p == ParsePageLimit(page, asked) IN
           Offset(p) = (page - 1) * p.limit /\ Offset(p) >= 0
<1> DEFINE p == ParsePageLimit(page, asked)
           l == p.limit
<1>1. total \in Int /\ 1 <= total /\ total < IntEnd /\ IntEnd \in Nat
  BY PaginationAssumption
<1>2. l = ParsePageLimit(1, asked).limit
  BY DEF ParsePageLimit
<1>3. l \in Nat \ {0}
  BY Limits, <1>2, PaginationAssumption
<1> HIDE DEF l
<1>4. TotalPages(total, l) = (total + l - 1) \div l
  BY <1>1, <1>3 DEF TotalPages
<1>5. TotalPages(total, l) \in Nat /\ l * TotalPages(total, l) <= total + l - 1
  BY <1>1, <1>3, <1>4, Division
<1>6. page \in Int /\ 1 <= page /\ page <= TotalPages(total, l)
  BY <1>2, <1>5
<1>7. page * l <= TotalPages(total, l) * l
  BY <1>3, <1>5, <1>6, Monotone
<1>8. 0 * l <= (page - 1) * l
  BY <1>3, <1>6, Monotone
<1>9. /\ (page - 1) * l \in Int
      /\ (page - 1) * l = page * l - l
      /\ l * TotalPages(total, l) = TotalPages(total, l) * l
      /\ 0 * l = 0
  BY <1>3, <1>5, <1>6
<1> DEFINE off == (page - 1) * l
<1>10. 0 <= off /\ off < IntEnd
  BY <1>1, <1>3, <1>5, <1>6, <1>7, <1>8, <1>9
<1>11. Wrap(off) = off
  BY <1>9, <1>10, NoWrap
<1>12. p.page = page
  BY <1>6, Limits
<1> QED
  BY <1>10, <1>11, <1>12 DEF Offset, l

\* Each row of a list is on exactly one of the pages that the answer counts, for
\* any limit asked for.
THEOREM EveryRowOnOnePage ==
    ASSUME NEW total \in 1..(IntEnd - 1), NEW asked \in Int, NEW n \in 1..total
    PROVE  \E page \in 1..TotalPages(total, ParsePageLimit(1, asked).limit) :
              \A other \in 1..TotalPages(total, ParsePageLimit(1, asked).limit) :
                 n \in PageRows(total, ParsePageLimit(other, asked)) <=> other = page
<1> DEFINE l == ParsePageLimit(1, asked).limit
           last == TotalPages(total, l)
           page == ((n - 1) \div l) + 1
<1>1. total \in Int /\ 1 <= total /\ n \in Int /\ 1 <= n /\ n <= total
  BY PaginationAssumption
<1>2. l \in Nat \ {0}
  BY Limits
<1>3. ASSUME NEW other \in 1..last
      PROVE  n \in PageRows(total, ParsePageLimit(other, asked))
                <=> (other - 1) * l < n /\ n <= (other - 1) * l + l
  <2> DEFINE p == ParsePageLimit(other, asked)
  <2>1. p.limit = l
    BY DEF ParsePageLimit
  <2>2. Offset(p) = (other - 1) * p.limit /\ Offset(p) >= 0
    BY OffsetExact
  <2> HIDE DEF p, l
  <2>3. (other - 1) * l \in Int
    BY <1>2, <2>1, <2>2
  <2> QED
    BY <2>1, <2>2, <2>3, <1>1 DEF PageRows, p
<1> HIDE DEF l
<1>4. /\ page \in Int /\ 1 <= page
      /\ (page - 1) * l < n /\ n <= (page - 1) * l + l
  <2>1. n - 1 \in Nat
    BY <1>1
  <2> DEFINE d == (n - 1) \div l
  <2>2. d \in Nat /\ l * d <= n - 1 /\ n - 1 < l * d + l
    BY <2>1, <1>2, Division
  <2>3. page - 1 = d /\ l * d = d * l /\ d * l \in Int
    BY <2>2, <1>2
  <2> QED
    BY <2>2, <2>3, <1>1, <1>2
<1>5. /\ last \in Nat
      /\ total + l - 1 < l * last + l
  <2>1. last = (total + l - 1) \div l
    BY <1>1, <1>2 DEF TotalPages
  <2> QED
    BY <2>1, <1>1, <1>2, Division
<1>6. page \in 1..last
  <2>1. SUFFICES ASSUME page >= last + 1 PROVE FALSE
    BY <1>4, <1>5
  <2>2. last * l <= (page - 1) * l
    BY <2>1, <1>2, <1>4, <1>5, Monotone
  <2>3. last * l = l * last /\ last * l \in Int /\ (page - 1) * l \in Int
    BY <1>2, <1>4, <1>5
  <2> QED
    BY <2>2, <2>3, <1>1, <1>2, <1>4, <1>5
<1> HIDE DEF page
<1>7. ASSUME NEW other \in 1..last, (other - 1) * l < n, n <= (other - 1) * l + l
      PROVE  other = page
  <2> DEFINE a == (other - 1) * l
             b == (page - 1) * l
  <2>1. other \in Int /\ a \in Int /\ b \in Int /\ l \in Int
    BY <1>2, <1>4, <1>5
  <2>2. /\ a < n /\ n <= a + l
        /\ b < n /\ n <= b + l
    BY <1>4, <1>7
  <2>3. other < page => a + l <= b
    <3>1. other < page => other * l <= b
      BY <2>1, <1>2, <1>4, Monotone
    <3>2. other * l = a + l
      BY <2>1
    <3> QED
      BY <3>1, <3>2
  <2>4. page < other => b + l <= a
    <3>1. page < other => page * l <= a
      BY <2>1, <1>2, <1>4, Monotone
    <3>2. page * l = b + l
      BY <2>1, <1>4
    <3> QED
      BY <3>1, <3>2
  <2> HIDE DEF a, b
  <2> QED
    BY <2>1, <2>2, <2>3, <2>4, <1>1, <1>4
<1> QED
  BY <1>3, <1>4, <1>6, <1>7 DEF l

\* An order of S is a sequence that has each element once.
LEMMA OrderOfAll ==
    ASSUME NEW S, IsFiniteSet(S)
    PROVE  LET L == SetToSeq(S) IN
           /\ L \in [1..Cardinality(S) -> S] /\ Cardinality(S) \in Nat
           /\ \A x \in S : \E i \in 1..Cardinality(S) : L[i] = x
           /\ \A i, j \in 1..Cardinality(S) : L[i] = L[j] => i = j
<1> DEFINE N == Cardinality(S)
           L == SetToSeq(S)
<1>1. N \in Nat /\ ExistsBijection(1..N, S)
  BY FS_CardinalityType
<1>2. \E f \in [1..N -> S] : IsInjective(f)
  BY <1>1 DEF ExistsBijection, Bijection, Injection, IsInjective
<1>3. L \in [1..N -> S] /\ IsInjective(L)
  BY <1>2 DEF SetToSeq
<1>4. L \in Injection(1..N, S) /\ Cardinality(1..N) = N
  <2>1. Cardinality(1..N) = IF 1 > N THEN 0 ELSE N - 1 + 1
    BY <1>1, FS_Interval
  <2>2. L \in Injection(1..N, S)
    BY <1>3 DEF Injection, IsInjective
  <2> QED
    BY <1>1, <2>1, <2>2
<1>5. L \in Surjection(1..N, S)
  BY <1>4, FS_Injection
<1> QED
  BY <1>1, <1>3, <1>5 DEF IsInjective, Surjection

\* After the last page there is nothing, even where the offset would overflow.
LEMMA NothingAfterLast ==
    ASSUME NEW total \in 0..(IntEnd - 1), NEW asked \in Int
    PROVE  LET last == TotalPages(total, ParsePageLimit(1, asked).limit) IN
           PageRows(total, ParsePageLimit(last + 1, asked)) = {}
<1> DEFINE l == ParsePageLimit(1, asked).limit
           last == TotalPages(total, l)
           p == ParsePageLimit(last + 1, asked)
<1>1. total \in Nat /\ total < IntEnd /\ IntEnd \in Nat /\ MaxLimit \in Nat /\ MaxLimit < IntEnd
  BY PaginationAssumption
<1>2. l \in 1..MaxLimit /\ p.limit = l
  BY Limits DEF ParsePageLimit
<1>3. CASE total = 0
  BY <1>3 DEF PageRows
<1>4. CASE total > 0
  <2> HIDE DEF l
  <2>0. l \in Nat /\ l > 0 /\ l <= MaxLimit
    BY <1>1, <1>2
  <2>1. last = (total + l - 1) \div l
    BY <1>1, <1>4, <2>0 DEF TotalPages
  <2>2. last \in Nat /\ l * last <= total + l - 1 /\ total + l - 1 < l * last + l
    BY <1>1, <2>0, <2>1, Division
  <2> DEFINE off == last * l
  <2>3. off \in Nat /\ off = l * last
    BY <2>0, <2>2
  <2>4. p.page = last + 1
    BY <2>2 DEF ParsePageLimit
  <2> HIDE DEF last, p
  <2>5. Offset(p) = Wrap(off)
    BY <1>2, <2>2, <2>4 DEF Offset
  <2> HIDE DEF off
  <2>6. total <= off /\ off < 2 * IntEnd
    BY <1>1, <2>0, <2>2, <2>3
  <2>7. Wrap(off) = off \/ Wrap(off) < 0
    <3>1. off < IntEnd => Wrap(off) = off
      BY <1>1, <2>3, NoWrap
    <3>2. off >= IntEnd => Wrap(off) = off - 2 * IntEnd
      <4>1. SUFFICES ASSUME off >= IntEnd PROVE (off + IntEnd) % (2 * IntEnd) = off - IntEnd
        BY <1>1, <2>3 DEF Wrap
      <4>2. off + IntEnd = (off - IntEnd) + 2 * IntEnd /\ off - IntEnd >= 0 /\ off - IntEnd < 2 * IntEnd
        BY <1>1, <2>3, <2>6, <4>1
      <4> QED
        BY <1>1, <2>3, <4>2
    <3> QED
      BY <1>1, <2>3, <2>6, <3>1, <3>2
  <2> QED
    BY <1>1, <1>2, <2>0, <2>3, <2>5, <2>6, <2>7 DEF PageRows, p, last, l
<1> QED
  BY <1>1, <1>3, <1>4

\* The pages of one list.
LEMMA PagesOfOne ==
    ASSUME NEW S, IsFiniteSet(S), Cardinality(S) < IntEnd, NEW asked \in Int
    PROVE  LET P(n) == ParsePageLimit(n, asked)
               last == TotalPages(Cardinality(S), P(1).limit) IN
           \A seen \in [1..(last + 1) -> Orders(S)] :
               LET got == [n \in 1..(last + 1) |-> Answer(seen[n], P(n))] IN
               /\ \A n \in 1..(last + 1) : got[n].meta.totalPages = last
               /\ UNION {got[n].rows : n \in 1..last} = S
               /\ \A n, k \in 1..(last + 1) : n # k => got[n].rows \cap got[k].rows = {}
               /\ got[last + 1].rows = {}
<1> DEFINE N == Cardinality(S)
           L == SetToSeq(S)
           P(n) == ParsePageLimit(n, asked)
           last == TotalPages(N, P(1).limit)
           on(n) == {L[i] : i \in PageRows(N, P(n))}
<1>1. /\ L \in [1..N -> S] /\ N \in Nat
      /\ \A x \in S : \E i \in 1..N : L[i] = x
      /\ \A i, j \in 1..N : L[i] = L[j] => i = j
  BY OrderOfAll
<1>2. Len(L) = N
  BY <1>1
<1>3. \A n : PageRows(N, P(n)) \subseteq 1..N
  BY DEF PageRows
<1>4. last \in Nat
  <2>1. P(1).limit \in Nat \ {0}
    BY Limits, PaginationAssumption
  <2> DEFINE l == P(1).limit
  <2> HIDE DEF l
  <2>2. N > 0 => (N + l - 1) \in Nat
    BY <1>1, <2>1 DEF l
  <2>3. TotalPages(N, l) \in Nat
    BY <1>1, <2>1, <2>2, Division DEF TotalPages, l
  <2> QED
    BY <2>3 DEF l
<1>5. on(last + 1) = {}
  <2>1. N \in 0..(IntEnd - 1)
    BY <1>1, PaginationAssumption
  <2> QED
    BY <2>1, NothingAfterLast
<1>6. ASSUME NEW i \in 1..N
      PROVE  \E page \in 1..last : \A other \in 1..last : i \in PageRows(N, P(other)) <=> other = page
  <2>1. N \in 1..(IntEnd - 1)
    BY <1>1, PaginationAssumption
  <2> QED
    BY <2>1, <1>6, EveryRowOnOnePage
<1>7. UNION {on(n) : n \in 1..last} = S
  <2>1. ASSUME NEW x \in S PROVE \E n \in 1..last : x \in on(n)
    <3>1. PICK i \in 1..N : L[i] = x
      BY <1>1
    <3>2. PICK n \in 1..last : i \in PageRows(N, P(n))
      BY <1>6
    <3> QED
      BY <3>1, <3>2
  <2>2. \A n : on(n) \subseteq S
    BY <1>1, <1>3
  <2> HIDE DEF on, last
  <2> QED
    BY <2>1, <2>2
<1>8. ASSUME NEW n \in 1..last, NEW k \in 1..last, n # k PROVE on(n) \cap on(k) = {}
  <2>1. SUFFICES ASSUME NEW x \in on(n), x \in on(k) PROVE FALSE
    OBVIOUS
  <2>2. PICK i \in PageRows(N, P(n)) : x = L[i]
    BY <2>1
  <2>3. PICK j \in PageRows(N, P(k)) : x = L[j]
    BY <2>1
  <2>4. i \in 1..N /\ i = j
    BY <1>1, <1>3, <2>2, <2>3
  <2> QED
    BY <1>6, <1>8, <2>2, <2>3, <2>4
<1> SUFFICES ASSUME NEW seen \in [1..(last + 1) -> Orders(S)]
             PROVE  LET got == [n \in 1..(last + 1) |-> Answer(seen[n], P(n))] IN
                    /\ \A n \in 1..(last + 1) : got[n].meta.totalPages = last
                    /\ UNION {got[n].rows : n \in 1..last} = S
                    /\ \A n, k \in 1..(last + 1) : n # k => got[n].rows \cap got[k].rows = {}
                    /\ got[last + 1].rows = {}
  OBVIOUS
<1> DEFINE got == [n \in 1..(last + 1) |-> Answer(seen[n], P(n))]
<1>9. ASSUME NEW n \in 1..(last + 1) PROVE got[n].rows = on(n) /\ got[n].meta.totalPages = last
  <2>1. seen[n] = L
    BY DEF Orders
  <2>2. P(n).limit = P(1).limit
    BY DEF ParsePageLimit
  <2>3. got[n] = Answer(L, P(n))
    BY <2>1
  <2> QED
    BY <1>2, <2>2, <2>3 DEF Answer, Rows, NewMeta
<1> HIDE DEF got, on, last
<1>10. \A n \in 1..last : n \in 1..(last + 1)
  BY <1>4
<1>11. \A n, k \in 1..(last + 1) : n # k => got[n].rows \cap got[k].rows = {}
  <2>1. \A n \in 1..(last + 1) : n \in 1..last \/ n = last + 1
    BY <1>4
  <2> QED
    BY <1>5, <1>8, <1>9, <2>1
<1>12. UNION {got[n].rows : n \in 1..last} = S
  BY <1>7, <1>9, <1>10
<1>13. got[last + 1].rows = {}
  BY <1>4, <1>5, <1>9
<1> QED
  BY <1>9, <1>11, <1>12, <1>13 DEF got, last

\* Each list is part of a finite set that an int can count.
LEMMA ListsFit ==
    ASSUME NEW o \in Org, NEW S \in ListsOf(o)
    PROVE  IsFiniteSet(S) /\ Cardinality(S) < IntEnd
<1>1. IsFiniteSet(Ref)
  BY ListsAssumption, FS_Union DEF Ref
<1>2. S \subseteq Ref \/ S \subseteq Team
  <2>1. \A x \in Org : OrgUsers(x) \subseteq Ref
    BY DEF OrgUsers, Ref
  <2>2. \A t \in Team : TeamMembers(t) \subseteq Ref /\ OrgUsers(teamOrg[t]) \subseteq Ref
    BY DEF TeamMembers, OrgUsers, Ref
  <2>3. ASSUME NEW s \in Filter, S = ListMembers(o, s) PROVE S \subseteq Ref
    BY <2>1, <2>3 DEF ListMembers, WithStatus
  <2>4. ASSUME NEW t \in Team, NEW m, NEW s \in Filter, S = ListTeamMembers(t, m, s) PROVE S \subseteq Ref
    BY <2>2, <2>4 DEF ListTeamMembers, WithStatus, NotInTeam
  <2> QED
    BY <2>3, <2>4 DEF ListsOf, ListTeams
<1>3. ASSUME NEW A, IsFiniteSet(A), S \subseteq A, Cardinality(A) < IntEnd
      PROVE  IsFiniteSet(S) /\ Cardinality(S) < IntEnd
  <2>1. IsFiniteSet(S) /\ Cardinality(S) <= Cardinality(A)
    BY <1>3, FS_Subset
  <2>2. Cardinality(S) \in Nat /\ Cardinality(A) \in Nat /\ IntEnd \in Nat
    BY <1>3, <2>1, FS_CardinalityType, PaginationAssumption
  <2> QED
    BY <1>3, <2>1, <2>2
<1> QED
  BY <1>1, <1>2, <1>3, ListsAssumption

\* Whatever list is read in whatever state, with whatever limit: every row is on one of the
\* pages that the answer counts, on no other, and there is nothing on the page after.
THEOREM PagesAlwaysCoverList == TeamSpec => []PagesCoverList
<1>1. PagesCoverList
  <2>1. ASSUME NEW o \in Org, NEW S \in ListsOf(o), NEW asked \in 0..(MaxLimit + 1)
        PROVE  LET P(n) == ParsePageLimit(n, asked)
                   last == TotalPages(Cardinality(S), P(1).limit) IN
               \A seen \in [1..(last + 1) -> Orders(S)] :
                   LET got == [n \in 1..(last + 1) |-> Answer(seen[n], P(n))] IN
                   /\ \A n \in 1..(last + 1) : got[n].meta.totalPages = last
                   /\ UNION {got[n].rows : n \in 1..last} = S
                   /\ \A n, k \in 1..(last + 1) : n # k => got[n].rows \cap got[k].rows = {}
                   /\ got[last + 1].rows = {}
    <3>1. asked \in Int /\ IsFiniteSet(S) /\ Cardinality(S) < IntEnd
      BY ListsFit, PaginationAssumption
    <3> QED
      BY <3>1, PagesOfOne
  <2> QED
    BY <2>1 DEF PagesCoverList
<1> QED
  BY <1>1, PTL
================================================================================
