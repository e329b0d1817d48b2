-------------------------- MODULE OrgMembershipProofs --------------------------
(***************************************************************************)
(* Theorems about OrgMembership, for every set of users, organizations,    *)
(* invites and requests and every choice of operations.                    *)
(***************************************************************************)
EXTENDS OrgMembership, TLAPS

\* An organization has at most one owner, and he is active.
Owners ==
    \A o \in Org, u \in User : member[o][u].role = "owner" =>
        /\ member[o][u].status = "active"
        /\ \A v \in User : member[o][v].role = "owner" => v = u

\* An invite that was sent is addressed to an email, for an organization.
Sent(i) ==
    /\ invite[i].status # "unused"
    /\ invite[i].org \in Org /\ invite[i].email \in User
    /\ RequireOrgOwner(invite[i].org)

Invites == \A i \in Invite : invite[i].status # "unused" => Sent(i)

\* A row is locked by the request in the middle of accepting it, and by no other.
Locking ==
    \A i \in Invite, r \in Request :
        lock[i] = r <=> pc[r] = "accept_write" /\ call[r].inv = i

AvailSteps == {"avail_member", "avail_invite"}
OrgSteps == AvailSteps \union
    {"add_user", "add_deactivated", "invite_insert", "invite_update",
     "member_upsert", "member_update", "member_deactivate", "member_delete"}
InviteSteps == {"invite_update", "invite_withdraw", "invite_delete"} \union AcceptFlight

\* What request r knows when it goes on.
Knows(r) ==
    /\ pc[r] \in OrgSteps => /\ call[r].org \in Org /\ RequireOrgOwner(call[r].org)
                             /\ call[r].user \in User
    /\ pc[r] \in AcceptFlight \union {"join_list", "signed_up"} => call[r].user \in User
    /\ pc[r] \in InviteSteps \/ (pc[r] \in AvailSteps /\ call[r].op = "update_invite")
         => call[r].inv \in Invite /\ invite[call[r].inv].status # "unused"
    /\ pc[r] \in AvailSteps => call[r].op \in {"create_invite", "add_member", "update_invite"}
    /\ pc[r] \in AvailSteps /\ call[r].op = "update_invite" => call[r].mark = "pending"
    /\ pc[r] \in {"add_user", "add_deactivated"} => call[r].op = "add_member"
    /\ pc[r] = "invite_update" => call[r].mark \in {"pending", "deactive"}
    /\ pc[r] = "member_update" => call[r].mark \in {"active", "deactive"}
    /\ pc[r] = "accept_write" => /\ invite[call[r].inv].status = "pending"
                                 /\ invite[call[r].inv].org = call[r].org
    /\ pc[r] = "accept_write" /\ call[r].mark = "deactive" =>
         member[call[r].org][call[r].user].role # "owner"

Requests == \A r \in Request : Knows(r)

\* What a joining request still owes.
Owes(r) ==
    /\ todo[r] \subseteq listed[r]
    /\ \A i \in listed[r] : invite[i].status # "unused"
    /\ \A i \in listed[r] \ todo[r] :
          \/ invite[i].status \in {"accepted", "deleted"}
          \/ pc[r] \in AcceptFlight /\ call[r].inv = i
    /\ pc[r] = "signed_up" => todo[r] = {}
    /\ pc[r] = "idle" => listed[r] = {}

Joins == \A r \in Request : Owes(r)

IInv == TypeOK /\ Owners /\ Invites /\ Locking /\ Requests /\ Joins

--------------------------------------------------------------------------------
\* The invariant holds initially and every action keeps it.

LEMMA InitIInv == Init => IInv
  BY NoneAssumption
     DEF Init, IInv, TypeOK, Owners, Invites, Sent, Locking, Requests, Knows, Joins, Owes,
         Row, NoRow, InviteRow, Step, AcceptFlight, Call, NoCall, AvailSteps, OrgSteps, InviteSteps

\* No organization loses its owner or gets another.
OwnersKept ==
    \A o \in Org : RequireOrgOwner(o) =>
        /\ RequireOrgOwner(o)'
        /\ \A u \in User : member'[o][u].role = "owner" => member[o][u].role = "owner"

\* Nobody but r moves, ownership stays, an invite that was sent stays sent and a
\* settled one settled, and rows locked by others are left alone.
Others(r) ==
    /\ \A q \in Request \ {r} : /\ pc'[q] = pc[q] /\ call'[q] = call[q]
                                /\ todo'[q] = todo[q] /\ listed'[q] = listed[q]
    /\ OwnersKept
    /\ \A i \in Invite : invite[i].status # "unused" =>
          invite'[i].status # "unused" /\ invite'[i].org = invite[i].org
    /\ \A i \in Invite : invite[i].status \in {"accepted", "deleted"} =>
          invite'[i].status = invite[i].status
    /\ \A i \in Invite, q \in Request \ {r} : lock[i] = q => invite'[i] = invite[i]

LEMMA OthersKeep ==
    ASSUME IInv, NEW r, Others(r), NEW q \in Request \ {r}
    PROVE  Knows(q)' /\ Owes(q)'
  <1> USE DEF IInv, Others
  <1>1. Knows(q) /\ Owes(q) /\ TypeOK
    BY DEF Requests, Joins
  <1>2. pc[q] = "accept_write" => call[q].inv \in Invite /\ lock[call[q].inv] = q
    BY <1>1 DEF Locking, Knows, InviteSteps, AcceptFlight
  <1>3. Knows(q)'
    <2>1. pc[q] = "accept_write" =>
            /\ call[q].org \in Org /\ RequireOrgOwner(call[q].org) /\ call[q].user \in User
      BY <1>1 DEF Knows, Invites, Sent, InviteSteps, AcceptFlight
    <2> QED
      BY <1>1, <1>2, <2>1 DEF Knows, TypeOK, OwnersKept
  <1>4. Owes(q)'
    BY <1>1 DEF Owes, TypeOK
  <1> QED
    BY <1>3, <1>4

LEMMA StepIInv ==
    ASSUME IInv, NEW r \in Request, Others(r),
           TypeOK', Owners', Invites', Locking', Knows(r)', Owes(r)'
    PROVE  IInv'
  BY OthersKeep DEF IInv, Requests, Joins

\* A step that writes to no table of organizations and holds no lock.
LEMMA LocalStep ==
    ASSUME IInv, NEW r \in Request, UNCHANGED <<member, invite, lock>>, TypeOK',
           \A q \in Request \ {r} : /\ pc'[q] = pc[q] /\ call'[q] = call[q]
                                    /\ todo'[q] = todo[q] /\ listed'[q] = listed[q],
           pc[r] # "accept_write", pc'[r] # "accept_write", Knows(r)', Owes(r)'
    PROVE  IInv'
  <1>1. Others(r)
    BY DEF Others, OwnersKept, RequireOrgOwner, IsOwner
  <1>2. Owners' /\ Invites'
    BY DEF IInv, Owners, Invites, Sent, RequireOrgOwner, IsOwner
  <1>3. Locking'
    BY DEF IInv, Locking
  <1> QED
    BY <1>1, <1>2, <1>3, StepIInv

\* A request that begins at step "to" with what c says may go on.
Ready(to, c) ==
    /\ to \in Step \ {"accept_write", "signed_up", "idle"} /\ c \in Call
    /\ to \in OrgSteps => /\ c.org \in Org /\ RequireOrgOwner(c.org) /\ c.user \in User
    /\ to \in {"accept_lock", "join_list"} => c.user \in User
    /\ to \in InviteSteps \/ (to \in AvailSteps /\ c.op = "update_invite") =>
         c.inv \in Invite /\ invite[c.inv].status # "unused"
    /\ to \in AvailSteps => c.op \in {"create_invite", "add_member", "update_invite"}
    /\ to \in AvailSteps /\ c.op = "update_invite" => c.mark = "pending"
    /\ to \in {"add_user", "add_deactivated"} => c.op = "add_member"
    /\ to = "invite_update" => c.mark \in {"pending", "deactive"}
    /\ to = "member_update" => c.mark \in {"active", "deactive"}

LEMMA StartStep ==
    ASSUME IInv, NEW r \in Request, NEW to, NEW c, Start(r, to, c), Ready(to, c),
           UNCHANGED <<member, invite, lock>>,
           registered' \subseteq User
    PROVE  IInv'
  <1> USE DEF Ready
  <1>1. TypeOK'
    BY DEF IInv, TypeOK, Start
  <1>2. Knows(r)'
    BY DEF IInv, TypeOK, Start, Knows, RequireOrgOwner, IsOwner, AcceptFlight, OrgSteps, AvailSteps,
           InviteSteps
  <1>3. Owes(r)'
    BY DEF IInv, TypeOK, Start, Joins, Owes
  <1> QED
    BY <1>1, <1>2, <1>3, LocalStep DEF IInv, TypeOK, Start

LEMMA BeginIInv ==
    ASSUME IInv, NEW r \in Request, Begin(r)
    PROVE  IInv'
  <1> USE NoneAssumption DEF Step, AcceptFlight, OrgSteps, InviteSteps, AvailSteps, Call, NoCall, AllOps
  <1>1. ASSUME NEW u \in User,
               SignUp(r, u) \/ LinkGoogle(r, u)
        PROVE  IInv'
    <2> DEFINE c == [NoCall EXCEPT !.op = "join", !.user = u]
    <2>1. Ready("join_list", c)
      BY <1>1 DEF Ready, SignUp, LinkGoogle
    <2> QED
      BY <1>1, <2>1, StartStep DEF SignUp, LinkGoogle, tables, IInv, TypeOK
  <1>2. ASSUME NEW u \in User, NEW i \in Invite,
               Accept(r, u, i)
        PROVE  IInv'
    <2> DEFINE c == [NoCall EXCEPT !.op = "accept", !.user = u, !.inv = i]
    <2>1. Ready("accept_lock", c)
      BY <1>2 DEF Ready, Accept
    <2> QED
      BY <1>2, <2>1, StartStep DEF Accept, tables, IInv, TypeOK
  <1>3. ASSUME NEW u \in User, NEW o \in Org,
               CreateInvite(r, o, u)
        PROVE  IInv'
    <2> DEFINE c == [NoCall EXCEPT !.op = "create_invite", !.org = o, !.user = u]
    <2>1. Ready("avail_member", c)
      BY <1>3 DEF Ready, CreateInvite
    <2> QED
      BY <1>3, <2>1, StartStep DEF CreateInvite, tables, IInv, TypeOK
  <1>4. ASSUME NEW u \in User, NEW o \in Org,
               AddMember(r, o, u)
        PROVE  IInv'
    <2> DEFINE c == [NoCall EXCEPT !.op = "add_member", !.org = o, !.user = u]
    <2>1. Ready("add_user", c)
      BY <1>4 DEF Ready, AddMember
    <2> QED
      BY <1>4, <2>1, StartStep DEF AddMember, tables, IInv, TypeOK
  <1>5. ASSUME NEW u \in User, NEW o \in Org,
               RemoveMember(r, o, u)
        PROVE  IInv'
    <2> DEFINE c == [NoCall EXCEPT !.op = "remove_member", !.org = o, !.user = u]
    <2> DEFINE to == IF member[o][u].status = "deactive" THEN "member_delete" ELSE "member_deactivate"
    <2>1. Ready(to, c)
      BY <1>5 DEF Ready, RemoveMember
    <2> QED
      BY <1>5, <2>1, StartStep DEF RemoveMember, tables, IInv, TypeOK
  <1>6. ASSUME NEW u \in User, NEW o \in Org, NEW s \in {"active", "deactive"},
               UpdateMemberStatus(r, o, u, s)
        PROVE  IInv'
    <2> DEFINE c == [NoCall EXCEPT !.op = "member_status", !.org = o, !.user = u, !.mark = s]
    <2>1. Ready("member_update", c)
      BY <1>6 DEF Ready, UpdateMemberStatus
    <2> QED
      BY <1>6, <2>1, StartStep DEF UpdateMemberStatus, tables, IInv, TypeOK
  <1>7. ASSUME NEW i \in Invite,
               DeleteInvite(r, i)
        PROVE  IInv'
    <2> DEFINE c == [NoCall EXCEPT !.op = "delete_invite", !.org = invite[i].org, !.inv = i]
    <2> DEFINE to == IF invite[i].status = "deactive" THEN "invite_delete" ELSE "invite_withdraw"
    <2>1. Ready(to, c)
      BY <1>7 DEF Ready, DeleteInvite, IInv, Invites, Sent
    <2> QED
      BY <1>7, <2>1, StartStep DEF DeleteInvite, tables, IInv, TypeOK
  <1>8. ASSUME NEW u \in User, NEW i \in Invite, NEW s \in {"pending", "deactive"},
               UpdateInvite(r, i, u, s)
        PROVE  IInv'
    <2> DEFINE c == [op |-> "update_invite", org |-> invite[i].org, user |-> u, inv |-> i, mark |-> s]
    <2> DEFINE to == IF s = "pending" THEN "avail_member" ELSE "invite_update"
    <2>1. Ready(to, c)
      BY <1>8 DEF Ready, UpdateInvite, IInv, Invites, Sent
    <2> QED
      BY <1>8, <2>1, StartStep DEF UpdateInvite, tables, IInv, TypeOK
  <1> QED
    BY <1>1, <1>2, <1>3, <1>4, <1>5, <1>6, <1>7, <1>8 DEF Begin

\* A request that ends.
LEMMA FinishFacts ==
    ASSUME IInv, NEW r \in Request, Finish(r)
    PROVE  Knows(r)' /\ Owes(r)'
  BY DEF IInv, TypeOK, Finish, Knows, Owes, OrgSteps, AvailSteps, InviteSteps, AcceptFlight

LEMMA AbandonIInv ==
    ASSUME IInv, NEW r \in Request, Abandon(r)
    PROVE  IInv'
  <1> USE DEF Abandon, Finish, tables
  <1>1. TypeOK'
    BY NoneAssumption DEF IInv, TypeOK, Step, Call, NoCall
  <1>2. Owners' /\ Invites'
    BY DEF IInv, Owners, Invites, Sent, RequireOrgOwner, IsOwner
  <1>3. Locking'
    BY NoneAssumption DEF IInv, TypeOK, Locking
  <1>4. Others(r)
    BY DEF IInv, TypeOK, Others, OwnersKept, RequireOrgOwner, IsOwner
  <1> QED
    BY <1>1, <1>2, <1>3, <1>4, FinishFacts, StepIInv

LEMMA EndStep ==
    ASSUME IInv, NEW r \in Request, Finish(r), UNCHANGED <<tables, lock>>, pc[r] # "accept_write"
    PROVE  IInv'
  <1>1. TypeOK'
    BY NoneAssumption DEF IInv, TypeOK, Step, Call, NoCall, Finish, tables
  <1> QED
    BY <1>1, FinishFacts, LocalStep DEF IInv, TypeOK, Finish, tables

\* The steps of a request that only read.
LEMMA ReadIInv ==
    ASSUME IInv, NEW r \in Request,
           \/ SignedUp(r) \/ AvailMember(r) \/ AvailInvite(r) \/ AddUser(r) \/ AddDeactivated(r)
    PROVE  IInv'
  <1> USE DEF tables, Step, AcceptFlight, OrgSteps, InviteSteps, AvailSteps
  <1>1. CASE SignedUp(r)
    BY <1>1, EndStep DEF SignedUp
  <1>2. ASSUME NEW to \in Step, Goto(r, to), UNCHANGED <<tables, lock>>,
               pc[r] # "accept_write", to # "accept_write", Knows(r)',
               pc[r] \notin AcceptFlight, to \notin {"idle", "signed_up"}
        PROVE  IInv'
    <2>1. TypeOK'
      BY <1>2 DEF IInv, TypeOK, Goto
    <2>2. Owes(r)'
      BY <1>2 DEF IInv, TypeOK, Joins, Owes, Goto
    <2> QED
      BY <1>2, <2>1, <2>2, LocalStep DEF IInv, TypeOK, Goto
  <1>3. CASE AvailMember(r)
    <2>1. CASE Goto(r, "avail_invite")
      <3>1. Knows(r)'
        BY <1>3, <2>1 DEF AvailMember, Goto, IInv, TypeOK, Requests, Knows, RequireOrgOwner, IsOwner
      <3> QED
        BY <1>2, <1>3, <2>1, <3>1 DEF AvailMember
    <2> QED
      BY <1>3, <2>1, EndStep DEF AvailMember
  <1>4. CASE AvailInvite(r)
    <2>1. CASE Goto(r, AfterAvailable[call[r].op])
      <3>1. /\ AfterAvailable[call[r].op] \in {"invite_insert", "add_deactivated", "invite_update"}
            /\ AfterAvailable[call[r].op] = "invite_update" => call[r].op = "update_invite"
            /\ AfterAvailable[call[r].op] = "add_deactivated" => call[r].op = "add_member"
        BY <1>4 DEF AvailInvite, IInv, Requests, Knows, AfterAvailable
      <3>2. Knows(r)'
        BY <1>4, <2>1, <3>1
           DEF AvailInvite, Goto, IInv, TypeOK, Requests, Knows, RequireOrgOwner, IsOwner
      <3> QED
        BY <1>2, <1>4, <2>1, <3>1, <3>2 DEF AvailInvite
    <2> QED
      BY <1>4, <2>1, EndStep DEF AvailInvite
  <1>5. CASE AddUser(r)
    <2>1. PICK to \in {"member_upsert", "avail_member"} : Goto(r, to)
      BY <1>5 DEF AddUser
    <2>2. Knows(r)'
      BY <1>5, <2>1 DEF AddUser, Goto, IInv, TypeOK, Requests, Knows, RequireOrgOwner, IsOwner
    <2> QED
      BY <1>2, <1>5, <2>1, <2>2 DEF AddUser
  <1>6. CASE AddDeactivated(r)
    <2>1. CASE Goto(r, "invite_insert")
      <3>1. Knows(r)'
        BY <1>6, <2>1
           DEF AddDeactivated, Goto, IInv, TypeOK, Requests, Knows, RequireOrgOwner, IsOwner
      <3> QED
        BY <1>2, <1>6, <2>1, <3>1 DEF AddDeactivated
    <2>2. ASSUME NEW i \in Invite, invite[i].status = "deactive",
                 pc' = [pc EXCEPT ![r] = "invite_update"],
                 call' = [call EXCEPT ![r].inv = i, ![r].mark = "pending"],
                 UNCHANGED <<todo, listed>>
          PROVE  IInv'
      <3> DEFINE c == [call[r] EXCEPT !.inv = i, !.mark = "pending"]
      <3>1. pc[r] = "add_deactivated" /\ UNCHANGED <<registered, member, invite, lock>>
        BY <1>6 DEF AddDeactivated
      <3>2. /\ c \in Call /\ c.org = call[r].org /\ c.user = call[r].user
            /\ c.inv = i /\ c.mark = "pending"
        BY DEF IInv, TypeOK, Call
      <3>3. call' = [call EXCEPT ![r] = c]
        BY <2>2 DEF IInv, TypeOK, Call
      <3> HIDE DEF c
      <3>4. TypeOK'
        BY <2>2, <3>1, <3>2, <3>3 DEF IInv, TypeOK
      <3>5. Knows(r)'
        BY <2>2, <3>1, <3>2, <3>3 DEF IInv, TypeOK, Requests, Knows, RequireOrgOwner, IsOwner
      <3>6. Owes(r)'
        BY <2>2, <3>1 DEF IInv, TypeOK, Joins, Owes
      <3> QED
        BY <2>2, <3>1, <3>3, <3>4, <3>5, <3>6, LocalStep DEF IInv, TypeOK
    <2> QED
      BY <1>6, <2>1, <2>2 DEF AddDeactivated
  <1> QED
    BY <1>1, <1>3, <1>4, <1>5, <1>6

--------------------------------------------------------------------------------
\* The steps that write.

\* Only a plain member's row is written, and it stays one or goes.
LEMMA MemberWrite ==
    ASSUME IInv, NEW o \in Org, NEW u \in User, NEW row \in Row,
           member[o][u].role # "owner", row.role # "owner",
           member' = [member EXCEPT ![o][u] = row]
    PROVE  /\ member' \in [Org -> [User -> Row]] /\ Owners'
           /\ OwnersKept
  <1>1. member' \in [Org -> [User -> Row]]
    BY DEF IInv, TypeOK
  <1>2. \A p \in Org, v \in User :
          member'[p][v] = IF p = o /\ v = u THEN row ELSE member[p][v]
    BY DEF IInv, TypeOK
  <1>3. Owners'
    BY <1>2 DEF IInv, Owners
  <1>4. OwnersKept
    BY <1>2 DEF OwnersKept, RequireOrgOwner, IsOwner
  <1> QED
    BY <1>1, <1>3, <1>4

\* A request that writes to members, and ends.
LEMMA MemberStep ==
    ASSUME IInv, NEW r \in Request, Finish(r), pc[r] # "accept_write",
           UNCHANGED <<registered, invite, lock>>,
           member' \in [Org -> [User -> Row]], Owners',
           OwnersKept
    PROVE  IInv'
  <1>1. TypeOK'
    BY NoneAssumption DEF IInv, TypeOK, Finish, Step, Call, NoCall
  <1>2. Others(r)
    BY DEF IInv, TypeOK, Finish, Others
  <1>3. Invites'
    BY DEF IInv, Invites, Sent, OwnersKept
  <1>4. Locking'
    BY DEF IInv, TypeOK, Locking, Finish
  <1> QED
    BY <1>1, <1>2, <1>3, <1>4, FinishFacts, StepIInv

\* Whatever writes to members writes one plain member's row.
LEMMA PlainRow ==
    ASSUME IInv, NEW r \in Request, member' # member,
           \/ MemberUpsert(r) \/ MemberUpdate(r) \/ MemberDeactivate(r) \/ MemberDelete(r)
           \/ AcceptWrite(r)
    PROVE  \E o \in Org, u \in User, row \in Row :
              /\ member[o][u].role # "owner" /\ row.role # "owner"
              /\ member' = [member EXCEPT ![o][u] = row]
  <1> DEFINE o == call[r].org
             u == call[r].user
  <1>1. o \in Org /\ u \in User
    BY DEF IInv, Requests, Knows, OrgSteps, InviteSteps, AcceptFlight, Invites, Sent,
           MemberUpsert, MemberUpdate, MemberDeactivate, MemberDelete, AcceptWrite
  <1>2. member[o][u] \in Row
    BY <1>1 DEF IInv, TypeOK
  <1>3. CASE MemberUpsert(r)
    BY <1>1, <1>3 DEF MemberUpsert, ActiveMember, Row
  <1>4. CASE MemberUpdate(r)
    <2> DEFINE row == [member[o][u] EXCEPT !.status = call[r].mark]
    <2>1. row \in Row /\ row.role # "owner" /\ member[o][u].role # "owner"
      BY <1>2, <1>4 DEF MemberUpdate, Row, Spared, IInv, Requests, Knows
    <2>2. member' = [member EXCEPT ![o][u] = row]
      BY <1>1, <1>4 DEF MemberUpdate, IInv, TypeOK
    <2> QED
      BY <1>1, <2>1, <2>2
  <1>5. CASE MemberDeactivate(r)
    <2> DEFINE row == [member[o][u] EXCEPT !.status = "deactive"]
    <2>1. row \in Row /\ row.role # "owner" /\ member[o][u].role # "owner"
      BY <1>2, <1>5 DEF MemberDeactivate, Row, Spared
    <2>2. member' = [member EXCEPT ![o][u] = row]
      BY <1>1, <1>5 DEF MemberDeactivate, IInv, TypeOK
    <2> QED
      BY <1>1, <2>1, <2>2
  <1>6. CASE MemberDelete(r)
    BY <1>1, <1>6 DEF MemberDelete, Spared, NoRow, Row
  <1>7. CASE AcceptWrite(r)
    <2>1. call[r].mark = "deactive" => member[o][u].role # "owner"
      BY <1>7 DEF IInv, Requests, Knows, AcceptWrite
    <2> QED
      BY <1>1, <1>7, <2>1 DEF AcceptWrite, ActiveMember, Row, HasMembership
  <1> QED
    BY <1>3, <1>4, <1>5, <1>6, <1>7

LEMMA MemberIInv ==
    ASSUME IInv, NEW r \in Request,
           MemberUpsert(r) \/ MemberUpdate(r) \/ MemberDeactivate(r) \/ MemberDelete(r)
    PROVE  IInv'
  <1>1. /\ Finish(r) /\ pc[r] # "accept_write" /\ UNCHANGED <<registered, invite, lock>>
    BY DEF MemberUpsert, MemberUpdate, MemberDeactivate, MemberDelete
  <1>2. CASE member' = member
    BY <1>1, <1>2, EndStep DEF tables
  <1>3. CASE member' # member
    <2>1. member' \in [Org -> [User -> Row]] /\ Owners' /\ OwnersKept
      BY <1>3, PlainRow, MemberWrite
    <2> QED
      BY <1>1, <2>1, MemberStep
  <1> QED
    BY <1>2, <1>3

\* A row of an invite that no other request has locked is written: a new one, or
\* one not settled, which stays with its organization.
LEMMA InviteWrite ==
    ASSUME IInv, NEW r \in Request, NEW i \in Invite, NEW row \in InviteRow, lock[i] \in {NoRequest, r},
           invite' = [invite EXCEPT ![i] = row], row.status # "unused",
           row.org \in Org, row.email \in User, RequireOrgOwner(row.org),
           invite[i].status = "unused" \/ row.org = invite[i].org,
           invite[i].status \notin {"accepted", "deleted"},
           OwnersKept
    PROVE  /\ invite' \in [Invite -> InviteRow] /\ Invites'
           /\ \A j \in Invite : invite[j].status # "unused" =>
                 invite'[j].status # "unused" /\ invite'[j].org = invite[j].org
           /\ \A j \in Invite : invite[j].status \in {"accepted", "deleted"} =>
                 invite'[j].status = invite[j].status
           /\ \A j \in Invite, q \in Request \ {r} : lock[j] = q => invite'[j] = invite[j]
  <1>1. invite' \in [Invite -> InviteRow]
    BY DEF IInv, TypeOK
  <1>2. \A j \in Invite : invite'[j] = IF j = i THEN row ELSE invite[j]
    BY DEF IInv, TypeOK
  <1>3. Invites'
    BY <1>2 DEF IInv, Invites, Sent, OwnersKept
  <1> QED
    BY <1>1, <1>2, <1>3, NoneAssumption

LEMMA InviteIInv ==
    ASSUME IInv, NEW r \in Request,
           \/ \E i \in Invite : InviteInsert(r, i)
           \/ InviteUpdate(r) \/ InviteWithdraw(r) \/ InviteDelete(r)
    PROVE  IInv'
  <1>1. /\ Finish(r) /\ pc[r] # "accept_write" /\ UNCHANGED <<registered, member, lock>>
    BY DEF InviteInsert, InviteUpdate, InviteWithdraw, InviteDelete
  <1>2. OwnersKept
    BY <1>1 DEF OwnersKept, RequireOrgOwner, IsOwner
  <1>3. CASE invite' = invite
    BY <1>1, <1>3, EndStep DEF tables
  <1>4. ASSUME NEW i \in Invite, NEW row \in InviteRow, lock[i] = NoRequest,
               invite' = [invite EXCEPT ![i] = row], row.status # "unused",
               row.org \in Org, row.email \in User, RequireOrgOwner(row.org),
               invite[i].status = "unused" \/ row.org = invite[i].org,
               invite[i].status \notin {"accepted", "deleted"}
        PROVE  IInv'
    <2> DEFINE Kept ==
          /\ \A j \in Invite : invite[j].status # "unused" =>
                invite'[j].status # "unused" /\ invite'[j].org = invite[j].org
          /\ \A j \in Invite : invite[j].status \in {"accepted", "deleted"} =>
                invite'[j].status = invite[j].status
          /\ \A j \in Invite, q \in Request \ {r} : lock[j] = q => invite'[j] = invite[j]
    <2>1. invite' \in [Invite -> InviteRow] /\ Invites' /\ Kept
      BY <1>2, <1>4, InviteWrite
    <2>2. TypeOK'
      BY <1>1, <2>1, NoneAssumption DEF IInv, TypeOK, Finish, Step, Call, NoCall
    <2>3. Others(r)
      BY <1>1, <1>2, <2>1 DEF IInv, TypeOK, Finish, Others
    <2>4. Owners'
      BY <1>1 DEF IInv, Owners
    <2>5. Locking'
      BY <1>1 DEF IInv, TypeOK, Locking, Finish
    <2> QED
      BY <1>1, <2>1, <2>2, <2>3, <2>4, <2>5, FinishFacts, StepIInv
  <1>5. ASSUME NEW i \in Invite, InviteInsert(r, i), invite' # invite
        PROVE  IInv'
    <2> DEFINE row == [org |-> call[r].org, email |-> call[r].user, status |-> "pending"]
    <2>1. row \in InviteRow /\ row.org \in Org /\ row.email \in User /\ RequireOrgOwner(row.org)
      BY <1>5 DEF InviteInsert, IInv, Requests, Knows, OrgSteps, InviteRow
    <2>2. invite' = [invite EXCEPT ![i] = row] /\ invite[i].status = "unused"
      BY <1>5 DEF InviteInsert
    <2>3. lock[i] = NoRequest
      BY <2>2 DEF IInv, TypeOK, Locking, Requests, Knows
    <2> QED
      BY <1>4, <2>1, <2>2, <2>3
  <1>6. CASE InviteUpdate(r) /\ invite' # invite
    <2> DEFINE i == call[r].inv
               row == [invite[i] EXCEPT !.email = call[r].user, !.status = call[r].mark]
    <2>1. /\ i \in Invite /\ Sent(i) /\ lock[i] = NoRequest /\ call[r].user \in User
          /\ call[r].mark \in {"pending", "deactive"}
      BY <1>6 DEF InviteUpdate, IInv, Requests, Knows, OrgSteps, InviteSteps, Invites, Free
    <2>2. invite[i] \in InviteRow /\ invite[i].status \in {"pending", "deactive"}
      BY <1>6, <2>1 DEF InviteUpdate, IInv, TypeOK
    <2>3. row \in InviteRow /\ row.status # "unused" /\ row.org = invite[i].org /\ row.email \in User
      BY <2>1, <2>2 DEF InviteRow
    <2>4. invite' = [invite EXCEPT ![i] = row]
      BY <1>6, <2>1 DEF InviteUpdate, IInv, TypeOK
    <2> QED
      BY <1>4, <2>1, <2>2, <2>3, <2>4 DEF Sent
  <1>7. CASE (InviteWithdraw(r) \/ InviteDelete(r)) /\ invite' # invite
    <2> DEFINE i == call[r].inv
    <2>1. PICK status \in {"deactive", "deleted"} : invite' = [invite EXCEPT ![i].status = status]
      BY <1>7 DEF InviteWithdraw, InviteDelete
    <2> DEFINE row == [invite[i] EXCEPT !.status = status]
    <2>2. i \in Invite /\ Sent(i) /\ lock[i] = NoRequest
      BY <1>7 DEF InviteWithdraw, InviteDelete, IInv, Requests, Knows, InviteSteps, Invites, Free
    <2>3. invite[i] \in InviteRow /\ invite[i].status \in {"pending", "deactive"}
      BY <1>7, <2>2 DEF InviteWithdraw, InviteDelete, IInv, TypeOK
    <2>4. row \in InviteRow /\ row.status # "unused" /\ row.org = invite[i].org
          /\ row.email = invite[i].email
      BY <2>2, <2>3 DEF InviteRow
    <2>5. invite' = [invite EXCEPT ![i] = row]
      BY <2>1, <2>2 DEF IInv, TypeOK
    <2> QED
      BY <1>4, <2>2, <2>3, <2>4, <2>5 DEF Sent
  <1> QED
    BY <1>3, <1>5, <1>6, <1>7

--------------------------------------------------------------------------------
\* Accepting.

\* Where the loop of a joining request, or the end of a request, leads.
Led(r) ==
    /\ pc' \in [Request -> Step] /\ call' \in [Request -> Call]
    /\ todo' \in [Request -> SUBSET Invite] /\ listed' \in [Request -> SUBSET Invite]
    /\ \A q \in Request \ {r} : /\ pc'[q] = pc[q] /\ call'[q] = call[q]
                                /\ todo'[q] = todo[q] /\ listed'[q] = listed[q]
    /\ pc'[r] # "accept_write"
    /\ Knows(r)' /\ Owes(r)'

LEMMA FinishLed ==
    ASSUME IInv, NEW r \in Request, Finish(r)
    PROVE  Led(r)
  BY FinishFacts, NoneAssumption DEF IInv, TypeOK, Finish, Step, Call, NoCall, Led

LEMMA NextLed ==
    ASSUME IInv, NEW r \in Request, NEW u \in User, NEW S \in SUBSET Invite, AcceptNext(r, S, u),
           listed' \in [Request -> SUBSET Invite], \A q \in Request \ {r} : listed'[q] = listed[q],
           S \subseteq listed'[r], \A i \in listed'[r] : invite'[i].status # "unused",
           \A i \in listed'[r] \ S : invite'[i].status \in {"accepted", "deleted"}
    PROVE  Led(r)
  <1> USE NoneAssumption DEF Step, AcceptFlight, OrgSteps, InviteSteps, AvailSteps
  <1>1. CASE S = {} /\ pc' = [pc EXCEPT ![r] = "signed_up"]
             /\ call' = [call EXCEPT ![r] = [NoCall EXCEPT !.op = "join", !.user = u]]
             /\ todo' = [todo EXCEPT ![r] = {}]
    BY <1>1 DEF IInv, TypeOK, Call, NoCall, Led, Knows, Owes
  <1>2. ASSUME NEW i \in S, pc' = [pc EXCEPT ![r] = "accept_lock"],
               call' = [call EXCEPT ![r] = [NoCall EXCEPT !.op = "join", !.user = u, !.inv = i]],
               todo' = [todo EXCEPT ![r] = S \ {i}]
        PROVE  Led(r)
    <2> DEFINE c == [NoCall EXCEPT !.op = "join", !.user = u, !.inv = i]
    <2>1. c \in Call /\ c.user = u /\ c.inv = i
      BY DEF Call, NoCall
    <2> HIDE DEF c
    <2>2. Knows(r)'
      BY <1>2, <2>1 DEF IInv, TypeOK, Knows, c
    <2>3. Owes(r)'
      BY <1>2, <2>1 DEF IInv, TypeOK, Owes, c
    <2> QED
      BY <1>2, <2>1, <2>2, <2>3 DEF IInv, TypeOK, Led, c
  <1> QED
    BY <1>1, <1>2 DEF AcceptNext

LEMMA ReturnLed ==
    ASSUME IInv, NEW r \in Request, pc[r] \in AcceptFlight, AcceptReturns(r),
           \A i \in Invite : invite[i].status # "unused" => invite'[i].status # "unused",
           \A i \in Invite : invite[i].status \in {"accepted", "deleted"} =>
              invite'[i].status = invite[i].status,
           invite'[call[r].inv].status \in {"accepted", "deleted"}
    PROVE  Led(r)
  <1>1. CASE Finish(r)
    BY <1>1, FinishLed
  <1>2. CASE AcceptNext(r, todo[r], call[r].user) /\ UNCHANGED listed
    <2>1. call[r].user \in User /\ todo[r] \in SUBSET Invite /\ Owes(r)
      BY DEF IInv, TypeOK, Requests, Knows, Joins
    <2>2. \A i \in listed[r] \ todo[r] : invite'[i].status \in {"accepted", "deleted"}
      BY <2>1 DEF IInv, TypeOK, Owes
    <2>3. \A i \in listed[r] : invite'[i].status # "unused"
      BY <2>1 DEF IInv, TypeOK, Owes
    <2> QED
      BY <1>2, <2>1, <2>2, <2>3, NextLed DEF IInv, TypeOK, Owes
  <1> QED
    BY <1>1, <1>2 DEF AcceptReturns

\* A step that writes to no table, takes no lock and leads on.
LEMMA LedStep ==
    ASSUME IInv, NEW r \in Request, Led(r), UNCHANGED <<tables, lock>>, pc[r] # "accept_write"
    PROVE  IInv'
  <1>1. TypeOK'
    BY DEF IInv, TypeOK, Led, tables
  <1> QED
    BY <1>1, LocalStep DEF Led, tables

LEMMA JoinListIInv ==
    ASSUME IInv, NEW r \in Request, JoinList(r)
    PROVE  IInv'
  <1> DEFINE u == call[r].user
             S == {i \in Invite : invite[i].email = u /\ invite[i].status = "pending"}
  <1>1. u \in User
    BY DEF IInv, Requests, Knows, JoinList
  <1>2. Led(r)
    BY <1>1, NextLed DEF IInv, TypeOK, JoinList, tables
  <1> QED
    BY <1>2, LedStep DEF JoinList

LEMMA AcceptLockIInv ==
    ASSUME IInv, NEW r \in Request, AcceptLock(r)
    PROVE  IInv'
  <1> DEFINE i == call[r].inv
             o == invite[i].org
             u == call[r].user
  <1>1. /\ pc[r] = "accept_lock" /\ i \in Invite /\ u \in User /\ Sent(i) /\ lock[i] = NoRequest
        /\ UNCHANGED tables
    BY DEF AcceptLock, Free, IInv, Requests, Knows, AcceptFlight, InviteSteps, Invites
  <1>2. CASE invite[i].status = "pending" /\ LockInvite(r)
    <2> DEFINE mark == IF HasMembership(o, u) THEN member[o][u].status ELSE "none"
               c == [call[r] EXCEPT !.org = o, !.mark = mark]
    <2>1. mark \in {"none", "active", "deactive"}
      BY <1>1 DEF IInv, TypeOK, Row, Sent
    <2>2. /\ c \in Call /\ c.org = o /\ c.inv = i /\ c.user = u
      BY <1>1, <2>1 DEF IInv, TypeOK, Call, Sent
    <2>3. call' = [call EXCEPT ![r] = c]
      BY <1>2 DEF LockInvite, IInv, TypeOK, Call
    <2>4. /\ lock' = [lock EXCEPT ![i] = r] /\ pc' = [pc EXCEPT ![r] = "accept_write"]
          /\ UNCHANGED <<todo, listed>>
      BY <1>2 DEF LockInvite
    <2> HIDE DEF c
    <2>5. TypeOK'
      BY <1>1, <2>2, <2>3, <2>4 DEF IInv, TypeOK, tables, Step, AcceptFlight
    <2>6. Owners' /\ Invites'
      BY <1>1 DEF IInv, Owners, Invites, Sent, RequireOrgOwner, IsOwner, tables
    <2>7. Locking'
      BY <1>1, <2>2, <2>3, <2>4, NoneAssumption DEF IInv, TypeOK, Locking
    <2>8. Others(r)
      BY <1>1, <2>3, <2>4 DEF IInv, TypeOK, Others, OwnersKept, RequireOrgOwner, IsOwner, tables
    <2>9. Knows(r)'
      <3>1. mark = "deactive" => member[o][u].role # "owner"
        BY <1>1 DEF IInv, Owners, HasMembership, Sent
      <3>2. c.mark = mark
        BY DEF c, IInv, TypeOK, Call
      <3> HIDE DEF mark
      <3> QED
        BY <1>1, <1>2, <2>2, <2>3, <2>4, <3>1, <3>2
           DEF IInv, TypeOK, Knows, Sent, tables, OrgSteps, AvailSteps, InviteSteps, AcceptFlight
    <2>10. Owes(r)'
      BY <1>1, <2>2, <2>3, <2>4 DEF IInv, TypeOK, Joins, Owes, AcceptFlight, tables
    <2> QED
      BY <2>5, <2>6, <2>7, <2>8, <2>9, <2>10, StepIInv
  <1>3. CASE invite[i].status = "deleted" /\ AcceptReturns(r) /\ UNCHANGED lock
    BY <1>1, <1>3, ReturnLed, LedStep DEF AcceptFlight, tables
  <1>4. CASE Finish(r) /\ UNCHANGED lock
    BY <1>1, <1>4, EndStep
  <1> QED
    BY <1>2, <1>3, <1>4 DEF AcceptLock

LEMMA AcceptWriteIInv ==
    ASSUME IInv, NEW r \in Request, AcceptWrite(r)
    PROVE  IInv'
  <1> DEFINE i == call[r].inv
             o == call[r].org
             u == call[r].user
  <1>1. /\ pc[r] = "accept_write" /\ i \in Invite /\ u \in User /\ Sent(i) /\ lock[i] = r
        /\ invite[i].status = "pending" /\ invite[i].org = o
        /\ lock' = [lock EXCEPT ![i] = NoRequest] /\ UNCHANGED registered
    BY DEF AcceptWrite, IInv, Requests, Knows, AcceptFlight, InviteSteps, Invites, Locking
  <1>2. Led(r) => Locking'
    BY <1>1, NoneAssumption DEF IInv, TypeOK, Locking, Led
  <1>3. CASE Finish(r) /\ UNCHANGED <<member, invite>>
    <2>1. Led(r)
      BY <1>3, FinishLed
    <2>2. TypeOK'
      BY <1>1, <1>3, <2>1 DEF IInv, TypeOK, Led
    <2>3. Owners' /\ Invites'
      BY <1>3 DEF IInv, Owners, Invites, Sent, RequireOrgOwner, IsOwner
    <2>4. Others(r)
      BY <1>3, <2>1 DEF Led, Others, OwnersKept, RequireOrgOwner, IsOwner
    <2> QED
      BY <1>2, <2>1, <2>2, <2>3, <2>4, StepIInv DEF Led
  <1>4. CASE /\ call[r].mark = "none" => ~HasMembership(o, u)
             /\ member' = IF call[r].mark = "none" \/ (call[r].mark = "deactive" /\ HasMembership(o, u))
                          THEN [member EXCEPT ![o][u] = ActiveMember]
                          ELSE member
             /\ invite' = [invite EXCEPT ![i].status = "accepted"]
             /\ AcceptReturns(r)
    <2>1. member' \in [Org -> [User -> Row]] /\ Owners' /\ OwnersKept
      <3>1. CASE member' = member
        BY <3>1 DEF IInv, TypeOK, Owners, OwnersKept, RequireOrgOwner, IsOwner
      <3> QED
        BY <3>1, PlainRow, MemberWrite
    <2> DEFINE row == [invite[i] EXCEPT !.status = "accepted"]
               Kept == /\ \A j \in Invite : invite[j].status # "unused" =>
                             invite'[j].status # "unused" /\ invite'[j].org = invite[j].org
                       /\ \A j \in Invite : invite[j].status \in {"accepted", "deleted"} =>
                             invite'[j].status = invite[j].status
                       /\ \A j \in Invite, q \in Request \ {r} : lock[j] = q => invite'[j] = invite[j]
    <2>2. row \in InviteRow /\ row.status = "accepted" /\ row.org = invite[i].org
          /\ row.email = invite[i].email
      BY <1>1 DEF IInv, TypeOK, InviteRow
    <2>3. invite' = [invite EXCEPT ![i] = row]
      BY <1>1, <1>4 DEF IInv, TypeOK
    <2> HIDE DEF row
    <2>4. invite' \in [Invite -> InviteRow] /\ Invites' /\ Kept
      BY <1>1, <2>1, <2>2, <2>3, InviteWrite DEF Sent
    <2>5. invite'[i].status = "accepted"
      BY <1>1, <2>2, <2>3 DEF IInv, TypeOK
    <2>6. Led(r)
      BY <1>1, <1>4, <2>4, <2>5, ReturnLed DEF AcceptFlight
    <2>7. TypeOK'
      BY <1>1, <2>1, <2>4, <2>6 DEF IInv, TypeOK, Led
    <2>8. Others(r)
      BY <2>1, <2>4, <2>6 DEF Led, Others
    <2> QED
      BY <1>2, <2>1, <2>4, <2>6, <2>7, <2>8, StepIInv DEF Led
  <1> QED
    BY <1>3, <1>4 DEF AcceptWrite

--------------------------------------------------------------------------------
LEMMA CreateOrgFacts ==
    ASSUME IInv, NEW o \in Org, NEW u \in User, CreateOrg(o, u)
    PROVE  member' \in [Org -> [User -> Row]] /\ Owners' /\ OwnersKept
  <1> DEFINE row == [role |-> "owner", status |-> "active"]
  <1>1. member' = [member EXCEPT ![o][u] = row] /\ \A v \in User : member[o][v].role = "none"
    BY DEF CreateOrg, HasMembership
  <1>2. row \in Row /\ row.role = "owner" /\ row.status = "active"
    BY DEF Row
  <1> HIDE DEF row
  <1>3. member' \in [Org -> [User -> Row]]
    BY <1>1, <1>2 DEF IInv, TypeOK
  <1>4. \A p \in Org, v \in User :
          member'[p][v] = IF p = o /\ v = u THEN row ELSE member[p][v]
    BY <1>1 DEF IInv, TypeOK
  <1>5. Owners'
    BY <1>1, <1>2, <1>4 DEF IInv, Owners
  <1>6. ~RequireOrgOwner(o)
    BY <1>1 DEF RequireOrgOwner, IsOwner
  <1>7. OwnersKept
    BY <1>4, <1>6 DEF OwnersKept, RequireOrgOwner, IsOwner
  <1> QED
    BY <1>3, <1>5, <1>7

LEMMA CreateOrgIInv ==
    ASSUME IInv, NEW o \in Org, NEW u \in User, CreateOrg(o, u)
    PROVE  IInv'
  <1>1. member' \in [Org -> [User -> Row]] /\ Owners' /\ OwnersKept
    BY CreateOrgFacts
  <1>2. UNCHANGED <<registered, invite, lock, pc, call, todo, listed>>
    BY DEF CreateOrg, requests
  <1>3. TypeOK'
    BY <1>1, <1>2 DEF IInv, TypeOK
  <1>4. Invites'
    BY <1>1, <1>2 DEF IInv, Invites, Sent, OwnersKept
  <1>5. Locking'
    BY <1>2 DEF IInv, Locking
  <1>6. Others(NoRequest)
    BY <1>1, <1>2 DEF Others
  <1>7. \A q \in Request : Knows(q)' /\ Owes(q)'
    BY <1>6, OthersKeep, NoneAssumption
  <1> QED
    BY <1>1, <1>3, <1>4, <1>5, <1>7 DEF IInv, Requests, Joins

LEMMA NextIInv == IInv /\ [Next]_vars => IInv'
  <1> SUFFICES ASSUME IInv, [Next]_vars
               PROVE  IInv'
    OBVIOUS
  <1>1. ASSUME NEW r \in Request, Advance(r)
        PROVE  IInv'
    BY <1>1, ReadIInv, MemberIInv, InviteIInv, JoinListIInv, AcceptLockIInv, AcceptWriteIInv
       DEF Advance
  <1>2. CASE UNCHANGED vars
    BY <1>2 DEF vars, tables, requests, IInv, TypeOK, Owners, Invites, Sent, RequireOrgOwner, IsOwner,
                Locking, Requests, Knows, Joins, Owes
  <1> QED
    BY <1>1, <1>2, BeginIInv, AbandonIInv, CreateOrgIInv DEF Next

LEMMA SpecIInv == Spec => []IInv
  BY InitIInv, NextIInv, PTL DEF Spec

--------------------------------------------------------------------------------
\* Every reachable state is well typed; in particular no status outside the
\* tables' CHECK constraints is ever written.
THEOREM TypeCorrect == Spec => []TypeOK
  <1>1. IInv => TypeOK
    BY DEF IInv
  <1> QED
    BY SpecIInv, <1>1, PTL

\* A sign-up that succeeds has settled every invite it listed.
THEOREM SignupSettled == Spec => []SignupSettles
  <1>1. IInv => SignupSettles
    BY DEF IInv, Joins, Owes, SignupSettles, AcceptFlight
  <1> QED
    BY SpecIInv, <1>1, PTL

LEMMA NextOwnersKept ==
    ASSUME IInv, [Next]_vars
    PROVE  OwnersKept
  <1>1. CASE member' = member
    BY <1>1 DEF OwnersKept, RequireOrgOwner, IsOwner
  <1>2. ASSUME NEW r \in Request, Advance(r), member' # member
        PROVE  OwnersKept
    <2>1. \/ MemberUpsert(r) \/ MemberUpdate(r) \/ MemberDeactivate(r) \/ MemberDelete(r)
          \/ AcceptWrite(r)
      BY <1>2
         DEF Advance, JoinList, SignedUp, AcceptLock, AvailMember, AvailInvite, AddUser,
             AddDeactivated, InviteInsert, InviteUpdate, InviteWithdraw, InviteDelete, tables
    <2> QED
      BY <1>2, <2>1, PlainRow, MemberWrite
  <1>3. ASSUME NEW r \in Request, Begin(r) \/ Abandon(r)
        PROVE  member' = member
    BY <1>3 DEF Begin, Abandon, SignUp, LinkGoogle, Accept, CreateInvite, AddMember, RemoveMember,
                DeleteInvite, UpdateInvite, UpdateMemberStatus, tables
  <1> QED
    BY <1>1, <1>2, <1>3, CreateOrgFacts DEF Next, vars, tables

\* An organization keeps the owner who created it, and he stays active.
THEOREM OwnerForEver == Spec => OwnerStands
  <1>1. ASSUME IInv, IInv', [Next]_vars, NEW o \in Org, \E u \in User : IsOwner(o, u)
        PROVE  \E u \in User : /\ IsOwner(o, u) /\ IsOwner(o, u)'
                               /\ \A v \in User \ {u} : member'[o][v].role # "owner"
    <2>1. PICK u \in User : IsOwner(o, u)
      BY <1>1
    <2>2. OwnersKept
      BY <1>1, NextOwnersKept
    <2>3. PICK w \in User : IsOwner(o, w)'
      BY <1>1, <2>2 DEF OwnersKept, RequireOrgOwner
    <2>4. w = u
      BY <1>1, <2>1, <2>2, <2>3 DEF OwnersKept, RequireOrgOwner, IsOwner, IInv, Owners
    <2>5. \A v \in User \ {u} : member'[o][v].role # "owner"
      BY <1>1, <2>3, <2>4 DEF IInv, Owners, IsOwner
    <2> QED
      BY <2>1, <2>3, <2>4, <2>5
  <1>2. IInv /\ IInv' /\ [Next]_vars =>
          [\A o \in Org : (\E u \in User : IsOwner(o, u)) =>
               \E u \in User : /\ IsOwner(o, u) /\ IsOwner(o, u)'
                               /\ \A v \in User \ {u} : member'[o][v].role # "owner"]_vars
    BY <1>1
  <1> QED
    BY SpecIInv, <1>2, PTL DEF Spec, OwnerStands

--------------------------------------------------------------------------------
\* The detailed requests implement the promise.

StandingNow == [o \in Org |-> [u \in User |-> StandingOf(o, u)]]
StageNow == [i \in Invite |-> invite[i].status]
AboutNow == [i \in Invite |-> invite[i].org]

\* What a row says, for somebody who is not the owner.
Says(row) == IF row.role = "none" THEN "none" ELSE row.status

LEMMA FoundedWhenOwned ==
    ASSUME NEW o \in Org, RequireOrgOwner(o)
    PROVE  Contract!Founded(o)
  BY DEF Contract!Founded, RequireOrgOwner, StandingOf

LEMMA PlainStanding ==
    ASSUME IInv, NEW o \in Org, NEW u \in User, member[o][u].role # "owner"
    PROVE  StandingNow[o][u] = Says(member[o][u])
  BY DEF StandingNow, StandingOf, Says, IsOwner, HasMembership

\* A plain member's row is written: his standing becomes what it says, and no other
\* standing changes.
LEMMA OneStanding ==
    ASSUME IInv, NEW o \in Org, NEW u \in User, NEW row \in Row, row.role # "owner",
           member' = [member EXCEPT ![o][u] = row]
    PROVE  StandingNow' = [StandingNow EXCEPT ![o][u] = Says(row)]
  <1>1. \A p \in Org, v \in User :
          member'[p][v] = IF p = o /\ v = u THEN row ELSE member[p][v]
    BY DEF IInv, TypeOK
  <1>2. \A p \in Org, v \in User :
          StandingOf(p, v)' = IF p = o /\ v = u THEN Says(row) ELSE StandingOf(p, v)
    BY <1>1 DEF StandingOf, IsOwner, HasMembership, Says
  <1> QED
    BY <1>2 DEF StandingNow

\* An invite's row is written: only its stage and its organization change.
LEMMA OneStage ==
    ASSUME IInv, NEW i \in Invite, NEW row \in InviteRow, invite' = [invite EXCEPT ![i] = row]
    PROVE  /\ StageNow' = [StageNow EXCEPT ![i] = row.status]
           /\ AboutNow' = [AboutNow EXCEPT ![i] = row.org]
           /\ invite[i].org = row.org => AboutNow' = AboutNow
  <1>1. \A j \in Invite : invite'[j] = IF j = i THEN row ELSE invite[j]
    BY DEF IInv, TypeOK
  <1>2. /\ \A j \in Invite : invite'[j].status = IF j = i THEN row.status ELSE invite[j].status
        /\ \A j \in Invite : invite'[j].org = IF j = i THEN row.org ELSE invite[j].org
    BY <1>1
  <1>3. /\ StageNow' = [StageNow EXCEPT ![i] = row.status]
        /\ AboutNow' = [AboutNow EXCEPT ![i] = row.org]
    BY <1>2, Zenon DEF StageNow, AboutNow
  <1>4. invite[i].org = row.org => AboutNow' = AboutNow
    BY <1>3 DEF AboutNow
  <1> QED
    BY <1>2, <1>3, <1>4

LEMMA SameStanding ==
    ASSUME NEW o \in Org, NEW u \in User
    PROVE  [StandingNow EXCEPT ![o][u] = StandingNow[o][u]] = StandingNow
  <1>1. StandingNow \in [Org -> [User -> {StandingOf(p, v) : p \in Org, v \in User}]]
    BY DEF StandingNow
  <1> HIDE DEF StandingNow
  <1> QED
    BY <1>1

LEMMA KeptStanding ==
    ASSUME UNCHANGED member
    PROVE  UNCHANGED StandingNow
  BY DEF StandingNow, StandingOf, IsOwner, HasMembership

LEMMA KeptStage ==
    ASSUME UNCHANGED invite
    PROVE  UNCHANGED <<StageNow, AboutNow>>
  BY DEF StageNow, AboutNow

LEMMA FoundRefines ==
    ASSUME IInv, NEW o \in Org, NEW u \in User, CreateOrg(o, u)
    PROVE  Contract!Found(o, u)
  <1> DEFINE row == [role |-> "owner", status |-> "active"]
  <1>1. member' = [member EXCEPT ![o][u] = row] /\ \A v \in User : member[o][v].role = "none"
    BY DEF CreateOrg, HasMembership
  <1>2. \A p \in Org, v \in User :
          member'[p][v] = IF p = o /\ v = u THEN row ELSE member[p][v]
    BY <1>1 DEF IInv, TypeOK
  <1>3. \A p \in Org, v \in User :
          StandingOf(p, v)' = IF p = o /\ v = u THEN "owner" ELSE StandingOf(p, v)
    BY <1>2 DEF StandingOf, IsOwner, HasMembership
  <1>4. StandingNow' = [StandingNow EXCEPT ![o][u] = "owner"]
    BY <1>3 DEF StandingNow
  <1>5. \A v \in User : StandingNow[o][v] = "none"
    BY <1>1 DEF StandingNow, StandingOf, IsOwner, HasMembership
  <1>6. UNCHANGED <<StageNow, AboutNow>>
    BY KeptStage DEF CreateOrg
  <1> QED
    BY <1>4, <1>5, <1>6 DEF Contract!Found, Contract!Move, StandingNow, StageNow, AboutNow

LEMMA MemberRefines ==
    ASSUME IInv, NEW r \in Request,
           MemberUpsert(r) \/ MemberUpdate(r) \/ MemberDeactivate(r) \/ MemberDelete(r)
    PROVE  [Contract!ContractNext]_(Contract!contractVars)
  <1> DEFINE o == call[r].org
             u == call[r].user
  <1>1. /\ o \in Org /\ u \in User /\ Contract!Founded(o)
        /\ pc[r] = "member_update" => call[r].mark \in {"active", "deactive"}
    BY FoundedWhenOwned
       DEF IInv, Requests, Knows, OrgSteps, MemberUpsert, MemberUpdate, MemberDeactivate, MemberDelete
  <1>2. member[o][u] \in Row
    BY <1>1 DEF IInv, TypeOK
  <1>3. UNCHANGED <<StageNow, AboutNow>>
    BY KeptStage DEF MemberUpsert, MemberUpdate, MemberDeactivate, MemberDelete
  <1> HIDE DEF o, u
  <1>4. ASSUME NEW row \in Row, row.role # "owner", member[o][u].role # "owner",
               member' = [member EXCEPT ![o][u] = row],
               \/ Says(row) = "active"
               \/ Says(row) = "deactive" /\ Says(member[o][u]) \in {"active", "deactive"}
               \/ Says(row) = "none" /\ Says(member[o][u]) = "deactive"
        PROVE  [Contract!ContractNext]_(Contract!contractVars)
    <2>1. /\ StandingNow' = [StandingNow EXCEPT ![o][u] = Says(row)]
          /\ StandingNow[o][u] = Says(member[o][u])
      BY <1>1, <1>4, OneStanding, PlainStanding
    <2>2. Says(member[o][u]) \in {"none", "active", "deactive"}
      BY <1>2, <1>4 DEF Says, Row
    <2>3. CASE Says(row) = Says(member[o][u])
      <3>1. UNCHANGED StandingNow
        BY <1>1, <2>1, <2>3, SameStanding
      <3> QED
        BY <1>3, <3>1 DEF Contract!contractVars, StandingNow, StageNow, AboutNow
    <2>4. CASE Says(row) = "active" /\ Says(member[o][u]) \in {"none", "deactive"}
      <3>1. Contract!Admit(o, u)
        BY <1>1, <1>3, <2>1, <2>4
           DEF Contract!Admit, Contract!Move, StandingNow, StageNow, AboutNow
      <3> QED
        BY <1>1, <3>1 DEF Contract!ContractNext
    <2>5. CASE Says(row) = "deactive" /\ Says(member[o][u]) = "active"
      <3>1. Contract!Suspend(o, u)
        BY <1>3, <2>1, <2>5 DEF Contract!Suspend, Contract!Move, StandingNow, StageNow, AboutNow
      <3> QED
        BY <1>1, <3>1 DEF Contract!ContractNext
    <2>6. CASE Says(row) = "none" /\ Says(member[o][u]) = "deactive"
      <3>1. Contract!Expel(o, u)
        BY <1>3, <2>1, <2>6 DEF Contract!Expel, Contract!Move, StandingNow, StageNow, AboutNow
      <3> QED
        BY <1>1, <3>1 DEF Contract!ContractNext
    <2> QED
      BY <1>4, <2>2, <2>3, <2>4, <2>5, <2>6
  <1>5. CASE member' = member
    <2>1. UNCHANGED StandingNow
      BY <1>5, KeptStanding
    <2> QED
      BY <1>3, <2>1 DEF Contract!contractVars, StandingNow, StageNow, AboutNow
  <1>6. CASE MemberUpsert(r) /\ member' # member
    <2>1. member[o][u].role # "owner" /\ member' = [member EXCEPT ![o][u] = ActiveMember]
      BY <1>6 DEF MemberUpsert, o, u
    <2>2. ActiveMember \in Row /\ ActiveMember.role # "owner" /\ Says(ActiveMember) = "active"
      BY DEF ActiveMember, Row, Says
    <2> QED
      BY <1>4, <2>1, <2>2
  <1>7. CASE MemberUpdate(r) /\ member' # member
    <2> DEFINE row == [member[o][u] EXCEPT !.status = call[r].mark]
    <2>1. /\ member[o][u].role = "member" /\ call[r].mark \in {"active", "deactive"}
          /\ member' = [member EXCEPT ![o][u].status = call[r].mark]
      BY <1>1, <1>2, <1>7 DEF MemberUpdate, Spared, o, u
    <2>2. row \in Row /\ row.role = "member" /\ row.status \in {"active", "deactive"}
      BY <1>2, <2>1 DEF Row
    <2>3. member' = [member EXCEPT ![o][u] = row]
      BY <1>1, <2>1 DEF IInv, TypeOK
    <2>4. Says(row) = row.status /\ Says(member[o][u]) \in {"active", "deactive"}
      BY <1>2, <2>1, <2>2 DEF Says, Row
    <2> QED
      BY <1>4, <2>1, <2>2, <2>3, <2>4
  <1>8. CASE MemberDeactivate(r) /\ member' # member
    <2> DEFINE row == [member[o][u] EXCEPT !.status = "deactive"]
    <2>1. /\ member[o][u].role = "member" /\ member[o][u].status = "active"
          /\ member' = [member EXCEPT ![o][u].status = "deactive"]
      BY <1>8 DEF MemberDeactivate, Spared, o, u
    <2>2. row \in Row /\ row.role = "member" /\ row.status = "deactive"
      BY <1>2, <2>1 DEF Row
    <2>3. member' = [member EXCEPT ![o][u] = row]
      BY <1>1, <2>1 DEF IInv, TypeOK
    <2>4. Says(row) = "deactive" /\ Says(member[o][u]) = "active"
      BY <2>1, <2>2 DEF Says
    <2> QED
      BY <1>4, <2>1, <2>2, <2>3, <2>4
  <1>9. CASE MemberDelete(r) /\ member' # member
    <2>1. /\ member[o][u].role = "member" /\ member[o][u].status = "deactive"
          /\ member' = [member EXCEPT ![o][u] = NoRow]
      BY <1>9 DEF MemberDelete, Spared, o, u
    <2>2. NoRow \in Row /\ NoRow.role # "owner" /\ Says(NoRow) = "none"
          /\ Says(member[o][u]) = "deactive"
      BY <2>1 DEF NoRow, Row, Says
    <2> QED
      BY <1>4, <2>1, <2>2
  <1> QED
    BY <1>5, <1>6, <1>7, <1>8, <1>9

LEMMA InviteRefines ==
    ASSUME IInv, NEW r \in Request,
           \/ \E i \in Invite : InviteInsert(r, i)
           \/ InviteUpdate(r) \/ InviteWithdraw(r) \/ InviteDelete(r)
    PROVE  [Contract!ContractNext]_(Contract!contractVars)
  <1>1. UNCHANGED StandingNow
    BY KeptStanding DEF InviteInsert, InviteUpdate, InviteWithdraw, InviteDelete
  <1>2. CASE invite' = invite
    <2>1. UNCHANGED <<StageNow, AboutNow>>
      BY <1>2, KeptStage
    <2> QED
      BY <1>1, <2>1 DEF Contract!contractVars, StandingNow, StageNow, AboutNow
  <1>3. ASSUME NEW i \in Invite, NEW o, o = call[r].org, InviteInsert(r, i), invite' # invite
        PROVE  [Contract!ContractNext]_(Contract!contractVars)
    <2> DEFINE row == [org |-> o, email |-> call[r].user, status |-> "pending"]
    <2>1. o \in Org /\ row \in InviteRow /\ Contract!Founded(o)
      BY <1>3, FoundedWhenOwned DEF InviteInsert, IInv, Requests, Knows, OrgSteps, InviteRow
    <2>2. invite' = [invite EXCEPT ![i] = row] /\ invite[i].status = "unused"
      BY <1>3 DEF InviteInsert
    <2>3. /\ StageNow' = [StageNow EXCEPT ![i] = "pending"]
          /\ AboutNow' = [AboutNow EXCEPT ![i] = o]
      BY <2>1, <2>2, OneStage
    <2>4. Contract!Send(i, o)
      BY <1>1, <2>1, <2>2, <2>3 DEF Contract!Send, Contract!Shift, StandingNow, StageNow, AboutNow
    <2> QED
      BY <2>1, <2>4 DEF Contract!ContractNext
  <1>4. ASSUME NEW i \in Invite, NEW row \in InviteRow, row.org = invite[i].org,
               invite' = [invite EXCEPT ![i] = row],
               \/ invite[i].status = "pending" /\ row.status \in {"pending", "deactive"}
               \/ invite[i].status = "deactive" /\ row.status \in {"pending", "deactive", "deleted"}
        PROVE  [Contract!ContractNext]_(Contract!contractVars)
    <2>1. StageNow' = [StageNow EXCEPT ![i] = row.status] /\ UNCHANGED AboutNow
      BY <1>4, OneStage
    <2>2. CASE row.status = invite[i].status
      <3>1. UNCHANGED StageNow
        BY <2>1, <2>2 DEF StageNow
      <3> QED
        BY <1>1, <2>1, <3>1 DEF Contract!contractVars, StandingNow, StageNow, AboutNow
    <2>3. CASE row.status # invite[i].status
      <3>1. Contract!Withdraw(i) \/ Contract!Renew(i) \/ Contract!Discard(i)
        BY <1>1, <1>4, <2>1, <2>3
           DEF Contract!Withdraw, Contract!Renew, Contract!Discard, Contract!Shift,
               StandingNow, StageNow, AboutNow
      <3> QED
        BY <3>1 DEF Contract!ContractNext
    <2> QED
      BY <2>2, <2>3
  <1>5. CASE InviteUpdate(r) /\ invite' # invite
    <2> DEFINE i == call[r].inv
               row == [invite[i] EXCEPT !.email = call[r].user, !.status = call[r].mark]
    <2>1. i \in Invite /\ call[r].user \in User /\ call[r].mark \in {"pending", "deactive"}
      BY <1>5 DEF InviteUpdate, IInv, Requests, Knows, OrgSteps, InviteSteps
    <2>2. invite[i] \in InviteRow /\ invite[i].status \in {"pending", "deactive"}
      BY <1>5, <2>1 DEF InviteUpdate, IInv, TypeOK
    <2>3. row \in InviteRow /\ row.org = invite[i].org /\ row.status = call[r].mark
      BY <2>1, <2>2 DEF InviteRow
    <2>4. invite' = [invite EXCEPT ![i] = row]
      BY <1>5, <2>1 DEF InviteUpdate, IInv, TypeOK
    <2> HIDE DEF row
    <2> QED
      BY <1>4, <2>1, <2>2, <2>3, <2>4
  <1>6. CASE (InviteWithdraw(r) \/ InviteDelete(r)) /\ invite' # invite
    <2> DEFINE i == call[r].inv
    <2>1. PICK status \in {"deactive", "deleted"} :
             /\ invite' = [invite EXCEPT ![i].status = status]
             /\ invite[i].status = IF status = "deactive" THEN "pending" ELSE "deactive"
      BY <1>6 DEF InviteWithdraw, InviteDelete
    <2> DEFINE row == [invite[i] EXCEPT !.status = status]
    <2>2. i \in Invite
      BY <1>6 DEF InviteWithdraw, InviteDelete, IInv, Requests, Knows, InviteSteps
    <2>3. row \in InviteRow /\ row.org = invite[i].org /\ row.status = status
      <3>1. invite[i] \in InviteRow
        BY <2>2 DEF IInv, TypeOK
      <3> QED
        BY <3>1 DEF InviteRow
    <2>4. invite' = [invite EXCEPT ![i] = row]
      BY <2>1, <2>2 DEF IInv, TypeOK
    <2>5. \/ invite[i].status = "pending" /\ row.status = "deactive"
          \/ invite[i].status = "deactive" /\ row.status = "deleted"
      BY <2>1, <2>3
    <2> HIDE DEF row
    <2> QED
      BY <1>4, <2>2, <2>3, <2>4, <2>5
  <1> QED
    BY <1>2, <1>3, <1>5, <1>6

LEMMA AcceptRefines ==
    ASSUME IInv, NEW r \in Request, AcceptWrite(r),
           NEW i, NEW o, NEW u, i = call[r].inv, o = call[r].org, u = call[r].user
    PROVE  [Contract!ContractNext]_(Contract!contractVars)
  <1>1. /\ i \in Invite /\ u \in User /\ o \in Org /\ Contract!Founded(o)
        /\ invite[i].status = "pending" /\ invite[i].org = o
        /\ call[r].mark = "deactive" => member[o][u].role # "owner"
    BY FoundedWhenOwned
       DEF AcceptWrite, IInv, Requests, Knows, AcceptFlight, InviteSteps, Invites, Sent
  <1>2. CASE UNCHANGED <<member, invite>>
    <2>1. UNCHANGED <<StandingNow, StageNow, AboutNow>>
      BY <1>2, KeptStanding, KeptStage
    <2> QED
      BY <2>1 DEF Contract!contractVars, StandingNow, StageNow, AboutNow
  <1>3. CASE /\ member' = member \/ /\ member[o][u].role # "owner"
                                    /\ member' = [member EXCEPT ![o][u] = ActiveMember]
             /\ invite' = [invite EXCEPT ![i].status = "accepted"]
    <2> DEFINE row == [invite[i] EXCEPT !.status = "accepted"]
    <2>1. row \in InviteRow /\ row.org = invite[i].org /\ row.status = "accepted"
      BY <1>1 DEF IInv, TypeOK, InviteRow
    <2>2. invite' = [invite EXCEPT ![i] = row]
      BY <1>1, <1>3 DEF IInv, TypeOK
    <2> HIDE DEF row
    <2>3. StageNow' = [StageNow EXCEPT ![i] = "accepted"] /\ UNCHANGED AboutNow
      BY <1>1, <2>1, <2>2, OneStage
    <2>4. \/ UNCHANGED StandingNow
          \/ /\ StandingNow[o][u] \in {"none", "deactive"}
             /\ StandingNow' = [StandingNow EXCEPT ![o][u] = "active"]
      <3>1. CASE member' = member
        BY <3>1, KeptStanding
      <3>2. CASE member[o][u].role # "owner" /\ member' = [member EXCEPT ![o][u] = ActiveMember]
        <4>1. ActiveMember \in Row /\ ActiveMember.role # "owner" /\ Says(ActiveMember) = "active"
          BY DEF ActiveMember, Row, Says
        <4>2. /\ StandingNow' = [StandingNow EXCEPT ![o][u] = Says(ActiveMember)]
              /\ StandingNow[o][u] = Says(member[o][u])
          BY <1>1, <3>2, <4>1, OneStanding, PlainStanding
        <4>3. member[o][u] \in Row
          BY <1>1 DEF IInv, TypeOK
        <4>4. Says(member[o][u]) \in {"none", "active", "deactive"}
          BY <3>2, <4>3 DEF Says, Row
        <4>5. Says(member[o][u]) = "active" => UNCHANGED StandingNow
          BY <1>1, <4>1, <4>2, SameStanding
        <4> QED
          BY <4>1, <4>2, <4>4, <4>5
      <3> QED
        BY <1>3, <3>1, <3>2
    <2>5. Contract!Accept(i, u)
      BY <1>1, <2>3, <2>4
         DEF Contract!Accept, Contract!Shift, Contract!Move, StandingNow, StageNow, AboutNow
    <2> QED
      BY <1>1, <2>5 DEF Contract!ContractNext
  <1> QED
    BY <1>1, <1>2, <1>3 DEF AcceptWrite, HasMembership

\* Every step but these leaves members and invites alone.
LEMMA QuietStep ==
    ASSUME NEW r \in Request,
           \/ Begin(r) \/ Abandon(r) \/ JoinList(r) \/ SignedUp(r) \/ AcceptLock(r)
           \/ AvailMember(r) \/ AvailInvite(r) \/ AddUser(r) \/ AddDeactivated(r)
    PROVE  UNCHANGED <<member, invite>>
  BY DEF Begin, Abandon, SignUp, LinkGoogle, Accept, CreateInvite, AddMember, RemoveMember,
         DeleteInvite, UpdateInvite, UpdateMemberStatus, JoinList, SignedUp, AcceptLock,
         AvailMember, AvailInvite, AddUser, AddDeactivated, tables

\* The interleaved requests implement OrgContract: what a request has read of a
\* member or an invite may be stale when it writes, and the conditions of the
\* statements keep the promise nevertheless.
THEOREM OrgMembershipImplementsContract == Spec => KeepsOrgContract
  <1>1. Init => Contract!ContractInit
    BY DEF Init, Contract!ContractInit, StandingOf, IsOwner, HasMembership, NoRow
  <1>2. IInv /\ [Next]_vars => [Contract!ContractNext]_(Contract!contractVars)
    <2> SUFFICES ASSUME IInv, [Next]_vars
                 PROVE  [Contract!ContractNext]_(Contract!contractVars)
      OBVIOUS
    <2>1. CASE UNCHANGED <<member, invite>>
      <3>1. UNCHANGED <<StandingNow, StageNow, AboutNow>>
        BY <2>1, KeptStanding, KeptStage
      <3> QED
        BY <3>1 DEF Contract!contractVars, StandingNow, StageNow, AboutNow
    <2>2. ASSUME NEW r \in Request, Advance(r), ~UNCHANGED <<member, invite>>
          PROVE  [Contract!ContractNext]_(Contract!contractVars)
      BY <2>2, QuietStep, MemberRefines, InviteRefines, AcceptRefines DEF Advance
    <2>3. ASSUME NEW o \in Org, NEW u \in User, CreateOrg(o, u)
          PROVE  [Contract!ContractNext]_(Contract!contractVars)
      BY <2>3, FoundRefines DEF Contract!ContractNext
    <2> QED
      BY <2>1, <2>2, <2>3, QuietStep DEF Next, vars, tables
  <1> QED
    BY SpecIInv, <1>1, <1>2, PTL DEF Spec, KeepsOrgContract, Contract!ContractSpec

--------------------------------------------------------------------------------
\* Invites nobody edits keep their address, and are accepted by whom they address.

\* The invites request r is accepting, or is to accept or renew, are its user's.
Addressed(r) ==
    /\ call[r].op # "update_invite"
    /\ pc[r] \in AcceptFlight \union {"invite_update"} => invite[call[r].inv].email = call[r].user
    /\ pc[r] \in AcceptFlight => \A i \in todo[r] : invite[i].email = call[r].user

AllAddressed == \A r \in Request : Addressed(r)

EmailsKept == \A i \in Invite : invite[i].status # "unused" => invite'[i].email = invite[i].email

LEMMA NextEmailsKept ==
    ASSUME IInv, AllAddressed, [Next]_vars
    PROVE  EmailsKept
  <1>1. CASE UNCHANGED invite
    BY <1>1 DEF EmailsKept
  <1>2. ASSUME NEW r \in Request, NEW i \in Invite, InviteInsert(r, i)
        PROVE  EmailsKept
    <2>1. invite[i].status = "unused" /\ \A j \in Invite \ {i} : invite'[j] = invite[j]
      BY <1>2 DEF InviteInsert, IInv, TypeOK
    <2> QED
      BY <2>1 DEF EmailsKept
  <1>3. ASSUME NEW r \in Request, InviteUpdate(r)
        PROVE  EmailsKept
    <2> DEFINE i == call[r].inv
    <2>1. i \in Invite /\ call[r].user = invite[i].email
      BY <1>3 DEF InviteUpdate, IInv, Requests, Knows, InviteSteps, AllAddressed, Addressed
    <2>2. invite'[i].email = invite[i].email /\ \A j \in Invite \ {i} : invite'[j] = invite[j]
      BY <1>3, <2>1 DEF InviteUpdate, IInv, TypeOK, InviteRow
    <2> QED
      BY <2>2 DEF EmailsKept
  <1>4. ASSUME NEW r \in Request, InviteWithdraw(r) \/ InviteDelete(r) \/ AcceptWrite(r)
        PROVE  EmailsKept
    <2> DEFINE i == call[r].inv
    <2>1. \/ UNCHANGED invite
          \/ \E s \in {"deactive", "deleted", "accepted"} :
                invite' = [invite EXCEPT ![i].status = s]
      BY <1>4 DEF InviteWithdraw, InviteDelete, AcceptWrite
    <2>2. ASSUME NEW s, invite' = [invite EXCEPT ![i].status = s]
          PROVE  \A j \in Invite : invite'[j].email = invite[j].email
      BY <2>2 DEF IInv, TypeOK, InviteRow
    <2> QED
      BY <2>1, <2>2 DEF EmailsKept
  <1>5. ASSUME NEW o \in Org, NEW u \in User, CreateOrg(o, u)
        PROVE  UNCHANGED invite
    BY <1>5 DEF CreateOrg
  <1>6. ASSUME NEW r \in Request,
               MemberUpsert(r) \/ MemberUpdate(r) \/ MemberDeactivate(r) \/ MemberDelete(r)
        PROVE  UNCHANGED invite
    BY <1>6 DEF MemberUpsert, MemberUpdate, MemberDeactivate, MemberDelete
  <1> QED
    BY <1>1, <1>2, <1>3, <1>4, <1>5, <1>6, QuietStep DEF Next, Advance, vars, tables

\* What does not move keeps its addresses.
LEMMA StillAddressed ==
    ASSUME IInv, EmailsKept, NEW q \in Request, Addressed(q),
           pc'[q] = pc[q], call'[q] = call[q], todo'[q] = todo[q]
    PROVE  Addressed(q)'
  <1>1. todo[q] \in SUBSET Invite /\ \A i \in todo[q] : invite[i].status # "unused"
    BY DEF IInv, TypeOK, Joins, Owes
  <1>2. pc[q] \in AcceptFlight \union {"invite_update"} =>
          call[q].inv \in Invite /\ invite[call[q].inv].status # "unused"
    BY DEF IInv, Requests, Knows, InviteSteps
  <1> QED
    BY <1>1, <1>2 DEF Addressed, EmailsKept

\* A request that neither accepts nor renews an invite.
LEMMA AsideAddressed ==
    ASSUME NEW r \in Request, pc'[r] \notin AcceptFlight \union {"invite_update"},
           call'[r].op # "update_invite"
    PROVE  Addressed(r)'
  BY DEF Addressed

LEMMA NextAddressed ==
    ASSUME IInv, EmailsKept, NEW r \in Request, NEW u \in User, NEW S \in SUBSET Invite,
           AcceptNext(r, S, u),
           \A i \in S : invite[i].status # "unused" /\ invite[i].email = u
    PROVE  Addressed(r)'
  <1>1. CASE S = {} /\ pc' = [pc EXCEPT ![r] = "signed_up"]
             /\ call' = [call EXCEPT ![r] = [NoCall EXCEPT !.op = "join", !.user = u]]
    BY <1>1 DEF IInv, TypeOK, NoCall, Addressed, AcceptFlight
  <1>2. ASSUME NEW i \in S, pc' = [pc EXCEPT ![r] = "accept_lock"],
               call' = [call EXCEPT ![r] = [NoCall EXCEPT !.op = "join", !.user = u, !.inv = i]],
               todo' = [todo EXCEPT ![r] = S \ {i}]
        PROVE  Addressed(r)'
    <2>1. call'[r].op = "join" /\ call'[r].inv = i /\ call'[r].user = u /\ todo'[r] = S \ {i}
      BY <1>2 DEF IInv, TypeOK, NoCall
    <2>2. \A j \in S : invite'[j].email = u
      BY DEF EmailsKept
    <2> QED
      BY <2>1, <2>2 DEF Addressed
  <1> QED
    BY <1>1, <1>2 DEF AcceptNext

LEMMA FinishAddressed ==
    ASSUME IInv, NEW r \in Request, Finish(r)
    PROVE  Addressed(r)'
  BY DEF IInv, TypeOK, Finish, NoCall, Addressed, AcceptFlight

LEMMA ReturnAddressed ==
    ASSUME IInv, EmailsKept, NEW r \in Request, Addressed(r), pc[r] \in AcceptFlight, AcceptReturns(r)
    PROVE  Addressed(r)'
  <1>1. /\ call[r].user \in User /\ todo[r] \in SUBSET Invite
        /\ \A i \in todo[r] : invite[i].status # "unused" /\ invite[i].email = call[r].user
    BY DEF IInv, TypeOK, Requests, Knows, Joins, Owes, Addressed
  <1> QED
    BY <1>1, NextAddressed, FinishAddressed DEF AcceptReturns

\* One step of request r, when nobody edits invites.
LEMMA StepAddressed ==
    ASSUME "update_invite" \notin Ops, IInv, EmailsKept, NEW r \in Request, Addressed(r),
           Begin(r) \/ Advance(r) \/ Abandon(r)
    PROVE  Addressed(r)'
  <1> USE DEF AcceptFlight
  <1>1. ASSUME NEW u \in User, SignUp(r, u) \/ LinkGoogle(r, u)
        PROVE  Addressed(r)'
    <2>1. Start(r, "join_list", [NoCall EXCEPT !.op = "join", !.user = u])
      BY <1>1 DEF SignUp, LinkGoogle
    <2> QED
      BY <2>1, AsideAddressed DEF Start, NoCall, IInv, TypeOK
  <1>2. ASSUME NEW u \in User, NEW i \in Invite, Accept(r, u, i)
        PROVE  Addressed(r)'
    <2>1. /\ pc'[r] = "accept_lock" /\ call'[r].op = "accept" /\ call'[r].inv = i
          /\ call'[r].user = u /\ invite'[i].email = u
      BY <1>2 DEF Accept, Start, NoCall, IInv, TypeOK, tables
    <2>2. todo'[r] = {}
      BY <1>2 DEF Accept, Start, IInv, TypeOK, Joins, Owes
    <2> QED
      BY <2>1, <2>2 DEF Addressed
  <1>3. ASSUME NEW u \in User, NEW o \in Org,
               \/ CreateInvite(r, o, u) \/ AddMember(r, o, u) \/ RemoveMember(r, o, u)
               \/ \E s \in {"active", "deactive"} : UpdateMemberStatus(r, o, u, s)
        PROVE  Addressed(r)'
    <2>1. CASE CreateInvite(r, o, u)
      BY <2>1, AsideAddressed DEF CreateInvite, Start, NoCall, IInv, TypeOK
    <2>2. CASE AddMember(r, o, u)
      BY <2>2, AsideAddressed DEF AddMember, Start, NoCall, IInv, TypeOK
    <2>3. CASE RemoveMember(r, o, u)
      BY <2>3, AsideAddressed DEF RemoveMember, Start, NoCall, IInv, TypeOK
    <2>4. ASSUME NEW s \in {"active", "deactive"}, UpdateMemberStatus(r, o, u, s)
          PROVE  Addressed(r)'
      BY <2>4, AsideAddressed DEF UpdateMemberStatus, Start, NoCall, IInv, TypeOK
    <2> QED
      BY <1>3, <2>1, <2>2, <2>3, <2>4
  <1>4. ASSUME NEW i \in Invite, DeleteInvite(r, i)
        PROVE  Addressed(r)'
    BY <1>4, AsideAddressed DEF DeleteInvite, Start, NoCall, IInv, TypeOK
  <1>5. CASE Begin(r)
    BY <1>1, <1>2, <1>3, <1>4, <1>5 DEF Begin, UpdateInvite
  <1>6. CASE JoinList(r)
    <2>1. call[r].user \in User
      BY <1>6 DEF JoinList, IInv, Requests, Knows
    <2> QED
      BY <1>6, <2>1, NextAddressed DEF JoinList
  <1>7. CASE AcceptLock(r)
    <2>1. CASE LockInvite(r)
      <3>1. /\ pc[r] = "accept_lock" /\ pc'[r] = "accept_write" /\ todo'[r] = todo[r]
            /\ call'[r].op = call[r].op /\ call'[r].inv = call[r].inv
            /\ call'[r].user = call[r].user /\ invite' = invite
        BY <1>7, <2>1 DEF AcceptLock, LockInvite, tables, IInv, TypeOK, Call
      <3> QED
        BY <3>1 DEF Addressed
    <2> QED
      BY <1>7, <2>1, ReturnAddressed, FinishAddressed DEF AcceptLock
  <1>8. CASE AcceptWrite(r)
    BY <1>8, ReturnAddressed, FinishAddressed DEF AcceptWrite
  <1>9. CASE AvailMember(r) \/ AvailInvite(r) \/ AddUser(r)
    <2>1. pc[r] \in AvailSteps => call[r].op \in {"create_invite", "add_member"}
      BY DEF IInv, Requests, Knows, Addressed
    <2>2. CASE Finish(r)
      BY <2>2, FinishAddressed
    <2>3. ASSUME NEW to \in {"avail_member", "avail_invite", "invite_insert", "add_deactivated",
                             "member_upsert"}, Goto(r, to)
          PROVE  Addressed(r)'
      BY <2>3, AsideAddressed DEF Goto, Addressed, IInv, TypeOK
    <2> QED
      BY <1>9, <2>1, <2>2, <2>3 DEF AvailMember, AvailInvite, AddUser, AfterAvailable, AvailSteps
  <1>10. CASE AddDeactivated(r)
    <2>1. CASE Goto(r, "invite_insert")
      BY <2>1, AsideAddressed DEF Goto, Addressed, IInv, TypeOK
    <2>2. ASSUME NEW i \in Invite, invite[i].email = call[r].user,
                 pc' = [pc EXCEPT ![r] = "invite_update"],
                 call' = [call EXCEPT ![r].inv = i, ![r].mark = "pending"]
          PROVE  Addressed(r)'
      <3> DEFINE c == [call[r] EXCEPT !.inv = i, !.mark = "pending"]
      <3>1. c.inv = i /\ c.user = call[r].user /\ c.op = call[r].op
        BY DEF IInv, TypeOK, Call
      <3>2. call' = [call EXCEPT ![r] = c]
        BY <2>2 DEF IInv, TypeOK, Call
      <3> HIDE DEF c
      <3>3. pc'[r] = "invite_update" /\ call'[r] = c /\ invite' = invite
        BY <1>10, <2>2, <3>2 DEF AddDeactivated, tables, IInv, TypeOK
      <3> QED
        BY <2>2, <3>1, <3>3 DEF Addressed
    <2> QED
      BY <1>10, <2>1, <2>2 DEF AddDeactivated
  <1>11. ASSUME \/ SignedUp(r) \/ Abandon(r) \/ (\E i \in Invite : InviteInsert(r, i))
                \/ InviteUpdate(r) \/ InviteWithdraw(r) \/ InviteDelete(r)
                \/ MemberUpsert(r) \/ MemberUpdate(r) \/ MemberDeactivate(r) \/ MemberDelete(r)
         PROVE  Addressed(r)'
    BY <1>11, FinishAddressed
       DEF SignedUp, Abandon, InviteInsert, InviteUpdate, InviteWithdraw, InviteDelete,
           MemberUpsert, MemberUpdate, MemberDeactivate, MemberDelete
  <1> QED
    BY <1>5, <1>6, <1>7, <1>8, <1>9, <1>10, <1>11 DEF Advance

\* A step of request r leaves the other requests where they are.
LEMMA OthersStay ==
    ASSUME NEW r \in Request, Begin(r) \/ Advance(r) \/ Abandon(r), IInv, NEW q \in Request \ {r}
    PROVE  pc'[q] = pc[q] /\ call'[q] = call[q] /\ todo'[q] = todo[q]
  <1> USE DEF IInv, TypeOK, Goto, Finish
  <1>1. CASE Begin(r) \/ Abandon(r)
    <2>1. ASSUME NEW to, NEW c, Start(r, to, c)
          PROVE  pc'[q] = pc[q] /\ call'[q] = call[q] /\ todo'[q] = todo[q]
      BY <2>1 DEF Start
    <2>2. CASE Abandon(r)
      BY <2>2 DEF Abandon
    <2>3. CASE Begin(r)
      BY <2>1, <2>3 DEF Begin, SignUp, LinkGoogle, Accept, CreateInvite, AddMember, RemoveMember,
                        DeleteInvite, UpdateInvite, UpdateMemberStatus
    <2> QED
      BY <1>1, <2>2, <2>3
  <1>2. CASE JoinList(r) \/ AcceptLock(r) \/ AcceptWrite(r)
    <2>1. ASSUME NEW S, NEW u, AcceptNext(r, S, u)
          PROVE  pc'[q] = pc[q] /\ call'[q] = call[q] /\ todo'[q] = todo[q]
      BY <2>1 DEF AcceptNext
    <2>2. ASSUME LockInvite(r) \/ Finish(r)
          PROVE  pc'[q] = pc[q] /\ call'[q] = call[q] /\ todo'[q] = todo[q]
      BY <2>2 DEF LockInvite
    <2>3. \/ \E S, u : AcceptNext(r, S, u)
          \/ LockInvite(r) \/ Finish(r)
      BY <1>2, Zenon DEF JoinList, AcceptLock, AcceptWrite, AcceptReturns
    <2> QED
      BY <2>1, <2>2, <2>3
  <1>3. CASE AvailMember(r) \/ AvailInvite(r) \/ AddUser(r) \/ AddDeactivated(r) \/ SignedUp(r)
    BY <1>3 DEF AvailMember, AvailInvite, AddUser, AddDeactivated, SignedUp
  <1>4. CASE \/ (\E i \in Invite : InviteInsert(r, i))
             \/ InviteUpdate(r) \/ InviteWithdraw(r) \/ InviteDelete(r)
             \/ MemberUpsert(r) \/ MemberUpdate(r) \/ MemberDeactivate(r) \/ MemberDelete(r)
    BY <1>4 DEF InviteInsert, InviteUpdate, InviteWithdraw, InviteDelete, MemberUpsert, MemberUpdate,
                MemberDeactivate, MemberDelete
  <1> QED
    BY <1>1, <1>2, <1>3, <1>4 DEF Advance

LEMMA AddressedStep ==
    ASSUME "update_invite" \notin Ops, IInv, AllAddressed, [Next]_vars
    PROVE  AllAddressed'
  <1>1. EmailsKept
    BY NextEmailsKept
  <1>2. ASSUME NEW r \in Request, Begin(r) \/ Advance(r) \/ Abandon(r)
        PROVE  AllAddressed'
    BY <1>1, <1>2, StepAddressed, OthersStay, StillAddressed DEF AllAddressed
  <1>3. CASE UNCHANGED requests
    BY <1>1, <1>3, StillAddressed DEF AllAddressed, requests
  <1> QED
    BY <1>2, <1>3 DEF Next, CreateOrg, vars

\* Where nobody edits invites, only the user it is addressed to accepts an invite:
\* the email is compared before the transaction, and cannot change until it.
THEOREM OnlyRecipientsAccept ==
    ASSUME "update_invite" \notin Ops
    PROVE  Spec => AcceptedByRecipient
  <1>1. Init => AllAddressed
    BY DEF Init, AllAddressed, Addressed, NoCall, AcceptFlight
  <1>2. IInv /\ AllAddressed /\ [Next]_vars => AllAddressed'
    BY AddressedStep
  <1>3. AllAddressed =>
          [\A r \in Request :
              pc[r] = "accept_write" /\ invite'[call[r].inv].status = "accepted"
                  => invite[call[r].inv].email = call[r].user]_vars
    BY DEF AllAddressed, Addressed, AcceptFlight
  <1> QED
    BY SpecIInv, <1>1, <1>2, <1>3, PTL DEF Spec, AcceptedByRecipient

================================================================================
