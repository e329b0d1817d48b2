----------------------------- MODULE OrgMembership -----------------------------
(***************************************************************************)
(* Organizations of the gateway: who is a member of which, and the invites *)
(* to join.  Requests of several users are interleaved; a step is one SQL  *)
(* statement that matters to another request, or one transaction from its  *)
(* first lock to its commit.                                               *)
(*                                                                         *)
(*   AppOrgService (service/app_org.go) and AppOrgPG (repository), and     *)
(*   AcceptPendingInvitesForEmail as sign-up and Google linking call it.   *)
(*                                                                         *)
(* A user is named by his email address, compared without case.  Names,    *)
(* phones, app slugs and the app's availability are left out.              *)
(***************************************************************************)
EXTENDS Naturals, FiniteSets

CONSTANTS
    User,         \* email addresses
    Org, Invite,  \* ids that can be created
    Request,      \* requests in progress at the same time
    NoOrg, NoUser, NoInvite, NoRequest,
    Ops           \* the operations clients call (bounds a model)

ASSUME NoneAssumption ==
    /\ NoOrg \notin Org /\ NoUser \notin User
    /\ NoInvite \notin Invite /\ NoRequest \notin Request

AllOps == {"google", "accept", "create_invite", "add_member", "update_invite",
           "delete_invite", "member_status", "remove_member"}

ASSUME OpsAssumption == Ops \subseteq AllOps

VARIABLES
    registered,   \* users: rows of users, by email
    member,       \* member[o][u]: row of app_org_memberships, or NoRow
    invite,       \* invite[i]: row of app_org_invites, or one not (or no more) there
    lock,         \* lock[i]: the request whose transaction holds row i FOR UPDATE
    pc,           \* pc[r], call[r]: request r's next step and its local variables
    call,
    todo,         \* todo[r]: the ids a joining request has still to accept
    listed        \* history: listed[r], all the ids it was given to accept

tables == <<registered, member, invite>>
requests == <<pc, call, todo, listed>>
vars == <<tables, lock, requests>>

Row == [role : {"none", "member", "owner"}, status : {"active", "deactive"}]
NoRow == [role |-> "none", status |-> "deactive"]

\* Mutant of ActiveMember: whoever joins gets the role of the inviter.
ActiveOwner == [role |-> "owner", status |-> "active"]
ActiveMember == [role |-> "member", status |-> "active"]

InviteRow == [org : Org \union {NoOrg}, email : User \union {NoUser},
              status : {"unused", "pending", "deactive", "accepted", "deleted"}]

AcceptFlight == {"accept_lock", "accept_write"}
Step == AcceptFlight \union
        {"idle", "join_list", "signed_up", "avail_member", "avail_invite", "add_user", "add_deactivated",
         "invite_insert", "invite_update", "invite_withdraw", "invite_delete",
         "member_upsert", "member_update", "member_deactivate", "member_delete"}

\* What a request remembers; mark is a status it has read or is to write.
Call == [op : AllOps \union {"join", "none"}, org : Org \union {NoOrg},
         user : User \union {NoUser}, inv : Invite \union {NoInvite},
         mark : {"none", "active", "deactive", "pending"}]
NoCall == [op |-> "none", org |-> NoOrg, user |-> NoUser, inv |-> NoInvite, mark |-> "none"]

TypeOK ==
    /\ registered \subseteq User
    /\ member \in [Org -> [User -> Row]]
    /\ invite \in [Invite -> InviteRow]
    /\ lock \in [Invite -> Request \union {NoRequest}]
    /\ pc \in [Request -> Step]
    /\ call \in [Request -> Call]
    /\ todo \in [Request -> SUBSET Invite]
    /\ listed \in [Request -> SUBSET Invite]

Init ==
    /\ registered = {}
    /\ member = [o \in Org |-> [u \in User |-> NoRow]]
    /\ invite = [i \in Invite |-> [org |-> NoOrg, email |-> NoUser, status |-> "unused"]]
    /\ lock = [i \in Invite |-> NoRequest]
    /\ pc = [r \in Request |-> "idle"]
    /\ call = [r \in Request |-> NoCall]
    /\ todo = [r \in Request |-> {}]
    /\ listed = [r \in Request |-> {}]

--------------------------------------------------------------------------------
\* Queries

\* IsOwner; requireOrgOwner admits exactly these requests.
IsOwner(o, u) == member[o][u] = [role |-> "owner", status |-> "active"]

HasMembership(o, u) == member[o][u].role # "none"

HasMemberWithEmail(o, u) == HasMembership(o, u) /\ member[o][u].status = "active"

PendingInvites(o, u) ==
    {i \in Invite : invite[i].org = o /\ invite[i].email = u /\ invite[i].status = "pending"}

\* Unique index on (org_id, lower(email)) WHERE status = 'pending': it refuses
\* to make row i pending next to another one.
Clash(i, o, u) == PendingInvites(o, u) \ {i} # {}

\* Every /api/apps/:slug/orgs/:orgId operation below starts with it.
RequireOrgOwner(o) == \E a \in User : IsOwner(o, a)

Free(i) == lock[i] = NoRequest

--------------------------------------------------------------------------------
\* Requests

Start(r, to, c) ==
    /\ pc[r] = "idle"
    /\ pc' = [pc EXCEPT ![r] = to]
    /\ call' = [call EXCEPT ![r] = c]
    /\ UNCHANGED <<todo, listed>>

Goto(r, to) ==
    /\ pc' = [pc EXCEPT ![r] = to]
    /\ UNCHANGED <<call, todo, listed>>

\* Request r ends, with an answer or an error.
Finish(r) ==
    /\ pc' = [pc EXCEPT ![r] = "idle"]
    /\ call' = [call EXCEPT ![r] = NoCall]
    /\ todo' = [todo EXCEPT ![r] = {}]
    /\ listed' = [listed EXCEPT ![r] = {}]

\* The loop of AcceptPendingInvitesForEmail, with the invites S still to accept.
\* (The code takes them by creation date.)
AcceptNext(r, S, u) ==
    \/ /\ S = {}
       /\ pc' = [pc EXCEPT ![r] = "signed_up"]
       /\ call' = [call EXCEPT ![r] = [NoCall EXCEPT !.op = "join", !.user = u]]
       /\ todo' = [todo EXCEPT ![r] = {}]
    \/ \E i \in S :
       /\ pc' = [pc EXCEPT ![r] = "accept_lock"]
       /\ call' = [call EXCEPT ![r] = [NoCall EXCEPT !.op = "join", !.user = u, !.inv = i]]
       /\ todo' = [todo EXCEPT ![r] = S \ {i}]

\* AcceptInvite: SELECT ... FOR UPDATE OF i, then the membership as it is now.
LockInvite(r) ==
    LET i == call[r].inv
        o == invite[i].org
        u == call[r].user IN
    /\ lock' = [lock EXCEPT ![i] = r]
    /\ pc' = [pc EXCEPT ![r] = "accept_write"]
    /\ call' = [call EXCEPT ![r].org = o,
                            ![r].mark = IF HasMembership(o, u) THEN member[o][u].status ELSE "none"]
    /\ UNCHANGED <<todo, listed>>

\* AcceptInvite returns without an error.
AcceptReturns(r) ==
    \/ call[r].op = "join" /\ AcceptNext(r, todo[r], call[r].user) /\ UNCHANGED listed
    \/ call[r].op # "join" /\ Finish(r)

--------------------------------------------------------------------------------
\* Mutants: mistakes the code might have made.  No action uses them; each is
\* substituted for the definition it is named after to see a property fail.

\* The compared email is somebody else's, too.
AcceptAnybody(r, u, i) ==
    /\ "accept" \in Ops
    /\ u \in registered /\ invite[i].status = "pending"
    /\ Start(r, "accept_lock", [NoCall EXCEPT !.op = "accept", !.user = u, !.inv = i])
    /\ UNCHANGED <<tables, lock>>

\* The transaction relies on the status read before it.
AcceptLockTrusting(r) ==
    LET i == call[r].inv IN
    /\ pc[r] = "accept_lock"
    /\ Free(i)
    /\ \/ invite[i].status # "deleted" /\ LockInvite(r)
       \/ invite[i].status = "deleted" /\ AcceptReturns(r) /\ UNCHANGED lock
    /\ UNCHANGED tables

\* An invite that is no longer pending is skipped like one that is gone.
AcceptLockSkipping(r) ==
    LET i == call[r].inv IN
    /\ pc[r] = "accept_lock"
    /\ Free(i)
    /\ \/ invite[i].status = "pending" /\ LockInvite(r)
       \/ invite[i].status # "pending" /\ AcceptReturns(r) /\ UNCHANGED lock
    /\ UNCHANGED tables

\* The status the client sent ("active") is stored as it is.
InviteUpdateRaw(r) ==
    LET i == call[r].inv IN
    /\ pc[r] = "invite_update"
    /\ Free(i)
    /\ invite' = [invite EXCEPT ![i].email = call[r].user, ![i].status = "active"]
    /\ Finish(r)
    /\ UNCHANGED <<registered, member, lock>>

\* DELETE without status = 'deactive': what was read may have changed.
MemberDeleteAny(r) ==
    LET o == call[r].org
        u == call[r].user IN
    /\ pc[r] = "member_delete"
    /\ member' = IF member[o][u].role = "owner" THEN member ELSE [member EXCEPT ![o][u] = NoRow]
    /\ Finish(r)
    /\ UNCHANGED <<registered, invite, lock>>

--------------------------------------------------------------------------------
\* Accounts, as far as organizations are concerned

\* Signup, or GoogleCallback for an unknown email.  The user row is committed
\* before the invites are listed.
SignUp(r, u) ==
    /\ u \notin registered
    /\ registered' = registered \union {u}
    /\ Start(r, "join_list", [NoCall EXCEPT !.op = "join", !.user = u])
    /\ UNCHANGED <<member, invite, lock>>

\* GoogleCallback for a known email and a google_id that no account has: the
\* account is linked, also when it was linked to another one before.
LinkGoogle(r, u) ==
    /\ "google" \in Ops
    /\ u \in registered
    /\ Start(r, "join_list", [NoCall EXCEPT !.op = "join", !.user = u])
    /\ UNCHANGED <<tables, lock>>

\* AcceptPendingInvitesForEmail: one query, then the loop.
JoinList(r) ==
    LET u == call[r].user
        S == {i \in Invite : invite[i].email = u /\ invite[i].status = "pending"} IN
    /\ pc[r] = "join_list"
    /\ AcceptNext(r, S, u)
    /\ listed' = [listed EXCEPT ![r] = S]
    /\ UNCHANGED <<tables, lock>>

\* Every invite was accepted: issueTokens follows.
SignedUp(r) ==
    /\ pc[r] = "signed_up"
    /\ Finish(r)
    /\ UNCHANGED <<tables, lock>>

CreateOrg(o, u) ==
    /\ u \in registered
    /\ \A v \in User : ~HasMembership(o, v)
    /\ member' = [member EXCEPT ![o][u] = [role |-> "owner", status |-> "active"]]
    /\ UNCHANGED <<registered, invite, lock, requests>>

--------------------------------------------------------------------------------
\* Accepting an invite

\* AppOrgService.AcceptInvite reads the invite and compares its email.
Accept(r, u, i) ==
    /\ "accept" \in Ops
    /\ u \in registered
    /\ invite[i].status = "pending" /\ invite[i].email = u
    /\ Start(r, "accept_lock", [NoCall EXCEPT !.op = "accept", !.user = u, !.inv = i])
    /\ UNCHANGED <<tables, lock>>

\* AppOrgPG.AcceptInvite waits for the row and looks at its status again.  A row
\* that is gone is no error.
AcceptLock(r) ==
    LET i == call[r].inv IN
    /\ pc[r] = "accept_lock"
    /\ Free(i)
    /\ \/ invite[i].status = "pending" /\ LockInvite(r)
       \/ invite[i].status = "deleted" /\ AcceptReturns(r) /\ UNCHANGED lock
       \/ invite[i].status \notin {"pending", "deleted"} /\ Finish(r) /\ UNCHANGED lock
    /\ UNCHANGED tables

\* The writes of the transaction and its commit.  A membership inserted since
\* it was read is a unique violation; one deleted since is not updated, and
\* nobody looks.
AcceptWrite(r) ==
    LET i == call[r].inv
        o == call[r].org
        u == call[r].user
        seen == call[r].mark IN
    /\ pc[r] = "accept_write"
    /\ lock' = [lock EXCEPT ![i] = NoRequest]
    /\ \/ /\ seen = "none" /\ HasMembership(o, u)
          /\ Finish(r)
          /\ UNCHANGED <<member, invite>>
       \/ /\ seen = "none" => ~HasMembership(o, u)
          /\ member' = IF seen = "none" \/ (seen = "deactive" /\ HasMembership(o, u))
                       THEN [member EXCEPT ![o][u] = ActiveMember]
                       ELSE member
          /\ invite' = [invite EXCEPT ![i].status = "accepted"]
          /\ AcceptReturns(r)
    /\ UNCHANGED registered

--------------------------------------------------------------------------------
\* Inviting

\* Bound: an id is left for every request that may insert an invite.  AddMember
\* inserts none for a registered user.
IdsLeft ==
    Cardinality({i \in Invite : invite[i].status = "unused"})
        > Cardinality({q \in Request : \/ call[q].op = "create_invite"
                                       \/ /\ call[q].op = "add_member"
                                          /\ pc[q] = "add_user" => call[q].user \notin registered
                                          /\ pc[q] # "member_upsert"})

CreateInvite(r, o, u) ==
    /\ "create_invite" \in Ops /\ IdsLeft
    /\ RequireOrgOwner(o)
    /\ Start(r, "avail_member", [NoCall EXCEPT !.op = "create_invite", !.org = o, !.user = u])
    /\ UNCHANGED <<tables, lock>>

\* AddMember's first query (HasMemberWithEmail) has found nobody.
AddMember(r, o, u) ==
    /\ "add_member" \in Ops
    /\ u \in registered \/ IdsLeft
    /\ RequireOrgOwner(o)
    /\ ~HasMemberWithEmail(o, u)
    /\ Start(r, "add_user", [NoCall EXCEPT !.op = "add_member", !.org = o, !.user = u])
    /\ UNCHANGED <<tables, lock>>

\* UpdateInvite reads the row; only a pending or withdrawn invite goes on.
UpdateInvite(r, i, u, status) ==
    LET o == invite[i].org IN
    /\ "update_invite" \in Ops
    /\ invite[i].status \in {"pending", "deactive"}
    /\ RequireOrgOwner(o)
    /\ Start(r, IF status = "pending" THEN "avail_member" ELSE "invite_update",
             [op |-> "update_invite", org |-> o, user |-> u, inv |-> i, mark |-> status])
    /\ UNCHANGED <<tables, lock>>

\* ensureEmailAvailableForOrg, its two queries.
AvailMember(r) ==
    /\ pc[r] = "avail_member"
    /\ IF HasMemberWithEmail(call[r].org, call[r].user) THEN Finish(r) ELSE Goto(r, "avail_invite")
    /\ UNCHANGED <<tables, lock>>

AfterAvailable ==
    [create_invite |-> "invite_insert", add_member |-> "add_deactivated",
     update_invite |-> "invite_update"]

AvailInvite(r) ==
    /\ pc[r] = "avail_invite"
    /\ IF Clash(call[r].inv, call[r].org, call[r].user)
       THEN Finish(r)
       ELSE Goto(r, AfterAvailable[call[r].op])
    /\ UNCHANGED <<tables, lock>>

\* GetByEmail: a registered user becomes a member, another one gets an invite.
AddUser(r) ==
    /\ pc[r] = "add_user"
    /\ Goto(r, IF call[r].user \in registered THEN "member_upsert" ELSE "avail_member")
    /\ UNCHANGED <<tables, lock>>

\* GetDeactivatedInviteForOrg: any one of the withdrawn invites is renewed.
AddDeactivated(r) ==
    LET S == {i \in Invite : /\ invite[i].org = call[r].org /\ invite[i].email = call[r].user
                             /\ invite[i].status = "deactive"} IN
    /\ pc[r] = "add_deactivated"
    /\ \/ S = {} /\ Goto(r, "invite_insert")
       \/ \E i \in S :
          /\ pc' = [pc EXCEPT ![r] = "invite_update"]
          /\ call' = [call EXCEPT ![r].inv = i, ![r].mark = "pending"]
          /\ UNCHANGED <<todo, listed>>
    /\ UNCHANGED <<tables, lock>>

InviteInsert(r, i) ==
    LET o == call[r].org
        u == call[r].user IN
    /\ pc[r] = "invite_insert"
    /\ invite[i].status = "unused"
    /\ invite' = IF Clash(i, o, u) THEN invite
                 ELSE [invite EXCEPT ![i] = [org |-> o, email |-> u, status |-> "pending"]]
    /\ Finish(r)
    /\ UNCHANGED <<registered, member, lock>>

\* UpdatePendingInvite, WHERE status IN ('pending', 'deactive').
InviteUpdate(r) ==
    LET i == call[r].inv
        c == call[r] IN
    /\ pc[r] = "invite_update"
    /\ Free(i)
    /\ invite' = IF \/ invite[i].status \notin {"pending", "deactive"}
                    \/ c.mark = "pending" /\ Clash(i, c.org, c.user)
                 THEN invite
                 ELSE [invite EXCEPT ![i].email = c.user, ![i].status = c.mark]
    /\ Finish(r)
    /\ UNCHANGED <<registered, member, lock>>

\* DeleteInvite reads the status: a withdrawn invite is deleted, a pending one
\* withdrawn.
DeleteInvite(r, i) ==
    /\ "delete_invite" \in Ops
    /\ invite[i].status \in {"pending", "deactive"}
    /\ RequireOrgOwner(invite[i].org)
    /\ Start(r, IF invite[i].status = "deactive" THEN "invite_delete" ELSE "invite_withdraw",
             [NoCall EXCEPT !.op = "delete_invite", !.org = invite[i].org, !.inv = i])
    /\ UNCHANGED <<tables, lock>>

InviteWithdraw(r) ==
    LET i == call[r].inv IN
    /\ pc[r] = "invite_withdraw"
    /\ Free(i)
    /\ invite' = IF invite[i].status = "pending" THEN [invite EXCEPT ![i].status = "deactive"]
                                                 ELSE invite
    /\ Finish(r)
    /\ UNCHANGED <<registered, member, lock>>

InviteDelete(r) ==
    LET i == call[r].inv IN
    /\ pc[r] = "invite_delete"
    /\ Free(i)
    /\ invite' = IF invite[i].status = "deactive" THEN [invite EXCEPT ![i].status = "deleted"]
                                                  ELSE invite
    /\ Finish(r)
    /\ UNCHANGED <<registered, member, lock>>

--------------------------------------------------------------------------------
\* Members.  The writes spare the owner's row by role <> 'owner'.

Spared(o, u) == member[o][u].role # "member"

\* AddActiveMember: INSERT ... ON CONFLICT DO UPDATE.
MemberUpsert(r) ==
    LET o == call[r].org
        u == call[r].user IN
    /\ pc[r] = "member_upsert"
    /\ member' = IF member[o][u].role = "owner" THEN member
                 ELSE [member EXCEPT ![o][u] = ActiveMember]
    /\ Finish(r)
    /\ UNCHANGED <<registered, invite, lock>>

\* UpdateMemberStatus reads the row; the owner and a status already there end it.
UpdateMemberStatus(r, o, u, status) ==
    /\ "member_status" \in Ops
    /\ RequireOrgOwner(o)
    /\ member[o][u].role = "member" /\ member[o][u].status # status
    /\ Start(r, "member_update",
             [NoCall EXCEPT !.op = "member_status", !.org = o, !.user = u, !.mark = status])
    /\ UNCHANGED <<tables, lock>>

MemberUpdate(r) ==
    LET o == call[r].org
        u == call[r].user IN
    /\ pc[r] = "member_update"
    /\ member' = IF Spared(o, u) THEN member
                 ELSE [member EXCEPT ![o][u].status = call[r].mark]
    /\ Finish(r)
    /\ UNCHANGED <<registered, invite, lock>>

\* RemoveMember reads the row: an active member is deactivated, a deactivated
\* one deleted.
RemoveMember(r, o, u) ==
    /\ "remove_member" \in Ops
    /\ RequireOrgOwner(o)
    /\ member[o][u].role = "member"
    /\ Start(r, IF member[o][u].status = "deactive" THEN "member_delete" ELSE "member_deactivate",
             [NoCall EXCEPT !.op = "remove_member", !.org = o, !.user = u])
    /\ UNCHANGED <<tables, lock>>

MemberDeactivate(r) ==
    LET o == call[r].org
        u == call[r].user IN
    /\ pc[r] = "member_deactivate"
    /\ member' = IF Spared(o, u) \/ member[o][u].status # "active" THEN member
                 ELSE [member EXCEPT ![o][u].status = "deactive"]
    /\ Finish(r)
    /\ UNCHANGED <<registered, invite, lock>>

MemberDelete(r) ==
    LET o == call[r].org
        u == call[r].user IN
    /\ pc[r] = "member_delete"
    /\ member' = IF Spared(o, u) \/ member[o][u].status # "deactive" THEN member
                 ELSE [member EXCEPT ![o][u] = NoRow]
    /\ Finish(r)
    /\ UNCHANGED <<registered, invite, lock>>

--------------------------------------------------------------------------------
\* Mutant of Abandon: the transaction is not rolled back.
AbandonKeepsLock(r) ==
    /\ pc[r] # "idle"
    /\ Finish(r)
    /\ UNCHANGED <<tables, lock>>

\* A crash, a lost connection or a cancelled request between two steps: the
\* transaction is rolled back.
Abandon(r) ==
    /\ pc[r] # "idle"
    /\ lock' = [i \in Invite |-> IF lock[i] = r THEN NoRequest ELSE lock[i]]
    /\ Finish(r)
    /\ UNCHANGED tables

Begin(r) ==
    \/ \E u \in User : SignUp(r, u) \/ LinkGoogle(r, u)
    \/ \E u \in User, i \in Invite : Accept(r, u, i)
    \/ \E u \in User, o \in Org : CreateInvite(r, o, u) \/ AddMember(r, o, u) \/ RemoveMember(r, o, u)
    \/ \E i \in Invite : DeleteInvite(r, i)
    \/ \E u \in User, i \in Invite, s \in {"pending", "deactive"} : UpdateInvite(r, i, u, s)
    \/ \E u \in User, o \in Org, s \in {"active", "deactive"} : UpdateMemberStatus(r, o, u, s)

Advance(r) ==
    \/ JoinList(r) \/ SignedUp(r) \/ AcceptLock(r) \/ AcceptWrite(r)
    \/ AvailMember(r) \/ AvailInvite(r) \/ AddUser(r) \/ AddDeactivated(r)
    \/ (\E i \in Invite : InviteInsert(r, i)) \/ InviteUpdate(r) \/ InviteWithdraw(r) \/ InviteDelete(r)
    \/ MemberUpsert(r) \/ MemberUpdate(r) \/ MemberDeactivate(r) \/ MemberDelete(r)

Next ==
    \/ \E r \in Request : Begin(r) \/ Advance(r) \/ Abandon(r)
    \/ \E o \in Org, u \in User : CreateOrg(o, u)

Spec == Init /\ [][Next]_vars

\* Postgres grants a row lock in the order of the requests for it.
Fairness == \A r \in Request : SF_vars(Advance(r))

LiveSpec == Spec /\ Fairness

--------------------------------------------------------------------------------
\* Properties

\* An organization has exactly one owner from its creation on, and he is active:
\* no operation demotes, deactivates or deletes him, in particular not
\* AcceptInvite, which turns a deactivated row into a plain member's.
OwnerStands ==
    [][\A o \in Org : (\E u \in User : IsOwner(o, u)) =>
           \E u \in User : /\ IsOwner(o, u) /\ IsOwner(o, u)'
                           /\ \A v \in User \ {u} : member'[o][v].role # "owner"]_vars

\* Sign-up (AcceptPendingInvitesForEmail) succeeds only when every invite that
\* was pending for the new user's email has been accepted, or deleted meanwhile.
SignupSettles ==
    \A r \in Request : pc[r] = "signed_up" =>
        \A i \in listed[r] : invite[i].status \in {"accepted", "deleted"}

\* What a user is to an organization.
StandingOf(o, u) ==
    IF IsOwner(o, u) THEN "owner" ELSE IF HasMembership(o, u) THEN member[o][u].status ELSE "none"

Contract == INSTANCE OrgContract
                WITH standing <- [o \in Org |-> [u \in User |-> StandingOf(o, u)]],
                     stage <- [i \in Invite |-> invite[i].status],
                     about <- [i \in Invite |-> invite[i].org]

\* The interleaved requests, reading before they write, keep the promise of
\* OrgContract: nobody is deleted while active, and no withdrawn, accepted or
\* deleted invite admits anybody, whatever a request had read.
KeepsOrgContract == Contract!ContractSpec

\* As long as nobody edits invites (UpdateInvite), one is accepted only by the
\* user it is addressed to, at the accept endpoint and when joining at sign-up.
AcceptedByRecipient ==
    [][\A r \in Request :
          pc[r] = "accept_write" /\ invite'[call[r].inv].status = "accepted"
              => invite[call[r].inv].email = call[r].user]_vars

\* Row locks never block a request for good: every request ends.
RequestsFinish == \A r \in Request : pc[r] # "idle" ~> pc[r] = "idle"

\* What the documentation of POST .../invites/:inviteId/accept says ("The user
\* must be the invite recipient"): an invite is accepted by the user it is
\* addressed to at that moment.
RecipientAccepts ==
    [][\A r \in Request :
          call[r].op = "accept" /\ pc[r] = "accept_write"
              /\ invite'[call[r].inv].status = "accepted"
              => invite[call[r].inv].email = call[r].user]_vars
================================================================================
