----------------------------- MODULE ConnPoolProofs -----------------------------
(***************************************************************************)
(* Theorems about ConnPool, for pools of every size.  Its steps are steps  *)
(* of OrgMembership or only take a connection, so the invariant of         *)
(* OrgMembershipProofs may be used throughout.                             *)
(***************************************************************************)
EXTENDS ConnPool, OrgMembershipProofs, FiniteSetTheorems

LEMMA PoolSteps == [PoolNext]_poolVars => [Next]_vars
  BY DEF PoolNext, Acquire, Statement, PoolBegin, PoolCreateOrg, PoolAbandon, poolVars, Next

\* The pool only delays what requests do: what is proved of Spec holds with it.
THEOREM PoolKeepsOrganizations == PoolSpec => Spec
  <1>1. PoolInit => Init
    BY DEF PoolInit
  <1> QED
    BY <1>1, PoolSteps, PTL DEF PoolSpec, Spec

--------------------------------------------------------------------------------
\* The invariant

\* Only a request that runs has a connection, and a transaction has one.
Holders ==
    /\ \A r \in conn : pc[r] # "idle"
    /\ \A r \in Request : pc[r] = "accept_write" => r \in conn

\* What the pool itself sees to: no more connections are in use than it has.
Bounded == conn \subseteq Request /\ Used <= PoolSize

PInv == Bounded /\ Holders

LEMMA Counts ==
    ASSUME conn \subseteq Request
    PROVE  /\ IsFiniteSet(conn) /\ Cardinality(conn) \in Nat
           /\ IsFiniteSet(Joining) /\ Cardinality(Joining) \in Nat
  <1>1. Joining \subseteq Request
    BY DEF Joining
  <1> QED
    BY <1>1, PoolAssumption, FS_Subset, FS_CardinalityType

LEMMA InitPInv == PoolInit => PInv
  <1> SUFFICES ASSUME PoolInit
               PROVE  PInv
    OBVIOUS
  <1>1. Joining = {}
    BY DEF PoolInit, Init, Joining, AcceptFlight
  <1>2. Used = 0
    BY <1>1, FS_EmptySet DEF PoolInit, Used
  <1> QED
    BY <1>2, PoolAssumption DEF PoolInit, Init, PInv, Bounded, Holders

--------------------------------------------------------------------------------
\* Who joins before and after a step

LEMMA BeginJoins ==
    ASSUME IInv, NEW r \in Request, Begin(r)
    PROVE  Joining' = Joining /\ pc[r] = "idle" /\ pc'[r] # "accept_write"
  <1> USE DEF IInv, TypeOK, NoCall, AcceptFlight
  <1>1. ASSUME NEW to, NEW c, Start(r, to, c), to \notin AcceptFlight \/ c.op # "join", to # "accept_write"
        PROVE  pc[r] = "idle" /\ (pc'[r] \notin AcceptFlight \/ call'[r].op # "join") /\ pc'[r] # "accept_write"
    BY <1>1 DEF Start
  <1>2. pc[r] = "idle" /\ (pc'[r] \notin AcceptFlight \/ call'[r].op # "join") /\ pc'[r] # "accept_write"
    BY <1>1 DEF Begin, SignUp, LinkGoogle, Accept, CreateInvite, AddMember, RemoveMember, DeleteInvite,
                UpdateInvite, UpdateMemberStatus
  <1>3. \A q \in Request \ {r} : pc'[q] = pc[q] /\ call'[q] = call[q]
    BY OthersStay
  <1> QED
    BY <1>2, <1>3 DEF Joining

\* A transaction begins by locking the row.
LEMMA Locks ==
    ASSUME IInv, NEW r \in Request, Advance(r), pc'[r] = "accept_write"
    PROVE  pc[r] = "accept_lock" /\ call'[r].op = call[r].op
  <1> USE DEF IInv, TypeOK
  <1>1. ~Finish(r)
    BY DEF Finish
  <1>2. ASSUME NEW to, to # "accept_write"
        PROVE  ~Goto(r, to)
    BY <1>2 DEF Goto
  <1>3. ASSUME NEW S, NEW u
        PROVE  ~AcceptNext(r, S, u)
    BY DEF AcceptNext
  <1>4. CASE AcceptLock(r)
    <2>1. ~AcceptReturns(r)
      BY <1>1, <1>3 DEF AcceptReturns
    <2>2. LockInvite(r)
      BY <1>1, <1>4, <2>1 DEF AcceptLock
    <2>3. call[r] = [op |-> call[r].op, org |-> call[r].org, user |-> call[r].user,
                     inv |-> call[r].inv, mark |-> call[r].mark]
      BY DEF Call
    <2>4. call'[r].op = call[r].op
      BY <2>2, <2>3 DEF LockInvite
    <2> QED
      BY <1>4, <2>4 DEF AcceptLock
  <1>5. ~JoinList(r) /\ ~AcceptWrite(r) /\ ~SignedUp(r)
    BY <1>1, <1>3 DEF JoinList, AcceptWrite, SignedUp, AcceptReturns
  <1>6. ~AvailMember(r) /\ ~AddUser(r) /\ ~AddDeactivated(r)
    BY <1>1, <1>2 DEF AvailMember, AddUser, AddDeactivated
  <1>7. ~AvailInvite(r)
    <2>1. pc[r] = "avail_invite" => call[r].op \in {"create_invite", "add_member", "update_invite"}
      BY DEF Requests, Knows, AvailSteps
    <2>2. call[r].op \in {"create_invite", "add_member", "update_invite"} =>
            AfterAvailable[call[r].op] # "accept_write"
      BY DEF AfterAvailable
    <2> QED
      BY <1>1, <1>2, <2>1, <2>2 DEF AvailInvite
  <1>8. /\ \A i \in Invite : ~InviteInsert(r, i)
        /\ ~InviteUpdate(r) /\ ~InviteWithdraw(r) /\ ~InviteDelete(r)
        /\ ~MemberUpsert(r) /\ ~MemberUpdate(r) /\ ~MemberDeactivate(r) /\ ~MemberDelete(r)
    BY <1>1 DEF InviteInsert, InviteUpdate, InviteWithdraw, InviteDelete, MemberUpsert, MemberUpdate,
                MemberDeactivate, MemberDelete
  <1> QED
    BY <1>4, <1>5, <1>6, <1>7, <1>8 DEF Advance

LEMMA AdvanceJoins ==
    ASSUME IInv, NEW r \in Request, Advance(r)
    PROVE  /\ Joining' \subseteq Joining \union {r}
           /\ pc'[r] = "accept_write" => Joining' = Joining
           /\ \A q \in Request \ {r} : pc'[q] = pc[q]
  <1>1. \A q \in Request \ {r} : pc'[q] = pc[q] /\ call'[q] = call[q]
    BY OthersStay
  <1>2. pc'[r] = "accept_write" => pc[r] = "accept_lock" /\ call'[r].op = call[r].op
    BY Locks
  <1> QED
    BY <1>1, <1>2 DEF Joining, AcceptFlight

LEMMA AbandonJoins ==
    ASSUME IInv, NEW r \in Request, Abandon(r)
    PROVE  Joining' \subseteq Joining /\ pc'[r] = "idle" /\ \A q \in Request \ {r} : pc'[q] = pc[q]
  <1>1. \A q \in Request \ {r} : pc'[q] = pc[q] /\ call'[q] = call[q]
    BY OthersStay
  <1>2. pc'[r] = "idle"
    BY DEF Abandon, Finish, IInv, TypeOK
  <1> QED
    BY <1>1, <1>2 DEF Joining, AcceptFlight

--------------------------------------------------------------------------------
\* Every step keeps the invariant.

\* Connections that change hands without becoming more.
LEMMA NoMore ==
    ASSUME Bounded, NEW r \in conn, Joining' \subseteq Joining \union {r},
           conn' = conn \ {r}
    PROVE  Bounded'
  <1>1. /\ IsFiniteSet(conn) /\ Cardinality(conn) \in Nat
        /\ IsFiniteSet(Joining) /\ Cardinality(Joining) \in Nat
    BY Counts DEF Bounded
  <1>2. Cardinality(conn') = Cardinality(conn) - 1
    BY <1>1, FS_RemoveElement
  <1>3. /\ IsFiniteSet(Joining \union {r})
        /\ Cardinality(Joining \union {r}) \in Nat
        /\ Cardinality(Joining \union {r}) <= Cardinality(Joining) + 1
    BY <1>1, FS_AddElement
  <1>4. Cardinality(Joining') <= Cardinality(Joining \union {r}) /\ Cardinality(Joining') \in Nat
    BY <1>3, FS_Subset, FS_CardinalityType
  <1> QED
    BY <1>1, <1>2, <1>3, <1>4, PoolAssumption DEF Bounded, Used

LEMMA StatementPInv ==
    ASSUME IInv, PInv, NEW r \in Request, Statement(r)
    PROVE  PInv'
  <1> USE DEF Statement, Release
  <1>1. Bounded'
    <2>1. CASE pc'[r] = "accept_write"
      BY <2>1, AdvanceJoins DEF PInv, Bounded, Used
    <2>2. CASE pc'[r] # "accept_write"
      BY <2>2, AdvanceJoins, NoMore DEF PInv
    <2> QED
      BY <2>1, <2>2
  <1>2. Holders'
    BY AdvanceJoins DEF PInv, Bounded, Holders
  <1> QED
    BY <1>1, <1>2 DEF PInv

LEMMA AcquirePInv ==
    ASSUME PInv, NEW r \in Request, Acquire(r)
    PROVE  PInv'
  <1>1. /\ IsFiniteSet(conn) /\ Cardinality(conn) \in Nat
        /\ IsFiniteSet(Joining) /\ Cardinality(Joining) \in Nat
    BY Counts DEF PInv, Bounded
  <1>2. Joining' = Joining
    BY DEF Acquire, Joining, vars, requests
  <1>3. Cardinality(conn') = Cardinality(conn) + 1
    BY <1>1, FS_AddElement DEF Acquire
  <1>4. Bounded'
    BY <1>1, <1>2, <1>3, PoolAssumption DEF PInv, Bounded, Used, HasFree, Acquire
  <1> QED
    BY <1>4 DEF PInv, Holders, Acquire, vars, requests

LEMMA AbandonPInv ==
    ASSUME IInv, PInv, NEW r \in Request, PoolAbandon(r)
    PROVE  PInv'
  <1>1. /\ IsFiniteSet(conn) /\ Cardinality(conn) \in Nat
        /\ IsFiniteSet(Joining) /\ Cardinality(Joining) \in Nat
    BY Counts DEF PInv, Bounded
  <1>2. conn' \subseteq conn /\ Joining' \subseteq Joining
    BY AbandonJoins DEF PoolAbandon
  <1>3. /\ Cardinality(conn') <= Cardinality(conn) /\ Cardinality(conn') \in Nat
        /\ Cardinality(Joining') <= Cardinality(Joining) /\ Cardinality(Joining') \in Nat
    BY <1>1, <1>2, FS_Subset, FS_CardinalityType
  <1>4. Bounded'
    BY <1>1, <1>2, <1>3, PoolAssumption DEF PInv, Bounded, Used
  <1> QED
    BY <1>4, AbandonJoins DEF PInv, Bounded, Holders, PoolAbandon

LEMMA NextPInv == IInv /\ PInv /\ [PoolNext]_poolVars => PInv'
  <1> SUFFICES ASSUME IInv, PInv, [PoolNext]_poolVars
               PROVE  PInv'
    OBVIOUS
  <1>1. ASSUME NEW r \in Request, PoolBegin(r)
        PROVE  PInv'
    <2>1. \A q \in Request \ {r} : pc'[q] = pc[q]
      BY <1>1, OthersStay DEF PoolBegin
    <2> QED
      BY <1>1, <2>1, BeginJoins DEF PoolBegin, PInv, Bounded, Used, Holders
  <1>2. CASE PoolCreateOrg \/ UNCHANGED poolVars
    BY <1>2 DEF PoolCreateOrg, CreateOrg, poolVars, vars, requests, PInv, Bounded, Used, Joining, Holders
  <1> QED
    BY <1>1, <1>2, StatementPInv, AcquirePInv, AbandonPInv DEF PoolNext

LEMMA PoolSpecInv == PoolSpec => [](IInv /\ PInv)
  <1>1. PoolInit => IInv /\ PInv
    BY InitIInv, InitPInv DEF PoolInit
  <1>2. IInv /\ PInv /\ [PoolNext]_poolVars => (IInv /\ PInv)'
    BY PoolSteps, NextIInv, NextPInv
  <1> QED
    BY <1>1, <1>2, PTL DEF PoolSpec

--------------------------------------------------------------------------------
\* A request that waits for a row waits for one that has its connection and goes on.
LEMMA RowsMove ==
    ASSUME IInv, PInv, NEW r \in conn
    PROVE  \E q \in Request : CanGo(q)
  <1>1. r \in Request /\ pc[r] # "idle"
    BY DEF PInv, Bounded, Holders
  <1>2. CASE pc[r] \in RowSteps /\ ~Free(call[r].inv)
    <2>1. call[r].inv \in Invite
      BY <1>1, <1>2 DEF IInv, Requests, Knows, RowSteps, InviteSteps, AcceptFlight
    <2>2. PICK q \in Request : lock[call[r].inv] = q
      BY <1>2, <2>1 DEF Free, IInv, TypeOK
    <2>3. pc[q] = "accept_write"
      BY <2>1, <2>2 DEF IInv, Locking
    <2>4. q \in conn
      BY <2>3 DEF PInv, Holders
    <2> QED
      BY <2>3, <2>4 DEF CanGo, RowSteps
  <1>3. CASE ~(pc[r] \in RowSteps /\ ~Free(call[r].inv))
    BY <1>1, <1>3 DEF CanGo
  <1> QED
    BY <1>2, <1>3

\* For every pool and every number of requests, the pool stands still only when
\* the open lists of sign-ups have all its connections.
THEOREM OnlyJoiningSticks == PoolSpec => []StuckOnlyJoining
  <1>1. ASSUME IInv, PInv, Stuck
        PROVE  Cardinality(Joining) = PoolSize /\ conn = {}
    <2>1. conn = {}
      BY <1>1, RowsMove DEF Stuck
    <2>2. ~HasFree
      BY <1>1, <2>1 DEF Stuck, CanGo
    <2>3. Used = Cardinality(Joining) /\ Cardinality(Joining) \in Nat
      BY <1>1, <2>1, Counts, FS_EmptySet DEF Used, PInv, Bounded
    <2> QED
      BY <1>1, <2>1, <2>2, <2>3, PoolAssumption DEF HasFree, PInv, Bounded
  <1>2. IInv /\ PInv => StuckOnlyJoining
    BY <1>1 DEF StuckOnlyJoining
  <1> QED
    BY PoolSpecInv, <1>2, PTL
================================================================================
