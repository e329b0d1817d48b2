-------------------------------- MODULE ConnPool --------------------------------
(***************************************************************************)
(* The connections that the operations of OrgMembership take from the      *)
(* gateway's pgx pool.  A statement has a connection while it runs and     *)
(* while it waits for a row; a transaction has one until it ends; and      *)
(* AcceptPendingInvitesForEmail keeps the one of its open result set for   *)
(* the whole loop, in which every AcceptInvite asks for another one.       *)
(***************************************************************************)
EXTENDS OrgMembership

CONSTANT PoolSize     \* pgxpool's MaxConns

ASSUME PoolAssumption == PoolSize \in Nat \ {0} /\ IsFiniteSet(Request)

VARIABLE conn         \* the requests with a connection for their next step

poolVars == <<vars, conn>>

\* The sign-ups whose list of invites (rows) is open.
Joining == {r \in Request : pc[r] \in AcceptFlight /\ call[r].op = "join"}

Used == Cardinality(conn) + Cardinality(Joining)

HasFree == Used < PoolSize

PoolInit == Init /\ conn = {}

--------------------------------------------------------------------------------
\* pool.Query, pool.Exec and pool.Begin wait for a connection.
Acquire(r) ==
    /\ pc[r] # "idle" /\ r \notin conn
    /\ HasFree
    /\ conn' = conn \union {r}
    /\ UNCHANGED vars

\* Mutant of Release: a transaction that failed is neither rolled back nor released.
ReleaseUnlessFailed(r) ==
    conn' = IF pc'[r] = "accept_write" \/ (pc[r] \in AcceptFlight /\ pc'[r] = "idle")
            THEN conn ELSE conn \ {r}

\* The end of a statement gives its connection back, but the one of JoinList's
\* rows is counted by Joining from then on, and a transaction goes on.
Release(r) == conn' = IF pc'[r] = "accept_write" THEN conn ELSE conn \ {r}

\* Mutant of Statement: inside the transaction, the membership is read through the pool.
StatementOnPool(r) ==
    /\ r \in conn
    /\ pc[r] = "accept_lock" => HasFree
    /\ Advance(r)
    /\ Release(r)

Statement(r) ==
    /\ r \in conn
    /\ Advance(r)
    /\ Release(r)

\* The statements before a request's first step wait for nothing but a connection.
PoolBegin(r) == HasFree /\ Begin(r) /\ UNCHANGED conn

PoolCreateOrg == HasFree /\ (\E o \in Org, u \in User : CreateOrg(o, u)) /\ UNCHANGED conn

\* The deferred tx.Rollback and rows.Close.
PoolAbandon(r) == Abandon(r) /\ conn' = conn \ {r}

PoolNext ==
    \/ \E r \in Request : Acquire(r) \/ Statement(r) \/ PoolBegin(r) \/ PoolAbandon(r)
    \/ PoolCreateOrg

PoolSpec == PoolInit /\ [][PoolNext]_poolVars

\* The pool serves those who wait for a connection in turn, Postgres those who
\* wait for a row.
PoolFairness == \A r \in Request : SF_poolVars(Acquire(r) \/ Statement(r))

PoolLiveSpec == PoolSpec /\ PoolFairness

--------------------------------------------------------------------------------
\* Properties

\* The statements that wait for the row of an invite.
RowSteps == {"accept_lock", "invite_update", "invite_withdraw", "invite_delete"}

\* Request r need not wait: there is a connection for it, or it has one and no
\* other transaction holds its row.
CanGo(r) ==
    \/ pc[r] # "idle" /\ r \notin conn /\ HasFree
    \/ pc[r] # "idle" /\ r \in conn /\ (pc[r] \in RowSteps => Free(call[r].inv))

Stuck ==
    /\ \E r \in Request : pc[r] # "idle"
    /\ \A r \in Request : ~CanGo(r)

\* AcceptPendingInvitesForEmail asks for a connection while it keeps one.  This is
\* the only way in which the pool can come to a standstill, whatever rows are
\* locked: each connection belongs to the open list of a sign-up, and no
\* transaction is under way.
StuckOnlyJoining == Stuck => Cardinality(Joining) = PoolSize /\ conn = {}

\* So a pool with a connection more than there are ever sign-ups accepting their
\* invites at once serves every request.
PoolServes ==
    [](Cardinality(Joining) < PoolSize) => \A r \in Request : pc[r] # "idle" ~> pc[r] = "idle"
================================================================================
