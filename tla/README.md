# Verification of the gateway

TLA+ models, model checks and machine-checked proofs for the gateway in
`src/backend_services/gateway`: a Go service that signs users up and in, keeps
their refresh sessions, and manages organizations, invites and teams, over
Postgres and Redis. Source paths below are relative to that directory; `service/`,
`repository/`, `handler/` and so on are under its `internal/`. One module is about
the rate limiter of the library beside it, `src/better-auth-main`.

A module that ends in `Proofs` holds theorems for TLAPS; one that begins with `MC`
instantiates a model for TLC, with one `.cfg` for each run. `PROJECT.json` lists
components, runs, mutants, findings, hazards and theorems, and maps every
definition to the lines it models.

    tlc -config MCSessions.cfg MCSessions      # model-check
    tlapm SessionsProofs.tla                   # prove

## 1. Inventory

### Refresh sessions and authentication

*State.* Rows of `refresh_sessions` in Postgres (token hash, user, expiry), copies
of them in Redis under `refresh_session:<hash>` with a TTL, the cookies held by
clients, access JWTs (15 minutes, not stored).
*Operations.* `issueTokens` (after sign-up, login, Google sign-in and refresh),
`Refresh`, `Logout`, `LogoutAll` (in the service, no route calls it) in
`service/auth.go`; `middleware.Auth`, which accepts an API key, an access token or
the refresh cookie, and for the last reads Redis, then Postgres, and writes the
copy back.
*Hard.* No two store accesses are atomic together, Redis is best-effort, the
middleware's write-back races a logout, two tabs refresh at once, sessions expire
on the way.
*Correct when* an ended session comes to an end everywhere, a token that was
exchanged is worth nothing, and nobody is admitted past a session's lifetime.

### Organizations: members and invites

*State.* `app_organizations`, `app_org_memberships` (role, status),
`app_org_invites` (email, status; at most one pending invite per organization and
email).
*Operations.* `service/app_org.go` over `repository/app_org_pg.go`: create an
organization, create, update, withdraw, delete and accept an invite, add a member
by email, deactivate and reactivate him, remove him (first deactivation, then
deletion), and the lists. `AuthService.Signup` and `GoogleCallback` accept every
pending invite for the user's email (`AcceptPendingInvitesForEmail`).
*Hard.* Almost every operation checks in one statement and writes in another; only
`AcceptInvite` locks (the invite's row, not the membership); lists are read long
before their entries are worked on.
*Correct when* an organization keeps its one owner, nobody gets in by an invite
that was withdrawn or was not for him, and memberships and invites keep to their
life cycles however requests overlap.

### Teams

*State.* `app_org_teams`, `app_org_team_memberships` (users), and
`app_org_team_invite_memberships` (placeholders for invited people).
*Operations.* Create a team; add members (ids of users and of invites), remove one,
remove many; the lists. `AcceptInvite` promotes the placeholders of its invite to
seats, the deletion of an invite cascades to them.
*Hard.* Membership is checked before a series of separate inserts; the promotion
is two statements that lock nothing in the team tables, and the first of them inserts
row by row, holding what it has inserted while it waits for others; an insert waits for
the row lock that accepting the invite holds.
*Correct when* a team holds people of its own organization, and joining costs
nobody a place.

### Accounts

*State.* `users` (email and `google_id` unique, password hash, names).
*Operations.* `Signup`, `GoogleCallback`, `UpdateProfile`, `ChangePassword`, and
`AddMember` of organizations, which writes the name of a registered user.
*Hard.* Every change reads the row and writes all its columns back, so overlapping
requests overwrite each other's columns.
*Correct when* changes survive, an account can always be signed in to, and a Google
account identifies one user.

### Login rate limiter

*State.* A Redis counter for each client address and email, expiring after 15
minutes. *Operations.* `Get` before the password check, `Increment` (INCR and EXPIRE
in a pipeline) after a wrong password. *Hard.* Overlapping logins pass the check
together; errors of Redis are dropped. *Correct when* guesses are bounded, and a
lockout ends.

### Pagination and lists

*State.* None. Page numbers, limits and offsets (`pagination/pagination.go`) and
three queries over the tables above. *Hard.* Independent queries that must agree,
pages that must cover the list. *Correct when* they do.

### Connection pool

*State.* The connections of the pgx pool, shared by all requests of an instance.
*Operations.* A statement takes one while it runs and waits; a transaction keeps one
to its end; an open result set keeps one until it is closed. *Hard.*
`AcceptPendingInvitesForEmail` keeps its result set open while `AcceptInvite` asks for
another connection. *Correct when* every connection comes back, and requests do not
wait for each other for ever.

### Instances and schema migrations

*State.* `schema_migrations`, the schema, and where each instance is in
`platform/postgres.go`, `RunMigrations`, and in `cmd/server/main.go`. *Operations.* Start, create
the table, apply each file in a transaction with its version row, serve, shut down;
crash anywhere. *Hard.* Instances start together and know nothing of each other: the
second finds tables or version rows that were not there when it looked. *Correct
when* nobody serves on an incomplete schema, nothing is applied twice, and a start that
failed or crashed never prevents another.

### Personal API keys

*State.* `personal_api_keys` (hash, owner, `last_used_at`). *Operations.* `Create`, `Delete`,
`List`, and `Authenticate`, called by branch 1 of the middleware, which starts
`TouchLastUsed` in a goroutine nobody waits for. *Hard.* The goroutine outlives its request,
may meet the deletion of the key or the note of a later use, and ends with its process.
*Correct when* a deleted key is gone for good, and `last_used_at` tells the last use
unless something went wrong with its note.

### Rate limiter of better-auth, over a database

*State.* Table `rateLimit`: for each address and path a count and the time of the last
request (`packages/better-auth/src/api/rate-limiter/index.ts`). *Operations.* `consume`: read
the row, then create it, reset it, or increment it, each by a statement that checks
again what was decided; begin again when it misses. `deleteExpiredRows`, in the
background after a reset. *Hard.* Requests on several servers race to open and to reset a
window; the Kysely adapter's guard is in a sub-select, which some databases do not
evaluate again when they have waited for the row; rows are deleted meanwhile; the time
that is written is read before. *Correct when* no period of a window's length has more
requests than the maximum, and nobody begins again unless another one has moved on.

### Components that are not modelled

- Catalogue of apps and sidebar: read-only, derived from seeded rows and a role.
- Configuration, CORS, the embedded databases, the wiring of routes: constants and I/O.
- Seeding command; DTOs, error bodies, generated documentation: tools and formats.
  What the documentation says of the endpoints is the source of the runs that are
  expected to find a violation.
- The rest of `better-auth-main`, and `posthog-master`: third-party code kept beside the
  gateway, which does not call it. Of the rate limiter, the storages in memory
  (one step) and over a secondary store (a counter with an expiry, as in
  `LoginLimiter`), and the one without `consume`, are left out, as is the choice of the
  rule for a path. Posthog alone is by far most of the repository's files; it is a
  system of its own.

### How the components interact

Accounts are registered by `Accounts`' operations; their end is a session
(`Sessions`), and before it the pending invites are accepted (`OrgMembership`). Login
asks the limiter first. Teams hang on organizations: `OrgTeams` EXTENDS
`OrgMembership`, keeps each of its steps and adds what it does to the team tables.
The pool is under all requests that use Postgres: `ConnPool` EXTENDS `OrgMembership`, whose
requests are the only ones that hold one connection while they wait for another.
Instances are under everything: `ApiKeys` EXTENDS `Migrations`, since it is with its instance
that the note of a use is lost.
Between the others there is no shared state but the user's id, so each is a
specification of its own, in which the others' outcome is left open (for example,
whether a password is right).

## 2. Plan

| order | module | what it is | status |
|---|---|---|---|
| 1 | `SessionContract`, `Sessions` | life of a session; stores and requests that implement it | done, proved |
| 2 | `OrgContract`, `OrgMembership` | life of members and invites; SQL statements that implement it | done, proved |
| 3 | `OrgTeams` (EXTENDS `OrgMembership`) | teams, composed with organizations | done, proved |
| 4 | `LoginLimiter` | counter and overlapping logins | done, proved |
| 5 | `Accounts` | overlapping writes of whole rows | done, proved |
| 6 | `Pagination`, `TeamLists` (EXTENDS `OrgTeams`, `Pagination`) | pages, and lists that must agree | done, proved |
| 7 | `ConnPool` (EXTENDS `OrgMembership`) | sign-ups that hold a connection while they wait for another | done, proved |
| 8 | `Migrations` | instances that start together | done, proved with `ApiKeys` |
| 9 | `ApiKeys` (EXTENDS `Migrations`) | keys, their deletion, and the late note of their last use | done, proved |
| 10 | `RateLimitStore` | rate limiter of better-auth over a database | done, proved |

What could come next: sessions and API keys behind one middleware, to relate the two
ways in; and two invites with two teams for three users, for the circle of waiting that
section 4 describes, if a smaller instance of it can be found.

## 3. The models and the code

In every model a step is one access to a store that another request can observe,
or one transaction; what a handler computes between two accesses belongs to the
step after which it happens. The program counter `pc[r]` of a request names its
next access and the record `call[r]` (in `Sessions`, `tok[r]`) holds its local
variables. `Abandon` ends a request at any step, as a failed store, a cancelled
context or a crash does. A variable with the comment *history* is read by
properties only.

### Sessions

| code | definitions |
|---|---|
| rows of `refresh_sessions`, Redis keys | `sessions`, `cache`, and `owner`, `expires` for the columns |
| `issueTokens` | `CreateSession`, `CacheNew` |
| `Refresh` | `BeginRefresh`, `RefreshLookup`, `RefreshDelete`, `RefreshUncache`, then `issueTokens` |
| `Logout` (and its handler) | `BeginLogout`, `LogoutUncache`, `LogoutDelete`, `Answer` |
| `LogoutAll` | `LogoutAll` |
| `middleware.Auth` | `AuthAccess`, `BeginAuth`, `AuthCacheGet`, `AuthLookup`, `AuthBackfill`, `AuthCheck` |
| Redis TTLs and eviction; time | `CacheEvict`, `Tick` |

`Faults` says which stores may fail; a failing best-effort call is skipped, another
one ends the request. All processes share one clock. Tokens are model values: a
fresh random token never equals an earlier one. The two lifetimes are any positive
numbers: `config/config.go` (38-39) reads each by itself and nothing compares them.
By default an access token lives shorter than a session (`SessionOutlivesAccess`); the
middleware cuts the tokens it mints to the rest of the session, `issueTokens` does not.

`SessionContract` is the abstract specification: a session is unissued, live,
lingering (withdrawn, but a copy of it is still around), then dead, and no access
outlasts its deadline. `Sessions` implements it under `StandingOf`, which calls a
session lingering while the cache or a request on its way holds a copy.

### OrgMembership

| code | definitions |
|---|---|
| `Signup`, `GoogleCallback` + `AcceptPendingInvitesForEmail` | `SignUp`, `LinkGoogle`, `JoinList`, the loop `AcceptNext`, `SignedUp` |
| `AcceptInvite` (service) | `Accept`: status and email on a row read before the transaction |
| `AcceptInvite` (repository) | `AcceptLock` (SELECT ... FOR UPDATE, status again, membership), `AcceptWrite` (writes and commit) |
| `CreateInvite`, `AddMember`, `ensureEmailAvailableForOrg` | `CreateInvite`, `AddMember`, `AvailMember`, `AvailInvite`, `AddUser`, `AddDeactivated`, `InviteInsert`, `MemberUpsert` |
| `UpdateInvite` | `UpdateInvite`, `InviteUpdate` |
| `DeleteInvite` | `DeleteInvite`, then `InviteWithdraw` if the status read was pending, `InviteDelete` if it was deactive |
| `UpdateMemberStatus`, `RemoveMember` | `UpdateMemberStatus`, `MemberUpdate`; `RemoveMember`, `MemberDeactivate`, `MemberDelete` |
| unique indexes, row locks | `Clash`, `lock`, `Free` |

A user is named by his email, compared without case. Names, phones and the app's
availability are left out. `RequireOrgOwner` is the guard of the action that
begins a request: it asks for an active owner, who need not be named since nothing
else depends on who he is. `OrgContract` is the abstract specification: members
are admitted, suspended, expelled; invites are sent, withdrawn, renewed, accepted
or discarded.

### OrgTeams

`Promote` and `PromoteRow` are the steps that AcceptInvite's transaction has beyond those
of `OrgMembership`, one INSERT ... SELECT: `Promote` takes the placeholders of the invite that
are there when the statement begins, and each `PromoteRow` inserts one row, in any order.
It waits while another transaction has the same row uncommitted, and keeps what it
has inserted so far, which nobody sees before `AcceptCommit`, the commit. That also clears
the placeholders that are there by then. `InviteDeleteCascade` is `InviteDelete` with ON DELETE CASCADE.
`SeatInvite` waits for the lock of the invite's row, as the foreign key makes it;
`SeatUser` and `PromoteRow` wait for an uncommitted row with the same key. The requests on
teams have program counters of their own (`TeamRequest`). `AreOrgMembers` accepts
members who are deactivated, as the query does.

### ConnPool

`conn` is the set of requests that have a connection for their next step; `Joining` are the
sign-ups whose result set is open, each of which has one more. `Acquire` is what
`Query`, `Exec` and `Begin` do first; `Statement` is any step of `OrgMembership`'s `Advance`, and
`Release` gives the connection back, except between the lock and the writes of
`AcceptInvite`, which are one transaction. `PoolAbandon` is `Abandon` with the deferred
`Rollback` and `rows.Close`.

### Migrations, ApiKeys

| code | definitions |
|---|---|
| `CREATE TABLE IF NOT EXISTS` | `LookForTable`, then `CreateTable`, which fails if another was faster |
| loop of `RunMigrations` | `Check`, `Exec`, `Record`, `Commit` (the transaction's locks are `Blocked`) |
| `main` | `Start`, `Stop` (signal), `Exit` (end of `Shutdown`), `Crash` |
| `Create`, `Delete` | `CreateKey`, `DeleteKey` |
| `Authenticate`, the handler after it | `Authenticate`, `Answer` |
| `TouchLastUsed` | `BeginTouch` (its `now()`), `EndTouch`, `FailTouch` |
| `main` with requests under way | `ExitServed`, `CrashServed` |

A migration is a number; of its SQL there is only whether it can run twice
(`Repeatable`: the seed with ON CONFLICT, and a constraint that is dropped first). `ran`
counts commits. `seen` and `used`, `blurred` are history: what an instance knew when it
last looked, when a key was used last, and whether the note of that use met another
one or was lost.

### RateLimitStore

`Read` is `readRow`; `Decide` reads the clock; `Create` inserts. The other two statements of
`consume` are the adapter's `incrementOne`, an UPDATE ... WHERE id IN (SELECT id WHERE *guard*
LIMIT 1) (`packages/kysely-adapter/src/kysely-adapter.ts`, 944-966), in two steps:
`Reset` and `Increment` are the sub-select, which evaluates the guard and chooses the row;
`ResetWrite` and `IncrementWrite` are the write, after a wait for the row if there is one. On
Postgres (READ COMMITTED) and SQL Server the guard is not evaluated again by then, and
the write goes to the row as others have left it; only a row that was deleted is missed.
MySQL's branch with FOR UPDATE and SQLite let nobody in between: theirs are the behaviours
in which the two steps follow one another.

`fate[r]` is what others have done to the row since `r` looked at it; ids are unique, so a row
that was deleted and created anew is gone for those who chose the old one. A write is
`Overtaken` if its guard held when the row was chosen and no longer does. `Reread` and `Fresh`
are the reads after a miss, `Again` the recursive call. `CreateFails` is an error of the
database, with the row in place or not. `Sweep` is a deletion on its way, with the time it
was started with. A number of ticks may pass between any two steps. `granted` is the
history of allowed requests; `late` is the longest time that passed between a request's
`Date.now()` and its write, and more than any period once a write was overtaken.

### TeamLists, Pagination

The lists are operators over the tables, one for each query: `OrgUsers`,
`TeamMembers`, `NotInTeam`, `MemberCount`. Of the filters there is the status; those
that match text are left out, and of the columns only the id is kept. `Orders` is
the set of orders that an ORDER BY leaves open: one, for each ends with the id. `Pagination` computes offsets and
page counts as the code does, with ints of a limited range (`IntEnd` is 2^63 in the
code).

### Accounts, LoginLimiter

`Accounts`: each change reads a whole row (`call[r].base`), changes one column of the
copy (`call[r].row`) and writes it back (`Update`), or inserts a new row (`Create`);
`GoogleEmail` is the second query of `GoogleCallback`. `settled` holds every
acknowledged change, `clobbered` the accounts on which a request has overwritten a row
that changed since it was read. UpdateProfile and AddMember differ only in who
calls them.

`LoginLimiter`: `Login`, `Check` (GET), `Compare` (password), `Count` (INCR, EXPIRE, each of
which Redis may drop). Which password is right is left open.

## 4. What the runs check

| run | shows |
|---|---|
| `sessions_rotation_and_logout` | A logout or rotation that met no failing store and no overlapping authentication leaves nothing behind (`CleanEndIsFinal`); a token whose row is gone is never redeemed (`EndedTokenNotRedeemed`); no admission past the expiry, with an access token that lives no longer than a session (`AdmissionWithinLifetime`); `Sessions` implements `SessionContract` (`KeepsContract`) |
| `organizations_all_operations` | Every status is one the tables allow (`TypeOK`); a sign-up that reports success has settled all invites it had listed (`SignupSettles`); the owner stands (`OwnerStands`); `OrgMembership` implements `OrgContract` (`KeepsOrgContract`) |
| `organizations_join` | The same over a pool of two connections, while sign-ups join two organizations; if nobody updates invites, they are accepted by those they are addressed to (`AcceptedByRecipient`). The pool comes to a standstill only when sign-ups that accept invites have all of it (`StuckOnlyJoining`; with two connections and two sign-ups the run reaches it), and with one connection more than such sign-ups every request ends (`PoolServes`) |
| `teams_joining_and_leaving` | Placeholders are of invites of the team's organization (`PlaceholdersBelong`); seats are of people who were members (`TeamsFromOrg`); accepting clears no placeholder without giving a seat (`NoPlaceLost`); lists agree (`ListsAgree`) and their pages cover them (`PagesCoverList`); every request on an organization (`RequestsFinish`) and on a team (`TeamRequestsFinish`) ends |
| `login_limit` | At most `Limit + \|Request\| - 1` wrong passwords are answered before a counter expires (`GuessesBounded`); a lockout ends although the client keeps trying (`LockoutEnds`) |
| `accounts` | Changes are lost by overlapping whole-row writes only (`ChangesKept`); every account keeps a password or a Google link (`WayIn`); a Google id is linked to one account (`GoogleIdentifiesOne`) |
| `gateway_starts_and_keys` | An instance that serves has every migration applied, each once (`ServingComplete`); a start fails only where the schema has moved on (`FailedBehind`), and none hangs (`StartsEnd`); a deleted key stays deleted and lets nobody in (`DeletedForGood`); `last_used_at` is not behind the last use unless its note met another or was lost (`LastUseNoted`) |
| `rate_limit_storage` | No more than the maximum are allowed in a period of the window's length, less the time by which a slow request dates its row back, for windows as long as the deletion of old rows knows and as long as no write of the key was overtaken (`LimitHolds`); overtaken writes count at most `Limit - 1 + \|Request\|` (`TypeOK`); a request begins again only if the row has been written or deleted since it looked (`RetryMeansProgress`) |

Each of these properties is broken by a mutant of the code's definitions, listed
in `PROJECT.json`; the mutants are in the modules, next to what they replace.

Four runs are expected to find a violation, of something the documentation or a
test says:

| run | what it finds |
|---|---|
| `sessions_double_refresh` | Two refreshes with one cookie both read the row before either deletes it, and both get a new session; the documentation says the token is rotated |
| `sessions_logout_backfill` | A request that read the row before a logout writes the cached copy back after it, and the cookie is admitted until the session expires; the documentation says the session is invalidated |
| `organizations_recipient` | An invite is readdressed between the comparison of its email and its acceptance; the documentation says the user must be the recipient |
| `accounts_password_change` | A profile change that read the row before a password change restores the old password; the test of ChangePassword says it no longer works |

Six behaviours were met on the way that no run calls a violation. The first contradicts
comments of the code; of the others no document speaks:

- Overlapping requests can exceed the limit of better-auth's limiter on Postgres and SQL
  Server: two increments at one below the maximum both choose the row, and the second
  counts above it; two resets of one elapsed window both succeed, so that the second
  restarts the count (`kysely-adapter.ts:944-966`). The comments say that "a burst of concurrent
  requests can never exceed the limit" (`rate-limiter/index.ts:189-191`) and that the
  primitive is "race-safe" (`packages/core/src/db/adapter/index.ts:490-493`). In the model such a
  write is `Overtaken`; in `MCRateLimitStore` the invariant `row[k].count <= Limit[k]` fails, which
  is why `TypeOK` says a larger number and `LimitHolds` has the exception.
- Two invites of one organization can be accepted by one user at once, if the first is
  readdressed to somebody else after its check and the second is sent to him then. If he is an
  active member by that time (added by an `AddMember` that overlaps), neither transaction
  writes his membership, and they meet at the promotion only: if both invites have
  placeholders in the same two teams, each promotion can hold the row that the other waits for
  (`repository/app_org_pg.go:670`), until Postgres detects the circle and aborts one
  (`AbandonTransaction`). No property says that this does not happen.
- As many sign-ups as the pool has connections, each with a pending invite, wait for each
  other for ever (`repository/app_org_pg.go:717`). `StuckOnlyJoining` says how it happens.
- A placeholder removed between its promotion and the commit comes back as a seat,
  after the removal was confirmed (`repository/app_org_pg.go:669`, `:681`).
- better-auth deletes the rows of a rule whose window is longer than the default ones
  before the window has passed (`rate-limiter/index.ts:225`), so that its count begins
  anew.
- At a distance of exactly one window the same limiter turns a request away whatever
  the count (`:168` and `:197` exclude the boundary both).

### Bounds, and why they are enough

- Requests: two or three at a time. Every race in the hazards list needs two
  requests that overlap; a third one is there where two of them change what the
  third has read (`organizations_all_operations`), and where the limiter's bound
  depends on their number. Requests are reused, so sequences are as long as ids and
  time allow.
- Tokens, invites, organizations, teams: one or two (three tokens where one is
  to have two successors). They are created once, and operations on different ones
  meet only in a user's list of invites, for which `organizations_join` has two
  organizations and two invites.
- Three users in organizations: the owner, the invited and another one to whom an
  invite is readdressed. In the teams' runs the owner and one more.
- The pool has two connections for two requests: enough for a standstill, and for a
  state with a connection to spare.
- Two instances, three migrations of which one can run twice (`Migrations`): the second
  instance can be behind, level with or ahead of the first at each file. Two goroutines
  of one key, so that their notes can meet; clock up to 3. Two instances may crash and
  start as often as they like.
- `MaxTime` bounds the clock of each model for TLC. No property of a passing run waits for
  it to stop: those of `RateLimitStore` and `Sessions` are about states and steps.
- Two rate limit keys (window 1, maximum 2; window 2, maximum 1, longer than the
  deletion knows), two requests, clock up to 3: a window can open, elapse and open
  again, with a deletion from the first reset still on its way.
- Lifetimes 1, clock up to 2 (Sessions): a session can expire, and a second one be
  issued after that.
- Limit 2, window 2, up to two failures of Redis (LoginLimiter).
- `Ops` and `TeamOps` narrow a run to the operations it is about; `IdsLeft` starts
  no request that might need an id when none is left.
- `MaxPick`: ids in a request on teams. Pages of one or two rows for lists of up to
  three, so that the last page may be full or not; `IntEnd` 8.

CHECK_DEADLOCK FALSE stands in the runs on organizations and teams: once every
user is registered and every id is used, nothing may be left to do with the
operations of the run; and in `organizations_join` the pool can come to a standstill.
In the other models there always is something to do, and deadlock is checked. That no
request is stuck before is what `RequestsFinish` and `PoolServes` say.

Symmetry is used for interchangeable model values in runs without liveness.

### Fairness

`OrgTeams`: strong fairness of the next step of each request (`TeamFairness`). A
handler runs on by itself, and Postgres grants the lock of a row to those who wait
for it in turn; weak fairness would let others take it for ever between. No
fairness for the beginning or the abandonment of a request. `LoginLimiter`: weak
fairness of each request's steps and of time. `ConnPool`: strong fairness of the next
step, `Acquire` or `Statement`, of each request, since pgxpool serves those who wait in turn, as Postgres does.
`ApiKeys`: strong fairness of an instance's steps in `RunMigrations`, for the locks on
uncommitted migrations; nothing else is fair, starts and crashes least of all.
`RateLimitStore` has no fairness: a request that loses the reset of every window begins
again for ever, and nothing in the code forbids it.

## 5. What is proved

For every value of the constants, under the assumptions in the modules (the
values that stand for "none" are none of the ids, ids of users and invites are
disjoint, lifetimes and limits are positive, the sets of requests of the two limiters
and of the pool are finite, and in the lists there are fewer ids than an int can count).
That a limit is positive excludes rules with a maximum of 0, with which better-auth's
limiter would still allow the request that creates or resets a row. Two theorems on
sessions have one assumption more, `SessionOutlivesAccess`: an access token does not live
longer than a session. The code takes both lifetimes from the environment
(`config/config.go:38-39`) and compares nothing, so they are theorems about configurations
like the default one, 15 minutes and 7 days.

**Sessions** (`SessionsProofs`). `CleanEndIsFinal` alone is not inductive: a cached
copy can be written by a request that has already read the row. `IInv` adds which
tokens a request at each step can have in hand (`TokensInHand`), that the
access granted under a session does not outlast it by more than the access token's
lifetime exceeds the session's (`Lifetimes`; by nothing in the usual order), and that a removal that is under
way is marked as soon as an authentication overlaps it (`Removal`). From it follow
`TypeCorrect` and `CleanEnd` for any lifetimes, and, if `SessionOutlivesAccess`,
`AdmissionBounded` and the refinement `SessionsImplementContract`, each step of which is a
step of the contract or a stutter.
`LateRefreshFails` needs one more invariant, `LateInv`: a token whose row was gone
when a request began keeps no row, since rows do not come back.

**OrgMembership** (`OrgMembershipProofs`). `IInv` is the conjunction of `TypeOK`, `Owners`
(an organization has one owner at most, and he is active), `Invites` (a
used invite is of an organization with an owner), `Locking` (a row is locked just while
its holder is between lock and commit), `Requests` (what each request knows at each
step, by `Knows`) and `Joins` (what a sign-up still owes of the invites it had listed, by
`Owes`). `TypeCorrect`, `SignupSettled`, `OwnerForEver` and the refinement
`OrgMembershipImplementsContract` follow; `OnlyRecipientsAccept` has one more
invariant, that a request on an invite has its address.

**OrgTeams** (`OrgTeamsProofs`). `TeamsKeepOrganizations`: each step with teams is a step
of `OrgMembership` or a stutter, so that its invariants and theorems hold with teams as
well and are used here. `TInv` adds that seats belong (`SeatsBelong`), that members are
in the history (`MembersJoined`), that what a transaction has promoted stays true until
its commit because the row of the invite is locked (`Promoting`), and what a request
on a team has checked (`Checked`). From it `PlaceholdersAlwaysBelong`,
`TeamsAlwaysFromOrg`, `NoPlaceEverLost`. Nothing is
proved of waiting: that every request ends is model-checked for one invite, and two
acceptances by one user can wait for each other (section 4). The invariants hold there,
too, whoever is aborted.

**LoginLimiter** (`LoginLimiterProofs`). The bound is not inductive: requests past the
check will still answer. `Counted` bounds the answers given plus the requests past
the check by `Limit - 1 + |Request|`.

**Accounts** (`AccountsProofs`). `Calls` says that the copy in a request's hand differs
from the row it read in one column (`OneColumn`) and is a row one can sign in with;
`Alongside`, that the history knows every account.

**TeamLists, Pagination** (`OrgTeamsProofs`, last parts). `ListsAlwaysAgree` needs no invariant of its own:
that the list of who is in a team and of who can be added split the organization's
users follows from `PlaceholdersBelong`, and that the count differs by former members only
from `TeamsFromOrg` (`ListsPartition`, `CountsFormer`), for finite sets of users and invites.
`EveryRowOnOnePage`: for every length and every limit asked for, each row is on exactly
one of the counted pages; `OffsetExact`: up to the last one, no offset leaves the range of
an int. `PagesAlwaysCoverList` puts them together for the lists of a reachable state, whose
lengths fit an int because the ids do (`ListsAssumption`, `ListsFit`): pages repeat and omit
nothing, and the page after the last has no rows, whether its offset overflows (it is
negative then, and Postgres refuses it) or not.

**ConnPool** (`ConnPoolProofs`), for a finite set of requests and a pool of any size.
`PoolKeepsOrganizations`: each step with the pool is one of `OrgMembership` or a stutter.
`PInv`: no more connections are in use than the pool has (`Bounded`; the number is a sum of
two cardinalities, and each step moves at most one request into or between the two
sets), and who has one is where he needs it (`Holders`). `OnlyJoiningSticks`: suppose nobody can
go on. A request without a connection waits for one, so all are used; a request with one
waits for a row, and by `Locking` of `OrgMembership` the holder of that row has a
transaction with a connection and could go on. So no request has one for its next
step, and all belong to open lists.

**Migrations, ApiKeys** (`ApiKeysProofs`). `ServingComplete` is not inductive: it says nothing of
instances on their way. `MInv` adds that the recorded migrations are those that were run,
once each (`Applied`), that uncommitted transactions are at different files (`Alone`),
and what each instance knows at each step: the rows it saw are still there (`Known`), all files
before its place are recorded (`Passed`), and inside a transaction nobody has been faster
(`AtWork`). `AlwaysServingComplete` and `AlwaysFailedBehind` follow, for every number of instances
and migrations. `KInv` adds that a note on its way is of a
key and not of the future (`Touches`), that a key nobody created was never used (`Uses`),
and that the note of a use that met no other is the only one on its way and not earlier
than the use (`Notes`); `KeysTypeCorrect`, `LastUseAlwaysNoted` and `DeletedKeysStayDeleted`
follow.

**RateLimitStore** (`RateLimitStoreProofs`), for any keys and rules and a finite set of
requests. A request that has chosen a row for an increment will write it whatever others make
of it: `Bounded` adds those (`Aimed`) to the count, and `TypeCorrect` is what it leaves, that no row
counts more than the maximum less 1 plus the number of requests. `Knows` relates what a
request has read and chosen to the row, as far as `fate` says that it is still that row;
`RetriesMeanProgress` follows: by itself, each guard would hold for the row that was read.
`LimitHolds` is about any period, but only the one that reaches up to now can still grow.
`IInv` says of that one (`Recent`), if no write was overtaken, that the row of its key is there
and dated no earlier than its last grant less `late` (`RowIsDated`), and that it counts
the grants (`RowCounts`). A write that is not overtaken finds its guard true: an increment
then keeps within the limit by the guard on the count, a reset by that on the date,
since the window of the row had elapsed by his now; and a deletion by age finds no row
with a recent grant. `Past`: times that were read are not ahead of the clock. `LimitIsKept`
is therefore no statement about bursts on Postgres or SQL Server, whose writes may be
overtaken; it says that nothing else breaks the limit. Its sums are a fold. The library's
induction cannot be used, so the facts about sums (`SumTake`, `SumMonotone`, `SumOneMore` and what
they rest on) are proved by a smallest counterexample: strict inclusion is well-founded
on the subsets of a finite set.

**Only model-checked.** Liveness (`RequestsFinish`, `TeamRequestsFinish`, `PoolServes`, `StartsEnd`,
`LockoutEnds`): the prover handles neither fairness nor ENABLED. Every
invariant and every action property of a passing run is a theorem. The four violations
are traces of TLC.

## 6. Limits of the models

- Data that no property tells apart is left out: names, phones, app slugs, user
  agents, hashing, JWT encoding, text filters, audit columns.
- READ COMMITTED is modelled for the statements that are there: a statement sees
  what was committed when it ran, and after a wait what is committed then. The
  exception is the sub-select of the Kysely adapter, which sees nothing after the wait
  (`RateLimitStore`).
- The writes of an acceptance on members and invites are placed at its commit, between
  which and its lock nobody else sees them; those on teams are separate steps, since others
  wait for them.
- `requireAvailableApp` and the handlers' parsing are assumed to succeed; a request
  refused there changes nothing.
- Pages are about a list that does not change. Count and rows of a page are two
  queries, and so are two pages: rows moved by others between them can be missed
  or repeated.
- A migration that fails by itself (bad SQL) is not modelled; neither is a deletion of a
  user, which no operation of the gateway does.
- `Date.now()` is one clock for all servers of better-auth.
- The order in which a sign-up takes its invites is left open, as is which of
  several waiting requests gets a row lock.
