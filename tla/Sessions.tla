------------------------------- MODULE Sessions -------------------------------
(***************************************************************************)
(* Refresh sessions of the gateway: the rows of refresh_sessions in        *)
(* Postgres, the best-effort copies of them in Redis, and the requests     *)
(* that read and write both, one store access per step, interleaved.       *)
(*                                                                         *)
(*   login (also sign-up and Google sign-in) -> issueTokens                *)
(*   POST /api/auth/refresh                  -> AuthService.Refresh        *)
(*   POST /api/auth/logout                   -> AuthService.Logout         *)
(*   any protected route                     -> middleware.Auth            *)
(*                                                                         *)
(* Credentials are checked elsewhere.  A token is a model value: a fresh   *)
(* random 32-byte token never equals an older one.  All processes and      *)
(* stores share one clock.                                                 *)
(***************************************************************************)
EXTENDS Naturals, FiniteSets

CONSTANTS
    Token,        \* refresh tokens that can be minted
    User,
    Request,      \* requests in progress at the same time
    NoToken,
    NoUser,
    RefreshTTL,   \* lifetime of a refresh session
    AccessTTL,    \* lifetime of an access token
    MaxTime,      \* bound of the clock
    Faults        \* the stores whose calls may fail: {"redis", "postgres"}

ASSUME TTLAssumption ==
    /\ RefreshTTL \in Nat \ {0}
    /\ AccessTTL \in Nat \ {0}
    /\ MaxTime \in Nat
ASSUME NoTokenAssumption == NoToken \notin Token
ASSUME NoUserAssumption == NoUser \notin User

\* The two lifetimes are read one by one, and nothing compares them: by default the access
\* token's is the shorter one.
SessionOutlivesAccess == AccessTTL <= RefreshTTL

\* How long an access token may outlive the session it is issued with.
Overhang == IF SessionOutlivesAccess THEN 0 ELSE AccessTTL - RefreshTTL

VARIABLES
    now,
    sessions,     \* rows of refresh_sessions, by token
    cache,        \* keys refresh_session:<hash> in Redis, by token
    owner,        \* owner[t], expires[t]: the row's user_id and expires_at,
    expires,      \*   fixed when t is minted (0 before)
    held,         \* tokens some client has received in a cookie
    access,       \* access[t]: expiry of the newest access JWT minted under t
    pc, tok,      \* each request's next step and the token it works on
    parent,       \* history: the token a refresh exchanged for this one
    loggedOut,    \* history: tokens whose logout was answered "logged out"
    rotated,      \* history: tokens a refresh has removed from both stores
    tainted,      \* history: tokens whose removal failed in part or overlapped
                  \*   a request authenticating with them
    late          \* history: late[r] if tok[r] was loggedOut or rotated, and
                  \*   its row gone, when r began to work on it

stores == <<sessions, cache, owner, expires>>
history == <<parent, loggedOut, rotated, tainted>>
vars == <<now, stores, held, access, pc, tok, history, late>>

AuthFlight == {"auth_get", "auth_lookup", "auth_backfill"}
RefreshFlight == {"refresh_lookup", "refresh_delete", "refresh_uncache"}
LogoutFlight == {"logout_uncache", "logout_delete"}
Step == AuthFlight \union RefreshFlight \union LogoutFlight
        \union {"idle", "auth_check", "admitted", "create", "cache_new"}

Minted == {t \in Token : expires[t] > 0}

TypeOK ==
    /\ now \in 0..MaxTime
    /\ sessions \subseteq Minted /\ cache \subseteq Minted /\ held \subseteq Minted
    /\ owner \in [Token -> User \union {NoUser}]
    /\ expires \in [Token -> 0..MaxTime]
    /\ access \in [Token -> 0 .. MaxTime + Overhang]
    /\ pc \in [Request -> Step]
    /\ tok \in [Request -> Token \union {NoToken}]
    /\ parent \in [Token -> Token \union {NoToken}]
    /\ loggedOut \subseteq held /\ rotated \subseteq held /\ tainted \subseteq held
    /\ late \in [Request -> BOOLEAN]

Init ==
    /\ now = 0
    /\ sessions = {} /\ cache = {} /\ held = {}
    /\ owner = [t \in Token |-> NoUser]
    /\ expires = [t \in Token |-> 0]
    /\ access = [t \in Token |-> 0]
    /\ pc = [r \in Request |-> "idle"]
    /\ tok = [r \in Request |-> NoToken]
    /\ parent = [t \in Token |-> NoToken]
    /\ loggedOut = {} /\ rotated = {} /\ tainted = {}
    /\ late = [r \in Request |-> FALSE]

-------------------------------------------------------------------------------
\* Helpers

\* GetByTokenHash finds the row: expires_at > now().
Live(t) == t \in sessions /\ now < expires[t]

\* Redis still has the key: Set gave it the TTL until expires_at.
Cached(t) == t \in cache /\ now < expires[t]

Goto(r, from, to) == pc[r] = from /\ pc' = [pc EXCEPT ![r] = to]

\* Request r ends: its answer is sent, or it died.
Finish(r) ==
    /\ pc' = [pc EXCEPT ![r] = "idle"]
    /\ tok' = [tok EXCEPT ![r] = NoToken]
    /\ late' = [late EXCEPT ![r] = FALSE]

\* Some request is at one of the steps S with token t.
Busy(t, S) == \E q \in Request : tok[q] = t /\ pc[q] \in S

Taint(t, condition) == tainted' = IF condition THEN tainted \union {t} ELSE tainted

\* Request r starts to work on a token t that a client sent, at step "to".
Present(r, t, to) ==
    /\ t \in held
    /\ pc' = [pc EXCEPT ![r] = to]
    /\ tok' = [tok EXCEPT ![r] = t]
    /\ late' = [late EXCEPT ![r] = t \in (loggedOut \union rotated) \ sessions]
    /\ Taint(t, IF to = "auth_get" THEN Busy(t, RefreshFlight \union LogoutFlight)
                                   ELSE Busy(t, AuthFlight))

\* A best-effort Del: its error is ignored.
Uncache(t) ==
    \/ cache' = cache \ {t}
    \/ "redis" \in Faults /\ UNCHANGED cache

\* A best-effort Set: nothing is cached past expires_at, its error is ignored.
Encache(t) ==
    \/ cache' = IF now < expires[t] THEN cache \union {t} ELSE cache
    \/ "redis" \in Faults /\ UNCHANGED cache

\* Mutant of AccessExpiry: ttl = accessTTL.
AccessExpiryFull(t) == now + AccessTTL

\* The access token minted from a refresh session: ttl = min(accessTTL, rest).
AccessExpiry(t) ==
    IF expires[t] - now < AccessTTL THEN expires[t] ELSE now + AccessTTL

-------------------------------------------------------------------------------
\* Mutants: mistakes the code might have made.  No action uses them; each is
\* substituted for the definition it is named after to see a property fail.

\* The access token is minted when the answer is sent.
CacheNewLateMint(r) ==
    LET n == tok[r] IN
    /\ pc[r] = "cache_new"
    /\ Encache(n)
    /\ held' = held \union {n}
    /\ access' = [access EXCEPT ![n] = now + AccessTTL]
    /\ Finish(r)
    /\ UNCHANGED <<now, sessions, owner, expires, history>>

\* Refresh trusts the cache, as the middleware does.
RefreshLookupCacheFirst(r) ==
    /\ pc[r] = "refresh_lookup"
    /\ IF Cached(tok[r]) \/ Live(tok[r])
       THEN Goto(r, "refresh_lookup", "refresh_delete") /\ UNCHANGED <<tok, late>>
       ELSE Finish(r)
    /\ UNCHANGED <<now, stores, held, access, history>>

\* The rotation forgets the cache.
RefreshNoUncache(r) ==
    /\ Goto(r, "refresh_uncache", "create")
    /\ rotated' = rotated \union {tok[r]}
    /\ UNCHANGED <<now, stores, held, access, tok, parent, loggedOut, tainted, late>>

\* The expiry of the session that was read is not checked again.
AuthCheckNone(r) ==
    /\ Goto(r, "auth_check", "admitted")
    /\ access' = [access EXCEPT ![tok[r]] = AccessExpiry(tok[r])]
    /\ UNCHANGED <<now, stores, held, tok, history, late>>

-------------------------------------------------------------------------------
\* issueTokens: the tail of every sign-in and of Refresh

\* Signup, Login and GoogleCallback reach issueTokens once the user is known.
SignIn(r) ==
    /\ Goto(r, "idle", "create")
    /\ UNCHANGED <<now, stores, held, access, tok, history, late>>

\* The row is inserted: for the user who signs in (tok[r] = NoToken), or for
\* the owner of the session that is being rotated.
CreateSession(r, n, u) ==
    /\ Goto(r, "create", "cache_new")
    /\ n \notin Minted
    /\ now + RefreshTTL <= MaxTime
    /\ tok[r] \in Token => u = owner[tok[r]]
    /\ sessions' = sessions \union {n}
    /\ owner' = [owner EXCEPT ![n] = u]
    /\ expires' = [expires EXCEPT ![n] = now + RefreshTTL]
    /\ parent' = [parent EXCEPT ![n] = tok[r]]
    /\ tok' = [tok EXCEPT ![r] = n]
    /\ late' = [late EXCEPT ![r] = FALSE]
    /\ UNCHANGED <<now, cache, held, access, loggedOut, rotated, tainted>>

\* The new session is cached, then both cookies go to the client; the access
\* token was minted when the row was created.
CacheNew(r) ==
    LET n == tok[r] IN
    /\ pc[r] = "cache_new"
    /\ Encache(n)
    /\ held' = held \union {n}
    /\ access' = [access EXCEPT ![n] = expires[n] - RefreshTTL + AccessTTL]
    /\ Finish(r)
    /\ UNCHANGED <<now, sessions, owner, expires, history>>

-------------------------------------------------------------------------------
\* Refresh

BeginRefresh(r, t) ==
    /\ pc[r] = "idle"
    /\ Present(r, t, "refresh_lookup")
    /\ UNCHANGED <<now, stores, held, access, parent, loggedOut, rotated>>

RefreshLookup(r) ==
    /\ pc[r] = "refresh_lookup"
    /\ IF Live(tok[r]) THEN Goto(r, "refresh_lookup", "refresh_delete") /\ UNCHANGED <<tok, late>>
                       ELSE Finish(r)
    /\ UNCHANGED <<now, stores, held, access, history>>

\* DELETE ... WHERE token_hash = $1: that it removed no row is not noticed.
RefreshDelete(r) ==
    /\ Goto(r, "refresh_delete", "refresh_uncache")
    /\ sessions' = sessions \ {tok[r]}
    /\ UNCHANGED <<now, cache, owner, expires, held, access, tok, history, late>>

RefreshUncache(r) ==
    /\ Goto(r, "refresh_uncache", "create")
    /\ Uncache(tok[r])
    /\ rotated' = rotated \union {tok[r]}
    /\ Taint(tok[r], tok[r] \in cache')
    /\ UNCHANGED <<now, sessions, owner, expires, held, access, tok, parent, loggedOut, late>>

-------------------------------------------------------------------------------
\* Logout

BeginLogout(r, t) ==
    /\ pc[r] = "idle"
    /\ Present(r, t, "logout_uncache")
    /\ UNCHANGED <<now, stores, held, access, parent, loggedOut, rotated>>

LogoutUncache(r) ==
    /\ Goto(r, "logout_uncache", "logout_delete")
    /\ Uncache(tok[r])
    /\ Taint(tok[r], tok[r] \in cache')
    /\ UNCHANGED <<now, sessions, owner, expires, held, access, tok, parent, loggedOut, rotated, late>>

\* The handler drops the error of Logout and answers "logged out" in any case.
LogoutDelete(r) ==
    /\ pc[r] = "logout_delete"
    /\ \/ sessions' = sessions \ {tok[r]}
       \/ "postgres" \in Faults /\ UNCHANGED sessions
    /\ loggedOut' = loggedOut \union {tok[r]}
    /\ Taint(tok[r], tok[r] \in sessions')
    /\ Finish(r)
    /\ UNCHANGED <<now, cache, owner, expires, held, access, parent, rotated>>

\* DeleteAllForUser, one statement; the cache is not told.
LogoutAll(u) ==
    /\ sessions' = {t \in sessions : owner[t] # u}
    /\ sessions' # sessions
    /\ UNCHANGED <<now, cache, owner, expires, held, access, pc, tok, history, late>>

-------------------------------------------------------------------------------
\* middleware.Auth

\* A valid access cookie: no store is asked.
AuthAccess(r, t) ==
    /\ pc[r] = "idle"
    /\ t \in held /\ now < access[t]
    /\ pc' = [pc EXCEPT ![r] = "admitted"]
    /\ tok' = [tok EXCEPT ![r] = t]
    /\ UNCHANGED <<now, stores, held, access, history, late>>

BeginAuth(r, t) ==
    /\ pc[r] = "idle"
    /\ Present(r, t, "auth_get")
    /\ UNCHANGED <<now, stores, held, access, parent, loggedOut, rotated>>

AuthCacheGet(r) ==
    /\ \/ Cached(tok[r]) /\ Goto(r, "auth_get", "auth_check")
       \/ (~Cached(tok[r]) \/ "redis" \in Faults) /\ Goto(r, "auth_get", "auth_lookup")
    /\ UNCHANGED <<now, stores, held, access, tok, history, late>>

\* The cookie is no good: 401, or the next cookie of the request is tried
\* (any token a client holds: browsers may send several eol_refresh cookies).
AuthNextCookie(r) ==
    /\ \/ Finish(r) /\ UNCHANGED tainted
       \/ \E t \in Token : Present(r, t, "auth_get")
    /\ UNCHANGED <<now, stores, held, access, parent, loggedOut, rotated>>

AuthLookup(r) ==
    /\ pc[r] = "auth_lookup"
    /\ \/ /\ Live(tok[r])
          /\ Goto(r, "auth_lookup", "auth_backfill")
          /\ UNCHANGED <<now, stores, held, access, tok, history, late>>
       \/ (~Live(tok[r]) \/ "postgres" \in Faults) /\ AuthNextCookie(r)

AuthBackfill(r) ==
    /\ Goto(r, "auth_backfill", "auth_check")
    /\ Encache(tok[r])
    /\ UNCHANGED <<now, sessions, owner, expires, held, access, tok, history, late>>

AuthCheck(r) ==
    /\ pc[r] = "auth_check"
    /\ \/ /\ now <= expires[tok[r]]
          /\ Goto(r, "auth_check", "admitted")
          /\ access' = [access EXCEPT ![tok[r]] = AccessExpiry(tok[r])]
          /\ UNCHANGED <<now, stores, held, tok, history, late>>
       \/ now > expires[tok[r]] /\ AuthNextCookie(r)

\* The protected handler has run.
Answer(r) ==
    /\ pc[r] = "admitted"
    /\ Finish(r)
    /\ UNCHANGED <<now, stores, held, access, history>>

-------------------------------------------------------------------------------
\* The environment

\* A store call that returns an error the code passes on, a cancelled request
\* or a crash of the gateway: the request stops between two steps.
Abandon(r) ==
    /\ pc[r] # "idle"
    /\ Finish(r)
    /\ UNCHANGED <<now, stores, held, access, history>>

\* Redis drops a key: eviction, expiry or a restart of the cache.
CacheEvict(t) ==
    /\ t \in cache
    /\ cache' = cache \ {t}
    /\ UNCHANGED <<now, sessions, owner, expires, held, access, pc, tok, history, late>>

Tick ==
    /\ now < MaxTime
    /\ now' = now + 1
    /\ UNCHANGED <<stores, held, access, pc, tok, history, late>>

Advance(r) ==
    \/ RefreshLookup(r) \/ RefreshDelete(r) \/ RefreshUncache(r)
    \/ LogoutUncache(r) \/ LogoutDelete(r)
    \/ AuthCacheGet(r) \/ AuthLookup(r) \/ AuthBackfill(r) \/ AuthCheck(r) \/ Answer(r)
    \/ (\E n \in Token, u \in User : CreateSession(r, n, u)) \/ CacheNew(r)

Begin(r) ==
    \/ SignIn(r)
    \/ \E t \in Token :
        BeginRefresh(r, t) \/ BeginLogout(r, t) \/ BeginAuth(r, t) \/ AuthAccess(r, t)

Next ==
    \/ \E r \in Request : Begin(r) \/ Advance(r) \/ Abandon(r)
    \/ \E u \in User : LogoutAll(u)
    \/ \E t \in Token : CacheEvict(t)
    \/ Tick

Spec == Init /\ [][Next]_vars

-------------------------------------------------------------------------------
\* Properties

\* A logout (AuthService.Logout) or rotation (AuthService.Refresh) that ran to
\* its end without a store failure, and without a request that was meanwhile
\* authenticating with the same token, leaves no trace of the session in either
\* store, ever again: only those two circumstances let a session survive.
CleanEndIsFinal ==
    \A t \in (loggedOut \union rotated) \ tainted : t \notin sessions \union cache

\* AuthService.Refresh asks Postgres, never the cache: a token that was logged
\* out or rotated, and whose row was gone, when the request began cannot be
\* exchanged, whatever Redis still holds and whichever store fails.
EndedTokenNotRedeemed ==
    \A r \in Request : late[r] => pc[r] \notin {"refresh_delete", "refresh_uncache", "create"}

\* The middleware never admits a request after the expiry of the session behind
\* it, be it by the access cookie, the cache or the row, however long the
\* request waited between its steps (if SessionOutlivesAccess).
AdmissionWithinLifetime ==
    [][\A r \in Request :
          pc[r] # "admitted" /\ pc'[r] = "admitted" => now <= expires[tok'[r]]]_vars

\* Where the contract's session t stands: rows make it live; once withdrawn, a
\* cache entry or a request about to write or use a copy keeps it lingering.
StandingOf(t) ==
    IF t \notin Minted THEN "unissued"
    ELSE IF t \in sessions THEN "live"
    ELSE IF t \in cache \/ Busy(t, {"cache_new", "auth_backfill", "auth_check"})
         THEN "lingering"
    ELSE "dead"

Contract == INSTANCE SessionContract
                WITH Instant <- 1..MaxTime,
                     standing <- [t \in Token |-> StandingOf(t)],
                     deadline <- expires,
                     access <- access

\* The two stores and the interleaved requests keep the promise of
\* SessionContract: once no copy of a withdrawn session is left it never grants
\* access again, and no access token outlives its session (if
\* SessionOutlivesAccess).
KeepsContract == Contract!ContractSpec

\* What the documentation of POST /api/auth/refresh says ("Rotates the refresh
\* token"): a refresh token is exchanged for one successor at most.
RotationSingleUse ==
    \A m, n \in Minted : parent[m] = parent[n] /\ parent[m] \in Token => m = n

\* What the documentation of POST /api/auth/logout says ("Invalidate the current
\* session"): a request that begins after a logout was answered is not admitted
\* by the refresh cookie that was logged out.
LogoutInvalidates ==
    \A r \in Request : pc[r] = "admitted" /\ late[r] => tok[r] \notin loggedOut
===============================================================================
