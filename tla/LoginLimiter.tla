------------------------------ MODULE LoginLimiter ------------------------------
(***************************************************************************)
(* The limit on failed logins: a counter in Redis for each pair of client  *)
(* address and email, read before the password is looked at and            *)
(* incremented after it has turned out wrong, by requests that overlap.    *)
(*                                                                         *)
(*   POST /api/auth/login -> AuthService.Login -> RateLimiterRedis         *)
(*                                                                         *)
(* Which password is right is left open.  Errors of Redis are dropped by   *)
(* Login: a counter that cannot be read counts as zero, and a failure that *)
(* cannot be counted is forgotten.                                         *)
(***************************************************************************)
EXTENDS Naturals, FiniteSets

CONSTANTS
    Key,          \* ip + ":" + email
    Request,      \* requests in progress at the same time
    NoKey,
    Limit,        \* attempts >= Limit: too many (10 in the code)
    Window,       \* EXPIRE of the counter (15 minutes in the code)
    MaxFaults     \* bound: calls to Redis that fail

ASSUME LimitAssumption == Limit \in Nat \ {0} /\ Window \in Nat \ {0} /\ MaxFaults \in Nat
ASSUME NoKeyAssumption == NoKey \notin Key
ASSUME RequestAssumption == IsFiniteSet(Request)

VARIABLES
    attempts,     \* the value of login_attempts:<key>, 0 if there is none
    ttl,          \* time left to the key, 0 if it has no expiry (or is not there)
    pc, key,      \* each request's next step and the key it counts on
    refused,      \* history: answers "invalid credentials" since the counter last expired
    faulted,      \* history: keys on which a call to Redis has failed since then
    faults        \* number of failed calls

vars == <<attempts, ttl, pc, key, refused, faulted, faults>>

TypeOK ==
    /\ attempts \in [Key -> Nat] /\ refused \in [Key -> Nat]
    /\ ttl \in [Key -> 0..Window]
    /\ pc \in [Request -> {"idle", "check", "compare", "count"}]
    /\ key \in [Request -> Key \union {NoKey}]
    /\ \A r \in Request : pc[r] # "idle" => key[r] \in Key
    /\ faulted \subseteq Key
    /\ faults \in 0..MaxFaults

Init ==
    /\ attempts = [k \in Key |-> 0] /\ refused = [k \in Key |-> 0]
    /\ ttl = [k \in Key |-> 0]
    /\ pc = [r \in Request |-> "idle"]
    /\ key = [r \in Request |-> NoKey]
    /\ faulted = {}
    /\ faults = 0

--------------------------------------------------------------------------------
Goto(r, to) == pc' = [pc EXCEPT ![r] = to] /\ UNCHANGED key

Finish(r) == pc' = [pc EXCEPT ![r] = "idle"] /\ key' = [key EXCEPT ![r] = NoKey]

\* A call to Redis about key k fails.
RedisFails(k) ==
    /\ faults < MaxFaults
    /\ faults' = faults + 1
    /\ faulted' = faulted \union {k}

RedisWorks == UNCHANGED <<faults, faulted>>

\* Mutant of TooMany: one attempt more.
OneMore(k) == attempts[k] > Limit

TooMany(k) == attempts[k] >= Limit

--------------------------------------------------------------------------------
Login(r, k) ==
    /\ pc[r] = "idle"
    /\ pc' = [pc EXCEPT ![r] = "check"]
    /\ key' = [key EXCEPT ![r] = k]
    /\ UNCHANGED <<attempts, ttl, refused, faulted, faults>>

\* Mutant of Check: a request that is turned away renews the window.
CheckRenews(r) ==
    /\ pc[r] = "check"
    /\ \/ ~TooMany(key[r]) /\ Goto(r, "compare") /\ UNCHANGED ttl
       \/ TooMany(key[r]) /\ Finish(r) /\ ttl' = [ttl EXCEPT ![key[r]] = Window]
    /\ RedisWorks
    /\ UNCHANGED <<attempts, refused>>

\* GetLoginAttempts: its error is dropped with the value 0.
Check(r) ==
    /\ pc[r] = "check"
    /\ \/ ~TooMany(key[r]) /\ Goto(r, "compare") /\ RedisWorks
       \/ TooMany(key[r]) /\ Finish(r) /\ RedisWorks
       \/ Goto(r, "compare") /\ RedisFails(key[r])
    /\ UNCHANGED <<attempts, ttl, refused>>

\* GetByEmail and bcrypt.  A right password ends the limiter's part and leaves
\* the counter as it is; so does an account without a password.
Compare(r) ==
    /\ pc[r] = "compare"
    /\ Goto(r, "count") \/ Finish(r)
    /\ UNCHANGED <<attempts, ttl, refused, faulted, faults>>

\* IncrementLoginAttempts sends INCR and EXPIRE in one pipeline, no transaction:
\* both are done, or Redis fails before or between them.  The answer is the same.
Count(r) ==
    LET k == key[r] IN
    /\ pc[r] = "count"
    /\ \/ /\ attempts' = [attempts EXCEPT ![k] = @ + 1]
          /\ ttl' = [ttl EXCEPT ![k] = Window]
          /\ RedisWorks
       \/ /\ attempts' = [attempts EXCEPT ![k] = @ + 1]
          /\ UNCHANGED ttl
          /\ RedisFails(k)
       \/ RedisFails(k) /\ UNCHANGED <<attempts, ttl>>
    /\ refused' = [refused EXCEPT ![k] = @ + 1]
    /\ Finish(r)

\* The client goes away, Postgres fails or the gateway crashes: no answer.
Abandon(r) ==
    /\ pc[r] # "idle"
    /\ Finish(r)
    /\ UNCHANGED <<attempts, ttl, refused, faulted, faults>>

\* Time passes; a counter whose time is up is gone.
Tick ==
    LET Up == {k \in Key : ttl[k] = 1} IN
    /\ \E k \in Key : ttl[k] > 0
    /\ ttl' = [k \in Key |-> IF ttl[k] > 0 THEN ttl[k] - 1 ELSE 0]
    /\ attempts' = [k \in Key |-> IF k \in Up THEN 0 ELSE attempts[k]]
    /\ refused' = [k \in Key |-> IF k \in Up THEN 0 ELSE refused[k]]
    /\ faulted' = faulted \ Up
    /\ UNCHANGED <<pc, key, faults>>

Advance(r) == Check(r) \/ Compare(r) \/ Count(r)

Next ==
    \/ \E r \in Request : (\E k \in Key : Login(r, k)) \/ Advance(r) \/ Abandon(r)
    \/ Tick

Spec == Init /\ [][Next]_vars

\* Handlers run on, and so does time.
Fairness == WF_vars(Tick) /\ \A r \in Request : WF_vars(Advance(r))

LiveSpec == Spec /\ Fairness

--------------------------------------------------------------------------------
\* Properties

\* Login reads the counter long before it increments it, so that overlapping
\* requests pass the check together.  Still no more wrong passwords are answered
\* than Limit and one for each further request in progress, until a whole Window
\* has passed without a failure (unless Redis failed meanwhile).
GuessesBounded ==
    \A k \in Key \ faulted : refused[k] <= Limit + Cardinality(Request) - 1

\* A client that was turned away is let in again however often it keeps trying:
\* being turned away does not prolong the Window.
LockoutEnds ==
    \A k \in Key : TooMany(k) /\ k \notin faulted ~> ~TooMany(k) \/ k \in faulted
================================================================================
