--------------------------------- MODULE ApiKeys ---------------------------------
(***************************************************************************)
(* Personal API keys (service/api_key.go, repository/api_key_pg.go, and    *)
(* branch 1 of middleware.Auth), served by the instances of Migrations.    *)
(* Each use of a key is noted by a goroutine nobody waits for: it outlives *)
(* the request, and ends with the process.                                 *)
(*                                                                         *)
(* A key stands for its secret and its row; labels and owners are left out.*)
(***************************************************************************)
EXTENDS Migrations

CONSTANTS
    Key, Request,
    Routine,                \* goroutines at the same time (bounds a model)
    NoKey, NoInstance,
    MaxTime                 \* bound of the clock

ASSUME ApiKeysAssumption ==
    /\ NoKey \notin Key /\ NoInstance \notin Instance
    /\ MaxTime \in Nat \ {0}

VARIABLES
    row,          \* row[k]: whether personal_api_keys has k
    lastUsed,     \* lastUsed[k]: last_used_at, 0 for NULL
    clock,
    req,          \* req[r]: the key and instance of a request past authentication
    touch,        \* touch[g]: a TouchLastUsed on its way; stamp is its now()
    used,         \* history: when k was used last,
    blurred       \* and whether the note of that use met another one or was lost

keyRows == <<row, lastUsed>>
keyVars == <<keyRows, clock, req, touch, used, blurred>>
allVars == <<migrationVars, keyVars>>

NoRequest == [key |-> NoKey, host |-> NoInstance]
NoTouch == [key |-> NoKey, host |-> NoInstance, stamp |-> 0]

KeysTypeOK ==
    /\ MigrationsTypeOK
    /\ row \in [Key -> {"unused", "live", "deleted"}]
    /\ lastUsed \in [Key -> 0..MaxTime]
    /\ clock \in 1..MaxTime
    /\ req \in [Request -> [key : Key \union {NoKey}, host : Instance \union {NoInstance}]]
    /\ touch \in [Routine -> [key : Key \union {NoKey}, host : Instance \union {NoInstance},
                              stamp : 0..MaxTime]]
    /\ used \in [Key -> 0..MaxTime]
    /\ blurred \in [Key -> BOOLEAN]

KeysInit ==
    /\ MigrationsInit
    /\ row = [k \in Key |-> "unused"]
    /\ lastUsed = [k \in Key |-> 0]
    /\ clock = 1
    /\ req = [r \in Request |-> NoRequest]
    /\ touch = [g \in Routine |-> NoTouch]
    /\ used = [k \in Key |-> 0]
    /\ blurred = [k \in Key |-> FALSE]

TouchesOf(k) == {g \in Routine : touch[g].key = k}
TouchesAt(i) == {g \in Routine : touch[g].host = i}

--------------------------------------------------------------------------------
\* Operations of an instance that serves

CreateKey(k) ==
    /\ \E i \in Instance : state[i] = "serving"
    /\ row[k] = "unused"
    /\ row' = [row EXCEPT ![k] = "live"]
    /\ UNCHANGED <<migrationVars, lastUsed, clock, req, touch, used, blurred>>

DeleteKey(k) ==
    /\ \E i \in Instance : state[i] = "serving"
    /\ row[k] = "live"
    /\ row' = [row EXCEPT ![k] = "deleted"]
    /\ UNCHANGED <<migrationVars, lastUsed, clock, req, touch, used, blurred>>

\* Authenticate finds the row of the secret and starts the goroutine; the handler
\* of the request follows.  (Without a row the answer is 401.)
Authenticate(r, k, i, g) ==
    /\ state[i] = "serving"
    /\ req[r] = NoRequest /\ touch[g] = NoTouch
    /\ row[k] = "live"
    /\ req' = [req EXCEPT ![r] = [key |-> k, host |-> i]]
    /\ touch' = [touch EXCEPT ![g] = [key |-> k, host |-> i, stamp |-> 0]]
    /\ used' = [used EXCEPT ![k] = clock]
    /\ blurred' = [blurred EXCEPT ![k] = TouchesOf(k) # {}]
    /\ UNCHANGED <<migrationVars, keyRows, clock>>

\* Mutant of Answer: the goroutine has the context of the request, not its own.
AnswerCancels(r) ==
    /\ req[r] # NoRequest
    /\ req' = [req EXCEPT ![r] = NoRequest]
    /\ touch' = [g \in Routine |->
                    IF touch[g].key = req[r].key /\ touch[g].host = req[r].host THEN NoTouch ELSE touch[g]]
    /\ UNCHANGED <<migrationVars, keyRows, clock, used, blurred>>

Answer(r) ==
    /\ req[r] # NoRequest
    /\ req' = [req EXCEPT ![r] = NoRequest]
    /\ UNCHANGED <<migrationVars, keyRows, clock, touch, used, blurred>>

--------------------------------------------------------------------------------
\* TouchLastUsed

\* UPDATE ... SET last_used_at = now(): the time at which the statement begins.
BeginTouch(g) ==
    /\ touch[g] # NoTouch /\ touch[g].stamp = 0
    /\ touch' = [touch EXCEPT ![g].stamp = clock]
    /\ UNCHANGED <<migrationVars, keyRows, clock, req, used, blurred>>

\* Mutant of EndTouch: an upsert.
EndTouchUpsert(g) ==
    LET k == touch[g].key IN
    /\ touch[g].stamp # 0
    /\ row' = [row EXCEPT ![k] = "live"]
    /\ lastUsed' = [lastUsed EXCEPT ![k] = touch[g].stamp]
    /\ touch' = [touch EXCEPT ![g] = NoTouch]
    /\ UNCHANGED <<migrationVars, clock, req, used, blurred>>

\* It gets the row, whichever of two comes first; a row deleted meanwhile is none.
EndTouch(g) ==
    LET k == touch[g].key IN
    /\ touch[g].stamp # 0
    /\ lastUsed' = IF row[k] = "live" THEN [lastUsed EXCEPT ![k] = touch[g].stamp] ELSE lastUsed
    /\ touch' = [touch EXCEPT ![g] = NoTouch]
    /\ UNCHANGED <<migrationVars, row, clock, req, used, blurred>>

\* The touches in G are lost, and nobody hears of it.
Lose(G) ==
    /\ touch' = [g \in Routine |-> IF g \in G THEN NoTouch ELSE touch[g]]
    /\ blurred' = [k \in Key |-> blurred[k] \/ TouchesOf(k) \cap G # {}]

\* The database fails it; its error is dropped.
FailTouch(g) ==
    /\ touch[g] # NoTouch
    /\ Lose({g})
    /\ UNCHANGED <<migrationVars, keyRows, clock, req, used>>

--------------------------------------------------------------------------------
\* The end of an instance

\* srv.Shutdown waits for the requests, pool.Close for the statements that have a
\* connection.
ExitServed(i) ==
    /\ Exit(i)
    /\ \A r \in Request : req[r].host # i
    /\ \A g \in TouchesAt(i) : touch[g].stamp = 0
    /\ Lose(TouchesAt(i))
    /\ UNCHANGED <<keyRows, clock, req, used>>

CrashServed(i) ==
    /\ Crash(i)
    /\ req' = [r \in Request |-> IF req[r].host = i THEN NoRequest ELSE req[r]]
    /\ Lose(TouchesAt(i))
    /\ UNCHANGED <<keyRows, clock, used>>

Tick ==
    /\ clock < MaxTime
    /\ clock' = clock + 1
    /\ UNCHANGED <<migrationVars, keyRows, req, touch, used, blurred>>

Lifecycle(i) ==
    \/ (Start(i) \/ Migrate(i) \/ Stop(i)) /\ UNCHANGED keyVars
    \/ ExitServed(i) \/ CrashServed(i)

Next ==
    \/ \E i \in Instance : Lifecycle(i)
    \/ \E k \in Key : CreateKey(k) \/ DeleteKey(k)
    \/ \E r \in Request, k \in Key, i \in Instance, g \in Routine : Authenticate(r, k, i, g)
    \/ \E r \in Request : Answer(r)
    \/ \E g \in Routine : BeginTouch(g) \/ EndTouch(g) \/ FailTouch(g)
    \/ Tick

KeysSpec == KeysInit /\ [][Next]_allVars

\* RunMigrations runs on by itself, and Postgres grants its locks in turn, also
\* while others start, take them and crash.
Fairness == \A i \in Instance : SF_allVars(Migrate(i) /\ UNCHANGED keyVars)

KeysLiveSpec == KeysSpec /\ Fairness

--------------------------------------------------------------------------------
\* Properties

\* A goroutine that notes a use late neither brings a deleted key back nor lets
\* anybody in by it.
DeletedForGood ==
    [][\A k \in Key : row[k] = "deleted" => row'[k] = "deleted" /\ used'[k] = used[k]]_allVars

\* Once no note is on its way, last_used_at is not earlier than the last use, unless
\* the note of that use met another one of the same key, or was lost with its
\* process or its statement.  (Of two that meet, the earlier may be written last.)
LastUseNoted ==
    \A k \in Key : row[k] = "live" /\ TouchesOf(k) = {} /\ ~blurred[k] => lastUsed[k] >= used[k]
================================================================================
