----------------------------- MODULE RateLimitStore -----------------------------
(***************************************************************************)
(* better-auth's rate limiter over a database (api/rate-limiter/index.ts,  *)
(* createDatabaseStorageWrapper): requests, possibly on many servers, that *)
(* count themselves in one row for each address and path.  A request reads *)
(* the row, then the clock, and then writes by a statement whose WHERE     *)
(* repeats what it has decided; any time may pass in between.  The adapter *)
(* puts that WHERE into a sub-select, UPDATE ... WHERE id IN (SELECT id    *)
(* ...): Postgres and SQL Server evaluate it before they wait for the row, *)
(* and not again, so that the choice of the row and the write are two      *)
(* steps.  (With MySQL's SELECT ... FOR UPDATE and with SQLite, nobody     *)
(* comes between them: some of the behaviours here.)  Each reset of a      *)
(* window starts a deletion of old rows that nobody waits for.             *)
(***************************************************************************)
EXTENDS Integers, FiniteSets, Functions

CONSTANTS
    Key,          \* createRateLimitKey(ip, path)
    Request,      \* requests in progress at the same time
    NoKey,
    Window,       \* Window[k], Limit[k]: the rule for the path (window and max)
    Limit,
    Longest,      \* the longest window that the deletion of old rows knows
    MaxTime       \* bound of the clock, for TLC alone: no property needs time to end

ASSUME RuleAssumption ==
    /\ Window \in [Key -> Nat \ {0}] /\ Limit \in [Key -> Nat \ {0}]
    /\ Longest \in Nat \ {0}
ASSUME NoKeyAssumption == NoKey \notin Key
ASSUME RequestAssumption == IsFiniteSet(Request)
ASSUME MaxTimeAssumption == MaxTime \in Nat

Time == 0..MaxTime

\* The time for which a limit holds: rows are deleted by an age of their own.
Held(k) == IF Window[k] < Longest THEN Window[k] ELSE Longest

VARIABLES
    row,          \* row[k] of the table rateLimit: count (0 if there is none), lastRequest
    call,         \* call[r]: key, lastRequest of the row it has read, and its now
    pc,           \* its next step
    fate,         \* fate[r]: what others have done to the row since r last looked at it:
                  \* the same, changed, or gone (deleted; one created later has another id)
    sweeps,       \* the deletions on their way: the now each began with
    clock,        \* Date.now()
    granted,      \* history: granted[k][t] requests were allowed at time t (as long as a
                  \* period that LimitHolds is about can reach back to t)
    late          \* history: the longest that such a request took from its now to its write
                  \* (Held(k) + 1 stands for more, or for a write that was Overtaken, and
                  \* then nothing is said of k)

vars == <<row, call, pc, fate, sweeps, clock, granted, late>>

Nothing == [t \in Time |-> 0]
NoRow == [count |-> 0, last |-> 0]
NoCall == [key |-> NoKey, last |-> 0, now |-> 0]

\* At most one increment for each request passes the check of the count too early.
Row(k) == {NoRow} \union [count : 1 .. Limit[k] - 1 + Cardinality(Request), last : Time]

TypeOK ==
    /\ row \in [Key -> [count : Nat, last : Time]] /\ \A k \in Key : row[k] \in Row(k)
    /\ pc \in [Request -> {"idle", "read", "absent", "found", "create", "reread", "reset",
                          "reset_write", "increment", "increment_write", "fresh"}]
    /\ fate \in [Request -> {"same", "changed", "gone"}]
    /\ call \in [Request -> [key : Key, last : Time, now : Time] \union {NoCall}]
    /\ \A r \in Request : pc[r] = "idle" <=> call[r] = NoCall
    /\ sweeps \subseteq Time /\ clock \in Time
    /\ granted \in [Key -> [Time -> Nat]]
    /\ late \in [Key -> Nat] /\ \A k \in Key : late[k] <= Held(k) + 1

Init ==
    /\ row = [k \in Key |-> NoRow]
    /\ call = [r \in Request |-> NoCall]
    /\ pc = [r \in Request |-> "idle"]
    /\ fate = [r \in Request |-> "same"]
    /\ sweeps = {} /\ clock = 0
    /\ granted = [k \in Key |-> Nothing]
    /\ late = [k \in Key |-> 0]

--------------------------------------------------------------------------------
\* Steps of a request

Goto(r, to) == pc' = [pc EXCEPT ![r] = to] /\ UNCHANGED call
End(r) == pc' = [pc EXCEPT ![r] = "idle"] /\ call' = [call EXCEPT ![r] = NoCall]

\* r looks at the row, or needs to know no more of it.
Look(r) == fate' = [fate EXCEPT ![r] = "same"]

\* consume again, from the beginning
Again(r) ==
    /\ pc' = [pc EXCEPT ![r] = "read"]
    /\ call' = [call EXCEPT ![r] = [NoCall EXCEPT !.key = call[r].key]]
    /\ Look(r)

\* A row was written by r, while others have an earlier state of it in mind.
Changed(r, k) ==
    fate' = [q \in Request |-> IF q = r THEN "same"
                              ELSE IF call[q].key = k /\ fate[q] = "same" THEN "changed"
                              ELSE fate[q]]

\* The guard was true when the sub-select chose the row; it is false (~ fits) by the write,
\* because another request wrote the row between.
Overtaken(r, fits) == fate[r] = "changed" /\ ~ fits

\* r writes the row of its key, and is allowed.
Write(r, count, fits) ==
    LET k == call[r].key  age == clock - call[r].now IN
    /\ row' = [row EXCEPT ![k] = [count |-> count, last |-> call[r].now]]
    /\ late' = [late EXCEPT ![k] = IF age > Held(k) \/ Overtaken(r, fits) THEN Held(k) + 1
                                   ELSE IF age > @ THEN age ELSE @]
    /\ granted' = IF late'[k] > Held(k) THEN [granted EXCEPT ![k] = Nothing]
                                       ELSE [granted EXCEPT ![k][clock] = @ + 1]
    /\ Changed(r, k)
    /\ End(r)

Elapsed(last, now, k) == now - last > Window[k]

\* The guards of the two statements, on the row as it is: only if nobody has counted himself
\* in since the row was read; within the window and under the limit.
ResetFits(r) ==
    LET k == call[r].key IN row[k] # NoRow /\ row[k].last <= call[r].last
IncrementFits(r) ==
    LET k == call[r].key IN
    row[k] # NoRow /\ row[k].last > call[r].now - Window[k] /\ row[k].count < Limit[k]

Begin(r, k) ==
    /\ pc[r] = "idle"
    /\ pc' = [pc EXCEPT ![r] = "read"]
    /\ call' = [call EXCEPT ![r].key = k]
    /\ UNCHANGED <<row, fate, sweeps, clock, granted, late>>

Read(r) ==
    /\ pc[r] = "read"
    /\ call' = [call EXCEPT ![r].last = row[call[r].key].last]
    /\ pc' = [pc EXCEPT ![r] = IF row[call[r].key] = NoRow THEN "absent" ELSE "found"]
    /\ Look(r)
    /\ UNCHANGED <<row, sweeps, clock, granted, late>>

\* Date.now(), and what to do with the row that was read.
Decide(r) ==
    /\ call' = [call EXCEPT ![r].now = clock]
    /\ \/ pc[r] = "absent" /\ pc' = [pc EXCEPT ![r] = "create"]
       \/ pc[r] = "found" /\ pc' = [pc EXCEPT ![r] =
                IF Elapsed(call[r].last, clock, call[r].key) THEN "reset" ELSE "increment"]
    /\ UNCHANGED <<row, fate, sweeps, clock, granted, late>>

\* The key is unique: of those who find no row, one creates it.
Create(r) ==
    /\ pc[r] = "create"
    /\ IF row[call[r].key] = NoRow
       THEN Write(r, 1, TRUE)
       ELSE Goto(r, "reread") /\ UNCHANGED <<row, fate, granted, late>>
    /\ UNCHANGED <<sweeps, clock>>

\* The database reports an error, with the row in place or without.
CreateFails(r) ==
    LET k == call[r].key IN
    /\ pc[r] = "create"
    /\ Goto(r, "reread")
    /\ \/ UNCHANGED <<row, fate>>
       \/ /\ row[k] = NoRow
          /\ row' = [row EXCEPT ![k] = [count |-> 1, last |-> call[r].now]]
          /\ fate' = [q \in Request |-> IF call[q].key = k /\ fate[q] = "same" THEN "changed"
                                                                            ELSE fate[q]]
    /\ UNCHANGED <<sweeps, clock, granted, late>>

\* Somebody's row is there: start again.  Otherwise the error is thrown.
Reread(r) ==
    /\ pc[r] = "reread"
    /\ IF row[call[r].key] # NoRow THEN Again(r) ELSE End(r) /\ Look(r)
    /\ UNCHANGED <<row, sweeps, clock, granted, late>>

\* The sub-select has chosen the row.
Choose(r, write) == Goto(r, write) /\ Look(r)

\* Mutant of Reset: the window is not guarded.
ResetAlways(r) ==
    /\ pc[r] = "reset"
    /\ IF row[call[r].key] # NoRow THEN Choose(r, "reset_write") ELSE Again(r)
    /\ UNCHANGED <<row, sweeps, clock, granted, late>>

\* Mutant of Reset: lt for lte.
ResetEarlier(r) ==
    LET k == call[r].key IN
    /\ pc[r] = "reset"
    /\ IF row[k] # NoRow /\ row[k].last < call[r].last THEN Choose(r, "reset_write") ELSE Again(r)
    /\ UNCHANGED <<row, sweeps, clock, granted, late>>

\* The window has elapsed: the sub-select of the reset.
Reset(r) ==
    /\ pc[r] = "reset"
    /\ IF ResetFits(r) THEN Choose(r, "reset_write") ELSE Again(r)
    /\ UNCHANGED <<row, sweeps, clock, granted, late>>

\* The write of the reset, whatever others have made of the row, unless it is deleted.
ResetWrite(r) ==
    /\ pc[r] = "reset_write"
    /\ IF fate[r] # "gone"
       THEN Write(r, 1, ResetFits(r)) /\ sweeps' = sweeps \union {call[r].now}
       ELSE Again(r) /\ UNCHANGED <<row, sweeps, granted, late>>
    /\ UNCHANGED clock

\* Mutant of Increment: the count is not guarded.
IncrementAlways(r) ==
    LET k == call[r].key IN
    /\ pc[r] = "increment"
    /\ IF row[k] # NoRow /\ row[k].last > call[r].now - Window[k]
       THEN Choose(r, "increment_write")
       ELSE Goto(r, "fresh") /\ UNCHANGED fate
    /\ UNCHANGED <<row, sweeps, clock, granted, late>>

\* The window has not elapsed: the sub-select of the increment.
Increment(r) ==
    /\ pc[r] = "increment"
    /\ IF IncrementFits(r) THEN Choose(r, "increment_write")
                           ELSE Goto(r, "fresh") /\ UNCHANGED fate
    /\ UNCHANGED <<row, sweeps, clock, granted, late>>

\* The write of the increment: count + 1, of the row as it is by now.
IncrementWrite(r) ==
    /\ pc[r] = "increment_write"
    /\ IF fate[r] # "gone"
       THEN Write(r, row[call[r].key].count + 1, IncrementFits(r))
       ELSE Goto(r, "fresh") /\ UNCHANGED <<row, fate, granted, late>>
    /\ UNCHANGED <<sweeps, clock>>

\* The guard missed: start again if the row is gone or has elapsed by the same now,
\* else the request is turned away.
Fresh(r) ==
    LET k == call[r].key IN
    /\ pc[r] = "fresh"
    /\ IF row[k] = NoRow \/ Elapsed(row[k].last, call[r].now, k) THEN Again(r) ELSE End(r) /\ Look(r)
    /\ UNCHANGED <<row, sweeps, clock, granted, late>>

\* A statement fails, or its server goes down: no answer but an error.
Abandon(r) ==
    /\ pc[r] \in {"read", "reread", "reset", "reset_write", "increment", "increment_write", "fresh"}
    /\ End(r) /\ Look(r)
    /\ UNCHANGED <<row, sweeps, clock, granted, late>>

--------------------------------------------------------------------------------
\* The deletion of old rows, and time

Old(last, now) == last < now - Longest

Sweep(s) ==
    /\ s \in sweeps
    /\ row' = [k \in Key |-> IF Old(row[k].last, s) THEN NoRow ELSE row[k]]
    /\ fate' = [q \in Request |-> IF \E k \in Key : call[q].key = k /\ row[k] # NoRow /\ row'[k] = NoRow
                                 THEN "gone" ELSE fate[q]]
    /\ sweeps' = sweeps \ {s}
    /\ UNCHANGED <<call, pc, clock, granted, late>>

\* It fails, or ends with its process; nobody hears of it.
SweepFails(s) ==
    /\ s \in sweeps
    /\ sweeps' = sweeps \ {s}
    /\ UNCHANGED <<row, call, pc, fate, clock, granted, late>>

Tick ==
    /\ clock < MaxTime
    /\ clock' = clock + 1
    /\ granted' = [k \in Key |-> [t \in Time |-> IF t < clock' - Held(k) THEN 0 ELSE granted[k][t]]]
    /\ UNCHANGED <<row, call, pc, fate, sweeps, late>>

Step(r) ==
    \/ Read(r) \/ Decide(r) \/ Create(r) \/ CreateFails(r) \/ Reread(r)
    \/ Reset(r) \/ ResetWrite(r) \/ Increment(r) \/ IncrementWrite(r) \/ Fresh(r)

Next ==
    \/ \E r \in Request, k \in Key : Begin(r, k)
    \/ \E r \in Request : Step(r) \/ Abandon(r)
    \/ \E s \in Time : Sweep(s) \/ SweepFails(s)
    \/ Tick

Spec == Init /\ [][Next]_vars

--------------------------------------------------------------------------------
\* Properties

\* However requests on all servers overlap, and whatever is deleted meanwhile, no more
\* than Limit[k] are allowed in any period of the length of the window, less the time
\* by which a slow one dates back the row that it writes, unless a write was overtaken:
\* the comment of consume ("a burst of concurrent requests can never exceed the limit")
\* has no such exception.
LimitHolds ==
    \A k \in Key, t \in Time : late[k] <= Held(k) =>
        SumFunctionOnSet(granted[k], Time \cap (t .. t + Held(k) - late[k])) <= Limit[k]

\* No request turns round by itself: consume calls itself again only if the row has been
\* written or deleted since it looked (by its own failed create, perhaps).
RetryMeansProgress ==
    [][\A r \in Request : pc[r] \notin {"idle", "read"} /\ pc'[r] = "read" => fate[r] # "same"]_vars
================================================================================
