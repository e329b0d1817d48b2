------------------------------ MODULE ApiKeysProofs ------------------------------
(***************************************************************************)
(* Proofs about Migrations and ApiKeys.                                    *)
(***************************************************************************)
EXTENDS ApiKeys, TLAPS

--------------------------------------------------------------------------------
\* The inductive invariant of the schema

\* The database: what has been applied is what is recorded, once.
Applied == \A m \in Migration : ran[m] = IF m \in recorded THEN 1 ELSE 0

\* Uncommitted transactions are at different files.
Alone ==
    \A i, j \in Instance :
        i # j /\ state[i] \in InTransaction /\ state[j] \in InTransaction => at[i] # at[j]

\* What i has looked at has only grown since.
Known(i) == (seen[i][1] => table) /\ seen[i][2] \subseteq recorded

\* The loop has left applied files behind.
Passed(i) == state[i] \notin Stopped => \A m \in Migration : m < at[i] => m \in recorded

AtWork(i) ==
    /\ state[i] = "creating" => ~seen[i][1]
    /\ state[i] \in {"exec", "record", "commit"} => at[i] \in Migration /\ at[i] \notin seen[i][2]
    /\ state[i] = "commit" => at[i] \notin recorded
    /\ state[i] \in {"serving", "stopping"} => at[i] = Last + 1
    /\ state[i] = "failed" => (~seen[i][1] /\ table) \/ \E m \in recorded : m \notin seen[i][2]

Instances == \A i \in Instance : Known(i) /\ Passed(i) /\ AtWork(i)

MInv == MigrationsTypeOK /\ Applied /\ Alone /\ Instances

\* Every step of the whole is one of the schema's, or leaves it alone.
LEMMA NextMigrations == Next => MigrationsNext \/ UNCHANGED migrationVars
BY DEF Next, Lifecycle, ExitServed, CrashServed, CreateKey, DeleteKey, Authenticate, Answer,
       BeginTouch, EndTouch, FailTouch, Tick, MigrationsNext

LEMMA InitMInv == MigrationsInit => MInv
<1> SUFFICES ASSUME MigrationsInit PROVE MInv
  OBVIOUS
<1> USE MigrationsAssumption DEF MigrationsInit
<1>1. MigrationsTypeOK
  <2>1. <<FALSE, {}>> \in BOOLEAN \X SUBSET Migration
    OBVIOUS
  <2>2. 1 \in 1..(Last + 1)
    OBVIOUS
  <2>3. \A m \in Migration : ran[m] \in Nat
    OBVIOUS
  <2> QED
    BY <2>1, <2>2, <2>3 DEF MigrationsTypeOK, Stopped
<1>2. Applied /\ Alone
  BY DEF Applied, Alone, InTransaction
<1>3. Instances
  <2> SUFFICES ASSUME NEW i \in Instance PROVE Known(i) /\ Passed(i) /\ AtWork(i)
    BY DEF Instances
  <2>1. state[i] = "down" /\ seen[i] = <<FALSE, {}>>
    OBVIOUS
  <2> QED
    BY <2>1 DEF Known, Passed, AtWork, Stopped
<1> QED
  BY <1>1, <1>2, <1>3 DEF MInv

\* The predicates of an instance depend on the database, and on what i has, only.
LEMMA OtherInstance ==
    ASSUME MInv, NEW j \in Instance,
           table => table', recorded \subseteq recorded',
           state'[j] = state[j], at'[j] = at[j], seen'[j] = seen[j],
           state[j] = "commit" => at[j] \notin recorded'
    PROVE  Known(j)' /\ Passed(j)' /\ AtWork(j)'
<1>1. Known(j) /\ Passed(j) /\ AtWork(j)
  BY DEF MInv, Instances
<1>2. Known(j)' /\ Passed(j)'
  BY <1>1 DEF Known, Passed, Stopped
<1>3. AtWork(j)'
  BY <1>1 DEF AtWork, Stopped
<1> QED
  BY <1>2, <1>3

\* A step of i that leaves the database alone.
LEMMA QuietStep ==
    ASSUME MInv, NEW i \in Instance, UNCHANGED database,
           MigrationsTypeOK', Known(i)', Passed(i)', AtWork(i)',
           \A j \in Instance \ {i} : state'[j] = state[j] /\ at'[j] = at[j] /\ seen'[j] = seen[j],
           state'[i] \in InTransaction =>
               \A j \in Instance \ {i} : state[j] \in InTransaction => at[j] # at'[i]
    PROVE  MInv'
<1>1. Applied'
  BY DEF MInv, Applied, database
<1>2. Alone'
  <2>1. Alone
    BY DEF MInv
  <2> QED
    BY <2>1 DEF Alone
<1>3. Instances'
  <2> SUFFICES ASSUME NEW j \in Instance PROVE Known(j)' /\ Passed(j)' /\ AtWork(j)'
    BY DEF Instances
  <2>1. CASE j = i
    BY <2>1
  <2>2. CASE j # i
    <3>1. AtWork(j)
      BY DEF MInv, Instances
    <3> QED
      BY <2>2, <3>1, OtherInstance DEF database, AtWork
  <2> QED
    BY <2>1, <2>2
<1> QED
  BY <1>1, <1>2, <1>3 DEF MInv

LEMMA TypeStep == MInv /\ MigrationsNext => MigrationsTypeOK'
<1> SUFFICES ASSUME MInv, NEW i \in Instance,
                    Start(i) \/ Migrate(i) \/ Stop(i) \/ Exit(i) \/ Crash(i)
             PROVE  MigrationsTypeOK'
  BY DEF MigrationsNext
<1>a. MigrationsTypeOK
  BY DEF MInv
<1> USE MigrationsAssumption, <1>a DEF MigrationsTypeOK, Goto, database, Stopped, Starting, InTransaction, Migration
<1>1. CASE Start(i) \/ Stop(i) \/ Exit(i) \/ Crash(i)
  <2>1. at' \in [Instance -> 1..(Last + 1)]
    <3>1. 1 \in 1..(Last + 1)
      OBVIOUS
    <3> QED
      BY <1>1, <3>1 DEF Start, Stop, Exit, Crash
  <2> QED
    BY <1>1, <2>1 DEF Start, Stop, Exit, Crash
<1> HIDE DEF Migration
<1>0. <<table, recorded>> \in BOOLEAN \X SUBSET Migration
  OBVIOUS
<1>2. CASE LookForTable(i)
  BY <1>0, <1>2 DEF LookForTable, Look
<1>3. CASE CreateTable(i)
  BY <1>3 DEF CreateTable
<1>4. CASE Check(i)
  <2>1. seen' \in [Instance -> BOOLEAN \X SUBSET Migration]
    BY <1>0, <1>4 DEF Check, Look
  <2>2. at' \in [Instance -> 1..(Last + 1)]
    <3>1. at[i] \in Migration => at[i] + 1 \in 1..(Last + 1)
      BY DEF Migration
    <3> QED
      BY <1>4, <3>1 DEF Check
  <2> QED
    BY <1>4, <2>1, <2>2 DEF Check
<1>5. CASE Exec(i) \/ Record(i)
  BY <1>5 DEF Exec, Record
<1>6. CASE Commit(i)
  <2>1. at[i] \in Migration
    BY <1>6 DEF Commit, MInv, Instances, AtWork
  <2>2. at' \in [Instance -> 1..(Last + 1)]
    <3>1. at[i] + 1 \in 1..(Last + 1)
      BY <2>1 DEF Migration
    <3> QED
      BY <1>6, <3>1 DEF Commit
  <2>3. ran' \in [Migration -> Nat] /\ recorded' \subseteq Migration
    BY <1>6, <2>1 DEF Commit
  <2> QED
    BY <1>6, <2>2, <2>3 DEF Commit
<1> QED
  BY <1>1, <1>2, <1>3, <1>4, <1>5, <1>6 DEF Migrate

LEMMA MInvStep == MInv /\ [MigrationsNext]_migrationVars => MInv'
<1> SUFFICES ASSUME MInv, MigrationsNext PROVE MInv'
  <2>1. CASE UNCHANGED migrationVars
    BY <2>1 DEF migrationVars, database, MInv, MigrationsTypeOK, Applied, Alone, Instances, Known, Passed, AtWork
  <2> QED
    BY <2>1
<1>t. MigrationsTypeOK /\ MigrationsTypeOK'
  BY TypeStep DEF MInv
<1> PICK i \in Instance : Start(i) \/ Migrate(i) \/ Stop(i) \/ Exit(i) \/ Crash(i)
  BY DEF MigrationsNext
<1>i. Known(i) /\ Passed(i) /\ AtWork(i)
  BY DEF MInv, Instances
<1> DEFINE Rest == \A j \in Instance \ {i} : state'[j] = state[j] /\ at'[j] = at[j] /\ seen'[j] = seen[j]
<1>r. Rest /\ state'[i] \in Starting \union Stopped \union {"serving", "stopping"}
  BY <1>t DEF MigrationsTypeOK, Start, Migrate, LookForTable, CreateTable, Check, Exec, Record, Commit,
              Stop, Exit, Crash, Goto, Look
<1> HIDE DEF Rest
<1>1. CASE Start(i)
  <2>1. state'[i] = "create" /\ at'[i] = 1 /\ seen'[i] = seen[i] /\ UNCHANGED database
    BY <1>1, <1>t DEF Start, Goto, MigrationsTypeOK
  <2>2. Known(i)' /\ Passed(i)' /\ AtWork(i)'
    BY <1>i, <2>1, MigrationsAssumption DEF Known, Passed, AtWork, database, Migration
  <2> QED
    BY <1>t, <1>r, <2>1, <2>2, QuietStep DEF InTransaction, Rest
<1>2. CASE Stop(i) \/ Exit(i) \/ Crash(i)
  <2>1. /\ state'[i] = "down" \/ (state[i] = "serving" /\ state'[i] = "stopping")
        /\ at'[i] = at[i] /\ seen'[i] = seen[i] /\ UNCHANGED database
    BY <1>2, <1>t DEF Stop, Exit, Crash, Goto, MigrationsTypeOK
  <2>2. Known(i)' /\ Passed(i)' /\ AtWork(i)'
    BY <1>i, <2>1 DEF Known, Passed, AtWork, database, Stopped
  <2> QED
    BY <1>t, <1>r, <2>1, <2>2, QuietStep DEF InTransaction, Rest
<1>3. CASE LookForTable(i)
  <2>1. /\ state[i] = "create" /\ state'[i] = (IF table THEN "check" ELSE "creating")
        /\ at'[i] = at[i] /\ seen'[i] = <<table, recorded>> /\ UNCHANGED database
    BY <1>3, <1>t DEF LookForTable, Goto, Look, MigrationsTypeOK
  <2>2. Known(i)' /\ Passed(i)' /\ AtWork(i)'
    BY <1>i, <2>1 DEF Known, Passed, AtWork, database, Stopped
  <2> QED
    BY <1>t, <1>r, <2>1, <2>2, QuietStep DEF InTransaction, Rest
<1>4. CASE Check(i)
  <2>1. seen'[i] = <<table, recorded>> /\ UNCHANGED database /\ state[i] = "check"
    BY <1>4, <1>t DEF Check, Look, MigrationsTypeOK
  <2>2. \/ at[i] = Last + 1 /\ state'[i] = "serving" /\ at'[i] = at[i]
        \/ at[i] \in recorded /\ at'[i] = at[i] + 1 /\ state'[i] = "check"
        \/ at[i] \in Migration \ recorded /\ state'[i] = "exec" /\ at'[i] = at[i]
    BY <1>4, <1>t, MigrationsAssumption DEF Check, Goto, MigrationsTypeOK
  <2>3. Known(i)' /\ AtWork(i)'
    BY <2>1, <2>2 DEF Known, AtWork, database
  <2>4. Passed(i)'
    <3>1. \A m \in Migration : m < at[i] => m \in recorded
      BY <1>i, <2>1 DEF Passed, Stopped
    <3>2. \A m \in Migration : m < at[i] + 1 => m < at[i] \/ m = at[i]
      BY <1>t, MigrationsAssumption DEF MigrationsTypeOK, Migration
    <3> QED
      BY <2>1, <2>2, <3>1, <3>2 DEF Passed, database
  <2>5. state'[i] \notin InTransaction
    BY <2>2 DEF InTransaction
  <2> QED
    BY <1>t, <1>r, <2>1, <2>3, <2>4, <2>5, QuietStep DEF Rest
<1>5. CASE Exec(i)
  <2>1. /\ state[i] = "exec" /\ at'[i] = at[i] /\ seen'[i] = seen[i] /\ UNCHANGED database
        /\ state'[i] = "record" \/ (state'[i] = "failed" /\ ran[at[i]] > 0)
    BY <1>5, <1>t DEF Exec, Goto, MigrationsTypeOK
  <2>2. at[i] \in Migration /\ at[i] \notin seen[i][2]
    BY <1>i, <2>1 DEF AtWork
  <2>3. ran[at[i]] > 0 => at[i] \in recorded
    BY <2>2 DEF MInv, Applied
  <2>4. Known(i)' /\ Passed(i)' /\ AtWork(i)'
    BY <1>i, <2>1, <2>2, <2>3 DEF Known, Passed, AtWork, database, Stopped
  <2>5. \A j \in Instance \ {i} : state[j] \in InTransaction => at[j] # at'[i]
    BY <1>5, <2>1 DEF Exec, Blocked
  <2> QED
    BY <1>t, <1>r, <2>1, <2>4, <2>5, QuietStep DEF Rest
<1>6. CASE Record(i)
  <2>1. /\ state[i] = "record" /\ at'[i] = at[i] /\ seen'[i] = seen[i] /\ UNCHANGED database
        /\ state'[i] = (IF at[i] \in recorded THEN "failed" ELSE "commit")
    BY <1>6, <1>t DEF Record, Goto, MigrationsTypeOK
  <2>2. Known(i)' /\ Passed(i)' /\ AtWork(i)'
    BY <1>i, <2>1 DEF Known, Passed, AtWork, database, Stopped
  <2>3. \A j \in Instance \ {i} : state[j] \in InTransaction => at[j] # at'[i]
    BY <2>1 DEF MInv, Alone, InTransaction
  <2> QED
    BY <1>t, <1>r, <2>1, <2>2, <2>3, QuietStep DEF Rest
<1>7. CASE CreateTable(i)
  <2>1. /\ state[i] = "creating" /\ table' = TRUE /\ UNCHANGED <<recorded, ran>>
        /\ state'[i] = (IF table THEN "failed" ELSE "check") /\ at'[i] = at[i] /\ seen'[i] = seen[i]
    BY <1>7, <1>t DEF CreateTable, Goto, MigrationsTypeOK
  <2>2. Known(i)' /\ Passed(i)' /\ AtWork(i)'
    BY <1>i, <2>1 DEF Known, Passed, AtWork, Stopped
  <2>3. ASSUME NEW j \in Instance, j # i PROVE Known(j)' /\ Passed(j)' /\ AtWork(j)'
    <3>1. AtWork(j)
      BY DEF MInv, Instances
    <3> QED
      BY <1>r, <2>1, <2>3, <3>1, OtherInstance DEF Rest, AtWork
  <2>4. Applied' /\ Alone'
    BY <1>r, <2>1 DEF MInv, Applied, Alone, Rest, InTransaction
  <2> QED
    BY <1>t, <2>2, <2>3, <2>4 DEF MInv, Instances
<1>8. CASE Commit(i)
  <2>1. /\ state[i] = "commit" /\ UNCHANGED table /\ recorded' = recorded \union {at[i]}
        /\ state'[i] = "check" /\ at'[i] = at[i] + 1 /\ seen'[i] = seen[i]
    BY <1>8, <1>t DEF Commit, Goto, MigrationsTypeOK
  <2>2. at[i] \in Migration /\ at[i] \notin recorded
    BY <1>i, <2>1 DEF AtWork
  <2>3. Known(i)' /\ AtWork(i)'
    BY <1>i, <2>1 DEF Known, AtWork
  <2>4. Passed(i)'
    <3>1. \A m \in Migration : m < at[i] + 1 => m < at[i] \/ m = at[i]
      BY <2>2, MigrationsAssumption DEF Migration
    <3> QED
      BY <1>i, <2>1, <3>1 DEF Passed, Stopped
  <2>5. ASSUME NEW j \in Instance, j # i PROVE Known(j)' /\ Passed(j)' /\ AtWork(j)'
    <3>1. AtWork(j) /\ (state[j] = "commit" => at[j] # at[i])
      BY <2>1, <2>5 DEF MInv, Instances, Alone, InTransaction
    <3> QED
      BY <1>r, <2>1, <2>5, <3>1, OtherInstance DEF Rest, AtWork
  <2>6. Applied'
    BY <1>8, <1>t, <2>1, <2>2 DEF Commit, MInv, Applied, MigrationsTypeOK
  <2>7. Alone'
    BY <1>r, <2>1 DEF MInv, Alone, Rest, InTransaction
  <2> QED
    BY <1>t, <2>3, <2>4, <2>5, <2>6, <2>7 DEF MInv, Instances
<1> QED
  BY <1>1, <1>2, <1>3, <1>4, <1>5, <1>6, <1>7, <1>8 DEF Migrate

LEMMA KeysSpecMInv == KeysSpec => []MInv
<1>1. KeysInit => MInv
  BY InitMInv DEF KeysInit
<1>2. MInv /\ [Next]_allVars => MInv'
  BY MInvStep, NextMigrations DEF allVars
<1> QED
  BY <1>1, <1>2, PTL DEF KeysSpec

--------------------------------------------------------------------------------
\* Theorems about the schema

\* Whatever number of instances start at once and crash, one that serves finds
\* every migration applied, and none was applied twice.
THEOREM AlwaysServingComplete == KeysSpec => []ServingComplete
<1>1. MInv => ServingComplete
  <2> SUFFICES ASSUME MInv, NEW i \in Instance, state[i] \in {"serving", "stopping"}
               PROVE  recorded = Migration /\ \A m \in Migration : ran[m] = 1
    BY DEF ServingComplete
  <2>1. at[i] = Last + 1 /\ \A m \in Migration : m < at[i] => m \in recorded
    BY DEF MInv, Instances, AtWork, Passed, Stopped
  <2>2. recorded = Migration
    <3>1. recorded \subseteq Migration
      BY DEF MInv, MigrationsTypeOK
    <3>2. \A m \in Migration : m < Last + 1
      BY MigrationsAssumption DEF Migration
    <3> QED
      BY <2>1, <3>1, <3>2
  <2> QED
    BY <2>2 DEF MInv, Applied
<1> QED
  BY <1>1, KeysSpecMInv, PTL

\* A start fails only where the schema has moved on since it looked.
THEOREM AlwaysFailedBehind == KeysSpec => []FailedBehind
<1>1. MInv => FailedBehind
  <2> SUFFICES ASSUME MInv, NEW i \in Instance, state[i] = "failed"
               PROVE  seen[i] # <<table, recorded>>
    BY DEF FailedBehind
  <2>1. (~seen[i][1] /\ table) \/ \E m \in recorded : m \notin seen[i][2]
    BY DEF MInv, Instances, AtWork
  <2> QED
    BY <2>1
<1> QED
  BY <1>1, KeysSpecMInv, PTL

--------------------------------------------------------------------------------
\* The invariant of the keys

\* The touches: which key each notes, and the time it writes.
Touches ==
    \A g \in Routine : touch[g] = NoTouch \/ (touch[g].key \in Key /\ touch[g].stamp <= clock)

\* Times are not in the future; a key nobody has created has not been used.
Uses == \A k \in Key : used[k] <= clock /\ (row[k] = "unused" => used[k] = 0)

\* The note of a use that met no other is the only one on its way, and of no
\* earlier time.
Notes ==
    \A k \in Key : ~blurred[k] =>
        /\ \A g, h \in TouchesOf(k) : g = h
        /\ \A g \in TouchesOf(k) : touch[g].stamp = 0 \/ touch[g].stamp >= used[k]

KInv == KeysTypeOK /\ Touches /\ Uses /\ Notes /\ LastUseNoted

LEMMA InitKInv == KeysInit => KInv
<1> SUFFICES ASSUME KeysInit PROVE KInv
  OBVIOUS
<1> USE ApiKeysAssumption DEF KeysInit
<1>1. KeysTypeOK
  <2>1. MigrationsTypeOK
    BY InitMInv DEF MInv
  <2>2. 1 \in 1..MaxTime /\ 0 \in 0..MaxTime
    OBVIOUS
  <2> QED
    BY <2>1, <2>2 DEF KeysTypeOK, NoRequest, NoTouch
<1>2. \A k \in Key : TouchesOf(k) = {}
  BY DEF TouchesOf, NoTouch
<1> QED
  BY <1>1, <1>2 DEF KInv, Touches, Uses, Notes, LastUseNoted

\* A step of the schema's alone, or of time.
LEMMA MigrationsTypeStep == MInv /\ Next => MigrationsTypeOK'
<1> SUFFICES ASSUME MInv, Next PROVE MigrationsTypeOK'
  OBVIOUS
<1>1. CASE MigrationsNext
  BY <1>1, TypeStep
<1>2. CASE UNCHANGED migrationVars
  BY <1>2 DEF MInv, MigrationsTypeOK, migrationVars, database
<1> QED
  BY <1>1, <1>2, NextMigrations

\* Losing touches.
LEMMA LoseStep ==
    ASSUME KInv, MigrationsTypeOK', NEW G \in SUBSET Routine, Lose(G), UNCHANGED <<keyRows, clock, used>>,
           req' \in [Request -> [key : Key \union {NoKey}, host : Instance \union {NoInstance}]]
    PROVE  KInv'
<1> USE DEF KInv, KeysTypeOK, keyRows
<1>1. \A g \in Routine : touch'[g] = IF g \in G THEN NoTouch ELSE touch[g]
  BY DEF Lose
<1>2. KeysTypeOK'
  <2>1. NoTouch \in [key : Key \union {NoKey}, host : Instance \union {NoInstance}, stamp : 0..MaxTime]
    BY ApiKeysAssumption DEF NoTouch
  <2> QED
    BY <2>1 DEF Lose
<1>3. Touches' /\ Uses'
  BY <1>1 DEF Touches, Uses
<1>4. \A k \in Key : TouchesOf(k)' = TouchesOf(k) \ G
  <2>1. NoTouch.key \notin Key
    BY ApiKeysAssumption DEF NoTouch
  <2> QED
    BY <1>1, <2>1 DEF TouchesOf
<1>5. \A k \in Key : blurred'[k] = (blurred[k] \/ TouchesOf(k) \cap G # {})
  BY DEF Lose
<1>6. \A k \in Key : ~blurred'[k] => ~blurred[k] /\ TouchesOf(k)' = TouchesOf(k)
  BY <1>4, <1>5
<1>7. \A k \in Key : \A g \in TouchesOf(k)' : touch'[g] = touch[g]
  BY <1>1, <1>4 DEF TouchesOf
<1>8. Notes' /\ LastUseNoted'
  BY <1>6, <1>7 DEF Notes, LastUseNoted
<1> QED
  BY <1>2, <1>3, <1>8

LEMMA KInvStep == MInv /\ KInv /\ [Next]_allVars => KInv'
<1> SUFFICES ASSUME MInv, KInv, Next PROVE KInv'
  <2>1. CASE UNCHANGED allVars
    BY <2>1 DEF allVars, keyVars, keyRows, migrationVars, database, KInv, KeysTypeOK, MigrationsTypeOK,
                Touches, Uses, Notes, LastUseNoted, TouchesOf
  <2> QED
    BY <2>1
<1>m. MigrationsTypeOK'
  BY MigrationsTypeStep
<1> USE DEF KInv, KeysTypeOK
<1>1. ASSUME NEW i \in Instance, Lifecycle(i) PROVE KInv'
  <2>1. CASE UNCHANGED keyVars
    BY <2>1, <1>m DEF keyVars, keyRows, Touches, Uses, Notes, LastUseNoted, TouchesOf
  <2>2. CASE ExitServed(i)
    BY <2>2, <1>m, LoseStep DEF ExitServed, TouchesAt
  <2>3. CASE CrashServed(i)
    <3>1. NoRequest \in [key : Key \union {NoKey}, host : Instance \union {NoInstance}]
      BY DEF NoRequest
    <3>2. req' \in [Request -> [key : Key \union {NoKey}, host : Instance \union {NoInstance}]]
      BY <2>3, <3>1 DEF CrashServed
    <3> QED
      BY <2>3, <3>2, <1>m, LoseStep DEF CrashServed, TouchesAt
  <2> QED
    BY <1>1, <2>1, <2>2, <2>3 DEF Lifecycle
<1>2. ASSUME NEW k \in Key, CreateKey(k) \/ DeleteKey(k) PROVE KInv'
  <2>1. UNCHANGED <<lastUsed, clock, req, touch, used, blurred>> /\ row' \in [Key -> {"unused", "live", "deleted"}]
    BY <1>2 DEF CreateKey, DeleteKey
  <2>2. \A j \in Key : TouchesOf(j)' = TouchesOf(j)
    BY <2>1 DEF TouchesOf
  <2>3. \A j \in Key : row'[j] = row[j] \/ (row[j] = "unused" /\ row'[j] = "live") \/ row'[j] = "deleted"
    BY <1>2 DEF CreateKey, DeleteKey
  <2>4. Touches' /\ Uses' /\ Notes'
    BY <2>1, <2>2, <2>3 DEF Touches, Uses, Notes
  <2>5. LastUseNoted'
    BY <2>1, <2>2, <2>3 DEF LastUseNoted, Uses
  <2> QED
    BY <1>m, <2>1, <2>4, <2>5
<1>3. ASSUME NEW r \in Request, NEW k \in Key, NEW i \in Instance, NEW g \in Routine,
             Authenticate(r, k, i, g)
      PROVE  KInv'
  <2> DEFINE t == [key |-> k, host |-> i, stamp |-> 0]
  <2>1. /\ touch' = [touch EXCEPT ![g] = t] /\ used' = [used EXCEPT ![k] = clock]
        /\ blurred' = [blurred EXCEPT ![k] = TouchesOf(k) # {}]
        /\ req' = [req EXCEPT ![r] = [key |-> k, host |-> i]]
        /\ touch[g] = NoTouch /\ row[k] = "live" /\ UNCHANGED <<row, lastUsed, clock>>
    BY <1>3 DEF Authenticate, keyRows
  <2>2. t \in [key : Key \union {NoKey}, host : Instance \union {NoInstance}, stamp : 0..MaxTime]
    BY ApiKeysAssumption
  <2>3. KeysTypeOK'
    BY <1>m, <2>1, <2>2
  <2>4. t.key = k /\ t.stamp = 0 /\ NoTouch.key \notin Key
    BY ApiKeysAssumption DEF NoTouch
  <2> HIDE DEF t
  <2>5. Touches'
    BY <2>1, <2>4 DEF Touches
  <2>6. Uses'
    BY <2>1 DEF Uses
  <2>7. \A j \in Key : TouchesOf(j)' = IF j = k THEN TouchesOf(k) \union {g} ELSE TouchesOf(j)
    BY <2>1, <2>4 DEF TouchesOf
  <2>8. Notes'
    <3> SUFFICES ASSUME NEW j \in Key, ~blurred'[j]
                 PROVE  /\ \A x, y \in TouchesOf(j)' : x = y
                        /\ \A x \in TouchesOf(j)' : touch'[x].stamp = 0 \/ touch'[x].stamp >= used'[j]
      BY DEF Notes
    <3>1. CASE j = k
      <4>1. TouchesOf(j)' = {g}
        BY <2>1, <2>7, <3>1
      <4> QED
        BY <2>1, <2>4, <4>1
    <3>2. CASE j # k
      <4>1. g \notin TouchesOf(j)
        BY <2>1, <2>4 DEF TouchesOf
      <4>2. \A x \in TouchesOf(j) : touch'[x] = touch[x]
        BY <2>1, <4>1 DEF TouchesOf
      <4> QED
        BY <2>1, <2>7, <3>2, <4>2 DEF Notes
    <3> QED
      BY <3>1, <3>2
  <2>9. LastUseNoted'
    BY <2>1, <2>7 DEF LastUseNoted
  <2> QED
    BY <2>3, <2>5, <2>6, <2>8, <2>9
<1>4. ASSUME NEW r \in Request, Answer(r) PROVE KInv'
  <2>1. UNCHANGED <<row, lastUsed, clock, touch, used, blurred>>
    BY <1>4 DEF Answer, keyRows
  <2>2. req' \in [Request -> [key : Key \union {NoKey}, host : Instance \union {NoInstance}]]
    BY <1>4 DEF Answer, NoRequest
  <2> QED
    BY <1>m, <2>1, <2>2 DEF Touches, Uses, Notes, LastUseNoted, TouchesOf
<1>5. ASSUME NEW g \in Routine, BeginTouch(g) PROVE KInv'
  <2>1. /\ touch[g] # NoTouch /\ touch' = [touch EXCEPT ![g].stamp = clock]
        /\ UNCHANGED <<row, lastUsed, clock, req, used, blurred>>
    BY <1>5 DEF BeginTouch, keyRows
  <2>2. /\ touch'[g].key = touch[g].key /\ touch'[g].stamp = clock
        /\ \A h \in Routine : h # g => touch'[h] = touch[h]
        /\ clock \in 0..MaxTime
    BY <2>1, ApiKeysAssumption
  <2>3. KeysTypeOK'
    BY <1>m, <2>1, <2>2
  <2>4. \A j \in Key : TouchesOf(j)' = TouchesOf(j)
    BY <2>2 DEF TouchesOf
  <2>5. Touches' /\ Uses' /\ Notes' /\ LastUseNoted'
    <3>1. Touches' /\ Uses'
      BY <2>1, <2>2 DEF Touches, Uses
    <3>2. \A h \in Routine : touch'[h] = touch[h] \/ touch'[h].stamp = clock
      BY <2>2
    <3> QED
      BY <2>1, <2>4, <3>1, <3>2 DEF Notes, LastUseNoted, Uses
  <2> QED
    BY <2>3, <2>5
<1>6. ASSUME NEW g \in Routine, EndTouch(g) PROVE KInv'
  <2> DEFINE k == touch[g].key
  <2>1. /\ touch[g].stamp # 0 /\ touch' = [touch EXCEPT ![g] = NoTouch]
        /\ lastUsed' = (IF row[k] = "live" THEN [lastUsed EXCEPT ![k] = touch[g].stamp] ELSE lastUsed)
        /\ UNCHANGED <<row, clock, req, used, blurred>>
    BY <1>6 DEF EndTouch
  <2>2. k \in Key /\ touch[g].stamp \in 0..MaxTime
    BY <2>1 DEF Touches, NoTouch
  <2>3. NoTouch \in [key : Key \union {NoKey}, host : Instance \union {NoInstance}, stamp : 0..MaxTime]
        /\ NoTouch.key \notin Key
    BY ApiKeysAssumption DEF NoTouch
  <2>4. KeysTypeOK'
    BY <1>m, <2>1, <2>2, <2>3
  <2>5. Touches' /\ Uses'
    BY <2>1 DEF Touches, Uses
  <2>6. \A j \in Key : TouchesOf(j)' = TouchesOf(j) \ {g}
    BY <2>1, <2>3 DEF TouchesOf
  <2>7. \A j \in Key : \A h \in TouchesOf(j)' : touch'[h] = touch[h]
    BY <2>1, <2>6 DEF TouchesOf
  <2>8. Notes'
    BY <2>1, <2>6, <2>7 DEF Notes
  <2>9. LastUseNoted'
    <3> SUFFICES ASSUME NEW j \in Key, row[j] = "live", TouchesOf(j)' = {}, ~blurred[j]
                 PROVE  lastUsed'[j] >= used[j]
      BY <2>1 DEF LastUseNoted
    <3>1. CASE j = k
      <4>1. g \in TouchesOf(j)
        BY <3>1 DEF TouchesOf
      <4>2. lastUsed'[j] = touch[g].stamp
        BY <2>1, <2>2, <3>1
      <4> QED
        BY <2>1, <4>1, <4>2 DEF Notes
    <3>2. CASE j # k
      <4>1. TouchesOf(j) = {}
        BY <2>6, <3>2 DEF TouchesOf
      <4>2. lastUsed'[j] = lastUsed[j]
        BY <2>1, <3>2
      <4> QED
        BY <4>1, <4>2 DEF LastUseNoted
    <3> QED
      BY <3>1, <3>2
  <2> QED
    BY <2>4, <2>5, <2>8, <2>9
<1>7. ASSUME NEW g \in Routine, FailTouch(g) PROVE KInv'
  BY <1>7, <1>m, LoseStep DEF FailTouch
<1>8. CASE Tick
  <2>1. UNCHANGED <<row, lastUsed, req, touch, used, blurred>> /\ clock' = clock + 1 /\ clock < MaxTime
    BY <1>8 DEF Tick, keyRows
  <2>2. clock' \in 1..MaxTime
    BY <2>1, ApiKeysAssumption
  <2>3. Touches' /\ Uses'
    BY <2>1 DEF Touches, Uses
  <2> QED
    BY <1>m, <2>1, <2>2, <2>3 DEF Notes, LastUseNoted, TouchesOf
<1> QED
  BY <1>1, <1>2, <1>3, <1>4, <1>5, <1>6, <1>7, <1>8 DEF Next

--------------------------------------------------------------------------------
\* Theorems about keys

\* Every state is one that the tables allow, whatever number of instances,
\* requests and goroutines there are.
THEOREM KeysTypeCorrect == KeysSpec => []KeysTypeOK
<1>1. MInv /\ KInv /\ [Next]_allVars => KInv'
  BY KInvStep
<1>2. KeysInit => KInv
  BY InitKInv
<1>3. KInv => KeysTypeOK
  BY DEF KInv
<1> QED
  BY <1>1, <1>2, <1>3, KeysSpecMInv, PTL DEF KeysSpec

\* A use whose note met no other and was not lost is on record when it is done.
THEOREM LastUseAlwaysNoted == KeysSpec => []LastUseNoted
<1>1. MInv /\ KInv /\ [Next]_allVars => KInv'
  BY KInvStep
<1>2. KeysInit => KInv
  BY InitKInv
<1>3. KInv => LastUseNoted
  BY DEF KInv
<1> QED
  BY <1>1, <1>2, <1>3, KeysSpecMInv, PTL DEF KeysSpec

\* A deleted key stays deleted, and nobody gets in by it.
THEOREM DeletedKeysStayDeleted == KeysSpec => DeletedForGood
<1>1. MInv /\ KInv /\ [Next]_allVars => KInv'
  BY KInvStep
<1>2. KeysInit => KInv
  BY InitKInv
<1>3. ASSUME KInv, [Next]_allVars, NEW k \in Key, row[k] = "deleted"
      PROVE  row'[k] = "deleted" /\ used'[k] = used[k]
  <2>1. CASE UNCHANGED keyRows /\ UNCHANGED used
    BY <1>3, <2>1 DEF keyRows
  <2>2. CASE \E j \in Key : CreateKey(j) \/ DeleteKey(j)
    BY <1>3, <2>2 DEF CreateKey, DeleteKey, KInv, KeysTypeOK
  <2>3. CASE \E r \in Request, j \in Key, i \in Instance, g \in Routine : Authenticate(r, j, i, g)
    BY <1>3, <2>3 DEF Authenticate, keyRows, KInv, KeysTypeOK
  <2>4. CASE \E g \in Routine : EndTouch(g)
    BY <1>3, <2>4 DEF EndTouch
  <2> QED
    BY <1>3, <2>1, <2>2, <2>3, <2>4 DEF allVars, keyVars, Next, Lifecycle, ExitServed, CrashServed, Answer,
       BeginTouch, FailTouch, Tick
<1>4. KInv /\ [Next]_allVars => [\A k \in Key : row[k] = "deleted" => row'[k] = "deleted" /\ used'[k] = used[k]]_allVars
  BY <1>3
<1> QED
  BY <1>1, <1>2, <1>4, KeysSpecMInv, PTL DEF KeysSpec, DeletedForGood
================================================================================
