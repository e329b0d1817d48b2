-------------------------------- MODULE Accounts --------------------------------
(***************************************************************************)
(* The rows of users, and the requests that write them: sign-up, Google    *)
(* sign-in, profile and password changes, and an organization owner who    *)
(* adds a member by his email.  Each reads a row, works on the copy and    *)
(* writes the whole copy back (or inserts it); nothing is locked, and a    *)
(* bcrypt computation may lie in between.                                  *)
(*                                                                         *)
(* An account is known by its email, compared without case, which no       *)
(* operation changes.  A password stands for its hash.  Names stand for    *)
(* what else the requests write; the phone is not written by UserPG.Update *)
(* at all.                                                                 *)
(***************************************************************************)
CONSTANTS
    Account,      \* emails
    Password,
    GoogleId,
    Name,
    Request,      \* requests in progress at the same time
    NoPassword,
    NoGoogle,
    NoRow,
    NoAccount

Row == [pw : Password \union {NoPassword}, google : GoogleId \union {NoGoogle}, name : Name]

ASSUME NoneAssumption ==
    /\ NoPassword \notin Password /\ NoGoogle \notin GoogleId /\ NoAccount \notin Account
    /\ NoRow \notin Row

VARIABLES
    users,        \* users[a]: the row of account a
    pc, call,     \* each request's next step, and what it works on
    settled,      \* history: the row with every acknowledged change in it
    clobbered     \* history: accounts on which a request has overwritten a row
                  \*   that had changed since the request read it

vars == <<users, pc, call, settled, clobbered>>

Op == {"none", "signup", "google", "name", "password"}

NoCall == [op |-> "none", user |-> NoAccount, base |-> NoRow, row |-> NoRow]

TypeOK ==
    /\ users \in [Account -> Row \union {NoRow}]
    /\ pc \in [Request -> {"idle", "google_email", "create", "update"}]
    /\ call \in [Request -> [op : Op, user : Account \union {NoAccount},
                             base : Row \union {NoRow}, row : Row \union {NoRow}]]
    /\ settled \in [Account -> Row \union {NoRow}]
    /\ clobbered \subseteq Account

Init ==
    /\ users = [a \in Account |-> NoRow]
    /\ pc = [r \in Request |-> "idle"]
    /\ call = [r \in Request |-> NoCall]
    /\ settled = users
    /\ clobbered = {}

--------------------------------------------------------------------------------
Registered(a) == users[a] # NoRow

\* Request r works on a copy of account a's row, or on a new row.
Start(r, to, op, a, row) ==
    /\ pc[r] = "idle"
    /\ pc' = [pc EXCEPT ![r] = to]
    /\ call' = [call EXCEPT ![r] = [op |-> op, user |-> a, base |-> users[a], row |-> row]]
    /\ UNCHANGED <<users, settled, clobbered>>

Finish(r) ==
    /\ pc' = [pc EXCEPT ![r] = "idle"]
    /\ call' = [call EXCEPT ![r] = NoCall]

\* Mutant of GoogleTaken: no unique index.
GoogleTakenNever(a, g) == FALSE

\* UNIQUE (google_id): another row has it.
GoogleTaken(a, g) ==
    g # NoGoogle /\ \E b \in Account \ {a} : Registered(b) /\ users[b].google = g

--------------------------------------------------------------------------------
\* AuthService.Signup finds no user and hashes the password.
Signup(r, a, p, n) ==
    /\ ~Registered(a)
    /\ Start(r, "create", "signup", a, [pw |-> p, google |-> NoGoogle, name |-> n])

\* AuthService.GoogleCallback knows nobody by the google_id.
GoogleCallback(r, a, g, n) ==
    /\ \A b \in Account : Registered(b) => users[b].google # g
    /\ Start(r, "google_email", "google", a, [pw |-> NoPassword, google |-> g, name |-> n])

\* Mutant of GoogleEmail: the account takes over the profile from Google.
GoogleEmailFresh(r) ==
    LET a == call[r].user IN
    /\ pc[r] = "google_email"
    /\ pc' = [pc EXCEPT ![r] = IF Registered(a) THEN "update" ELSE "create"]
    /\ call' = [call EXCEPT ![r].base = users[a]]
    /\ UNCHANGED <<users, settled, clobbered>>

\* It looks for the email: an account is linked, whatever google_id it had, or a
\* new one is created.
GoogleEmail(r) ==
    LET a == call[r].user
        c == call[r] IN
    /\ pc[r] = "google_email"
    /\ \/ /\ Registered(a)
          /\ pc' = [pc EXCEPT ![r] = "update"]
          /\ call' = [call EXCEPT ![r].base = users[a],
                                  ![r].row = [users[a] EXCEPT !.google = c.row.google]]
       \/ /\ ~Registered(a)
          /\ pc' = [pc EXCEPT ![r] = "create"]
          /\ call' = [call EXCEPT ![r].base = NoRow]
    /\ UNCHANGED <<users, settled, clobbered>>

UpdateProfile(r, a, n) ==
    /\ Registered(a)
    /\ Start(r, "update", "name", a, [users[a] EXCEPT !.name = n])

\* AppOrgService.AddMember for a registered email: the owner of an organization
\* sets the member's name.
AddMember(r, a, n) ==
    /\ Registered(a)
    /\ Start(r, "update", "name", a, [users[a] EXCEPT !.name = n])

\* The current password is compared with the copy; an account without one needs
\* none.
ChangePassword(r, a, current, p) ==
    /\ Registered(a)
    /\ users[a].pw # NoPassword => current = users[a].pw
    /\ Start(r, "update", "password", a, [users[a] EXCEPT !.pw = p])

--------------------------------------------------------------------------------
\* UserPG.Create: the unique indexes on email and google_id refuse.
Create(r) ==
    LET a == call[r].user
        row == call[r].row IN
    /\ pc[r] = "create"
    /\ IF Registered(a) \/ GoogleTaken(a, row.google)
       THEN UNCHANGED <<users, settled>>
       ELSE /\ users' = [users EXCEPT ![a] = row]
            /\ settled' = [settled EXCEPT ![a] = row]
    /\ Finish(r)
    /\ UNCHANGED clobbered

\* What a request of each kind is asked to change.
Changed(c) ==
    CASE c.op = "password" -> [settled[c.user] EXCEPT !.pw = c.row.pw]
      [] c.op = "google" -> [settled[c.user] EXCEPT !.google = c.row.google]
      [] OTHER -> [settled[c.user] EXCEPT !.name = c.row.name]

\* Mutant of WriteBack: the google_id was not read, and is cleared.
WriteBackNoGoogle(c) == [users EXCEPT ![c.user] = [c.row EXCEPT !.google = NoGoogle]]

WriteBack(c) == [users EXCEPT ![c.user] = c.row]

\* UserPG.Update writes every column of the copy.
Update(r) ==
    LET c == call[r]
        a == c.user IN
    /\ pc[r] = "update"
    /\ IF GoogleTaken(a, c.row.google)
       THEN UNCHANGED <<users, settled, clobbered>>
       ELSE /\ users' = WriteBack(c)
            /\ settled' = [settled EXCEPT ![a] = Changed(c)]
            /\ clobbered' = IF users[a] # c.base THEN clobbered \union {a} ELSE clobbered
    /\ Finish(r)

\* Postgres fails, the client goes away or the gateway crashes.
Abandon(r) ==
    /\ pc[r] # "idle"
    /\ Finish(r)
    /\ UNCHANGED <<users, settled, clobbered>>

Begin(r) ==
    \E a \in Account, n \in Name :
        \/ \E p \in Password : Signup(r, a, p, n)
        \/ \E g \in GoogleId : GoogleCallback(r, a, g, n)
        \/ UpdateProfile(r, a, n) \/ AddMember(r, a, n)
        \/ \E current, p \in Password : ChangePassword(r, a, current, p)

Next == \E r \in Request : Begin(r) \/ GoogleEmail(r) \/ Create(r) \/ Update(r) \/ Abandon(r)

Spec == Init /\ [][Next]_vars

--------------------------------------------------------------------------------
\* Properties

\* The row holds every change that was acknowledged (UpdateProfile,
\* ChangePassword, Google linking, AddMember), unless some request has overwritten
\* a row that changed after it was read: that alone loses changes.
ChangesKept == \A a \in Account \ clobbered : users[a] = settled[a]

\* Every account can be signed in to, by a password or by Google, also when
\* requests overwrite each other's changes: what is lost is lost as a whole row.
WayIn ==
    \A a \in Account : Registered(a) => users[a].pw # NoPassword \/ users[a].google # NoGoogle

\* A Google account signs in to one account at most, although GoogleCallback looks
\* for its id first and writes it two statements later.
GoogleIdentifiesOne ==
    \A a, b \in Account :
        Registered(a) /\ Registered(b) /\ users[a].google = users[b].google
            => a = b \/ users[a].google = NoGoogle

\* What a test of ChangePassword says ("Old password should no longer work"): the
\* password of an account is the one that was last set and acknowledged.
NewPasswordStands == \A a \in Account : Registered(a) => users[a].pw = settled[a].pw
================================================================================
