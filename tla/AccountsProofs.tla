----------------------------- MODULE AccountsProofs -----------------------------
(***************************************************************************)
(* What overlapping whole-row updates of users keep, for any number of     *)
(* accounts and requests.                                                  *)
(*                                                                         *)
(* The invariant says of a request about to write that its row is the row  *)
(* it has read with the one column changed that it was asked to change.    *)
(* Hence a write over an unchanged row changes that column only, and every *)
(* row that is written has a way to sign in, as the row read had.          *)
(***************************************************************************)
EXTENDS Accounts, TLAPS

HasWayIn(row) == row.pw # NoPassword \/ row.google # NoGoogle

\* The row written back is the row read, with one column changed.
OneColumn(c) ==
    \/ /\ c.op = "password" /\ c.row.pw \in Password
       /\ c.row.google = c.base.google /\ c.row.name = c.base.name
    \/ /\ c.op = "google" /\ c.row.google \in GoogleId
       /\ c.row.pw = c.base.pw /\ c.row.name = c.base.name
    \/ /\ c.op = "name"
       /\ c.row.pw = c.base.pw /\ c.row.google = c.base.google

Calls ==
    \A r \in Request :
        /\ pc[r] # "idle" =>
              /\ call[r].user \in Account /\ call[r].row \in Row /\ HasWayIn(call[r].row)
        /\ pc[r] = "google_email" => call[r].op = "google" /\ call[r].row.google \in GoogleId
        /\ pc[r] = "update" =>
              /\ Registered(call[r].user)
              /\ call[r].base \in Row
              /\ OneColumn(call[r])

\* An account that exists has something settled.
Alongside == \A a \in Account : Registered(a) => settled[a] # NoRow

Safe == Alongside /\ ChangesKept /\ WayIn /\ GoogleIdentifiesOne

IInv == TypeOK /\ Calls /\ Safe

\* A copy of a row with one column changed is a row.
LEMMA Copies ==
    ASSUME NEW s \in Row
    PROVE  /\ \A p \in Password \union {NoPassword} :
                 LET t == [s EXCEPT !.pw = p] IN
                 t \in Row /\ t.pw = p /\ t.google = s.google /\ t.name = s.name
           /\ \A g \in GoogleId \union {NoGoogle} :
                 LET t == [s EXCEPT !.google = g] IN
                 t \in Row /\ t.google = g /\ t.pw = s.pw /\ t.name = s.name
           /\ \A n \in Name :
                 LET t == [s EXCEPT !.name = n] IN
                 t \in Row /\ t.name = n /\ t.pw = s.pw /\ t.google = s.google
  BY DEF Row

\* Two rows are the same if their columns are.
LEMMA SameRow ==
    ASSUME NEW s \in Row, NEW t \in Row, s.pw = t.pw, s.google = t.google, s.name = t.name
    PROVE  s = t
  BY DEF Row

LEMMA InitIInv == Init => IInv
  BY NoneAssumption
     DEF Init, IInv, TypeOK, Calls, Safe, Alongside, ChangesKept, WayIn, GoogleIdentifiesOne, Registered,
         NoCall, Op, Row

\* A step that changes no row keeps what is said of the rows.
LEMMA RowsAlone ==
    ASSUME Safe, UNCHANGED <<users, settled>>, clobbered' = clobbered
    PROVE  Safe'
  BY DEF Safe, Alongside, ChangesKept, WayIn, GoogleIdentifiesOne, Registered

\* A request begins with a row of its own, or with one it has read and changed in
\* one column.
LEMMA StartIInv ==
    ASSUME IInv, NEW r \in Request, NEW a \in Account, NEW row \in Row, NEW op \in Op,
           NEW to \in {"google_email", "create", "update"}, Start(r, to, op, a, row),
           HasWayIn(row),
           to = "google_email" => op = "google" /\ row.google \in GoogleId,
           to = "update" => Registered(a) /\ OneColumn([op |-> op, user |-> a, base |-> users[a], row |-> row])
    PROVE  IInv'
  <1>1. TypeOK'
    BY DEF IInv, TypeOK, Start
  <1>2. Calls'
    <2> SUFFICES ASSUME NEW q \in Request
                 PROVE  /\ pc'[q] # "idle" =>
                              /\ call'[q].user \in Account /\ call'[q].row \in Row
                              /\ HasWayIn(call'[q].row)
                        /\ pc'[q] = "google_email" =>
                              call'[q].op = "google" /\ call'[q].row.google \in GoogleId
                        /\ pc'[q] = "update" =>
                              /\ users'[call'[q].user] # NoRow
                              /\ call'[q].base \in Row
                              /\ OneColumn(call'[q])
      BY DEF Calls, Registered, HasWayIn, OneColumn
    <2>1. CASE q = r
      <3>1. call'[r] = [op |-> op, user |-> a, base |-> users[a], row |-> row] /\ pc'[r] = to
            /\ users' = users
        BY DEF Start, IInv, TypeOK
      <3> QED
        BY <2>1, <3>1 DEF IInv, TypeOK, Registered, HasWayIn
    <2>2. CASE q # r
      BY <2>2 DEF Start, IInv, TypeOK, Calls, Registered
    <2> QED
      BY <2>1, <2>2
  <1>3. Safe'
    BY RowsAlone DEF IInv, Start
  <1> QED
    BY <1>1, <1>2, <1>3 DEF IInv

LEMMA BeginIInv ==
    ASSUME IInv, NEW r \in Request, Begin(r)
    PROVE  IInv'
  <1>0. ASSUME NEW a \in Account, Registered(a)
        PROVE  users[a] \in Row /\ HasWayIn(users[a])
    BY <1>0 DEF IInv, TypeOK, Safe, WayIn, Registered, HasWayIn
  <1>1. ASSUME NEW a \in Account, NEW n \in Name, NEW p \in Password, Signup(r, a, p, n)
        PROVE  IInv'
    BY <1>1, NoneAssumption, StartIInv DEF Signup, HasWayIn, Op, Row
  <1>2. ASSUME NEW a \in Account, NEW n \in Name, NEW g \in GoogleId, GoogleCallback(r, a, g, n)
        PROVE  IInv'
    BY <1>2, NoneAssumption, StartIInv DEF GoogleCallback, HasWayIn, Op, Row
  <1>3. ASSUME NEW a \in Account, NEW n \in Name, UpdateProfile(r, a, n) \/ AddMember(r, a, n)
        PROVE  IInv'
    <2> DEFINE row == [users[a] EXCEPT !.name = n]
    <2>1. Registered(a)
      BY <1>3 DEF UpdateProfile, AddMember
    <2>2. row \in Row /\ row.pw = users[a].pw /\ row.google = users[a].google
      BY <1>0, <2>1, Copies
    <2>3. HasWayIn(row)
      BY <1>0, <2>1, <2>2 DEF HasWayIn
    <2>4. Start(r, "update", "name", a, row)
      BY <1>3 DEF UpdateProfile, AddMember
    <2> HIDE DEF row
    <2> QED
      BY <2>1, <2>2, <2>3, <2>4, StartIInv DEF OneColumn, Op
  <1>4. ASSUME NEW a \in Account, NEW current \in Password, NEW p \in Password,
               ChangePassword(r, a, current, p)
        PROVE  IInv'
    <2> DEFINE row == [users[a] EXCEPT !.pw = p]
    <2>1. Registered(a) /\ Start(r, "update", "password", a, row)
      BY <1>4 DEF ChangePassword
    <2>2. row \in Row /\ row.pw = p /\ row.google = users[a].google /\ row.name = users[a].name
      BY <1>0, <2>1, Copies
    <2>3. HasWayIn(row)
      BY <2>2, NoneAssumption DEF HasWayIn
    <2> HIDE DEF row
    <2> QED
      BY <2>1, <2>2, <2>3, StartIInv DEF OneColumn, Op
  <1> QED
    BY <1>1, <1>2, <1>3, <1>4 DEF Begin

LEMMA GoogleEmailIInv ==
    ASSUME IInv, NEW r \in Request, GoogleEmail(r)
    PROVE  IInv'
  <1> DEFINE a == call[r].user
  <1>1. /\ a \in Account /\ call[r].row \in Row /\ HasWayIn(call[r].row)
        /\ call[r].op = "google" /\ call[r].row.google \in GoogleId
    BY DEF IInv, Calls, GoogleEmail
  <1>2. CASE Registered(a)
    <2> DEFINE row == [users[a] EXCEPT !.google = call[r].row.google]
               c == [op |-> "google", user |-> a, base |-> users[a], row |-> row]
    <2>1. users[a] \in Row
      BY <1>1, <1>2 DEF IInv, TypeOK, Registered
    <2>2. /\ row \in Row /\ row.google = call[r].row.google
          /\ row.pw = users[a].pw /\ row.name = users[a].name
      BY <1>1, <2>1, Copies
    <2>3. HasWayIn(row)
      BY <1>1, <2>2, NoneAssumption DEF HasWayIn
    <2>4. /\ pc' = [pc EXCEPT ![r] = "update"] /\ call' = [call EXCEPT ![r] = c]
          /\ UNCHANGED <<users, settled, clobbered>>
      BY <1>1, <1>2 DEF GoogleEmail, IInv, TypeOK
    <2> HIDE DEF row
    <2>5. TypeOK'
      BY <1>1, <2>1, <2>2, <2>4 DEF IInv, TypeOK, Op
    <2>6. Calls'
      BY <1>1, <1>2, <2>1, <2>2, <2>3, <2>4
         DEF IInv, TypeOK, Calls, Registered, HasWayIn, OneColumn
    <2> QED
      BY <2>4, <2>5, <2>6, RowsAlone DEF IInv
  <1>3. CASE ~Registered(a)
    <2> DEFINE c == [op |-> "google", user |-> a, base |-> NoRow, row |-> call[r].row]
    <2>1. /\ pc' = [pc EXCEPT ![r] = "create"] /\ call' = [call EXCEPT ![r] = c]
          /\ UNCHANGED <<users, settled, clobbered>>
      BY <1>1, <1>3 DEF GoogleEmail, IInv, TypeOK
    <2>2. TypeOK'
      BY <1>1, <2>1 DEF IInv, TypeOK, Op
    <2>3. Calls'
      BY <1>1, <2>1 DEF IInv, TypeOK, Calls, Registered, HasWayIn, OneColumn
    <2> QED
      BY <2>1, <2>2, <2>3, RowsAlone DEF IInv
  <1> QED
    BY <1>2, <1>3

\* The requests other than r, when r ends and no row disappears.
LEMMA FinishCalls ==
    ASSUME IInv, NEW r \in Request, Finish(r),
           \A b \in Account : Registered(b) => users'[b] # NoRow
    PROVE  Calls'
  BY DEF IInv, TypeOK, Calls, Finish, Registered, HasWayIn, OneColumn

LEMMA CreateIInv ==
    ASSUME IInv, NEW r \in Request, Create(r)
    PROVE  IInv'
  <1> DEFINE a == call[r].user
             row == call[r].row
  <1>1. a \in Account /\ row \in Row /\ HasWayIn(row) /\ row # NoRow
    BY NoneAssumption DEF IInv, Calls, Create
  <1>2. TypeOK'
    BY <1>1 DEF IInv, TypeOK, Create, Finish, NoCall, Op
  <1>3. Calls'
    BY <1>1, FinishCalls DEF Create, IInv, TypeOK, Registered
  <1>4. Safe'
    <2>1. CASE Registered(a) \/ GoogleTaken(a, row.google)
      BY <2>1, RowsAlone DEF IInv, Create
    <2>2. CASE ~(Registered(a) \/ GoogleTaken(a, row.google))
      <3>1. users' = [users EXCEPT ![a] = row] /\ settled' = [settled EXCEPT ![a] = row]
            /\ clobbered' = clobbered
        BY <2>2 DEF Create
      <3> QED
        BY <1>1, <2>2, <3>1
           DEF IInv, TypeOK, Safe, Alongside, ChangesKept, WayIn, GoogleIdentifiesOne, GoogleTaken,
               Registered, HasWayIn
    <2> QED
      BY <2>1, <2>2
  <1> QED
    BY <1>2, <1>3, <1>4 DEF IInv

LEMMA UpdateIInv ==
    ASSUME IInv, NEW r \in Request, Update(r)
    PROVE  IInv'
  <1> DEFINE c == call[r]
             a == call[r].user
             row == call[r].row
  <1>1. /\ a \in Account /\ row \in Row /\ HasWayIn(row) /\ row # NoRow
        /\ Registered(a) /\ c.base \in Row /\ OneColumn(c)
    BY NoneAssumption DEF IInv, Calls, Update
  <1>2. CASE GoogleTaken(a, row.google)
    <2>1. UNCHANGED <<users, settled, clobbered>> /\ Finish(r)
      BY <1>2 DEF Update
    <2>2. TypeOK'
      BY <2>1 DEF IInv, TypeOK, Finish, NoCall, Op
    <2> QED
      BY <2>1, <2>2, FinishCalls, RowsAlone DEF IInv, Registered
  <1>3. CASE ~GoogleTaken(a, row.google)
    <2>1. /\ users' = [users EXCEPT ![a] = row]
          /\ settled' = [settled EXCEPT ![a] = Changed(c)]
          /\ clobbered' = IF users[a] # c.base THEN clobbered \union {a} ELSE clobbered
          /\ Finish(r)
      BY <1>3 DEF Update, WriteBack
    <2>2. settled[a] \in Row
      BY <1>1 DEF IInv, TypeOK, Safe, Alongside
    <2>3. /\ Changed(c) \in Row
          /\ c.op = "password" => /\ Changed(c).pw = row.pw
                                 /\ Changed(c).google = settled[a].google
                                 /\ Changed(c).name = settled[a].name
          /\ c.op = "google" => /\ Changed(c).google = row.google
                               /\ Changed(c).pw = settled[a].pw
                               /\ Changed(c).name = settled[a].name
          /\ c.op = "name" =>
                               /\ Changed(c).name = row.name
                               /\ Changed(c).pw = settled[a].pw
                               /\ Changed(c).google = settled[a].google
      <3>1. row.pw \in Password \union {NoPassword} /\ row.google \in GoogleId \union {NoGoogle}
            /\ row.name \in Name
        BY <1>1 DEF Row
      <3> QED
        BY <1>1, <2>2, <3>1, Copies DEF Changed, OneColumn
    <2>4. a \notin clobbered' => Changed(c) = row
      <3> SUFFICES ASSUME a \notin clobbered'
                   PROVE  Changed(c) = row
        OBVIOUS
      <3>1. settled[a] = c.base
        BY <1>1, <2>1 DEF IInv, Safe, ChangesKept
      <3> QED
        BY <1>1, <2>3, <3>1, SameRow DEF OneColumn
    <2>5. TypeOK'
      BY <1>1, <2>1, <2>3 DEF IInv, TypeOK, Finish, NoCall, Op
    <2>6. Calls'
      BY <1>1, <2>1, FinishCalls DEF IInv, TypeOK, Registered
    <2>7. ChangesKept' /\ Alongside'
      BY <1>1, <2>1, <2>3, <2>4, NoneAssumption
         DEF IInv, TypeOK, Safe, ChangesKept, Alongside, Registered
    <2>8. WayIn' /\ GoogleIdentifiesOne'
      BY <1>1, <1>3, <2>1
         DEF IInv, TypeOK, Safe, WayIn, GoogleIdentifiesOne, GoogleTaken, Registered, HasWayIn
    <2> QED
      BY <2>5, <2>6, <2>7, <2>8 DEF IInv, Safe
  <1> QED
    BY <1>2, <1>3

LEMMA AbandonIInv ==
    ASSUME IInv, NEW r \in Request, Abandon(r)
    PROVE  IInv'
  <1>1. TypeOK'
    BY DEF IInv, TypeOK, Abandon, Finish, NoCall, Op
  <1> QED
    BY <1>1, FinishCalls, RowsAlone DEF IInv, Abandon, Registered

LEMMA SpecIInv == Spec => []IInv
  <1>1. IInv /\ [Next]_vars => IInv'
    <2>1. CASE UNCHANGED vars
      BY <2>1, RowsAlone DEF vars, IInv, TypeOK, Calls, Registered, HasWayIn, OneColumn
    <2> QED
      BY <2>1, BeginIInv, GoogleEmailIInv, CreateIInv, UpdateIInv, AbandonIInv DEF Next
  <1> QED
    BY InitIInv, <1>1, PTL DEF Spec

\* The variables keep their types.
THEOREM TypeCorrect == Spec => []TypeOK
  <1>1. IInv => TypeOK
    BY DEF IInv
  <1> QED
    BY SpecIInv, <1>1, PTL

\* An acknowledged change of AuthService is lost only on an account where some
\* request has overwritten a row that changed after it was read.
THEOREM ChangesAlwaysKept == Spec => []ChangesKept
  <1>1. IInv => ChangesKept
    BY DEF IInv, Safe
  <1> QED
    BY SpecIInv, <1>1, PTL

\* Lost updates of users never leave an account nobody can sign in to.
THEOREM AlwaysWayIn == Spec => []WayIn
  <1>1. IInv => WayIn
    BY DEF IInv, Safe
  <1> QED
    BY SpecIInv, <1>1, PTL

\* GoogleCallback signs a Google account in to one account at most.
THEOREM GoogleAlwaysIdentifiesOne == Spec => []GoogleIdentifiesOne
  <1>1. IInv => GoogleIdentifiesOne
    BY DEF IInv, Safe
  <1> QED
    BY SpecIInv, <1>1, PTL
================================================================================
