--------------------------- MODULE LoginLimiterProofs ---------------------------
(***************************************************************************)
(* However many requests overlap and whatever the limit, the number of     *)
(* wrong passwords that are answered is bounded.                           *)
(*                                                                         *)
(* A request that has passed the check will answer one wrong password at   *)
(* most, so the invariant bounds the answers given and the requests past   *)
(* the check together: a request passes while fewer than Limit answers     *)
(* were counted, and then all requests can be past the check.              *)
(***************************************************************************)
EXTENDS LoginLimiter, FiniteSetTheorems, TLAPS

Passed(k) == {r \in Request : key[r] = k /\ pc[r] \in {"compare", "count"}}

Ceiling == Limit - 1 + Cardinality(Request)

Counted ==
    \A k \in Key \ faulted :
        /\ attempts[k] = refused[k]
        /\ refused[k] + Cardinality(Passed(k)) <= Ceiling

IInv == TypeOK /\ Counted

\* Requests past the check are requests.
LEMMA PassedFinite ==
    ASSUME NEW k \in Key
    PROVE  /\ IsFiniteSet(Passed(k)) /\ Cardinality(Passed(k)) \in Nat
           /\ Cardinality(Passed(k)) <= Cardinality(Request)
           /\ Cardinality(Request) \in Nat
  <1>1. Passed(k) \subseteq Request
    BY DEF Passed
  <1> QED
    BY <1>1, RequestAssumption, FS_Subset, FS_CardinalityType

LEMMA PassedFiniteNext ==
    ASSUME NEW k \in Key
    PROVE  /\ IsFiniteSet(Passed(k)') /\ Cardinality(Passed(k)') \in Nat
           /\ Cardinality(Passed(k)') <= Cardinality(Request)
  <1>1. Passed(k)' \subseteq Request
    BY DEF Passed
  <1> QED
    BY <1>1, RequestAssumption, FS_Subset, FS_CardinalityType

\* A step that lets no request past the check does not raise the number.
LEMMA NoMorePassed ==
    ASSUME NEW k \in Key, Passed(k)' \subseteq Passed(k)
    PROVE  Cardinality(Passed(k)') <= Cardinality(Passed(k))
  BY PassedFinite, FS_Subset

\* A request that answers is past the check no more.
LEMMA OnePassedLess ==
    ASSUME NEW k \in Key, NEW r \in Passed(k), Passed(k)' \subseteq Passed(k) \ {r}
    PROVE  Cardinality(Passed(k)') <= Cardinality(Passed(k)) - 1
  <1>1. /\ IsFiniteSet(Passed(k) \ {r})
        /\ Cardinality(Passed(k) \ {r}) = Cardinality(Passed(k)) - 1
    BY PassedFinite, FS_RemoveElement
  <1> QED
    BY <1>1, FS_Subset

LEMMA InitIInv == Init => IInv
  <1> SUFFICES ASSUME Init
               PROVE  IInv
    OBVIOUS
  <1>1. TypeOK
    BY LimitAssumption DEF Init, TypeOK
  <1>2. ASSUME NEW k \in Key
        PROVE  attempts[k] = refused[k] /\ refused[k] + Cardinality(Passed(k)) <= Ceiling
    BY <1>2, PassedFinite, LimitAssumption DEF Init, Ceiling
  <1> QED
    BY <1>1, <1>2 DEF IInv, Counted

LEMMA NextTypeOK == TypeOK /\ [Next]_vars => TypeOK'
  <1> SUFFICES ASSUME TypeOK, [Next]_vars
               PROVE  TypeOK'
    OBVIOUS
  <1> USE LimitAssumption, NoKeyAssumption DEF TypeOK
  <1>1. ASSUME NEW r \in Request, NEW k \in Key, Login(r, k)
        PROVE  TypeOK'
    BY <1>1 DEF Login
  <1>2. ASSUME NEW r \in Request, Check(r)
        PROVE  TypeOK'
    BY <1>2 DEF Check, Goto, Finish, RedisFails, RedisWorks
  <1>3. ASSUME NEW r \in Request, Compare(r)
        PROVE  TypeOK'
    BY <1>3 DEF Compare, Goto, Finish
  <1>4. ASSUME NEW r \in Request, Count(r)
        PROVE  TypeOK'
    BY <1>4 DEF Count, Finish, RedisFails, RedisWorks
  <1>5. ASSUME NEW r \in Request, Abandon(r)
        PROVE  TypeOK'
    BY <1>5 DEF Abandon, Finish
  <1>6. CASE Tick
    BY <1>6 DEF Tick
  <1>7. CASE UNCHANGED vars
    BY <1>7 DEF vars
  <1> QED
    BY <1>1, <1>2, <1>3, <1>4, <1>5, <1>6, <1>7 DEF Next, Advance

LEMMA NextIInv == IInv /\ [Next]_vars => IInv'
  <1> SUFFICES ASSUME IInv, [Next]_vars
               PROVE  IInv'
    OBVIOUS
  <1>0. TypeOK /\ TypeOK'
    BY NextTypeOK DEF IInv
  <1> SUFFICES ASSUME NEW k \in Key, k \notin faulted'
               PROVE  /\ attempts'[k] = refused'[k]
                      /\ refused'[k] + Cardinality(Passed(k)') <= Ceiling
    BY <1>0 DEF IInv, Counted, Ceiling
  <1>s. /\ Cardinality(Passed(k)) \in Nat /\ Cardinality(Passed(k)') \in Nat
        /\ Cardinality(Passed(k)') <= Cardinality(Request)
        /\ Cardinality(Request) \in Nat /\ Limit \in Nat \ {0}
        /\ attempts[k] \in Nat /\ refused[k] \in Nat
    BY <1>0, PassedFinite, PassedFiniteNext, LimitAssumption DEF TypeOK
  <1>k. k \notin faulted => /\ attempts[k] = refused[k]
                            /\ refused[k] + Cardinality(Passed(k)) <= Ceiling
    BY DEF IInv, Counted
  <1>a. ASSUME UNCHANGED <<attempts, refused>>, k \notin faulted, Passed(k)' \subseteq Passed(k)
        PROVE  /\ attempts'[k] = refused'[k]
               /\ refused'[k] + Cardinality(Passed(k)') <= Ceiling
    BY <1>a, <1>s, <1>k, NoMorePassed DEF Ceiling
  <1>1. ASSUME NEW r \in Request, NEW j \in Key, Login(r, j)
        PROVE  /\ attempts'[k] = refused'[k]
               /\ refused'[k] + Cardinality(Passed(k)') <= Ceiling
    BY <1>0, <1>1, <1>a DEF Login, Passed, TypeOK
  <1>2. ASSUME NEW r \in Request, Check(r)
        PROVE  /\ attempts'[k] = refused'[k]
               /\ refused'[k] + Cardinality(Passed(k)') <= Ceiling
    <2>1. k \notin faulted /\ UNCHANGED <<attempts, refused>>
      BY <1>2 DEF Check, RedisFails, RedisWorks
    <2>2. CASE key[r] # k \/ TooMany(key[r])
      <3>1. Passed(k)' \subseteq Passed(k)
        BY <1>0, <1>2, <2>2 DEF Check, Passed, TypeOK, Goto, Finish, RedisFails
      <3> QED
        BY <2>1, <3>1, <1>a
    <2>3. CASE key[r] = k /\ ~TooMany(k)
      <3>1. refused[k] <= Limit - 1
        BY <1>s, <1>k, <2>1, <2>3 DEF TooMany
      <3> QED
        BY <2>1, <3>1, <1>s, <1>k DEF Ceiling
    <2> QED
      BY <2>2, <2>3
  <1>3. ASSUME NEW r \in Request, Compare(r)
        PROVE  /\ attempts'[k] = refused'[k]
               /\ refused'[k] + Cardinality(Passed(k)') <= Ceiling
    BY <1>0, <1>3, <1>a DEF Compare, Goto, Finish, Passed, TypeOK
  <1>4. ASSUME NEW r \in Request, Count(r)
        PROVE  /\ attempts'[k] = refused'[k]
               /\ refused'[k] + Cardinality(Passed(k)') <= Ceiling
    <2>1. k \notin faulted
      BY <1>4 DEF Count, RedisFails, RedisWorks
    <2>2. CASE key[r] = k
      <3>1. /\ attempts'[k] = attempts[k] + 1
            /\ refused'[k] = refused[k] + 1
        BY <1>0, <1>4, <2>2 DEF Count, RedisFails, TypeOK
      <3>2. r \in Passed(k) /\ Passed(k)' \subseteq Passed(k) \ {r}
        BY <1>0, <1>4, <2>2 DEF Count, Finish, Passed, TypeOK
      <3>3. Cardinality(Passed(k)') <= Cardinality(Passed(k)) - 1
        BY <3>2, OnePassedLess
      <3> QED
        BY <2>1, <3>1, <3>3, <1>s, <1>k DEF Ceiling
    <2>3. CASE key[r] # k
      <3>1. attempts'[k] = attempts[k] /\ refused'[k] = refused[k]
        BY <1>0, <1>4, <2>3 DEF Count, TypeOK
      <3>2. Passed(k)' \subseteq Passed(k)
        BY <1>0, <1>4, <2>3 DEF Count, Finish, Passed, TypeOK
      <3> QED
        BY <2>1, <3>1, <3>2, <1>s, <1>k, NoMorePassed DEF Ceiling
    <2> QED
      BY <2>2, <2>3
  <1>5. ASSUME NEW r \in Request, Abandon(r)
        PROVE  /\ attempts'[k] = refused'[k]
               /\ refused'[k] + Cardinality(Passed(k)') <= Ceiling
    BY <1>0, <1>5, <1>a DEF Abandon, Finish, Passed, TypeOK
  <1>6. CASE Tick
    <2>1. CASE ttl[k] = 1
      <3>1. attempts'[k] = 0 /\ refused'[k] = 0
        BY <1>6, <2>1 DEF Tick
      <3> QED
        BY <3>1, <1>s DEF Ceiling
    <2>2. CASE ttl[k] # 1
      <3>1. attempts'[k] = attempts[k] /\ refused'[k] = refused[k] /\ k \notin faulted
        BY <1>6, <2>2 DEF Tick
      <3>2. Passed(k)' \subseteq Passed(k)
        BY <1>6 DEF Tick, Passed
      <3> QED
        BY <3>1, <3>2, <1>s, <1>k, NoMorePassed DEF Ceiling
    <2> QED
      BY <2>1, <2>2
  <1>7. CASE UNCHANGED vars
    BY <1>7, <1>a DEF vars, Passed
  <1> QED
    BY <1>1, <1>2, <1>3, <1>4, <1>5, <1>6, <1>7 DEF Next, Advance

LEMMA SpecIInv == Spec => []IInv
  BY InitIInv, NextIInv, PTL DEF Spec

\* The state of the counters and of the logins (RateLimiterRedis, AuthService.Login)
\* is well typed: no request past idle is without a counter.
THEOREM TypeCorrect == Spec => []TypeOK
  BY SpecIInv, PTL DEF IInv

\* For every limit and any number of overlapping requests, RateLimiterRedis lets
\* AuthService.Login answer at most Limit + |Request| - 1 wrong passwords before
\* the counter expires, unless Redis fails.
THEOREM GuessesAlwaysBounded == Spec => []GuessesBounded
  <1>1. IInv => GuessesBounded
    <2> SUFFICES ASSUME IInv, NEW k \in Key \ faulted
                 PROVE  refused[k] <= Limit + Cardinality(Request) - 1
      BY DEF GuessesBounded
    <2>1. refused[k] + Cardinality(Passed(k)) <= Ceiling /\ refused[k] \in Nat
      BY DEF IInv, Counted, TypeOK
    <2> QED
      BY <2>1, PassedFinite, LimitAssumption DEF Ceiling
  <1> QED
    BY SpecIInv, <1>1, PTL
================================================================================
