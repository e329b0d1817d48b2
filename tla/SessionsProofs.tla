---------------------------- MODULE SessionsProofs ----------------------------
(***************************************************************************)
(* Theorems about Sessions, for every set of tokens, users and requests,   *)
(* all lifetimes and any failures of the stores.  Two of them ask that an  *)
(* access token does not live longer than a session.                       *)
(***************************************************************************)
EXTENDS Sessions, TLAPS

\* A request that was handed a token by a client works on a token clients hold;
\* one about to cache a new session holds a token no client and no other request
\* has; all of them were minted.
TokensInHand ==
    /\ \A r \in Request : pc[r] \notin {"idle", "create", "cache_new"} => tok[r] \in held
    /\ \A r \in Request : pc[r] = "cache_new" => tok[r] \in Minted \ held
    /\ \A q, r \in Request :
          pc[q] = "cache_new" /\ pc[r] = "cache_new" /\ tok[q] = tok[r] => q = r

\* Expiries and the access granted under them.
Lifetimes ==
    \A t \in Token : /\ t \in Minted => expires[t] >= RefreshTTL
                     /\ access[t] <= expires[t] + Overhang

\* What the requests removing a session know of the stores: two requests that
\* could disturb each other have tainted the token.
Removal ==
    /\ \A q, r \in Request :
          pc[q] \in AuthFlight /\ pc[r] \in RefreshFlight \union LogoutFlight /\ tok[q] = tok[r]
             => tok[q] \in tainted
    /\ \A q \in Request :
          pc[q] = "auth_backfill" /\ tok[q] \in loggedOut \union rotated => tok[q] \in tainted
    /\ \A r \in Request : pc[r] = "refresh_uncache" => tok[r] \notin sessions
    /\ \A r \in Request : pc[r] = "logout_delete" /\ tok[r] \in cache => tok[r] \in tainted

IInv == TypeOK /\ TokensInHand /\ Lifetimes /\ Removal /\ CleanEndIsFinal

\* A request that came too late works on a token without a row: rows do not come
\* back, so it never reads one.
LateInv ==
    /\ \A r \in Request : late[r] => /\ pc[r] # "idle"
                                     /\ tok[r] \in (loggedOut \union rotated) \ sessions
    /\ EndedTokenNotRedeemed

-------------------------------------------------------------------------------
\* The invariant holds initially and every action keeps it.

LEMMA OverhangType ==
    /\ RefreshTTL \in Nat \ {0} /\ AccessTTL \in Nat \ {0} /\ MaxTime \in Nat
    /\ Overhang \in Nat /\ AccessTTL <= RefreshTTL + Overhang
  BY TTLAssumption DEF Overhang, SessionOutlivesAccess

\* No access token outlives its session.
LEMMA NoOverhang ==
    ASSUME SessionOutlivesAccess, IInv, NEW t \in Token
    PROVE  access[t] <= expires[t] /\ AccessTTL <= RefreshTTL
  BY TTLAssumption DEF Overhang, SessionOutlivesAccess, IInv, TypeOK, Lifetimes

LEMMA InitIInv == Init => IInv
  BY OverhangType, NoTokenAssumption, NoUserAssumption
     DEF Init, IInv, TypeOK, TokensInHand, Lifetimes, Removal, CleanEndIsFinal, Minted, Step,
         AuthFlight, RefreshFlight, LogoutFlight

LEMMA SignInIInv ==
    ASSUME IInv, NEW r \in Request, SignIn(r)
    PROVE  IInv'
  <1> USE OverhangType, NoTokenAssumption DEF IInv, SignIn, Goto, stores, history,
          Minted, Step, AuthFlight, RefreshFlight, LogoutFlight
  <1>1. TypeOK'
    BY DEF TypeOK, TokensInHand, Lifetimes
  <1>2. TokensInHand'
    BY DEF TypeOK, TokensInHand
  <1>3. Lifetimes'
    BY DEF TypeOK, Lifetimes, TokensInHand
  <1>4. Removal'
    BY DEF TypeOK, TokensInHand, Removal, CleanEndIsFinal
  <1>5. CleanEndIsFinal'
    BY DEF TypeOK, TokensInHand, Removal, CleanEndIsFinal
  <1> QED
    BY <1>1, <1>2, <1>3, <1>4, <1>5

LEMMA CreateSessionIInv ==
    ASSUME IInv, NEW r \in Request, NEW n \in Token, NEW u \in User, CreateSession(r, n, u)
    PROVE  IInv'
  <1> USE OverhangType, NoTokenAssumption DEF IInv, CreateSession, Goto, stores,
          history, Minted, Step, AuthFlight, RefreshFlight, LogoutFlight
  <1>1. TypeOK'
    BY DEF TypeOK, TokensInHand, Lifetimes
  <1>2. TokensInHand'
    BY DEF TypeOK, TokensInHand
  <1>3. Lifetimes'
    BY DEF TypeOK, Lifetimes, TokensInHand
  <1>4. Removal'
    BY DEF TypeOK, TokensInHand, Removal, CleanEndIsFinal
  <1>5. CleanEndIsFinal'
    BY DEF TypeOK, TokensInHand, Removal, CleanEndIsFinal
  <1> QED
    BY <1>1, <1>2, <1>3, <1>4, <1>5

LEMMA CacheNewIInv ==
    ASSUME IInv, NEW r \in Request, CacheNew(r)
    PROVE  IInv'
  <1> USE OverhangType, NoTokenAssumption DEF IInv, CacheNew, Encache, Finish, stores,
          history, Minted, Step, AuthFlight, RefreshFlight, LogoutFlight
  <1>1. TypeOK'
    BY DEF TypeOK, TokensInHand, Lifetimes
  <1>2. TokensInHand'
    BY DEF TypeOK, TokensInHand
  <1>3. Lifetimes'
    BY DEF TypeOK, Lifetimes, TokensInHand
  <1>4. Removal'
    BY DEF TypeOK, TokensInHand, Removal, CleanEndIsFinal
  <1>5. CleanEndIsFinal'
    BY DEF TypeOK, TokensInHand, Removal, CleanEndIsFinal
  <1> QED
    BY <1>1, <1>2, <1>3, <1>4, <1>5

LEMMA BeginRefreshIInv ==
    ASSUME IInv, NEW r \in Request, NEW t \in Token, BeginRefresh(r, t)
    PROVE  IInv'
  <1> USE OverhangType, NoTokenAssumption DEF IInv, BeginRefresh, Present, Taint, Busy,
          stores, history, Minted, Step, AuthFlight, RefreshFlight, LogoutFlight
  <1>1. TypeOK'
    BY DEF TypeOK, TokensInHand, Lifetimes
  <1>2. TokensInHand'
    BY DEF TypeOK, TokensInHand
  <1>3. Lifetimes'
    BY DEF TypeOK, Lifetimes, TokensInHand
  <1>4. Removal'
    BY DEF TypeOK, TokensInHand, Removal, CleanEndIsFinal
  <1>5. CleanEndIsFinal'
    BY DEF TypeOK, TokensInHand, Removal, CleanEndIsFinal
  <1> QED
    BY <1>1, <1>2, <1>3, <1>4, <1>5

LEMMA RefreshLookupIInv ==
    ASSUME IInv, NEW r \in Request, RefreshLookup(r)
    PROVE  IInv'
  <1> USE OverhangType, NoTokenAssumption DEF IInv, RefreshLookup, Goto, Finish, Live,
          stores, history, Minted, Step, AuthFlight, RefreshFlight, LogoutFlight
  <1>1. TypeOK'
    BY DEF TypeOK, TokensInHand, Lifetimes
  <1>2. TokensInHand'
    BY DEF TypeOK, TokensInHand
  <1>3. Lifetimes'
    BY DEF TypeOK, Lifetimes, TokensInHand
  <1>4. Removal'
    BY DEF TypeOK, TokensInHand, Removal, CleanEndIsFinal
  <1>5. CleanEndIsFinal'
    BY DEF TypeOK, TokensInHand, Removal, CleanEndIsFinal
  <1> QED
    BY <1>1, <1>2, <1>3, <1>4, <1>5

LEMMA RefreshDeleteIInv ==
    ASSUME IInv, NEW r \in Request, RefreshDelete(r)
    PROVE  IInv'
  <1> USE OverhangType, NoTokenAssumption DEF IInv, RefreshDelete, Goto, stores,
          history, Minted, Step, AuthFlight, RefreshFlight, LogoutFlight
  <1>1. TypeOK'
    BY DEF TypeOK, TokensInHand, Lifetimes
  <1>2. TokensInHand'
    BY DEF TypeOK, TokensInHand
  <1>3. Lifetimes'
    BY DEF TypeOK, Lifetimes, TokensInHand
  <1>4. Removal'
    BY DEF TypeOK, TokensInHand, Removal, CleanEndIsFinal
  <1>5. CleanEndIsFinal'
    BY DEF TypeOK, TokensInHand, Removal, CleanEndIsFinal
  <1> QED
    BY <1>1, <1>2, <1>3, <1>4, <1>5

LEMMA RefreshUncacheIInv ==
    ASSUME IInv, NEW r \in Request, RefreshUncache(r)
    PROVE  IInv'
  <1> USE OverhangType, NoTokenAssumption DEF IInv, RefreshUncache, Goto, Uncache,
          Taint, stores, history, Minted, Step, AuthFlight, RefreshFlight, LogoutFlight
  <1>1. TypeOK'
    BY DEF TypeOK, TokensInHand, Lifetimes
  <1>2. TokensInHand'
    BY DEF TypeOK, TokensInHand
  <1>3. Lifetimes'
    BY DEF TypeOK, Lifetimes, TokensInHand
  <1>4. Removal'
    BY DEF TypeOK, TokensInHand, Removal, CleanEndIsFinal
  <1>5. CleanEndIsFinal'
    BY DEF TypeOK, TokensInHand, Removal, CleanEndIsFinal
  <1> QED
    BY <1>1, <1>2, <1>3, <1>4, <1>5

LEMMA BeginLogoutIInv ==
    ASSUME IInv, NEW r \in Request, NEW t \in Token, BeginLogout(r, t)
    PROVE  IInv'
  <1> USE OverhangType, NoTokenAssumption DEF IInv, BeginLogout, Present, Taint, Busy,
          stores, history, Minted, Step, AuthFlight, RefreshFlight, LogoutFlight
  <1>1. TypeOK'
    BY DEF TypeOK, TokensInHand, Lifetimes
  <1>2. TokensInHand'
    BY DEF TypeOK, TokensInHand
  <1>3. Lifetimes'
    BY DEF TypeOK, Lifetimes, TokensInHand
  <1>4. Removal'
    BY DEF TypeOK, TokensInHand, Removal, CleanEndIsFinal
  <1>5. CleanEndIsFinal'
    BY DEF TypeOK, TokensInHand, Removal, CleanEndIsFinal
  <1> QED
    BY <1>1, <1>2, <1>3, <1>4, <1>5

LEMMA LogoutUncacheIInv ==
    ASSUME IInv, NEW r \in Request, LogoutUncache(r)
    PROVE  IInv'
  <1> USE OverhangType, NoTokenAssumption DEF IInv, LogoutUncache, Goto, Uncache,
          Taint, stores, history, Minted, Step, AuthFlight, RefreshFlight, LogoutFlight
  <1>1. TypeOK'
    BY DEF TypeOK, TokensInHand, Lifetimes
  <1>2. TokensInHand'
    BY DEF TypeOK, TokensInHand
  <1>3. Lifetimes'
    BY DEF TypeOK, Lifetimes, TokensInHand
  <1>4. Removal'
    BY DEF TypeOK, TokensInHand, Removal, CleanEndIsFinal
  <1>5. CleanEndIsFinal'
    BY DEF TypeOK, TokensInHand, Removal, CleanEndIsFinal
  <1> QED
    BY <1>1, <1>2, <1>3, <1>4, <1>5

LEMMA LogoutDeleteIInv ==
    ASSUME IInv, NEW r \in Request, LogoutDelete(r)
    PROVE  IInv'
  <1> USE OverhangType, NoTokenAssumption DEF IInv, LogoutDelete, Finish, Taint,
          stores, history, Minted, Step, AuthFlight, RefreshFlight, LogoutFlight
  <1>1. TypeOK'
    BY DEF TypeOK, TokensInHand, Lifetimes
  <1>2. TokensInHand'
    BY DEF TypeOK, TokensInHand
  <1>3. Lifetimes'
    BY DEF TypeOK, Lifetimes, TokensInHand
  <1>4. Removal'
    BY DEF TypeOK, TokensInHand, Removal, CleanEndIsFinal
  <1>5. CleanEndIsFinal'
    BY DEF TypeOK, TokensInHand, Removal, CleanEndIsFinal
  <1> QED
    BY <1>1, <1>2, <1>3, <1>4, <1>5

LEMMA LogoutAllIInv ==
    ASSUME IInv, NEW u \in User, LogoutAll(u)
    PROVE  IInv'
  <1> USE OverhangType, NoTokenAssumption DEF IInv, LogoutAll, stores, history, Minted,
          Step, AuthFlight, RefreshFlight, LogoutFlight
  <1>1. TypeOK'
    BY DEF TypeOK, TokensInHand, Lifetimes
  <1>2. TokensInHand'
    BY DEF TypeOK, TokensInHand
  <1>3. Lifetimes'
    BY DEF TypeOK, Lifetimes, TokensInHand
  <1>4. Removal'
    BY DEF TypeOK, TokensInHand, Removal, CleanEndIsFinal
  <1>5. CleanEndIsFinal'
    BY DEF TypeOK, TokensInHand, Removal, CleanEndIsFinal
  <1> QED
    BY <1>1, <1>2, <1>3, <1>4, <1>5

LEMMA AuthAccessIInv ==
    ASSUME IInv, NEW r \in Request, NEW t \in Token, AuthAccess(r, t)
    PROVE  IInv'
  <1> USE OverhangType, NoTokenAssumption DEF IInv, AuthAccess, stores, history,
          Minted, Step, AuthFlight, RefreshFlight, LogoutFlight
  <1>1. TypeOK'
    BY DEF TypeOK, TokensInHand, Lifetimes
  <1>2. TokensInHand'
    BY DEF TypeOK, TokensInHand
  <1>3. Lifetimes'
    BY DEF TypeOK, Lifetimes, TokensInHand
  <1>4. Removal'
    BY DEF TypeOK, TokensInHand, Removal, CleanEndIsFinal
  <1>5. CleanEndIsFinal'
    BY DEF TypeOK, TokensInHand, Removal, CleanEndIsFinal
  <1> QED
    BY <1>1, <1>2, <1>3, <1>4, <1>5

LEMMA BeginAuthIInv ==
    ASSUME IInv, NEW r \in Request, NEW t \in Token, BeginAuth(r, t)
    PROVE  IInv'
  <1> USE OverhangType, NoTokenAssumption DEF IInv, BeginAuth, Present, Taint, Busy,
          stores, history, Minted, Step, AuthFlight, RefreshFlight, LogoutFlight
  <1>1. TypeOK'
    BY DEF TypeOK, TokensInHand, Lifetimes
  <1>2. TokensInHand'
    BY DEF TypeOK, TokensInHand
  <1>3. Lifetimes'
    BY DEF TypeOK, Lifetimes, TokensInHand
  <1>4. Removal'
    BY DEF TypeOK, TokensInHand, Removal, CleanEndIsFinal
  <1>5. CleanEndIsFinal'
    BY DEF TypeOK, TokensInHand, Removal, CleanEndIsFinal
  <1> QED
    BY <1>1, <1>2, <1>3, <1>4, <1>5

LEMMA AuthCacheGetIInv ==
    ASSUME IInv, NEW r \in Request, AuthCacheGet(r)
    PROVE  IInv'
  <1> USE OverhangType, NoTokenAssumption DEF IInv, AuthCacheGet, Goto, Cached, stores,
          history, Minted, Step, AuthFlight, RefreshFlight, LogoutFlight
  <1>1. TypeOK'
    BY DEF TypeOK, TokensInHand, Lifetimes
  <1>2. TokensInHand'
    BY DEF TypeOK, TokensInHand
  <1>3. Lifetimes'
    BY DEF TypeOK, Lifetimes, TokensInHand
  <1>4. Removal'
    BY DEF TypeOK, TokensInHand, Removal, CleanEndIsFinal
  <1>5. CleanEndIsFinal'
    BY DEF TypeOK, TokensInHand, Removal, CleanEndIsFinal
  <1> QED
    BY <1>1, <1>2, <1>3, <1>4, <1>5

\* A cookie that is no good: the request ends or turns to the next cookie.
LEMMA AuthNextCookieIInv ==
    ASSUME IInv, NEW r \in Request, pc[r] \in {"auth_lookup", "auth_check"}, AuthNextCookie(r)
    PROVE  IInv'
  <1> USE OverhangType, NoTokenAssumption DEF IInv, AuthNextCookie, Finish, Present, Taint,
          Busy, stores, history, Minted, Step, AuthFlight, RefreshFlight, LogoutFlight
  <1>1. TypeOK'
    <2>1. CASE Finish(r) /\ UNCHANGED tainted
      BY <2>1 DEF TypeOK
    <2>2. ASSUME NEW t \in Token, Present(r, t, "auth_get")
          PROVE  TypeOK'
      BY <2>2 DEF TypeOK
    <2> QED
      BY <2>1, <2>2
  <1>2. TokensInHand'
    BY DEF TypeOK, TokensInHand
  <1>3. Lifetimes'
    BY DEF TypeOK, Lifetimes, TokensInHand
  <1>4. Removal'
    BY DEF TypeOK, TokensInHand, Removal, CleanEndIsFinal
  <1>5. CleanEndIsFinal'
    BY DEF TypeOK, TokensInHand, Removal, CleanEndIsFinal
  <1> QED
    BY <1>1, <1>2, <1>3, <1>4, <1>5

LEMMA AuthLookupIInv ==
    ASSUME IInv, NEW r \in Request, AuthLookup(r)
    PROVE  IInv'
  <1>1. CASE Live(tok[r]) /\ Goto(r, "auth_lookup", "auth_backfill")
             /\ UNCHANGED <<now, stores, held, access, tok, history, late>>
    <2> USE <1>1, OverhangType, NoTokenAssumption DEF IInv, Goto, Live, stores, history,
            Minted, Step, AuthFlight, RefreshFlight, LogoutFlight
    <2>1. TypeOK'
      BY DEF TypeOK, TokensInHand, Lifetimes
    <2>2. TokensInHand'
      BY DEF TypeOK, TokensInHand
    <2>3. Lifetimes'
      BY DEF TypeOK, Lifetimes, TokensInHand
    <2>4. Removal'
      BY DEF TypeOK, TokensInHand, Removal, CleanEndIsFinal
    <2>5. CleanEndIsFinal'
      BY DEF TypeOK, TokensInHand, Removal, CleanEndIsFinal
    <2> QED
      BY <2>1, <2>2, <2>3, <2>4, <2>5
  <1>2. CASE AuthNextCookie(r)
    BY <1>2, AuthNextCookieIInv DEF AuthLookup
  <1> QED
    BY <1>1, <1>2 DEF AuthLookup

LEMMA AuthBackfillIInv ==
    ASSUME IInv, NEW r \in Request, AuthBackfill(r)
    PROVE  IInv'
  <1> USE OverhangType, NoTokenAssumption DEF IInv, AuthBackfill, Goto, Encache,
          stores, history, Minted, Step, AuthFlight, RefreshFlight, LogoutFlight
  <1>1. TypeOK'
    BY DEF TypeOK, TokensInHand, Lifetimes
  <1>2. TokensInHand'
    BY DEF TypeOK, TokensInHand
  <1>3. Lifetimes'
    BY DEF TypeOK, Lifetimes, TokensInHand
  <1>4. Removal'
    BY DEF TypeOK, TokensInHand, Removal, CleanEndIsFinal
  <1>5. CleanEndIsFinal'
    BY DEF TypeOK, TokensInHand, Removal, CleanEndIsFinal
  <1> QED
    BY <1>1, <1>2, <1>3, <1>4, <1>5

LEMMA AuthCheckIInv ==
    ASSUME IInv, NEW r \in Request, AuthCheck(r)
    PROVE  IInv'
  <1>1. CASE /\ Goto(r, "auth_check", "admitted")
             /\ access' = [access EXCEPT ![tok[r]] = AccessExpiry(tok[r])]
             /\ UNCHANGED <<now, stores, held, tok, history, late>>
    <2> USE <1>1, OverhangType, NoTokenAssumption DEF IInv, Goto, AccessExpiry, stores,
            history, Minted, Step, AuthFlight, RefreshFlight, LogoutFlight
    <2>1. TypeOK'
      BY DEF TypeOK, TokensInHand, Lifetimes
    <2>2. TokensInHand'
      BY DEF TypeOK, TokensInHand
    <2>3. Lifetimes'
      BY DEF TypeOK, Lifetimes, TokensInHand
    <2>4. Removal'
      BY DEF TypeOK, TokensInHand, Removal, CleanEndIsFinal
    <2>5. CleanEndIsFinal'
      BY DEF TypeOK, TokensInHand, Removal, CleanEndIsFinal
    <2> QED
      BY <2>1, <2>2, <2>3, <2>4, <2>5
  <1>2. CASE AuthNextCookie(r)
    BY <1>2, AuthNextCookieIInv DEF AuthCheck
  <1> QED
    BY <1>1, <1>2 DEF AuthCheck

LEMMA AnswerIInv ==
    ASSUME IInv, NEW r \in Request, Answer(r)
    PROVE  IInv'
  <1> USE OverhangType, NoTokenAssumption DEF IInv, Answer, Finish, stores, history,
          Minted, Step, AuthFlight, RefreshFlight, LogoutFlight
  <1>1. TypeOK'
    BY DEF TypeOK, TokensInHand, Lifetimes
  <1>2. TokensInHand'
    BY DEF TypeOK, TokensInHand
  <1>3. Lifetimes'
    BY DEF TypeOK, Lifetimes, TokensInHand
  <1>4. Removal'
    BY DEF TypeOK, TokensInHand, Removal, CleanEndIsFinal
  <1>5. CleanEndIsFinal'
    BY DEF TypeOK, TokensInHand, Removal, CleanEndIsFinal
  <1> QED
    BY <1>1, <1>2, <1>3, <1>4, <1>5

LEMMA AbandonIInv ==
    ASSUME IInv, NEW r \in Request, Abandon(r)
    PROVE  IInv'
  <1> USE OverhangType, NoTokenAssumption DEF IInv, Abandon, Finish, stores, history,
          Minted, Step, AuthFlight, RefreshFlight, LogoutFlight
  <1>1. TypeOK'
    BY DEF TypeOK, TokensInHand, Lifetimes
  <1>2. TokensInHand'
    BY DEF TypeOK, TokensInHand
  <1>3. Lifetimes'
    BY DEF TypeOK, Lifetimes, TokensInHand
  <1>4. Removal'
    BY DEF TypeOK, TokensInHand, Removal, CleanEndIsFinal
  <1>5. CleanEndIsFinal'
    BY DEF TypeOK, TokensInHand, Removal, CleanEndIsFinal
  <1> QED
    BY <1>1, <1>2, <1>3, <1>4, <1>5

LEMMA CacheEvictIInv ==
    ASSUME IInv, NEW t \in Token, CacheEvict(t)
    PROVE  IInv'
  <1> USE OverhangType, NoTokenAssumption DEF IInv, CacheEvict, stores, history,
          Minted, Step, AuthFlight, RefreshFlight, LogoutFlight
  <1>1. TypeOK'
    BY DEF TypeOK, TokensInHand, Lifetimes
  <1>2. TokensInHand'
    BY DEF TypeOK, TokensInHand
  <1>3. Lifetimes'
    BY DEF TypeOK, Lifetimes, TokensInHand
  <1>4. Removal'
    BY DEF TypeOK, TokensInHand, Removal, CleanEndIsFinal
  <1>5. CleanEndIsFinal'
    BY DEF TypeOK, TokensInHand, Removal, CleanEndIsFinal
  <1> QED
    BY <1>1, <1>2, <1>3, <1>4, <1>5

LEMMA TickIInv ==
    ASSUME IInv, Tick
    PROVE  IInv'
  <1> USE OverhangType, NoTokenAssumption DEF IInv, Tick, stores, history, Minted,
          Step, AuthFlight, RefreshFlight, LogoutFlight
  <1>1. TypeOK'
    BY DEF TypeOK, TokensInHand, Lifetimes
  <1>2. TokensInHand'
    BY DEF TypeOK, TokensInHand
  <1>3. Lifetimes'
    BY DEF TypeOK, Lifetimes, TokensInHand
  <1>4. Removal'
    BY DEF TypeOK, TokensInHand, Removal, CleanEndIsFinal
  <1>5. CleanEndIsFinal'
    BY DEF TypeOK, TokensInHand, Removal, CleanEndIsFinal
  <1> QED
    BY <1>1, <1>2, <1>3, <1>4, <1>5


-------------------------------------------------------------------------------
LEMMA NextIInv == IInv /\ [Next]_vars => IInv'
  <1> SUFFICES ASSUME IInv, [Next]_vars
               PROVE  IInv'
    OBVIOUS
  <1>1. ASSUME NEW r \in Request, Begin(r)
        PROVE  IInv'
    BY <1>1, SignInIInv, BeginRefreshIInv, BeginLogoutIInv, BeginAuthIInv, AuthAccessIInv
       DEF Begin
  <1>2. ASSUME NEW r \in Request, Advance(r)
        PROVE  IInv'
    BY <1>2, RefreshLookupIInv, RefreshDeleteIInv, RefreshUncacheIInv, LogoutUncacheIInv,
       LogoutDeleteIInv, AuthCacheGetIInv, AuthLookupIInv, AuthBackfillIInv, AuthCheckIInv,
       AnswerIInv, CreateSessionIInv, CacheNewIInv
       DEF Advance
  <1>3. CASE UNCHANGED vars
    BY <1>3 DEF IInv, TypeOK, TokensInHand, Lifetimes, Removal, CleanEndIsFinal, Minted,
                vars, stores, history
  <1> QED
    BY <1>1, <1>2, <1>3, AbandonIInv, LogoutAllIInv, CacheEvictIInv, TickIInv DEF Next

LEMMA SpecIInv == Spec => []IInv
  BY InitIInv, NextIInv, PTL DEF Spec

\* The variables keep their types, whatever the stores and the clients do.
THEOREM TypeCorrect == Spec => []TypeOK
  <1>1. IInv => TypeOK
    BY DEF IInv
  <1> QED
    BY SpecIInv, <1>1, PTL

\* A logout or rotation that ran to its end undisturbed and without a store
\* failure leaves no trace of the session in Postgres or Redis, for ever.
THEOREM CleanEnd == Spec => []CleanEndIsFinal
  <1>1. IInv => CleanEndIsFinal
    BY DEF IInv
  <1> QED
    BY SpecIInv, <1>1, PTL

\* No request is ever admitted past the expiry of the session behind it, if an access
\* token does not live longer than a session.
THEOREM AdmissionBounded ==
    ASSUME SessionOutlivesAccess
    PROVE  Spec => AdmissionWithinLifetime
  <1>1. ASSUME IInv, [Next]_vars, NEW r \in Request, pc[r] # "admitted", pc'[r] = "admitted"
        PROVE  now <= expires[tok'[r]]
    <2>1. ASSUME NEW q \in Request, NEW t \in Token, AuthAccess(q, t)
          PROVE  now <= expires[tok'[r]]
      BY <1>1, <2>1, NoOverhang DEF IInv, TypeOK, AuthAccess
    <2>2. ASSUME NEW q \in Request, AuthCheck(q)
          PROVE  now <= expires[tok'[r]]
      <3>1. CASE AuthNextCookie(q)
        BY <1>1, <3>1 DEF IInv, TypeOK, AuthNextCookie, Finish, Present
      <3> QED
        BY <1>1, <2>2, <3>1 DEF IInv, TypeOK, AuthCheck, Goto
    <2>3. ASSUME NEW q \in Request, AuthLookup(q)
          PROVE  FALSE
      BY <1>1, <2>3 DEF IInv, TypeOK, AuthLookup, Goto, AuthNextCookie, Finish, Present
    <2>4. ASSUME NEW q \in Request, Begin(q)
          PROVE  now <= expires[tok'[r]]
      BY <1>1, <2>1, <2>4 DEF IInv, TypeOK, Begin, SignIn, BeginRefresh, BeginLogout, BeginAuth,
                              Goto, Present
    <2>5. ASSUME NEW q \in Request, Advance(q)
          PROVE  now <= expires[tok'[r]]
      BY <1>1, <2>2, <2>3, <2>5
         DEF IInv, TypeOK, Advance, RefreshLookup, RefreshDelete, RefreshUncache, LogoutUncache,
             LogoutDelete, AuthCacheGet, AuthBackfill, Answer, CreateSession, CacheNew, Goto, Finish
    <2> QED
      BY <1>1, <2>4, <2>5
         DEF IInv, TypeOK, Next, Abandon, Finish, LogoutAll, CacheEvict, Tick, vars
  <1>2. IInv /\ [Next]_vars =>
          [\A r \in Request :
              pc[r] # "admitted" /\ pc'[r] = "admitted" => now <= expires[tok'[r]]]_vars
    BY <1>1
  <1> QED
    BY SpecIInv, <1>2, PTL DEF Spec, AdmissionWithinLifetime

\* No token is exchanged for a new session by a refresh that began after its
\* logout or rotation had removed its row, whatever Redis keeps and whichever
\* store fails.
THEOREM LateRefreshFails == Spec => []EndedTokenNotRedeemed
  <1>1. Init => LateInv
    BY DEF Init, LateInv, EndedTokenNotRedeemed
  <1>2. IInv /\ LateInv /\ [Next]_vars => LateInv'
    <2> SUFFICES ASSUME IInv, LateInv, [Next]_vars
                 PROVE  LateInv'
      OBVIOUS
    <2> USE DEF IInv, LateInv, EndedTokenNotRedeemed, TypeOK, stores, history, Minted
    <2>1. ASSUME NEW r \in Request, Begin(r)
          PROVE  LateInv'
      BY <2>1 DEF Begin, SignIn, BeginRefresh, BeginLogout, BeginAuth, AuthAccess, Goto, Present
    <2>2. ASSUME NEW r \in Request, Advance(r)
          PROVE  LateInv'
      <3>1. ASSUME NEW n \in Token, NEW u \in User, CreateSession(r, n, u)
            PROVE  LateInv'
        BY <3>1 DEF CreateSession, Goto
      <3>2. CASE RefreshLookup(r) \/ RefreshDelete(r) \/ RefreshUncache(r)
        BY <3>2 DEF RefreshLookup, RefreshDelete, RefreshUncache, Goto, Finish, Live, Removal,
                    TokensInHand
      <3>3. CASE LogoutUncache(r) \/ LogoutDelete(r)
        BY <3>3 DEF LogoutUncache, LogoutDelete, Goto, Finish, TokensInHand
      <3>4. CASE AuthNextCookie(r)
        <4>1. CASE Finish(r) /\ UNCHANGED tainted
          BY <3>4, <4>1 DEF AuthNextCookie, Finish
        <4>2. ASSUME NEW t \in Token, Present(r, t, "auth_get")
              PROVE  LateInv'
          BY <3>4, <4>2 DEF AuthNextCookie, Present
        <4> QED
          BY <3>4, <4>1, <4>2 DEF AuthNextCookie
      <3>5. CASE AuthCacheGet(r) \/ AuthLookup(r) \/ AuthBackfill(r) \/ AuthCheck(r) \/ Answer(r)
        BY <3>4, <3>5 DEF AuthCacheGet, AuthLookup, AuthBackfill, AuthCheck, Answer, Goto, Finish
      <3>6. CASE CacheNew(r)
        BY <3>6 DEF CacheNew, Finish
      <3> QED
        BY <2>2, <3>1, <3>2, <3>3, <3>5, <3>6 DEF Advance
    <2>3. CASE UNCHANGED vars
      BY <2>3 DEF vars
    <2> QED
      BY <2>1, <2>2, <2>3 DEF Next, Abandon, Finish, LogoutAll, CacheEvict, Tick
  <1>3. LateInv => EndedTokenNotRedeemed
    BY DEF LateInv
  <1> QED
    BY SpecIInv, <1>1, <1>2, <1>3, PTL DEF Spec

-------------------------------------------------------------------------------
\* The stores and the requests implement SessionContract.  The steps of Sessions
\* fall into those that leave every standing alone or remove the last copy of
\* one withdrawn session, those that withdraw sessions, the one that issues a
\* session and those that grant access.

LEMMA QuietStep ==
    ASSUME NEW x \in Token, UNCHANGED <<expires, access>>,
           \A t \in Token \ {x} : StandingOf(t)' = StandingOf(t),
           \/ StandingOf(x)' = StandingOf(x)
           \/ StandingOf(x) = "lingering" /\ StandingOf(x)' = "dead"
    PROVE  [Contract!ContractNext]_(Contract!contractVars)
  <1>1. CASE StandingOf(x)' = StandingOf(x)
    BY <1>1 DEF Contract!contractVars
  <1>2. CASE StandingOf(x) = "lingering" /\ StandingOf(x)' = "dead"
    <2>1. Contract!Forget(x)
      BY <1>2 DEF Contract!Forget
    <2> QED
      BY <2>1 DEF Contract!ContractNext
  <1> QED
    BY <1>1, <1>2

LEMMA SameStanding ==
    ASSUME UNCHANGED <<expires, access>>, \A t \in Token : StandingOf(t)' = StandingOf(t)
    PROVE  [Contract!ContractNext]_(Contract!contractVars)
  BY DEF Contract!contractVars

LEMMA WithdrawStep ==
    ASSUME NEW S \in SUBSET Token, UNCHANGED <<expires, access>>,
           \A t \in S : StandingOf(t) = "live" /\ StandingOf(t)' \in {"lingering", "dead"},
           \A t \in Token \ S : StandingOf(t)' = StandingOf(t)
    PROVE  [Contract!ContractNext]_(Contract!contractVars)
  <1>1. \A t \in Token : StandingOf(t)' \in Contract!Standing
    BY DEF StandingOf, Contract!Standing
  <1>2. Contract!Withdraw(S)
    BY <1>1 DEF Contract!Withdraw
  <1> QED
    BY <1>2 DEF Contract!ContractNext

LEMMA GrantStep ==
    ASSUME NEW x \in Token, NEW e \in 1..MaxTime, UNCHANGED expires, e <= expires[x],
           access' = [access EXCEPT ![x] = e],
           \A t \in Token \ {x} : StandingOf(t)' = StandingOf(t),
           StandingOf(x) \in {"live", "lingering"},
           \/ StandingOf(x)' = StandingOf(x)
           \/ StandingOf(x) = "lingering" /\ StandingOf(x)' = "dead"
    PROVE  [Contract!ContractNext]_(Contract!contractVars)
  <1>1. Contract!Grant(x)
    BY DEF Contract!Grant
  <1> QED
    BY <1>1 DEF Contract!ContractNext

\* Steps after which a request only holds a copy of a session if it held it
\* before, and which touch no store.
LEMMA CopyDropped ==
    ASSUME IInv, NEW r \in Request, UNCHANGED <<stores, access>>,
           \A q \in Request \ {r} : pc'[q] = pc[q] /\ tok'[q] = tok[q],
           pc'[r] \notin {"cache_new", "auth_backfill", "auth_check"}
    PROVE  [Contract!ContractNext]_(Contract!contractVars)
  <1> DEFINE Copies == {"cache_new", "auth_backfill", "auth_check"}
  <1>1. \A t \in Token : t # tok[r] => Busy(t, Copies)' = Busy(t, Copies)
    BY DEF Busy
  <1>2. \A t \in Token : Busy(t, Copies)' => Busy(t, Copies)
    BY DEF Busy
  <1>3. \A t \in Token \ {tok[r]} : StandingOf(t)' = StandingOf(t)
    BY <1>1 DEF StandingOf, stores, Minted
  <1>4. ASSUME NEW x \in Token, x = tok[r]
        PROVE  [Contract!ContractNext]_(Contract!contractVars)
    <2>1. \/ StandingOf(x)' = StandingOf(x)
          \/ StandingOf(x) = "lingering" /\ StandingOf(x)' = "dead"
      BY <1>2 DEF StandingOf, stores, Minted
    <2>2. \A t \in Token \ {x} : StandingOf(t)' = StandingOf(t)
      BY <1>3, <1>4
    <2> QED
      BY <2>1, <2>2, QuietStep DEF stores
  <1>5. CASE tok[r] \notin Token
    BY <1>3, <1>5, SameStanding DEF stores
  <1> QED
    BY <1>4, <1>5

LEMMA ContractStep ==
    ASSUME SessionOutlivesAccess, IInv, [Next]_vars
    PROVE  [Contract!ContractNext]_(Contract!contractVars)
  <1> DEFINE Copies == {"cache_new", "auth_backfill", "auth_check"}
  <1> USE DEF IInv, TypeOK, stores, history, Minted, AuthFlight, RefreshFlight, LogoutFlight
  \* Requests that begin, end, or take a step without writing to a store.
  <1>1. ASSUME NEW r \in Request, Begin(r) \/ Abandon(r) \/ Answer(r) \/ RefreshLookup(r)
        PROVE  [Contract!ContractNext]_(Contract!contractVars)
    BY <1>1, CopyDropped
       DEF Begin, SignIn, BeginRefresh, BeginLogout, BeginAuth, AuthAccess, Abandon, Answer,
           RefreshLookup, Goto, Present, Finish
  <1>2. ASSUME NEW r \in Request, pc[r] \in {"auth_lookup", "auth_check"}, AuthNextCookie(r)
        PROVE  [Contract!ContractNext]_(Contract!contractVars)
    BY <1>2, CopyDropped DEF AuthNextCookie, Present, Finish
  \* A request picks up or keeps a copy of a session that is live or still cached.
  <1>3. ASSUME NEW r \in Request,
               \/ AuthCacheGet(r)
               \/ Live(tok[r]) /\ Goto(r, "auth_lookup", "auth_backfill")
                  /\ UNCHANGED <<now, stores, held, access, tok, history, late>>
               \/ AuthBackfill(r)
        PROVE  [Contract!ContractNext]_(Contract!contractVars)
    <2>1. \A t \in Token : StandingOf(t)' = StandingOf(t)
      <3>1. \A t \in Token : t # tok[r] => Busy(t, Copies)' = Busy(t, Copies)
        BY <1>3 DEF Busy, AuthCacheGet, AuthBackfill, Goto
      <3>2. \A t \in Token : t # tok[r] => StandingOf(t)' = StandingOf(t)
        BY <1>3, <3>1 DEF StandingOf, AuthCacheGet, AuthBackfill, Goto, Encache
      <3>3. \A t \in Token : t = tok[r] => StandingOf(t)' = StandingOf(t)
        <4> SUFFICES ASSUME NEW t \in Token, t = tok[r]
                     PROVE  StandingOf(t)' = StandingOf(t)
          OBVIOUS
        <4>1. CASE AuthCacheGet(r)
          <5>1. CASE Cached(tok[r]) /\ Goto(r, "auth_get", "auth_check")
            BY <1>3, <4>1, <5>1 DEF StandingOf, AuthCacheGet, Cached
          <5>2. CASE Goto(r, "auth_get", "auth_lookup")
            <6>1. Busy(t, Copies)' = Busy(t, Copies)
              BY <4>1, <5>2 DEF Busy, AuthCacheGet, Goto
            <6> QED
              BY <4>1, <6>1 DEF StandingOf, AuthCacheGet
          <5> QED
            BY <4>1, <5>1, <5>2 DEF AuthCacheGet
        <4>2. CASE /\ Live(tok[r]) /\ Goto(r, "auth_lookup", "auth_backfill")
                   /\ UNCHANGED <<now, stores, held, access, tok, history, late>>
          BY <4>2 DEF StandingOf, Live
        <4>3. CASE AuthBackfill(r)
          <5>1. Busy(t, Copies) /\ Busy(t, Copies)'
            BY <4>3 DEF Busy, AuthBackfill, Goto
          <5> QED
            BY <4>3, <5>1 DEF StandingOf, AuthBackfill
        <4> QED
          BY <1>3, <4>1, <4>2, <4>3
      <3> QED
        BY <3>2, <3>3
    <2> QED
      BY <1>3, <2>1, SameStanding DEF AuthCacheGet, AuthBackfill
  \* Access is granted.
  <1>4. ASSUME NEW r \in Request, Goto(r, "auth_check", "admitted"),
               access' = [access EXCEPT ![tok[r]] = AccessExpiry(tok[r])],
               now <= expires[tok[r]], UNCHANGED <<now, stores, held, tok, history, late>>
        PROVE  [Contract!ContractNext]_(Contract!contractVars)
    <2>1. PICK x \in Token : x = tok[r]
      BY <1>4 DEF Goto, TokensInHand
    <2>2. PICK e \in 1..MaxTime : e = AccessExpiry(x) /\ e <= expires[x]
      BY <1>4, <2>1, TTLAssumption DEF AccessExpiry, TokensInHand, Goto
    <2>3. Busy(x, Copies) /\ x \in Minted
      BY <1>4, <2>1 DEF Busy, Goto, TokensInHand
    <2>4. \A t \in Token \ {x} : Busy(t, Copies)' = Busy(t, Copies)
      BY <1>4, <2>1 DEF Busy, Goto
    <2>5. \A t \in Token \ {x} : StandingOf(t)' = StandingOf(t)
      BY <1>4, <2>4 DEF StandingOf
    <2>6. StandingOf(x) \in {"live", "lingering"}
      BY <2>3 DEF StandingOf
    <2>7. \/ StandingOf(x)' = StandingOf(x)
          \/ StandingOf(x) = "lingering" /\ StandingOf(x)' = "dead"
      BY <1>4, <2>3 DEF StandingOf
    <2> QED
      BY <1>4, <2>1, <2>2, <2>5, <2>6, <2>7, GrantStep
  <1>5. ASSUME NEW r \in Request, CacheNew(r)
        PROVE  [Contract!ContractNext]_(Contract!contractVars)
    <2>1. PICK x \in Token : x = tok[r]
      BY <1>5 DEF CacheNew, TokensInHand
    <2>2. PICK e \in 1..MaxTime : e = expires[x] - RefreshTTL + AccessTTL /\ e <= expires[x]
      BY <1>5, <2>1, TTLAssumption DEF CacheNew, TokensInHand, Lifetimes, SessionOutlivesAccess
    <2>3. Busy(x, Copies) /\ x \in Minted
      BY <1>5, <2>1 DEF Busy, CacheNew, TokensInHand
    <2>4. \A t \in Token \ {x} : Busy(t, Copies)' = Busy(t, Copies)
      BY <1>5, <2>1 DEF Busy, CacheNew, Finish
    <2>5. \A t \in Token \ {x} : StandingOf(t)' = StandingOf(t)
      BY <1>5, <2>1, <2>4 DEF StandingOf, CacheNew, Encache
    <2>6. StandingOf(x) \in {"live", "lingering"}
      BY <2>3 DEF StandingOf
    <2>7. \/ StandingOf(x)' = StandingOf(x)
          \/ StandingOf(x) = "lingering" /\ StandingOf(x)' = "dead"
      BY <1>5, <2>3 DEF StandingOf, CacheNew
    <2> QED
      BY <1>5, <2>1, <2>2, <2>5, <2>6, <2>7, GrantStep DEF CacheNew
  \* A session is issued.
  <1>6. ASSUME NEW r \in Request, NEW n \in Token, NEW u \in User, CreateSession(r, n, u)
        PROVE  [Contract!ContractNext]_(Contract!contractVars)
    <2>1. \A t \in Token \ {n} : Busy(t, Copies)' = Busy(t, Copies)
      BY <1>6 DEF Busy, CreateSession, Goto
    <2>2. \A t \in Token \ {n} : StandingOf(t)' = StandingOf(t)
      BY <1>6, <2>1 DEF StandingOf, CreateSession
    <2>3. StandingOf(n) = "unissued" /\ StandingOf(n)' = "live"
      BY <1>6, TTLAssumption DEF StandingOf, CreateSession
    <2>4. now + RefreshTTL \in 1..MaxTime
      BY <1>6, TTLAssumption DEF CreateSession
    <2>5. expires' = [expires EXCEPT ![n] = now + RefreshTTL] /\ UNCHANGED access
      BY <1>6 DEF CreateSession
    <2>6. [t \in Token |-> StandingOf(t)]' = [[t \in Token |-> StandingOf(t)] EXCEPT ![n] = "live"]
      BY <2>2, <2>3
    <2>7. Contract!Issue(n)
      BY <2>3, <2>4, <2>5, <2>6 DEF Contract!Issue
    <2> QED
      BY <2>7 DEF Contract!ContractNext
  \* Rows are deleted.
  <1>7. ASSUME NEW r \in Request, RefreshDelete(r) \/ LogoutDelete(r)
        PROVE  [Contract!ContractNext]_(Contract!contractVars)
    <2> DEFINE S == sessions \ sessions'
    <2>1. \A t \in Token : Busy(t, Copies)' = Busy(t, Copies)
      BY <1>7 DEF Busy, RefreshDelete, LogoutDelete, Goto, Finish
    <2>2. \A t \in S : StandingOf(t) = "live" /\ StandingOf(t)' \in {"lingering", "dead"}
      BY <1>7 DEF StandingOf, RefreshDelete, LogoutDelete
    <2>3. \A t \in Token \ S : StandingOf(t)' = StandingOf(t)
      BY <1>7, <2>1 DEF StandingOf, RefreshDelete, LogoutDelete
    <2> QED
      BY <1>7, <2>2, <2>3, WithdrawStep DEF RefreshDelete, LogoutDelete
  <1>8. ASSUME NEW u \in User, LogoutAll(u)
        PROVE  [Contract!ContractNext]_(Contract!contractVars)
    <2> DEFINE S == sessions \ sessions'
    <2>1. \A t \in Token : Busy(t, Copies)' = Busy(t, Copies)
      BY <1>8 DEF Busy, LogoutAll
    <2>2. \A t \in S : StandingOf(t) = "live" /\ StandingOf(t)' \in {"lingering", "dead"}
      BY <1>8 DEF StandingOf, LogoutAll
    <2>3. \A t \in Token \ S : StandingOf(t)' = StandingOf(t)
      BY <1>8, <2>1 DEF StandingOf, LogoutAll
    <2> QED
      BY <1>8, <2>2, <2>3, WithdrawStep DEF LogoutAll
  \* A cached copy goes.
  <1>9. ASSUME NEW x \in Token, cache' = cache \/ cache' = cache \ {x},
               UNCHANGED <<sessions, expires, access>>,
               \A t \in Token : Busy(t, Copies)' = Busy(t, Copies)
        PROVE  [Contract!ContractNext]_(Contract!contractVars)
    <2>1. \A t \in Token \ {x} : StandingOf(t)' = StandingOf(t)
      BY <1>9 DEF StandingOf
    <2>2. \/ StandingOf(x)' = StandingOf(x)
          \/ StandingOf(x) = "lingering" /\ StandingOf(x)' = "dead"
      BY <1>9 DEF StandingOf
    <2> QED
      BY <1>9, <2>1, <2>2, QuietStep
  <1>10. ASSUME NEW r \in Request, RefreshUncache(r) \/ LogoutUncache(r)
         PROVE  [Contract!ContractNext]_(Contract!contractVars)
    <2>1. \A t \in Token : Busy(t, Copies)' = Busy(t, Copies)
      BY <1>10 DEF Busy, RefreshUncache, LogoutUncache, Goto
    <2>2. tok[r] \in Token
      BY <1>10 DEF RefreshUncache, LogoutUncache, Goto, TokensInHand
    <2> QED
      BY <1>9, <1>10, <2>1, <2>2 DEF RefreshUncache, LogoutUncache, Uncache
  <1>11. ASSUME NEW x \in Token, CacheEvict(x)
         PROVE  [Contract!ContractNext]_(Contract!contractVars)
    <2>1. \A t \in Token : Busy(t, Copies)' = Busy(t, Copies)
      BY <1>11 DEF Busy, CacheEvict
    <2> QED
      BY <1>9, <1>11, <2>1 DEF CacheEvict
  <1>12. CASE Tick \/ UNCHANGED vars
    <2>1. \A t \in Token : StandingOf(t)' = StandingOf(t)
      BY <1>12 DEF StandingOf, Busy, Tick, vars
    <2> QED
      BY <1>12, <2>1, SameStanding DEF Tick, vars
  <1>13. ASSUME NEW r \in Request, AuthLookup(r) \/ AuthCheck(r)
         PROVE  [Contract!ContractNext]_(Contract!contractVars)
    BY <1>2, <1>3, <1>4, <1>13 DEF AuthLookup, AuthCheck
  <1>14. ASSUME NEW r \in Request, Advance(r)
         PROVE  [Contract!ContractNext]_(Contract!contractVars)
    BY <1>1, <1>3, <1>5, <1>6, <1>7, <1>10, <1>13, <1>14 DEF Advance
  <1> QED
    BY <1>1, <1>8, <1>11, <1>12, <1>14 DEF Next

\* The rows in Postgres, the copies in Redis and the interleaved requests keep the
\* promise of SessionContract: no access outlives a session, a withdrawn session
\* never revives, and one with no copy left never grants access again; provided that an
\* access token does not live longer than a session.
THEOREM SessionsImplementContract ==
    ASSUME SessionOutlivesAccess
    PROVE  Spec => KeepsContract
  <1>1. Init => Contract!ContractInit
    BY DEF Init, Contract!ContractInit, StandingOf, Minted
  <1>2. IInv /\ [Next]_vars => [Contract!ContractNext]_(Contract!contractVars)
    BY ContractStep
  <1> QED
    BY SpecIInv, <1>1, <1>2, PTL DEF Spec, KeepsContract, Contract!ContractSpec
===============================================================================
