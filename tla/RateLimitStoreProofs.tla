-------------------------- MODULE RateLimitStoreProofs --------------------------
(***************************************************************************)
(* Proofs about RateLimitStore: how far a row can count, the limit while   *)
(* no write is overtaken, and why a request starts again, for any keys,    *)
(* requests, windows, limits and clock.  LimitHolds adds up grants by a    *)
(* fold, so the first part is about sums over finite sets; what would be   *)
(* an induction takes a smallest subset that breaks the statement.         *)
(***************************************************************************)
EXTENDS RateLimitStore, FiniteSetTheorems, TLAPS

\* What the fold of SumFunctionOnSet unfolds to: a function on all subsets of S that
\* takes one element, chosen by Pick, from each.
Pick(s) == CHOOSE x \in s : TRUE
Body(g, f, s) == IF s = {} THEN 0 ELSE f[Pick(s)] + g[s \ {Pick(s)}]
IsSum(g, f, S) == g = [s \in SUBSET S |-> Body(g, f, s)]
TheSum(f, S) == CHOOSE g : IsSum(g, f, S)

LEMMA PickIn == \A s : s # {} => Pick(s) \in s
BY DEF Pick

\* A set of subsets of a finite set has a smallest member: instead of an induction, a
\* proof takes the smallest subset for which its statement fails.
LEMMA SmallestSubset ==
    ASSUME NEW S, IsFiniteSet(S), NEW B, B \subseteq SUBSET S, B # {}
    PROVE  \E T \in B : \A U \in B : U \subseteq T => U = T
<1>1. B \subseteq FiniteSubsetsOf(S)
  BY FS_FiniteSubsetsOfFinite
<1>2. PICK T \in B : \A U \in B : ~ (<<U, T>> \in StrictSubsetOrdering(S))
  BY <1>1, FS_StrictSubsetOrderingWellFounded, WFMin
<1>3. ASSUME NEW U \in B, U \subseteq T PROVE U = T
  BY <1>2, <1>3 DEF StrictSubsetOrdering
<1>. QED BY <1>3

\* There is at most one such function, ...
LEMMA SumUnique ==
    ASSUME NEW S, IsFiniteSet(S), NEW f, NEW g, NEW h, IsSum(g, f, S), IsSum(h, f, S)
    PROVE  g = h
<1>. DEFINE B == {s \in SUBSET S : g[s] # h[s]}
<1>1. CASE B = {}
  BY <1>1 DEF IsSum
<1>2. CASE B # {}
  <2>0. B \subseteq SUBSET S
    OBVIOUS
  <2>. HIDE DEF B
  <2>1. PICK T \in B : \A U \in B : U \subseteq T => U = T
    BY <1>2, <2>0, SmallestSubset
  <2>. USE DEF B
  <2>2. T # {}
    BY <2>1 DEF IsSum, Body
  <2>3. T \ {Pick(T)} \notin B
    BY <2>1, <2>2, PickIn
  <2>4. g[T \ {Pick(T)}] = h[T \ {Pick(T)}]
    BY <2>3, <2>1
  <2>. QED BY <2>1, <2>4 DEF IsSum, Body
<1>. QED BY <1>1, <1>2

\* ... it is the same for a part of S, ...
LEMMA SumRestricted ==
    ASSUME NEW S, NEW T \in SUBSET S, NEW f, NEW g, IsSum(g, f, S)
    PROVE  IsSum(Restrict(g, SUBSET T), f, T)
<1>1. ASSUME NEW s \in SUBSET T PROVE Restrict(g, SUBSET T)[s] = Body(Restrict(g, SUBSET T), f, s)
  BY PickIn DEF IsSum, Body, Restrict
<1>. QED BY <1>1 DEF IsSum, Restrict

\* ... and there is one.
LEMMA SumExists ==
    ASSUME NEW S, IsFiniteSet(S), NEW f
    PROVE  \E g : IsSum(g, f, S)
<1>. DEFINE B == {s \in SUBSET S : ~ \E g : IsSum(g, f, s)}
<1>1. CASE B = {}
  BY <1>1
<1>2. CASE B # {}
  <2>0. B \subseteq SUBSET S
    OBVIOUS
  <2>. HIDE DEF B
  <2>1. PICK T \in B : \A U \in B : U \subseteq T => U = T
    BY <1>2, <2>0, SmallestSubset
  <2>. USE DEF B
  <2>. DEFINE under(s) == IF s = T THEN Body(TheSum(f, T \ {Pick(T)}), f, T) ELSE TheSum(f, s)[s]
              h == [s \in SUBSET T |-> under(s)]
  <2>2. ASSUME NEW s \in SUBSET T, s # T PROVE IsSum(TheSum(f, s), f, s)
    BY <2>1, <2>2 DEF TheSum
  <2>3. ASSUME NEW s \in SUBSET T, s # T, s # {} PROVE TheSum(f, s)[s \ {Pick(s)}] = TheSum(f, s \ {Pick(s)})[s \ {Pick(s)}]
    <3>. DEFINE t == s \ {Pick(s)}
    <3>1. t \in SUBSET s /\ t # T
      BY <2>3, PickIn
    <3>2. IsSum(TheSum(f, s), f, s) /\ IsSum(TheSum(f, t), f, t)
      BY <2>2, <2>3, <3>1
    <3>. HIDE DEF t
    <3>3. IsSum(Restrict(TheSum(f, s), SUBSET t), f, t)
      BY <3>1, <3>2, SumRestricted
    <3>4. IsFiniteSet(t)
      BY <2>1, <3>1, FS_Subset
    <3>5. Restrict(TheSum(f, s), SUBSET t) = TheSum(f, t)
      BY <3>2, <3>3, <3>4, SumUnique
    <3>6. TheSum(f, s)[t] = TheSum(f, t)[t]
      BY <3>5 DEF Restrict
    <3>. QED BY <3>6 DEF t
  <2>4. ASSUME NEW s \in SUBSET T PROVE h[s] = Body(h, f, s)
    <3>1. CASE s = {} /\ s = T
      BY <3>1 DEF Body
    <3>2. CASE s = {} /\ s # T
      <4>1. TheSum(f, s)[s] = Body(TheSum(f, s), f, s)
        BY <3>2, <2>2 DEF IsSum
      <4>. QED BY <3>2, <4>1 DEF Body
    <3>3. CASE s # {}
      <4>1. s \ {Pick(s)} \in SUBSET T /\ s \ {Pick(s)} # T
        BY <3>3, PickIn
      <4>2. h[s \ {Pick(s)}] = TheSum(f, s \ {Pick(s)})[s \ {Pick(s)}]
        BY <4>1
      <4>3. CASE s = T
        BY <3>3, <4>2, <4>3 DEF Body
      <4>4. CASE s # T
        <5>1. TheSum(f, s)[s] = Body(TheSum(f, s), f, s)
          BY <4>4, <2>2 DEF IsSum
        <5>. QED BY <3>3, <4>2, <4>4, <5>1, <2>3 DEF Body
      <4>. QED BY <4>3, <4>4
    <3>. QED BY <3>1, <3>2, <3>3
  <2>5. IsSum(h, f, T)
    BY <2>4 DEF IsSum
  <2>. QED BY <2>1, <2>5
<1>. QED BY <1>1, <1>2

\* So the fold is that function's value, and can be unfolded by one element.
LEMMA SumFold ==
    ASSUME NEW f, NEW S
    PROVE  SumFunctionOnSet(f, S) = (CHOOSE g : IsSum(g, f, S))[S]
BY DEF SumFunctionOnSet, FoldFunctionOnSet, MapThenFoldSet, IsSum, Body, Pick

LEMMA SumStep ==
    ASSUME NEW S, IsFiniteSet(S), NEW f
    PROVE  /\ S = {} => SumFunctionOnSet(f, S) = 0
           /\ S # {} => SumFunctionOnSet(f, S) = f[Pick(S)] + SumFunctionOnSet(f, S \ {Pick(S)})
<1>. DEFINE T == S \ {Pick(S)}
<1>1. PICK g : IsSum(g, f, S)
  BY SumExists
<1>2. SumFunctionOnSet(f, S) = g[S]
  BY <1>1, SumFold, SumUnique
<1>3. g[S] = Body(g, f, S)
  BY <1>1 DEF IsSum
<1>4. ASSUME S # {} PROVE SumFunctionOnSet(f, T) = g[T]
  <2>0. T \in SUBSET S
    OBVIOUS
  <2>. HIDE DEF T
  <2>1. IsSum(Restrict(g, SUBSET T), f, T)
    BY <1>1, <2>0, SumRestricted
  <2>2. IsFiniteSet(T)
    BY <2>0, FS_Subset
  <2>3. SumFunctionOnSet(f, T) = Restrict(g, SUBSET T)[T]
    BY <2>1, <2>2, SumFold, SumUnique
  <2>. QED BY <2>3 DEF Restrict
<1>. QED BY <1>2, <1>3, <1>4 DEF Body

\* Sums of naturals are naturals; any element may be taken out first; ...
LEMMA SumType ==
    ASSUME NEW S, IsFiniteSet(S), NEW f, \A s \in S : f[s] \in Nat
    PROVE  SumFunctionOnSet(f, S) \in Nat
<1>. DEFINE B == {s \in SUBSET S : SumFunctionOnSet(f, s) \notin Nat}
<1>1. CASE B = {}
  BY <1>1
<1>2. CASE B # {}
  <2>0. B \subseteq SUBSET S
    OBVIOUS
  <2>. HIDE DEF B
  <2>1. PICK T \in B : \A U \in B : U \subseteq T => U = T
    BY <1>2, <2>0, SmallestSubset
  <2>. USE DEF B
  <2>2. IsFiniteSet(T)
    BY FS_Subset
  <2>3. T # {}
    BY <2>2, SumStep
  <2>4. SumFunctionOnSet(f, T \ {Pick(T)}) \in Nat
    BY <2>1, <2>3, PickIn
  <2>5. SumFunctionOnSet(f, T) = f[Pick(T)] + SumFunctionOnSet(f, T \ {Pick(T)})
    BY <2>2, <2>3, SumStep
  <2>6. f[Pick(T)] \in Nat
    BY <2>3, PickIn
  <2>. QED BY <2>4, <2>5, <2>6
<1>. QED BY <1>1, <1>2

LEMMA SumTake ==
    ASSUME NEW S, IsFiniteSet(S), NEW f, \A s \in S : f[s] \in Nat, NEW c \in S
    PROVE  SumFunctionOnSet(f, S) = f[c] + SumFunctionOnSet(f, S \ {c})
<1>. DEFINE sum(s) == SumFunctionOnSet(f, s)
            B == {s \in SUBSET S : \E x \in s : sum(s) # f[x] + sum(s \ {x})}
<1>1. CASE B = {}
  BY <1>1
<1>2. CASE B # {}
  <2>0. B \subseteq SUBSET S
    OBVIOUS
  <2>. HIDE DEF B
  <2>1. PICK T \in B : \A U \in B : U \subseteq T => U = T
    BY <1>2, <2>0, SmallestSubset
  <2>2. PICK x \in T : sum(T) # f[x] + sum(T \ {x})
    BY <2>1 DEF B
  <2>. DEFINE p == Pick(T)
  <2>3. T \in SUBSET S /\ p \in T /\ T # {}
    BY <2>0, <2>2, PickIn
  <2>4. IsFiniteSet(T) /\ IsFiniteSet((T \ {p}) \ {x})
    BY <2>3, FS_Subset
  <2>5. sum(T) = f[p] + sum(T \ {p})
    BY <2>3, <2>4, SumStep
  <2>. HIDE DEF p
  <2>6. p # x
    BY <2>2, <2>5
  <2>7. sum(T \ {p}) = f[x] + sum((T \ {p}) \ {x})
    <3>1. T \ {p} \notin B
      BY <2>1, <2>3
    <3>. QED BY <2>3, <2>6, <3>1 DEF B
  <2>8. sum(T \ {x}) = f[p] + sum((T \ {x}) \ {p})
    <3>1. T \ {x} \notin B
      BY <2>1, <2>2
    <3>. QED BY <2>3, <2>6, <3>1 DEF B
  <2>9. (T \ {p}) \ {x} = (T \ {x}) \ {p}
    OBVIOUS
  <2>10. sum((T \ {p}) \ {x}) \in Nat
    BY <2>3, <2>4, SumType
  <2>11. f[p] \in Nat /\ f[x] \in Nat
    BY <2>2, <2>3
  <2>12. sum(T \ {x}) = f[p] + sum((T \ {p}) \ {x})
    BY <2>8, <2>9
  <2>. HIDE DEF sum
  <2>. QED BY <2>2, <2>5, <2>7, <2>10, <2>11, <2>12
<1>. QED BY <1>1, <1>2

\* ... a part of the set, or smaller summands, give no greater sum.
LEMMA SumMonotone ==
    ASSUME NEW S, IsFiniteSet(S), NEW T \in SUBSET S,
           NEW f, \A s \in T : f[s] \in Nat,
           NEW g, \A s \in S : g[s] \in Nat,
           \A s \in T : f[s] <= g[s]
    PROVE  SumFunctionOnSet(f, T) <= SumFunctionOnSet(g, S)
<1>. DEFINE B == {s \in SUBSET S : ~ (SumFunctionOnSet(f, s \cap T) <= SumFunctionOnSet(g, s))}
<1>1. CASE B = {}
  <2>1. S \notin B /\ S \cap T = T
    BY <1>1
  <2>. QED BY <2>1
<1>2. CASE B # {}
  <2>0. B \subseteq SUBSET S
    OBVIOUS
  <2>. HIDE DEF B
  <2>1. PICK U \in B : \A V \in B : V \subseteq U => V = U
    BY <1>2, <2>0, SmallestSubset
  <2>. USE DEF B
  <2>2. U \in SUBSET S /\ IsFiniteSet(U) /\ IsFiniteSet(U \cap T)
    BY FS_Subset
  <2>3. U # {}
    <3>1. ASSUME U = {} PROVE FALSE
      <4>1. U \cap T = {}
        BY <3>1
      <4>2. SumFunctionOnSet(f, U \cap T) = 0
        BY <2>2, <4>1, SumStep
      <4>3. SumFunctionOnSet(g, U) = 0
        BY <2>2, <3>1, SumStep
      <4>. QED BY <2>1, <4>2, <4>3
    <3>. QED BY <3>1
  <2>4. PICK c \in U : TRUE
    BY <2>3
  <2>5. SumFunctionOnSet(f, (U \ {c}) \cap T) <= SumFunctionOnSet(g, U \ {c})
    BY <2>1, <2>4
  <2>6. SumFunctionOnSet(g, U) = g[c] + SumFunctionOnSet(g, U \ {c})
    BY <2>2, <2>4, SumTake
  <2>7. IsFiniteSet(U \ {c}) /\ IsFiniteSet((U \ {c}) \cap T)
    BY <2>2, FS_Subset
  <2>8. /\ SumFunctionOnSet(g, U \ {c}) \in Nat
        /\ SumFunctionOnSet(f, (U \ {c}) \cap T) \in Nat
        /\ g[c] \in Nat
    BY <2>2, <2>4, <2>7, SumType
  <2>9. CASE c \in T
    <3>1. (U \cap T) \ {c} = (U \ {c}) \cap T
      OBVIOUS
    <3>2. SumFunctionOnSet(f, U \cap T) = f[c] + SumFunctionOnSet(f, (U \ {c}) \cap T)
      BY <2>2, <2>4, <2>9, <3>1, SumTake
    <3>3. f[c] <= g[c] /\ f[c] \in Nat
      BY <2>9
    <3>. QED BY <2>1, <2>5, <2>6, <2>8, <3>2, <3>3
  <2>10. CASE c \notin T
    <3>1. (U \ {c}) \cap T = U \cap T
      BY <2>10
    <3>2. SumFunctionOnSet(f, U \cap T) <= SumFunctionOnSet(g, U \ {c})
      BY <2>5, <3>1
    <3>3. SumFunctionOnSet(f, U \cap T) \in Nat
      BY <2>8, <3>1
    <3>4. SumFunctionOnSet(f, U \cap T) <= SumFunctionOnSet(g, U)
      BY <2>6, <2>8, <3>2, <3>3
    <3>. QED BY <2>1, <3>4
  <2>. QED BY <2>9, <2>10
<1>. QED BY <1>1, <1>2

\* A sum of nothing, and one with a single summand increased.
LEMMA SumZero ==
    ASSUME NEW S, IsFiniteSet(S), NEW f, \A s \in S : f[s] = 0
    PROVE  SumFunctionOnSet(f, S) = 0
<1>. DEFINE B == {s \in SUBSET S : SumFunctionOnSet(f, s) # 0}
<1>1. CASE B = {}
  BY <1>1
<1>2. CASE B # {}
  <2>0. B \subseteq SUBSET S
    OBVIOUS
  <2>. HIDE DEF B
  <2>1. PICK T \in B : \A U \in B : U \subseteq T => U = T
    BY <1>2, <2>0, SmallestSubset
  <2>. USE DEF B
  <2>2. IsFiniteSet(T)
    BY FS_Subset
  <2>3. T # {}
    BY <2>2, SumStep
  <2>4. SumFunctionOnSet(f, T \ {Pick(T)}) = 0
    BY <2>1, <2>3, PickIn
  <2>. QED BY <2>2, <2>3, <2>4, SumStep, PickIn
<1>. QED BY <1>1, <1>2

LEMMA SumOneMore ==
    ASSUME NEW D, NEW S \in SUBSET D, IsFiniteSet(S), NEW f \in [D -> Nat], NEW c \in D
    PROVE  SumFunctionOnSet([f EXCEPT ![c] = @ + 1], S) <= SumFunctionOnSet(f, S) + 1
<1>. DEFINE g == [f EXCEPT ![c] = @ + 1]
            R == S \ {c}
<1>0. g \in [D -> Nat]
  OBVIOUS
<1>1. IsFiniteSet(R) /\ R \in SUBSET R
  BY FS_Subset
<1>2. SumFunctionOnSet(g, R) <= SumFunctionOnSet(f, R)
  <2>1. \A s \in R : g[s] \in Nat /\ f[s] \in Nat /\ g[s] <= f[s]
    OBVIOUS
  <2>. HIDE DEF R, g
  <2>. QED BY <1>1, <2>1, SumMonotone
<1>3. SumFunctionOnSet(g, R) \in Nat /\ SumFunctionOnSet(f, R) \in Nat
  <2>1. \A s \in R : g[s] \in Nat /\ f[s] \in Nat
    OBVIOUS
  <2>. HIDE DEF R, g
  <2>. QED BY <1>1, <2>1, SumType
<1>4. CASE c \in S
  <2>1. SumFunctionOnSet(g, S) = g[c] + SumFunctionOnSet(g, R)
    BY <1>0, <1>4, SumTake
  <2>2. SumFunctionOnSet(f, S) = f[c] + SumFunctionOnSet(f, R)
    BY <1>4, SumTake
  <2>3. g[c] = f[c] + 1 /\ f[c] \in Nat
    OBVIOUS
  <2>. HIDE DEF R, g
  <2>4. SumFunctionOnSet(g, S) <= SumFunctionOnSet(f, S) + 1
    BY <1>2, <1>3, <2>1, <2>2, <2>3
  <2>. QED BY <2>4 DEF g
<1>5. CASE c \notin S
  <2>1. R = S
    BY <1>5
  <2>. HIDE DEF R, g
  <2>. QED BY <1>2, <1>3, <2>1 DEF g
<1>. QED BY <1>4, <1>5
--------------------------------------------------------------------------------
\* The inductive invariant

\* The times from which a period that LimitHolds is about reaches up to now, when requests
\* of k have been late by no more than l.
Recent(k, now, l) == {t \in Time : now <= t + Held(k) - l}

\* What has been read from the clock is past, and so is every grant.
Past ==
    /\ \A r \in Request : call[r].now <= clock
    /\ \A s \in sweeps : s <= clock
    /\ \A k \in Key, t \in Time : granted[k][t] > 0 => t <= clock

\* What a request knows: of the row, until another writes it, what it has seen of it, and
\* that it meets the guard once the sub-select has chosen it; of a row that it has chosen, that
\* it is there until it is deleted; and whether the window had elapsed by its now.
Knows(r) ==
    LET k == call[r].key IN
    /\ pc[r] \in {"absent", "create", "reread"} /\ fate[r] = "same" => row[k] = NoRow
    /\ pc[r] \in {"found", "reset", "increment", "fresh"} /\ fate[r] = "same"
          => row[k] # NoRow /\ row[k].last = call[r].last
    /\ pc[r] = "reset_write" /\ fate[r] = "same" => ResetFits(r)
    /\ pc[r] = "increment_write" /\ fate[r] = "same" => IncrementFits(r)
    /\ pc[r] \in {"reset_write", "increment_write"} /\ fate[r] # "gone" => row[k] # NoRow
    /\ pc[r] \in {"reset", "reset_write"} => Elapsed(call[r].last, call[r].now, k)
    /\ pc[r] \in {"increment", "increment_write", "fresh"} => ~ Elapsed(call[r].last, call[r].now, k)

\* The increments of k on their way, and how far its row can count with them: when the last of
\* them was chosen, the count was below the limit.
Aimed(k) == {r \in Request : pc[r] = "increment_write" /\ call[r].key = k}
Bounded == \A k \in Key : row[k].count + Cardinality(Aimed(k)) <= Limit[k] - 1 + Cardinality(Request)

TInv == TypeOK /\ Bounded
Requests == \A r \in Request : Knows(r)
KInv == TInv /\ Requests

\* The row of a key with a recent grant is there, ...
RowIsDated ==
    \A k \in Key : late[k] <= Held(k) =>
        \A t \in Recent(k, clock, late[k]) : granted[k][t] > 0 => row[k] # NoRow /\ t <= row[k].last + late[k]

\* ... and counts the recent grants.
RowCounts ==
    \A k \in Key : late[k] <= Held(k) => SumFunctionOnSet(granted[k], Recent(k, clock, late[k])) <= row[k].count

IInv == TypeOK /\ Bounded /\ Requests /\ Past /\ RowIsDated /\ RowCounts /\ LimitHolds
--------------------------------------------------------------------------------
\* The steps

\* Every request that is not idle has a key.
LEMMA CallType == TypeOK => \A r \in Request : pc[r] # "idle" => call[r] \in [key : Key, last : Time, now : Time]
BY DEF TypeOK

\* Increments on their way are requests, so there are finitely many; each counts for one.
LEMMA AimedFinite ==
    \A k : /\ IsFiniteSet(Aimed(k)) /\ Cardinality(Aimed(k)) \in Nat
           /\ Cardinality(Aimed(k)) <= Cardinality(Request) /\ Cardinality(Request) \in Nat
           /\ \A r \in Aimed(k) : Cardinality(Aimed(k) \ {r}) = Cardinality(Aimed(k)) - 1
           /\ Request # {} => Cardinality(Request) >= 1
<1>. TAKE k
<1>1. Aimed(k) \subseteq Request
  BY DEF Aimed
<1>2. IsFiniteSet(Aimed(k)) /\ Cardinality(Aimed(k)) <= Cardinality(Request)
  BY <1>1, RequestAssumption, FS_Subset
<1>3. Cardinality(Aimed(k)) \in Nat /\ Cardinality(Request) \in Nat
  BY <1>2, RequestAssumption, FS_CardinalityType
<1>4. \A r \in Aimed(k) : Cardinality(Aimed(k) \ {r}) = Cardinality(Aimed(k)) - 1
  BY <1>2, FS_RemoveElement
<1>5. Request # {} => Cardinality(Request) # 0
  BY RequestAssumption, FS_EmptySet
<1>. QED BY <1>2, <1>3, <1>4, <1>5

\* The room there is for another increment: if one is chosen, its row can count it.
LEMMA RoomForAimed ==
    ASSUME TInv, NEW r \in Request, pc[r] = "increment_write"
    PROVE  row[call[r].key].count + 1 \in 1 .. Limit[call[r].key] - 1 + Cardinality(Request)
<1>. DEFINE k == call[r].key
<1>1. k \in Key /\ r \in Aimed(k)
  BY CallType DEF TInv, Aimed
<1>2. Cardinality(Aimed(k)) >= 1
  <2>1. Cardinality(Aimed(k) \ {r}) \in Nat
    BY AimedFinite, FS_RemoveElement, FS_CardinalityType
  <2>. QED BY <1>1, <2>1, AimedFinite
<1>3. row[k].count \in Nat /\ Limit[k] \in Nat
  BY <1>1, RuleAssumption DEF TInv, TypeOK
<1>. QED BY <1>1, <1>2, <1>3, AimedFinite DEF TInv, Bounded

\* Types are kept by the way a granted request writes.
LEMMA WriteTypes ==
    ASSUME TypeOK, NEW r \in Request, pc[r] # "idle", NEW fits,
           NEW n \in 1 .. Limit[call[r].key] - 1 + Cardinality(Request), Write(r, n, fits)
    PROVE  /\ row' \in [Key -> [count : Nat, last : Time]] /\ \A k \in Key : row'[k] \in Row(k)
           /\ pc' \in [Request -> {"idle", "read", "absent", "found", "create", "reread", "reset",
                                   "reset_write", "increment", "increment_write", "fresh"}]
           /\ fate' \in [Request -> {"same", "changed", "gone"}]
           /\ call' \in [Request -> [key : Key, last : Time, now : Time] \union {NoCall}]
           /\ \A q \in Request : pc'[q] = "idle" <=> call'[q] = NoCall
           /\ granted' \in [Key -> [Time -> Nat]]
           /\ late' \in [Key -> Nat] /\ \A k \in Key : late'[k] <= Held(k) + 1
<1>. DEFINE k == call[r].key
            age == clock - call[r].now
<1>1. call[r] \in [key : Key, last : Time, now : Time]
  BY DEF TypeOK
<1>2. k \in Key /\ call[r].now \in Time /\ clock \in Time
  BY <1>1 DEF TypeOK
<1>3. row' \in [Key -> [count : Nat, last : Time]] /\ \A j \in Key : row'[j] \in Row(j)
  <2>1. n \in Nat
    BY <1>2, RuleAssumption, AimedFinite
  <2>2. row' = [row EXCEPT ![k] = [count |-> n, last |-> call[r].now]]
    BY DEF Write
  <2>3. [count |-> n, last |-> call[r].now] \in Row(k)
    BY <1>2 DEF Row
  <2>. HIDE DEF k
  <2>. QED BY <1>2, <2>1, <2>2, <2>3 DEF TypeOK, Row
<1>4. /\ pc' \in [Request -> {"idle", "read", "absent", "found", "create", "reread", "reset",
                              "reset_write", "increment", "increment_write", "fresh"}]
      /\ call' \in [Request -> [key : Key, last : Time, now : Time] \union {NoCall}]
      /\ \A q \in Request : pc'[q] = "idle" <=> call'[q] = NoCall
      /\ fate' \in [Request -> {"same", "changed", "gone"}]
  BY DEF Write, End, Changed, TypeOK
<1>5. \A j \in Key : Held(j) \in Nat
  BY RuleAssumption DEF Held
<1>6. late' \in [Key -> Nat] /\ \A j \in Key : late'[j] <= Held(j) + 1
  <2>. DEFINE new == IF age > Held(k) \/ Overtaken(r, fits) THEN Held(k) + 1
                     ELSE IF age > late[k] THEN age ELSE late[k]
  <2>1. late \in [Key -> Nat] /\ late[k] \in Nat /\ late[k] <= Held(k) + 1 /\ Held(k) \in Nat /\ age \in Int
    BY <1>2, <1>5, MaxTimeAssumption DEF TypeOK, Time
  <2>2. late' = [late EXCEPT ![k] = new]
    BY DEF Write
  <2>3. new \in Nat /\ new <= Held(k) + 1
    BY <2>1
  <2>. HIDE DEF new, k
  <2>. QED BY <1>2, <2>1, <2>2, <2>3 DEF TypeOK
<1>7. granted' \in [Key -> [Time -> Nat]]
  <2>1. granted' = [granted EXCEPT ![k] = Nothing] \/ granted' = [granted EXCEPT ![k][clock] = @ + 1]
    BY DEF Write
  <2>2. granted \in [Key -> [Time -> Nat]] /\ Nothing \in [Time -> Nat]
    BY DEF TypeOK, Nothing
  <2>. HIDE DEF k
  <2>. QED BY <1>2, <2>1, <2>2
<1>. QED BY <1>3, <1>4, <1>6, <1>7

\* The type invariant is kept, if increments have room.  One step for each action.
LEMMA TypeStep == TInv /\ [Next]_vars => TypeOK'
<1>. SUFFICES ASSUME TInv, [Next]_vars PROVE TypeOK'
  OBVIOUS
<1>. USE RuleAssumption, MaxTimeAssumption, NoKeyAssumption
<1>0. TypeOK /\ \A r \in Request : pc[r] # "idle" => call[r] \in [key : Key, last : Time, now : Time]
  BY CallType DEF TInv
<1>00. 0 \in Time /\ clock \in Time
  BY <1>0 DEF Time, TypeOK
<1>000. ASSUME NEW r \in Request PROVE \A k \in Key : 1 \in 1 .. Limit[k] - 1 + Cardinality(Request)
  BY AimedFinite
<1>1. ASSUME NEW r \in Request, NEW k \in Key, Begin(r, k) PROVE TypeOK'
  <2>1. call[r] = NoCall
    BY <1>1, <1>0 DEF Begin, TypeOK
  <2>2. call'[r] = [key |-> k, last |-> 0, now |-> 0] /\ \A q \in Request \ {r} : call'[q] = call[q]
    BY <1>1, <1>0, <2>1 DEF Begin, NoCall, TypeOK
  <2>3. call'[r] \in [key : Key, last : Time, now : Time] /\ call'[r] # NoCall
    BY <1>00, <2>2 DEF NoCall
  <2>4. DOMAIN call' = Request /\ call' = [q \in Request |-> call'[q]]
    BY <1>1, <1>0 DEF Begin, TypeOK
  <2>5. call' \in [Request -> [key : Key, last : Time, now : Time] \union {NoCall}]
    <3>1. \A q \in Request : call'[q] \in [key : Key, last : Time, now : Time] \union {NoCall}
      BY <1>0, <2>2, <2>3 DEF TypeOK
    <3>. QED BY <2>4, <3>1
  <2>6. \A q \in Request : pc'[q] = "idle" <=> call'[q] = NoCall
    BY <1>1, <1>0, <2>2, <2>3 DEF Begin, TypeOK
  <2>. QED BY <1>1, <1>0, <2>5, <2>6 DEF Begin, TypeOK
<1>2. ASSUME NEW r \in Request, Read(r) PROVE TypeOK'
  BY <1>2, <1>0 DEF Read, Look, TypeOK, NoCall
<1>3. ASSUME NEW r \in Request, Decide(r) PROVE TypeOK'
  BY <1>3, <1>0 DEF Decide, TypeOK, NoCall
<1>4. ASSUME NEW r \in Request, Create(r) PROVE TypeOK'
  <2>1. CASE row[call[r].key] = NoRow
    <3>1. /\ pc[r] # "idle" /\ Write(r, 1, TRUE) /\ UNCHANGED <<sweeps, clock>>
          /\ 1 \in 1 .. Limit[call[r].key] - 1 + Cardinality(Request)
      BY <1>4, <2>1, <1>0, <1>000 DEF Create
    <3>. QED BY <3>1, <1>0, WriteTypes DEF TypeOK
  <2>2. CASE row[call[r].key] # NoRow
    BY <1>4, <2>2, <1>0 DEF Create, Goto, TypeOK
  <2>. QED BY <2>1, <2>2
<1>5. ASSUME NEW r \in Request, CreateFails(r) PROVE TypeOK'
  <2>. DEFINE k == call[r].key
  <2>1. k \in Key /\ call[r].now \in Time /\ call[r] # NoCall
    BY <1>5, <1>0 DEF CreateFails, NoCall
  <2>2. row' \in [Key -> [count : Nat, last : Time]] /\ \A j \in Key : row'[j] \in Row(j)
    <3>1. CASE UNCHANGED row
      BY <1>0, <3>1 DEF TypeOK, Row
    <3>2. CASE row' = [row EXCEPT ![k] = [count |-> 1, last |-> call[r].now]]
      <4>1. [count |-> 1, last |-> call[r].now] \in Row(k)
        BY <2>1, <1>000 DEF Row
      <4>. HIDE DEF k
      <4>. QED BY <1>0, <2>1, <3>2, <4>1 DEF TypeOK, Row
    <3>. QED BY <1>5, <3>1, <3>2 DEF CreateFails
  <2>3. pc' = [pc EXCEPT ![r] = "reread"] /\ pc[r] # "idle" /\ UNCHANGED <<call, sweeps, clock, granted, late>>
    BY <1>5 DEF CreateFails, Goto
  <2>4. fate' \in [Request -> {"same", "changed", "gone"}]
    BY <1>5, <1>0 DEF CreateFails, TypeOK
  <2>. QED BY <1>0, <2>1, <2>2, <2>3, <2>4 DEF TypeOK
<1>6. ASSUME NEW r \in Request, pc[r] # "idle", Again(r), UNCHANGED <<row, sweeps, clock, granted, late>> PROVE TypeOK'
  BY <1>6, <1>0, <1>00 DEF Again, Look, TypeOK, NoCall
<1>7. ASSUME NEW r \in Request, End(r), Look(r), UNCHANGED <<row, sweeps, clock, granted, late>> PROVE TypeOK'
  BY <1>7, <1>0 DEF End, Look, TypeOK
<1>8. ASSUME NEW r \in Request, Reread(r) PROVE TypeOK'
  BY <1>8, <1>6, <1>7 DEF Reread
<1>9. ASSUME NEW r \in Request, Reset(r) PROVE TypeOK'
  <2>1. CASE ResetFits(r)
    BY <1>9, <2>1, <1>0 DEF Reset, Choose, Goto, Look, TypeOK
  <2>2. CASE ~ ResetFits(r)
    BY <1>9, <2>2, <1>6 DEF Reset
  <2>. QED BY <2>1, <2>2
<1>10. ASSUME NEW r \in Request, ResetWrite(r) PROVE TypeOK'
  <2>1. CASE fate[r] # "gone"
    <3>1. /\ pc[r] # "idle" /\ Write(r, 1, ResetFits(r)) /\ sweeps' = sweeps \union {call[r].now} /\ UNCHANGED clock
          /\ 1 \in 1 .. Limit[call[r].key] - 1 + Cardinality(Request)
      BY <1>10, <2>1, <1>0, <1>000 DEF ResetWrite
    <3>2. call[r].now \in Time
      BY <3>1, <1>0
    <3>. QED BY <3>1, <3>2, <1>0, WriteTypes DEF TypeOK
  <2>2. CASE fate[r] = "gone"
    BY <1>10, <2>2, <1>6 DEF ResetWrite
  <2>. QED BY <2>1, <2>2
<1>11. ASSUME NEW r \in Request, Increment(r) PROVE TypeOK'
  <2>1. CASE IncrementFits(r)
    BY <1>11, <2>1, <1>0 DEF Increment, Choose, Goto, Look, TypeOK
  <2>2. CASE ~ IncrementFits(r)
    BY <1>11, <2>2, <1>0 DEF Increment, Goto, TypeOK
  <2>. QED BY <2>1, <2>2
<1>12. ASSUME NEW r \in Request, IncrementWrite(r) PROVE TypeOK'
  <2>1. CASE fate[r] # "gone"
    <3>1. pc[r] = "increment_write" /\ Write(r, row[call[r].key].count + 1, IncrementFits(r)) /\ UNCHANGED <<sweeps, clock>>
      BY <1>12, <2>1 DEF IncrementWrite
    <3>2. row[call[r].key].count + 1 \in 1 .. Limit[call[r].key] - 1 + Cardinality(Request)
      BY <3>1, RoomForAimed
    <3>. QED BY <3>1, <3>2, <1>0, WriteTypes DEF TypeOK
  <2>2. CASE fate[r] = "gone"
    BY <1>12, <2>2, <1>0 DEF IncrementWrite, Goto, TypeOK
  <2>. QED BY <2>1, <2>2
<1>13. ASSUME NEW r \in Request, Fresh(r) PROVE TypeOK'
  BY <1>13, <1>6, <1>7 DEF Fresh
<1>14. ASSUME NEW r \in Request, Abandon(r) PROVE TypeOK'
  BY <1>14, <1>7 DEF Abandon
<1>15. ASSUME NEW s \in Time, Sweep(s) PROVE TypeOK'
  <2>1. fate' \in [Request -> {"same", "changed", "gone"}]
    BY <1>15, <1>0 DEF Sweep, TypeOK
  <2>. QED BY <1>15, <1>0, <1>00, <2>1 DEF Sweep, TypeOK, Row, NoRow
<1>16. ASSUME NEW s \in Time, SweepFails(s) PROVE TypeOK'
  BY <1>16, <1>0 DEF SweepFails, TypeOK
<1>17. CASE Tick
  BY <1>17, <1>0 DEF Tick, TypeOK, Time
<1>18. CASE UNCHANGED vars
  BY <1>18, <1>0 DEF vars, TypeOK
<1>. QED BY <1>1, <1>2, <1>3, <1>4, <1>5, <1>8, <1>9, <1>10, <1>11, <1>12, <1>13, <1>14, <1>15, <1>16, <1>17, <1>18
         DEF Next, Step

\* A row that counts no more than before, with no increment more on its way, ...
LEMMA BoundedLess ==
    ASSUME TInv, TypeOK',
           \A k \in Key : Aimed(k)' \subseteq Aimed(k) /\ row'[k].count <= row[k].count
    PROVE  Bounded'
<1>. SUFFICES ASSUME NEW k \in Key
              PROVE  row'[k].count + Cardinality(Aimed(k)') <= Limit[k] - 1 + Cardinality(Request)
  BY DEF Bounded
<1>1. Cardinality(Aimed(k)') <= Cardinality(Aimed(k)) /\ Cardinality(Aimed(k)') \in Nat
  BY AimedFinite, FS_Subset, FS_CardinalityType
<1>2. row[k].count \in Nat /\ row'[k].count \in Nat /\ Limit[k] \in Nat
  BY RuleAssumption DEF TInv, TypeOK
<1>. QED BY <1>1, <1>2, AimedFinite DEF TInv, Bounded

\* ... one that is opened, ...
LEMMA BoundedOpened ==
    ASSUME TInv, TypeOK', NEW r \in Request, NEW k \in Key, row'[k].count = 1, pc'[r] # "increment_write",
           \A j \in Key : Aimed(j)' \subseteq Aimed(j) /\ (j # k => row'[j].count = row[j].count)
    PROVE  Bounded'
<1>. SUFFICES ASSUME NEW j \in Key
              PROVE  row'[j].count + Cardinality(Aimed(j)') <= Limit[j] - 1 + Cardinality(Request)
  BY DEF Bounded
<1>1. Cardinality(Aimed(j)') <= Cardinality(Aimed(j)) /\ Cardinality(Aimed(j)') \in Nat
  BY AimedFinite, FS_Subset, FS_CardinalityType
<1>2. row[j].count \in Nat /\ row'[j].count \in Nat /\ Limit[j] \in Nat /\ Limit[j] >= 1
  BY RuleAssumption DEF TInv, TypeOK
<1>3. Cardinality(Aimed(k)') <= Cardinality(Request) - 1
  <2>1. Aimed(k)' \subseteq Request \ {r}
    BY DEF Aimed
  <2>2. IsFiniteSet(Request \ {r}) /\ Cardinality(Request \ {r}) = Cardinality(Request) - 1
    BY RequestAssumption, FS_RemoveElement
  <2>. QED BY <2>1, <2>2, FS_Subset
<1>4. CASE j = k
  BY <1>1, <1>2, <1>3, <1>4, AimedFinite
<1>5. CASE j # k
  BY <1>1, <1>2, <1>5, AimedFinite DEF TInv, Bounded
<1>. QED BY <1>4, <1>5

\* ... and every step, keep the bound.
LEMMA BoundedStep == TInv /\ [Next]_vars => Bounded'
<1>. SUFFICES ASSUME TInv, [Next]_vars PROVE Bounded'
  OBVIOUS
<1>. USE DEF TInv
<1>0. TypeOK' /\ \A r \in Request : pc[r] # "idle" => call[r] \in [key : Key, last : Time, now : Time]
  BY TypeStep, CallType
<1>00. \A k \in Key : row[k].count \in Nat /\ row'[k].count \in Nat
  BY <1>0 DEF TypeOK
\* Steps that leave the table alone and bring no increment on its way.
<1>1. ASSUME UNCHANGED row, \A q \in Request : pc'[q] = "increment_write" => pc[q] = "increment_write" /\ call'[q] = call[q]
      PROVE  Bounded'
  <2>1. \A k \in Key : Aimed(k)' \subseteq Aimed(k) /\ row'[k].count <= row[k].count
    BY <1>1, <1>00 DEF Aimed
  <2>. QED BY <1>0, <2>1, BoundedLess
\* Steps that open the row of the request's key.
<1>2. ASSUME NEW r \in Request, pc[r] # "idle", pc'[r] # "increment_write",
             row' = [row EXCEPT ![call[r].key] = [count |-> 1, last |-> call[r].now]],
             \A q \in Request \ {r} : pc'[q] = pc[q] /\ call'[q] = call[q]
      PROVE  Bounded'
  <2>1. call[r].key \in Key /\ row'[call[r].key].count = 1
    BY <1>0, <1>2 DEF TypeOK
  <2>2. \A j \in Key : Aimed(j)' \subseteq Aimed(j) /\ (j # call[r].key => row'[j].count = row[j].count)
    BY <1>2 DEF Aimed, TypeOK
  <2>. QED BY <1>0, <1>2, <2>1, <2>2, BoundedOpened
<1>3. ASSUME NEW r \in Request, pc[r] # "idle", NEW fits, Write(r, 1, fits) PROVE Bounded'
  <2>1. /\ row' = [row EXCEPT ![call[r].key] = [count |-> 1, last |-> call[r].now]] /\ pc'[r] # "increment_write"
        /\ \A q \in Request \ {r} : pc'[q] = pc[q] /\ call'[q] = call[q]
    BY <1>3 DEF Write, End, TypeOK
  <2>. QED BY <1>2, <1>3, <2>1
<1>4. ASSUME NEW r \in Request, Again(r), UNCHANGED row PROVE Bounded'
  BY <1>1, <1>4 DEF Again, TypeOK
<1>5. ASSUME NEW r \in Request, End(r), UNCHANGED row PROVE Bounded'
  BY <1>1, <1>5 DEF End, TypeOK
<1>6. ASSUME NEW r \in Request, NEW to, to # "increment_write", Goto(r, to), UNCHANGED row PROVE Bounded'
  BY <1>1, <1>6 DEF Goto, TypeOK
<1>7. ASSUME NEW r \in Request, NEW k \in Key, Begin(r, k) PROVE Bounded'
  BY <1>1, <1>7 DEF Begin, TypeOK
<1>8. ASSUME NEW r \in Request, Read(r) PROVE Bounded'
  BY <1>1, <1>8 DEF Read, TypeOK
<1>9. ASSUME NEW r \in Request, Decide(r) PROVE Bounded'
  BY <1>1, <1>9 DEF Decide, TypeOK
<1>10. ASSUME NEW r \in Request, Create(r) PROVE Bounded'
  BY <1>3, <1>6, <1>10 DEF Create
<1>11. ASSUME NEW r \in Request, CreateFails(r) PROVE Bounded'
  <2>1. CASE UNCHANGED row
    BY <1>6, <1>11, <2>1 DEF CreateFails
  <2>2. CASE row' = [row EXCEPT ![call[r].key] = [count |-> 1, last |-> call[r].now]]
    BY <1>2, <1>11, <2>2 DEF CreateFails, Goto, TypeOK
  <2>. QED BY <1>11, <2>1, <2>2 DEF CreateFails
<1>12. ASSUME NEW r \in Request, Reread(r) PROVE Bounded'
  BY <1>4, <1>5, <1>12 DEF Reread
<1>13. ASSUME NEW r \in Request, Reset(r) PROVE Bounded'
  BY <1>4, <1>6, <1>13 DEF Reset, Choose
<1>14. ASSUME NEW r \in Request, ResetWrite(r) PROVE Bounded'
  BY <1>3, <1>4, <1>14 DEF ResetWrite
\* A count below the limit has room for an increment of every request.
<1>15. ASSUME NEW r \in Request, Increment(r) PROVE Bounded'
  <2>1. CASE IncrementFits(r)
    <3>1. pc' = [pc EXCEPT ![r] = "increment_write"] /\ UNCHANGED <<row, call>>
      BY <1>15, <2>1 DEF Increment, Choose, Goto
    <3>. SUFFICES ASSUME NEW k \in Key
                  PROVE  row[k].count + Cardinality(Aimed(k)') <= Limit[k] - 1 + Cardinality(Request)
      BY <3>1 DEF Bounded
    <3>2. CASE k = call[r].key
      <4>1. row[k].count < Limit[k] /\ row[k].count \in Nat /\ Limit[k] \in Nat
        BY <2>1, <3>2, <1>00, RuleAssumption DEF IncrementFits
      <4>2. Cardinality(Aimed(k)') <= Cardinality(Request) /\ Cardinality(Aimed(k)') \in Nat
        <5>1. Aimed(k)' \subseteq Request
          BY DEF Aimed
        <5>. QED BY <5>1, RequestAssumption, FS_Subset, FS_CardinalityType
      <4>. QED BY <4>1, <4>2, AimedFinite
    <3>3. CASE k # call[r].key
      <4>1. Aimed(k)' = Aimed(k)
        BY <3>1, <3>3 DEF Aimed, TypeOK
      <4>. QED BY <4>1 DEF Bounded
    <3>. QED BY <3>2, <3>3
  <2>2. CASE ~ IncrementFits(r)
    BY <1>6, <1>15, <2>2 DEF Increment
  <2>. QED BY <2>1, <2>2
\* One increment more in the row is one less on its way.
<1>16. ASSUME NEW r \in Request, IncrementWrite(r) PROVE Bounded'
  <2>. DEFINE k == call[r].key
  <2>1. CASE fate[r] # "gone"
    <3>1. /\ row' = [row EXCEPT ![k] = [count |-> row[k].count + 1, last |-> call[r].now]]
          /\ pc[r] = "increment_write" /\ pc' = [pc EXCEPT ![r] = "idle"]
          /\ \A q \in Request \ {r} : call'[q] = call[q]
      BY <1>16, <2>1 DEF IncrementWrite, Write, End, TypeOK
    <3>2. k \in Key
      BY <3>1, <1>0
    <3>. SUFFICES ASSUME NEW j \in Key
                  PROVE  row'[j].count + Cardinality(Aimed(j)') <= Limit[j] - 1 + Cardinality(Request)
      BY DEF Bounded
    <3>3. CASE j = k
      <4>1. Aimed(j)' = Aimed(j) \ {r} /\ r \in Aimed(j)
        BY <3>1, <3>3 DEF Aimed, TypeOK
      <4>2. row'[j].count = row[j].count + 1
        BY <3>1, <3>2, <3>3 DEF TypeOK
      <4>3. Cardinality(Aimed(j)') = Cardinality(Aimed(j)) - 1
        BY <4>1, AimedFinite
      <4>4. Limit[j] \in Nat
        BY RuleAssumption
      <4>. QED BY <1>00, <4>2, <4>3, <4>4, AimedFinite DEF Bounded
    <3>4. CASE j # k
      <4>1. Aimed(j)' = Aimed(j) /\ row'[j] = row[j]
        BY <3>1, <3>4 DEF Aimed, TypeOK
      <4>. QED BY <4>1 DEF Bounded
    <3>. QED BY <3>3, <3>4
  <2>2. CASE fate[r] = "gone"
    BY <1>6, <1>16, <2>2 DEF IncrementWrite
  <2>. QED BY <2>1, <2>2
<1>17. ASSUME NEW r \in Request, Fresh(r) PROVE Bounded'
  BY <1>4, <1>5, <1>17 DEF Fresh
<1>18. ASSUME NEW r \in Request, Abandon(r) PROVE Bounded'
  BY <1>5, <1>18 DEF Abandon
<1>19. ASSUME NEW s \in Time, Sweep(s) PROVE Bounded'
  <2>1. \A k \in Key : Aimed(k)' \subseteq Aimed(k) /\ row'[k].count <= row[k].count
    BY <1>19, <1>00 DEF Sweep, Aimed, NoRow
  <2>. QED BY <1>0, <2>1, BoundedLess
<1>20. ASSUME UNCHANGED <<row, pc, call>> PROVE Bounded'
  BY <1>1, <1>20
<1>. QED BY <1>7, <1>8, <1>9, <1>10, <1>11, <1>12, <1>13, <1>14, <1>15, <1>16, <1>17, <1>18, <1>19, <1>20
         DEF Next, Step, SweepFails, Tick, vars

LEMMA InitType == Init => TInv
<1>. SUFFICES ASSUME Init PROVE TInv
  OBVIOUS
<1>1. TypeOK
  BY RuleAssumption, MaxTimeAssumption, NoKeyAssumption
     DEF Init, TypeOK, Nothing, NoRow, NoCall, Row, Time, Held
<1>2. Bounded
  <2>. SUFFICES ASSUME NEW k \in Key
                PROVE  row[k].count + Cardinality(Aimed(k)) <= Limit[k] - 1 + Cardinality(Request)
    BY DEF Bounded
  <2>1. row[k].count = 0 /\ Limit[k] \in Nat /\ Limit[k] >= 1
    BY RuleAssumption DEF Init, NoRow
  <2>. QED BY <2>1, AimedFinite
<1>. QED BY <1>1, <1>2 DEF TInv

\* A row counts at least 1, and less than the limit of its key plus the number of requests: the
\* most that increments chosen below the limit can make of it.  A request is idle exactly when
\* it has no call in hand, and times are times of the clock.
THEOREM TypeCorrect == Spec => []TypeOK
<1>1. Init => TInv
  BY InitType
<1>2. TInv /\ [Next]_vars => TInv'
  BY TypeStep, BoundedStep DEF TInv
<1>3. TInv => TypeOK
  BY DEF TInv
<1>. QED BY <1>1, <1>2, <1>3, PTL DEF Spec

--------------------------------------------------------------------------------
\* What requests know

\* A step of others leaves a request its knowledge, or tells that the row is another one.
LEMMA StillKnows ==
    ASSUME NEW q \in Request, Knows(q), pc'[q] = pc[q], call'[q] = call[q],
           \/ pc[q] \in {"idle", "read"}
           \/ row'[call[q].key] = row[call[q].key] /\ fate'[q] = fate[q]
           \/ fate'[q] = "gone"
           \/ fate'[q] = "changed" /\ row'[call[q].key] # NoRow
    PROVE  Knows(q)'
BY DEF Knows, ResetFits, IncrementFits

\* So does a write by another request.
LEMMA OthersWritten ==
    ASSUME KInv, NEW r \in Request, NEW k \in Key, NEW w, w # NoRow, row' = [row EXCEPT ![k] = w],
           NEW q \in Request \ {r}, pc'[q] = pc[q], call'[q] = call[q],
           fate'[q] = IF call[q].key = k /\ fate[q] = "same" THEN "changed" ELSE fate[q]
    PROVE  Knows(q)'
<1>0. TypeOK /\ Knows(q) /\ (pc[q] # "idle" => call[q].key \in Key)
  BY CallType DEF KInv, TInv, Requests
<1>1. CASE pc[q] \in {"idle", "read"}
  BY <1>0, <1>1, StillKnows
<1>2. CASE pc[q] # "idle" /\ call[q].key # k
  <2>1. row'[call[q].key] = row[call[q].key] /\ fate'[q] = fate[q]
    BY <1>0, <1>2 DEF TypeOK
  <2>. QED BY <1>0, <2>1, StillKnows
<1>3. CASE pc[q] # "idle" /\ call[q].key = k
  <2>1. row'[call[q].key] = w
    BY <1>0, <1>3 DEF TypeOK
  <2>2. fate'[q] \in {"changed", "gone"}
    BY <1>0, <1>3 DEF TypeOK
  <2>. QED BY <1>0, <2>1, <2>2, StillKnows
<1>. QED BY <1>1, <1>2, <1>3

\* Steps of r that leave the table, and what others know, alone.
LEMMA OthersKnow ==
    ASSUME KInv, NEW r \in Request, UNCHANGED row,
           \A q \in Request \ {r} : pc'[q] = pc[q] /\ call'[q] = call[q] /\ fate'[q] = fate[q],
           Knows(r)'
    PROVE  \A q \in Request : Knows(q)'
<1>1. ASSUME NEW q \in Request \ {r} PROVE Knows(q)'
  BY <1>1, StillKnows DEF KInv, Requests
<1>. QED BY <1>1

\* What requests know is kept by every step.
LEMMA KnowsStep == KInv /\ [Next]_vars => \A q \in Request : Knows(q)'
<1>. SUFFICES ASSUME KInv, [Next]_vars PROVE \A q \in Request : Knows(q)'
  OBVIOUS
<1>. DEFINE Goal == \A q \in Request : Knows(q)'
<1>0. TypeOK /\ (\A r \in Request : Knows(r) /\ (pc[r] # "idle" => call[r].key \in Key))
  BY CallType DEF KInv, TInv, Requests
\* Who ends, or begins again, knows nothing.
<1>1. ASSUME NEW r \in Request, UNCHANGED row,
             \A q \in Request \ {r} : pc'[q] = pc[q] /\ call'[q] = call[q] /\ fate'[q] = fate[q],
             pc'[r] \in {"idle", "read"}
      PROVE  Goal
  <2>1. Knows(r)'
    BY <1>1 DEF Knows
  <2>. QED BY <1>1, <2>1, OthersKnow
<1>2. ASSUME NEW r \in Request, Again(r), UNCHANGED row PROVE Goal
  BY <1>0, <1>1, <1>2 DEF Again, Look, TypeOK
<1>3. ASSUME NEW r \in Request, End(r), Look(r), UNCHANGED row PROVE Goal
  BY <1>0, <1>1, <1>3 DEF End, Look, TypeOK
<1>4. ASSUME NEW r \in Request, NEW n, n # 0, NEW fits, pc[r] # "idle", Write(r, n, fits) PROVE Goal
  <2>. DEFINE k == call[r].key
              w == [count |-> n, last |-> call[r].now]
  <2>1. w # NoRow /\ k \in Key /\ row' = [row EXCEPT ![k] = w]
    BY <1>0, <1>4 DEF Write, NoRow
  <2>2. ASSUME NEW q \in Request \ {r} PROVE Knows(q)'
    <3>1. /\ pc'[q] = pc[q] /\ call'[q] = call[q]
          /\ fate'[q] = IF call[q].key = k /\ fate[q] = "same" THEN "changed" ELSE fate[q]
      BY <1>0, <1>4 DEF Write, End, Changed, TypeOK
    <3>. HIDE DEF k, w
    <3>. QED BY <2>1, <3>1, OthersWritten
  <2>3. Knows(r)'
    BY <1>0, <1>4 DEF Write, End, Knows, TypeOK
  <2>. QED BY <2>2, <2>3
\* Steps of the request's own, of which the row takes no notice.
<1>5. ASSUME NEW r \in Request, NEW to, pc' = [pc EXCEPT ![r] = to], UNCHANGED row,
             \A q \in Request \ {r} : call'[q] = call[q] /\ fate'[q] = fate[q],
             Knows(r)'
      PROVE  Goal
  BY <1>0, <1>5, OthersKnow DEF TypeOK
<1>6. ASSUME NEW r \in Request, NEW k \in Key, Begin(r, k) PROVE Goal
  BY <1>0, <1>1, <1>6 DEF Begin, TypeOK
<1>7. ASSUME NEW r \in Request, Read(r) PROVE Goal
  <2>1. Knows(r)'
    BY <1>0, <1>7 DEF Read, Look, Knows, TypeOK
  <2>2. PICK to : pc' = [pc EXCEPT ![r] = to]
    BY <1>7 DEF Read
  <2>. QED BY <1>0, <1>5, <1>7, <2>1, <2>2 DEF Read, Look, TypeOK
<1>8. ASSUME NEW r \in Request, Decide(r) PROVE Goal
  <2>1. Knows(r)'
    <3>1. call'[r].now = clock /\ call'[r].last = call[r].last /\ call'[r].key = call[r].key
      BY <1>0, <1>8, CallType DEF Decide, TypeOK
    <3>2. CASE pc[r] = "absent"
      BY <1>0, <1>8, <3>1, <3>2 DEF Decide, Knows, TypeOK
    <3>3. CASE pc[r] = "found"
      BY <1>0, <1>8, <3>1, <3>3 DEF Decide, Knows, TypeOK
    <3>. QED BY <1>8, <3>2, <3>3 DEF Decide
  <2>2. PICK to : pc' = [pc EXCEPT ![r] = to]
    BY <1>8 DEF Decide
  <2>3. UNCHANGED row /\ \A q \in Request \ {r} : call'[q] = call[q] /\ fate'[q] = fate[q]
    BY <1>0, <1>8 DEF Decide, TypeOK
  <2>4. \A q \in Request \ {r} : pc'[q] = pc[q]
    BY <1>0, <2>2 DEF TypeOK
  <2>. QED BY <2>1, <2>3, <2>4, OthersKnow
<1>9. ASSUME NEW r \in Request, Create(r) PROVE Goal
  <2>1. CASE row[call[r].key] = NoRow
    <3>1. 1 # 0 /\ pc[r] # "idle"
      BY <1>9 DEF Create
    <3>2. Write(r, 1, TRUE)
      BY <1>9, <2>1 DEF Create
    <3>. QED BY <1>4, <3>1, <3>2, Zenon
  <2>2. CASE row[call[r].key] # NoRow
    <3>1. Knows(r)'
      BY <1>0, <1>9, <2>2 DEF Create, Goto, Knows, TypeOK
    <3>. QED BY <1>5, <1>9, <2>2, <3>1 DEF Create, Goto
  <2>. QED BY <2>1, <2>2
<1>10. ASSUME NEW r \in Request, CreateFails(r) PROVE Goal
  <2>. DEFINE k == call[r].key
              w == [count |-> 1, last |-> call[r].now]
  <2>1. CASE UNCHANGED <<row, fate>>
    <3>1. Knows(r)'
      BY <1>0, <1>10, <2>1 DEF CreateFails, Goto, Knows, TypeOK
    <3>. QED BY <1>5, <1>10, <2>1, <3>1 DEF CreateFails, Goto
  <2>2. CASE ~ UNCHANGED <<row, fate>>
    <3>1. /\ w # NoRow /\ k \in Key /\ row' = [row EXCEPT ![k] = w] /\ UNCHANGED call
          /\ pc' = [pc EXCEPT ![r] = "reread"]
          /\ \A q \in Request : fate'[q] = IF call[q].key = k /\ fate[q] = "same" THEN "changed" ELSE fate[q]
      BY <1>0, <1>10, <2>2 DEF CreateFails, Goto, NoRow
    <3>2. ASSUME NEW q \in Request \ {r} PROVE Knows(q)'
      <4>1. pc'[q] = pc[q] /\ call'[q] = call[q]
        BY <1>0, <3>1 DEF TypeOK
      <4>. HIDE DEF k, w
      <4>. QED BY <3>1, <4>1, OthersWritten
    <3>3. Knows(r)'
      <4>1. pc'[r] = "reread" /\ fate'[r] # "same"
        BY <1>0, <3>1 DEF TypeOK
      <4>. QED BY <4>1 DEF Knows
    <3>. QED BY <3>2, <3>3
  <2>. QED BY <2>1, <2>2
<1>11. ASSUME NEW r \in Request, Reread(r) PROVE Goal
  BY <1>2, <1>3, <1>11 DEF Reread
<1>12. ASSUME NEW r \in Request, Reset(r) PROVE Goal
  <2>1. CASE ResetFits(r)
    <3>1. Knows(r)'
      BY <1>0, <1>12, <2>1 DEF Reset, Choose, Goto, Look, Knows, ResetFits, TypeOK
    <3>. QED BY <1>0, <1>5, <1>12, <2>1, <3>1 DEF Reset, Choose, Goto, Look, TypeOK
  <2>2. CASE ~ ResetFits(r)
    BY <1>2, <1>12, <2>2 DEF Reset
  <2>. QED BY <2>1, <2>2
<1>13. ASSUME NEW r \in Request, ResetWrite(r) PROVE Goal
  BY <1>2, <1>4, <1>13 DEF ResetWrite
<1>14. ASSUME NEW r \in Request, Increment(r) PROVE Goal
  <2>1. CASE IncrementFits(r)
    <3>1. Knows(r)'
      BY <1>0, <1>14, <2>1 DEF Increment, Choose, Goto, Look, Knows, IncrementFits, TypeOK
    <3>. QED BY <1>0, <1>5, <1>14, <2>1, <3>1 DEF Increment, Choose, Goto, Look, TypeOK
  <2>2. CASE ~ IncrementFits(r)
    <3>1. Knows(r)'
      BY <1>0, <1>14, <2>2 DEF Increment, Goto, Knows, TypeOK
    <3>. QED BY <1>5, <1>14, <2>2, <3>1 DEF Increment, Goto
  <2>. QED BY <2>1, <2>2
<1>15. ASSUME NEW r \in Request, IncrementWrite(r) PROVE Goal
  <2>1. CASE fate[r] # "gone"
    <3>1. row[call[r].key].count + 1 # 0
      BY <1>0, <1>15 DEF IncrementWrite, TypeOK
    <3>. QED BY <1>4, <1>15, <2>1, <3>1 DEF IncrementWrite
  <2>2. CASE fate[r] = "gone"
    <3>1. Knows(r)'
      BY <1>0, <1>15, <2>2 DEF IncrementWrite, Goto, Knows, TypeOK
    <3>. QED BY <1>5, <1>15, <2>2, <3>1 DEF IncrementWrite, Goto
  <2>. QED BY <2>1, <2>2
<1>16. ASSUME NEW r \in Request, Fresh(r) PROVE Goal
  BY <1>2, <1>3, <1>16 DEF Fresh
<1>17. ASSUME NEW r \in Request, Abandon(r) PROVE Goal
  BY <1>3, <1>17 DEF Abandon
<1>18. ASSUME NEW s \in Time, Sweep(s) PROVE Goal
  <2>. SUFFICES ASSUME NEW q \in Request PROVE Knows(q)'
    OBVIOUS
  <2>1. pc'[q] = pc[q] /\ call'[q] = call[q]
    BY <1>18 DEF Sweep
  <2>2. CASE pc[q] = "idle"
    BY <1>0, <2>1, <2>2, StillKnows
  <2>3. CASE pc[q] # "idle"
    <3>1. \/ row'[call[q].key] = row[call[q].key] /\ fate'[q] = fate[q]
          \/ fate'[q] = "gone"
      BY <1>0, <1>18, <2>3 DEF Sweep, TypeOK
    <3>. QED BY <1>0, <2>1, <3>1, StillKnows
  <2>. QED BY <2>2, <2>3
<1>19. ASSUME UNCHANGED <<row, pc, call, fate>> PROVE Goal
  BY <1>0, <1>19, StillKnows
<1>. QED BY <1>6, <1>7, <1>8, <1>9, <1>10, <1>11, <1>12, <1>13, <1>14, <1>15, <1>16, <1>17, <1>18, <1>19
         DEF Next, Step, SweepFails, Tick, vars

LEMMA InitKnows == Init => KInv
BY InitType DEF Init, KInv, Requests, Knows

LEMMA KnowsInv == KInv /\ [Next]_vars => KInv'
BY TypeStep, BoundedStep, KnowsStep DEF KInv, TInv, Requests

\* Who begins again has not turned round by himself: what he knows of a row that nobody has
\* written or deleted is what he has decided by, and meets its guard.
THEOREM RetriesMeanProgress == Spec => RetryMeansProgress
<1>1. ASSUME KInv, [Next]_vars, NEW r \in Request, pc[r] \notin {"idle", "read"}, pc'[r] = "read"
      PROVE  fate[r] # "same"
  <2>0. TypeOK /\ Knows(r)
    BY <1>1 DEF KInv, TInv, Requests
  \* A step that lets r begin again is r's own.
  <2>1. Reread(r) \/ Reset(r) \/ ResetWrite(r) \/ Fresh(r)
    <3>1. \A q \in Request, k \in Key : ~ Begin(q, k)
      BY <1>1, <2>0 DEF Begin, TypeOK
    <3>2. ASSUME NEW q \in Request, Step(q) \/ Abandon(q) PROVE Reread(r) \/ Reset(r) \/ ResetWrite(r) \/ Fresh(r)
      <4>1. q = r
        BY <1>1, <2>0, <3>2 DEF Step, Read, Decide, Create, CreateFails, Reread, Reset, ResetWrite, Increment,
              IncrementWrite, Fresh, Abandon, Write, Choose, Goto, Again, End, TypeOK
      <4>. QED BY <1>1, <2>0, <3>2, <4>1 DEF Step, Read, Decide, Create, CreateFails, Increment, IncrementWrite,
              Abandon, Write, Choose, Goto, End, TypeOK
    <3>. QED BY <1>1, <3>1, <3>2 DEF Next, Sweep, SweepFails, Tick, vars
  <2>2. CASE Reread(r)
    BY <1>1, <2>0, <2>2 DEF Reread, End, Knows, TypeOK
  <2>3. CASE Reset(r)
    <3>1. ~ ResetFits(r)
      BY <1>1, <2>0, <2>3 DEF Reset, Choose, Goto, TypeOK
    <3>2. fate[r] = "same" => row[call[r].key] # NoRow /\ row[call[r].key].last = call[r].last
      BY <2>0, <2>3 DEF Reset, Knows
    <3>3. call[r].key \in Key /\ call[r].last \in Nat
      BY <2>0, <2>3, CallType, MaxTimeAssumption DEF Reset, Time
    <3>. QED BY <3>1, <3>2, <3>3 DEF ResetFits
  <2>4. CASE ResetWrite(r)
    BY <1>1, <2>0, <2>4 DEF ResetWrite, Write, End, TypeOK
  <2>5. CASE Fresh(r)
    BY <1>1, <2>0, <2>5 DEF Fresh, End, Knows, TypeOK
  <2>. QED BY <2>1, <2>2, <2>3, <2>4, <2>5
<1>2. KInv /\ [Next]_vars => [\A r \in Request : pc[r] \notin {"idle", "read"} /\ pc'[r] = "read" => fate[r] # "same"]_vars
  BY <1>1
<1>. QED BY <1>2, InitKnows, KnowsInv, PTL DEF Spec, RetryMeansProgress

--------------------------------------------------------------------------------
\* The limit

\* The requests of k that were allowed at times of S.
Grants(k, S) == SumFunctionOnSet(granted[k], S)

LEMMA TimesAreFinite == \A S : S \subseteq Time => IsFiniteSet(S)
<1>1. IsFiniteSet(Time)
  BY MaxTimeAssumption, FS_Interval DEF Time
<1>. QED BY <1>1, FS_Subset

LEMMA HeldType == \A k \in Key : Held(k) \in Nat /\ Held(k) <= Window[k] /\ Held(k) <= Longest
BY RuleAssumption DEF Held

\* A key whose row is gone, or is older than its limit holds, has no recent grant.
LEMMA NoneRecent ==
    ASSUME TypeOK, RowIsDated, NEW k \in Key, late[k] <= Held(k),
           row[k] = NoRow \/ row[k].last < clock - Held(k)
    PROVE  (\A t \in Recent(k, clock, late[k]) : granted[k][t] = 0) /\ Grants(k, Recent(k, clock, late[k])) = 0
<1>1. ASSUME NEW t \in Recent(k, clock, late[k]) PROVE granted[k][t] = 0
  <2>1. /\ t \in Nat /\ clock \in Nat /\ Held(k) \in Nat /\ late[k] \in Nat /\ row[k].last \in Nat
        /\ granted[k][t] \in Nat /\ clock <= t + Held(k) - late[k]
    <3>1. t \in Time /\ clock \in Time /\ clock <= t + Held(k) - late[k]
      BY DEF TypeOK, Recent
    <3>2. row[k] \in [count : Nat, last : Time] /\ granted[k] \in [Time -> Nat] /\ late[k] \in Nat
      BY DEF TypeOK
    <3>3. Time \subseteq Nat
      BY MaxTimeAssumption DEF Time
    <3>. QED BY <3>1, <3>2, <3>3, HeldType
  <2>2. granted[k][t] > 0 => row[k] # NoRow /\ t <= row[k].last + late[k]
    BY DEF RowIsDated
  <2>. QED BY <2>1, <2>2
<1>2. IsFiniteSet(Recent(k, clock, late[k]))
  BY TimesAreFinite DEF Recent
<1>. QED BY <1>1, <1>2, SumZero DEF Grants

\* A row changes without a grant only where there is no recent one.
LEMMA RowMayChange ==
    ASSUME IInv, UNCHANGED <<clock, granted, late>>,
           \A k \in Key : \/ row'[k] = row[k]
                          \/ /\ row[k] = NoRow \/ row[k].last < clock - Held(k)
                             /\ row'[k].count \in Nat
    PROVE  RowIsDated' /\ RowCounts' /\ LimitHolds'
<1>2. ASSUME NEW k \in Key, late[k] <= Held(k)
      PROVE  /\ \A t \in Recent(k, clock, late[k]) : granted[k][t] > 0 => row'[k] # NoRow /\ t <= row'[k].last + late[k]
             /\ Grants(k, Recent(k, clock, late[k])) <= row'[k].count
  <2>1. CASE row'[k] = row[k]
    BY <1>2, <2>1 DEF IInv, RowIsDated, RowCounts, Grants
  <2>2. CASE (row[k] = NoRow \/ row[k].last < clock - Held(k)) /\ row'[k].count \in Nat
    <3>1. (\A t \in Recent(k, clock, late[k]) : granted[k][t] = 0) /\ Grants(k, Recent(k, clock, late[k])) = 0
      BY <1>2, <2>2, NoneRecent DEF IInv
    <3>. QED BY <2>2, <3>1
  <2>. QED BY <2>1, <2>2
<1>3. RowIsDated'
  BY <1>2 DEF RowIsDated
<1>4. RowCounts'
  BY <1>2 DEF RowCounts, Grants
<1>5. LimitHolds'
  BY DEF IInv, LimitHolds
<1>. QED BY <1>3, <1>4, <1>5

\* A grant that its row counts, and dates by no more than late.
LEMMA WriteCounts ==
    ASSUME IInv, NEW r \in Request, pc[r] # "idle", NEW fits,
           NEW n \in 1 .. Limit[call[r].key] - 1 + Cardinality(Request), Write(r, n, fits), UNCHANGED clock,
           ~ Overtaken(r, fits) => n <= Limit[call[r].key],
           ~ Overtaken(r, fits) /\ late[call[r].key] <= Held(call[r].key)
              => Grants(call[r].key, Recent(call[r].key, clock, late[call[r].key])) + 1 <= n
    PROVE  /\ RowIsDated' /\ RowCounts' /\ LimitHolds'
           /\ \A k \in Key, t \in Time : granted'[k][t] > 0 => t <= clock'
<1>. DEFINE k == call[r].key
            age == clock - call[r].now
<1>1. k \in Key /\ call[r].now \in Nat /\ clock \in Time /\ clock \in Nat /\ age \in Nat
  <2>1. call[r] \in [key : Key, last : Time, now : Time] /\ call[r].now <= clock
    BY DEF IInv, TypeOK, Past
  <2>. QED BY <2>1, MaxTimeAssumption DEF IInv, TypeOK, Time
<1>2. \A j \in Key : Held(j) \in Nat /\ late[j] \in Nat /\ granted[j] \in [Time -> Nat] /\ Limit[j] \in Nat
  BY HeldType, RuleAssumption DEF IInv, TypeOK
<1>3. /\ late[k] <= late'[k] /\ late'[k] \in Nat
      /\ late'[k] <= Held(k) => age <= late'[k] /\ ~ Overtaken(r, fits)
  <2>. DEFINE new == IF age > Held(k) \/ Overtaken(r, fits) THEN Held(k) + 1
                     ELSE IF age > late[k] THEN age ELSE late[k]
  <2>1. late'[k] = new
    BY <1>1 DEF Write, IInv, TypeOK
  <2>2. late[k] <= Held(k) + 1
    BY <1>1 DEF IInv, TypeOK
  <2>. HIDE DEF k, age
  <2>. QED BY <1>1, <1>2, <2>1, <2>2
<1>4. \A j \in Key \ {k} : late'[j] = late[j] /\ granted'[j] = granted[j] /\ row'[j] = row[j]
  BY <1>1 DEF Write, IInv, TypeOK
<1>5. row'[k] = [count |-> n, last |-> call[r].now]
  BY <1>1 DEF Write, IInv, TypeOK
<1>6. late'[k] <= Held(k) => granted'[k] = [granted[k] EXCEPT ![clock] = @ + 1]
  <2>1. ~ (late'[k] > Held(k)) => granted' = [granted EXCEPT ![k][clock] = @ + 1]
    BY DEF Write
  <2>2. granted \in [Key -> [Time -> Nat]]
    BY DEF IInv, TypeOK
  <2>. HIDE DEF k
  <2>. QED BY <1>1, <1>2, <1>3, <2>1, <2>2
<1>7. late'[k] > Held(k) => granted'[k] = Nothing
  BY <1>1 DEF Write, IInv, TypeOK
<1>8. row'[k] # NoRow
  <2>1. n # 0
    BY <1>1, <1>2, AimedFinite
  <2>. QED BY <1>5, <2>1 DEF NoRow
<1>. HIDE DEF k, age
<1>11. Recent(k, clock, late'[k]) \subseteq Recent(k, clock, late[k])
  BY <1>1, <1>2, <1>3, MaxTimeAssumption DEF Recent, Time
<1>12. ASSUME NEW j \in Key, NEW t \in Time, granted'[j][t] > 0 PROVE t <= clock'
  <2>1. CASE j # k
    BY <1>4, <1>12, <2>1 DEF IInv, Past
  <2>2. CASE j = k /\ late'[k] <= Held(k)
    <3>1. granted[k][t] > 0 \/ t = clock
      BY <1>1, <1>2, <1>6, <1>12, <2>2
    <3>2. granted[k][t] > 0 => t <= clock
      BY <1>1 DEF IInv, Past
    <3>. QED BY <1>1, <3>1, <3>2
  <2>3. CASE j = k /\ late'[k] > Held(k)
    BY <1>7, <1>12, <2>3 DEF Nothing
  <2>. QED BY <1>1, <1>2, <1>3, <2>1, <2>2, <2>3
<1>13. RowIsDated'
  <2>. SUFFICES ASSUME NEW j \in Key, late'[j] <= Held(j), NEW t \in Recent(j, clock, late'[j]), granted'[j][t] > 0
                PROVE  row'[j] # NoRow /\ t <= row'[j].last + late'[j]
    BY DEF RowIsDated
  <2>0. t \in Time /\ t \in Nat
    BY DEF Recent, Time
  <2>1. CASE j # k
    BY <1>4, <2>1 DEF IInv, RowIsDated
  <2>2. CASE j = k
    <3>1. t <= clock
      BY <1>12, <2>0
    <3>2. row'[k].last = call[r].now
      BY <1>5
    <3>. QED BY <1>1, <1>3, <1>8, <2>0, <2>2, <3>1, <3>2 DEF age
  <2>. QED BY <2>1, <2>2
<1>14. ASSUME late'[k] <= Held(k) PROVE SumFunctionOnSet(granted'[k], Recent(k, clock, late'[k])) <= n
  <2>. DEFINE S == Recent(k, clock, late[k])
              T == Recent(k, clock, late'[k])
              more == [granted[k] EXCEPT ![clock] = @ + 1]
  <2>1. IsFiniteSet(S) /\ S \in SUBSET Time /\ T \in SUBSET S
    BY <1>11, TimesAreFinite DEF Recent
  <2>2. more \in [Time -> Nat]
    BY <1>1, <1>2
  <2>3. SumFunctionOnSet(more, S) <= SumFunctionOnSet(granted[k], S) + 1
    BY <1>1, <1>2, <2>1, SumOneMore
  <2>. HIDE DEF S, T, more
  <2>4. SumFunctionOnSet(more, T) <= SumFunctionOnSet(more, S)
    BY <2>1, <2>2, SumMonotone
  <2>5. /\ SumFunctionOnSet(more, T) \in Nat /\ SumFunctionOnSet(more, S) \in Nat
        /\ SumFunctionOnSet(granted[k], S) \in Nat
    <3>1. IsFiniteSet(T)
      BY <2>1, FS_Subset
    <3>. QED BY <1>1, <1>2, <2>1, <2>2, <3>1, SumType
  <2>6. SumFunctionOnSet(granted[k], S) + 1 <= n
    BY <1>1, <1>2, <1>3, <1>14 DEF Grants, S, k
  <2>7. SumFunctionOnSet(more, T) <= n
    BY <2>3, <2>4, <2>5, <2>6
  <2>. QED BY <1>6, <1>14, <2>7 DEF T, more
<1>15. RowCounts'
  <2>. SUFFICES ASSUME NEW j \in Key, late'[j] <= Held(j)
                PROVE  SumFunctionOnSet(granted'[j], Recent(j, clock, late'[j])) <= row'[j].count
    BY DEF RowCounts
  <2>1. CASE j # k
    BY <1>4, <2>1 DEF IInv, RowCounts
  <2>2. CASE j = k
    BY <1>5, <1>14, <2>2
  <2>. QED BY <2>1, <2>2
<1>16. LimitHolds'
  <2>. SUFFICES ASSUME NEW j \in Key, late'[j] <= Held(j), NEW t \in Time
                PROVE  SumFunctionOnSet(granted'[j], Time \cap (t .. t + Held(j) - late'[j])) <= Limit[j]
    BY DEF LimitHolds
  <2>1. CASE j # k
    BY <1>4, <2>1 DEF IInv, LimitHolds
  <2>3. CASE j = k /\ late'[k] <= Held(k)
    <3>. DEFINE P == Time \cap (t .. t + Held(k) - late'[k])
                Q == Time \cap (t .. t + Held(k) - late[k])
                R == Recent(k, clock, late'[k])
    <3>0. t \in Nat /\ granted'[k] \in [Time -> Nat] /\ R \subseteq Time
      <4>1. t \in Nat
        BY MaxTimeAssumption DEF Time
      <4>2. granted'[k] \in [Time -> Nat]
        BY <1>1, <1>2, <1>6, <2>3
      <4>3. R \subseteq Time
        BY DEF Recent
      <4>. QED BY <4>1, <4>2, <4>3
    <3>1. CASE clock <= t + Held(k) - late'[k]
      <4>1. P \subseteq R
        <5>. SUFFICES ASSUME NEW s \in P PROVE s \in R
          OBVIOUS
        <5>1. s \in Time /\ s \in Nat /\ t <= s
          BY <3>0 DEF Time
        <5>2. clock <= s + Held(k) - late'[k]
          BY <1>1, <1>2, <1>3, <3>0, <3>1, <5>1
        <5>. QED BY <5>1, <5>2 DEF Recent
      <4>2. IsFiniteSet(R) /\ IsFiniteSet(P) /\ P \subseteq Time
        BY <3>0, TimesAreFinite
      <4>3. SumFunctionOnSet(granted'[k], R) <= n
        BY <1>14, <2>3
      <4>. HIDE DEF P, R
      <4>4. SumFunctionOnSet(granted'[k], P) <= SumFunctionOnSet(granted'[k], R)
        <5>1. /\ \A s \in P : granted'[k][s] \in Nat /\ granted'[k][s] <= granted'[k][s]
              /\ \A s \in R : granted'[k][s] \in Nat
          BY <3>0, <4>1, <4>2
        <5>. QED BY <4>1, <4>2, <5>1, SumMonotone
      <4>5. SumFunctionOnSet(granted'[k], P) \in Nat /\ SumFunctionOnSet(granted'[k], R) \in Nat
        BY <3>0, <4>2, SumType
      <4>6. n \in Nat /\ n <= Limit[k] /\ Limit[k] \in Nat
        BY <1>1, <1>2, <1>3, <2>3 DEF k
      <4>7. SumFunctionOnSet(granted'[k], P) <= Limit[k]
        BY <4>3, <4>4, <4>5, <4>6
      <4>. QED BY <2>3, <4>7 DEF P
    <3>2. CASE t + Held(k) - late'[k] < clock
      <4>1. P \subseteq Q
        BY <1>1, <1>2, <1>3, <3>0 DEF Time
      <4>2. \A s \in P : granted'[k][s] = granted[k][s]
        <5>1. clock \notin P
          BY <1>1, <1>2, <1>3, <3>0, <3>2
        <5>. QED BY <1>1, <1>2, <1>6, <2>3, <5>1
      <4>3. IsFiniteSet(P) /\ IsFiniteSet(Q) /\ Q \subseteq Time
        BY TimesAreFinite
      <4>4. SumFunctionOnSet(granted[k], Q) <= Limit[k]
        <5>1. late[k] <= Held(k)
          BY <1>1, <1>2, <1>3, <2>3
        <5>. QED BY <1>1, <5>1 DEF IInv, LimitHolds
      <4>. HIDE DEF P, Q
      <4>5. SumFunctionOnSet(granted'[k], P) <= SumFunctionOnSet(granted[k], Q)
        <5>1. /\ \A s \in P : granted'[k][s] \in Nat /\ granted'[k][s] <= granted[k][s]
              /\ \A s \in Q : granted[k][s] \in Nat
          BY <1>1, <1>2, <3>0, <4>1, <4>2, <4>3
        <5>. QED BY <4>1, <4>3, <5>1, SumMonotone
      <4>6. SumFunctionOnSet(granted'[k], P) \in Nat /\ SumFunctionOnSet(granted[k], Q) \in Nat
        <5>1. (\A s \in P : granted'[k][s] \in Nat) /\ (\A s \in Q : granted[k][s] \in Nat)
          BY <1>1, <1>2, <3>0, <4>1, <4>3
        <5>. QED BY <4>3, <5>1, SumType
      <4>7. SumFunctionOnSet(granted'[k], P) <= Limit[k]
        BY <1>1, <1>2, <4>4, <4>5, <4>6
      <4>. QED BY <2>3, <4>7 DEF P
    <3>. QED BY <1>1, <1>2, <1>3, <3>0, <3>1, <3>2
  <2>. QED BY <1>1, <1>2, <1>3, <2>1, <2>3
<1>. QED BY <1>12, <1>13, <1>15, <1>16

\* Time takes grants out of the recent ones, and out of the history.
LEMMA TickCounts == ASSUME IInv, Tick PROVE Past' /\ RowIsDated' /\ RowCounts' /\ LimitHolds'
<1>1. /\ clock' = clock + 1 /\ clock \in Nat /\ UNCHANGED <<row, call, pc, sweeps, late>>
      /\ \A k \in Key : /\ Held(k) \in Nat /\ late[k] \in Nat /\ granted[k] \in [Time -> Nat]
                         /\ row[k].count \in Nat
  BY HeldType, MaxTimeAssumption DEF Tick, IInv, TypeOK, Time
<1>2. ASSUME NEW k \in Key
      PROVE  /\ granted'[k] \in [Time -> Nat]
             /\ \A t \in Time : granted'[k][t] <= granted[k][t]
  <2>. DEFINE kept == [t \in Time |-> IF t < clock' - Held(k) THEN 0 ELSE granted[k][t]]
  <2>1. granted'[k] = kept
    BY DEF Tick
  <2>2. granted[k] \in [Time -> Nat]
    BY <1>1
  <2>. QED BY <2>1, <2>2
<1>3. ASSUME NEW k \in Key, NEW S \in SUBSET Time, NEW T \in SUBSET S
      PROVE  /\ SumFunctionOnSet(granted'[k], T) <= SumFunctionOnSet(granted[k], S)
             /\ SumFunctionOnSet(granted'[k], T) \in Nat /\ SumFunctionOnSet(granted[k], S) \in Nat
  <2>1. IsFiniteSet(S) /\ IsFiniteSet(T)
    BY TimesAreFinite
  <2>2. /\ \A s \in T : granted'[k][s] \in Nat /\ granted'[k][s] <= granted[k][s]
        /\ \A s \in S : granted[k][s] \in Nat
    BY <1>1, <1>2
  <2>. QED BY <2>1, <2>2, SumMonotone, SumType
<1>4. \A k \in Key : Recent(k, clock', late'[k]) \subseteq Recent(k, clock, late[k])
  <2>1. \A k \in Key, t \in Time : clock' <= t + Held(k) - late[k] => clock <= t + Held(k) - late[k]
    BY <1>1, MaxTimeAssumption DEF Time
  <2>. QED BY <1>1, <2>1 DEF Recent
<1>5. Past'
  <2>1. ASSUME NEW k \in Key, NEW t \in Time, granted'[k][t] > 0 PROVE t <= clock'
    <3>1. granted[k][t] > 0
      BY <1>1, <1>2, <2>1
    <3>2. t \in Nat /\ t <= clock
      BY <3>1, MaxTimeAssumption DEF IInv, Past, Time
    <3>. QED BY <1>1, <3>2
  <2>2. ASSUME NEW r \in Request PROVE call'[r].now <= clock'
    <3>1. call[r].now \in Nat /\ call[r].now <= clock
      BY MaxTimeAssumption DEF IInv, TypeOK, Past, NoCall, Time
    <3>. QED BY <1>1, <3>1
  <2>3. ASSUME NEW s \in sweeps PROVE s <= clock'
    <3>1. s \in Nat /\ s <= clock
      BY MaxTimeAssumption DEF IInv, TypeOK, Past, Time
    <3>. QED BY <1>1, <3>1
  <2>. QED BY <1>1, <2>1, <2>2, <2>3 DEF Past
<1>6. RowIsDated'
  <2>. SUFFICES ASSUME NEW k \in Key, late[k] <= Held(k), NEW t \in Recent(k, clock', late'[k]),
                       granted'[k][t] > 0
                PROVE  row[k] # NoRow /\ t <= row[k].last + late[k]
    BY <1>1 DEF RowIsDated
  <2>1. t \in Recent(k, clock, late[k]) /\ t \in Time
    BY <1>4 DEF Recent
  <2>2. granted[k][t] > 0
    BY <1>1, <1>2, <2>1
  <2>. QED BY <2>1, <2>2 DEF IInv, RowIsDated
<1>7. RowCounts'
  <2>. SUFFICES ASSUME NEW k \in Key, late[k] <= Held(k)
                PROVE  SumFunctionOnSet(granted'[k], Recent(k, clock', late'[k])) <= row[k].count
    BY <1>1 DEF RowCounts
  <2>. DEFINE S == Recent(k, clock, late[k])
              T == Recent(k, clock', late'[k])
  <2>1. S \in SUBSET Time /\ T \in SUBSET S
    BY <1>4 DEF Recent
  <2>2. SumFunctionOnSet(granted[k], S) <= row[k].count
    BY DEF IInv, RowCounts
  <2>. HIDE DEF S, T
  <2>3. /\ SumFunctionOnSet(granted'[k], T) <= SumFunctionOnSet(granted[k], S)
        /\ SumFunctionOnSet(granted'[k], T) \in Nat /\ SumFunctionOnSet(granted[k], S) \in Nat
    BY <1>3, <2>1
  <2>4. row[k].count \in Nat
    BY <1>1
  <2>5. SumFunctionOnSet(granted'[k], T) <= row[k].count
    BY <2>2, <2>3, <2>4
  <2>. QED BY <2>5 DEF T
<1>8. LimitHolds'
  <2>. SUFFICES ASSUME NEW k \in Key, late[k] <= Held(k), NEW t \in Time
                PROVE  SumFunctionOnSet(granted'[k], Time \cap (t .. t + Held(k) - late[k])) <= Limit[k]
    BY <1>1 DEF LimitHolds
  <2>. DEFINE P == Time \cap (t .. t + Held(k) - late[k])
  <2>1. SumFunctionOnSet(granted[k], P) <= Limit[k] /\ P \in SUBSET Time /\ P \in SUBSET P
    BY DEF IInv, LimitHolds
  <2>2. Limit[k] \in Nat
    BY RuleAssumption
  <2>. HIDE DEF P
  <2>3. SumFunctionOnSet(granted'[k], P) <= Limit[k]
    BY <1>3, <2>1, <2>2
  <2>. QED BY <2>3 DEF P
<1>. QED BY <1>5, <1>6, <1>7, <1>8

\* The invariant holds at the start, and every step keeps it.
LEMMA InitInv == Init => IInv
<1>. SUFFICES ASSUME Init PROVE IInv
  OBVIOUS
<1>1. TypeOK /\ Bounded /\ Requests
  BY InitKnows DEF KInv, TInv
<1>2. Past
  BY MaxTimeAssumption DEF Init, Past, NoCall, Nothing
<1>3. ASSUME NEW k \in Key, NEW S \in SUBSET Time PROVE SumFunctionOnSet(granted[k], S) = 0
  <2>1. granted[k] = Nothing /\ (\A t \in S : granted[k][t] = 0) /\ IsFiniteSet(S)
    BY TimesAreFinite DEF Init, Nothing
  <2>. QED BY <2>1, SumZero
<1>4. RowIsDated
  BY DEF Init, RowIsDated, Nothing, Recent
<1>5. RowCounts
  <2>1. \A k \in Key : row[k].count = 0 /\ Recent(k, clock, late[k]) \in SUBSET Time
    BY DEF Init, NoRow, Recent
  <2>. QED BY <1>3, <2>1 DEF RowCounts
<1>6. LimitHolds
  <2>1. \A k \in Key, t \in Time : Time \cap (t .. t + Held(k) - late[k]) \in SUBSET Time
    OBVIOUS
  <2>. QED BY <1>3, <2>1, RuleAssumption DEF LimitHolds
<1>. QED BY <1>1, <1>2, <1>4, <1>5, <1>6 DEF IInv

LEMMA InvStep == IInv /\ [Next]_vars => IInv'
<1>. SUFFICES ASSUME IInv, [Next]_vars PROVE IInv'
  OBVIOUS
<1>. DEFINE Goal == Past' /\ RowIsDated' /\ RowCounts' /\ LimitHolds'
<1>a. TypeOK' /\ Bounded' /\ Requests'
  <2>1. KInv
    BY DEF IInv, KInv, TInv
  <2>. QED BY <2>1, KnowsInv DEF KInv, TInv
<1>. SUFFICES Goal
  BY <1>a DEF IInv
<1>0. TypeOK /\ \A r \in Request : pc[r] # "idle" => call[r] \in [key : Key, last : Time, now : Time]
  BY CallType DEF IInv
<1>00. 0 <= clock /\ clock \in Nat /\ \A t \in Time : t \in Nat
  BY <1>0, MaxTimeAssumption DEF TypeOK, Time
\* Steps that leave the table and the histories alone.
<1>1. ASSUME UNCHANGED <<row, sweeps, clock, granted, late>>, \A q \in Request : call'[q].now \in {0, call[q].now, clock}
      PROVE  Goal
  <2>1. Past'
    BY <1>1, <1>00 DEF IInv, Past
  <2>. QED BY <1>1, <2>1, RowMayChange
<1>2. ASSUME NEW r \in Request, Again(r), UNCHANGED <<row, sweeps, clock, granted, late>> PROVE Goal
  BY <1>0, <1>1, <1>2 DEF Again, NoCall, TypeOK
<1>3. ASSUME NEW r \in Request, End(r), UNCHANGED <<row, sweeps, clock, granted, late>> PROVE Goal
  BY <1>0, <1>1, <1>3 DEF End, NoCall, TypeOK
<1>4. ASSUME NEW r \in Request, NEW to, Goto(r, to), UNCHANGED <<row, sweeps, clock, granted, late>> PROVE Goal
  BY <1>1, <1>4 DEF Goto
<1>5. ASSUME NEW r \in Request, NEW k \in Key, Begin(r, k) PROVE Goal
  BY <1>0, <1>1, <1>5 DEF Begin, TypeOK
<1>6. ASSUME NEW r \in Request, Read(r) PROVE Goal
  BY <1>0, <1>1, <1>6 DEF Read, TypeOK
<1>7. ASSUME NEW r \in Request, Decide(r) PROVE Goal
  BY <1>0, <1>1, <1>7 DEF Decide, TypeOK
\* Steps that write the row with a grant.
<1>8. ASSUME NEW r \in Request, pc[r] # "idle", NEW fits, NEW n \in 1 .. Limit[call[r].key] - 1 + Cardinality(Request),
             Write(r, n, fits), UNCHANGED clock, sweeps' \subseteq sweeps \union {call[r].now},
             ~ Overtaken(r, fits) => n <= Limit[call[r].key],
             ~ Overtaken(r, fits) /\ late[call[r].key] <= Held(call[r].key)
                => Grants(call[r].key, Recent(call[r].key, clock, late[call[r].key])) + 1 <= n
      PROVE  Goal
  <2>1. /\ RowIsDated' /\ RowCounts' /\ LimitHolds'
        /\ \A k \in Key, t \in Time : granted'[k][t] > 0 => t <= clock'
    BY <1>8, WriteCounts
  <2>2. /\ \A q \in Request : call'[q].now <= clock'
        /\ \A s \in sweeps' : s <= clock'
    BY <1>8, <1>0, <1>00 DEF Write, End, IInv, Past, TypeOK, NoCall
  <2>. QED BY <2>1, <2>2 DEF Past
<1>9. ASSUME NEW r \in Request, Create(r) PROVE Goal
  <2>. DEFINE k == call[r].key
  <2>1. pc[r] # "idle" /\ k \in Key
    BY <1>9, <1>0 DEF Create
  <2>2. CASE row[k] = NoRow
    <3>1. 1 \in 1 .. Limit[k] - 1 + Cardinality(Request) /\ 1 <= Limit[k]
      BY <2>1, RuleAssumption, AimedFinite
    <3>2. late[k] <= Held(k) => Grants(k, Recent(k, clock, late[k])) = 0
      BY <1>0, <2>1, <2>2, NoneRecent DEF IInv
    <3>3. Write(r, 1, TRUE) /\ UNCHANGED <<sweeps, clock>>
      BY <1>9, <2>2 DEF Create
    <3>4. late[k] <= Held(k) => Grants(k, Recent(k, clock, late[k])) + 1 <= 1
      BY <3>2
    <3>. HIDE DEF Goal
    <3>. QED BY <1>8, <2>1, <3>1, <3>3, <3>4
  <2>3. CASE row[k] # NoRow
    BY <1>4, <1>9, <2>3 DEF Create
  <2>. QED BY <2>2, <2>3
<1>10. ASSUME NEW r \in Request, CreateFails(r) PROVE Goal
  <2>. DEFINE k == call[r].key
  <2>1. k \in Key
    BY <1>10, <1>0 DEF CreateFails
  <2>2. \A j \in Key : row'[j] = row[j] \/ (row[j] = NoRow /\ row'[j].count \in Nat)
    BY <1>10, <1>0, <2>1 DEF CreateFails, TypeOK
  <2>3. UNCHANGED <<clock, granted, late>> /\ Past'
    BY <1>10, <1>0 DEF CreateFails, Goto, IInv, Past, TypeOK
  <2>4. RowIsDated' /\ RowCounts' /\ LimitHolds'
    BY <2>2, <2>3, RowMayChange
  <2>. QED BY <2>3, <2>4
<1>11. ASSUME NEW r \in Request, Reread(r) PROVE Goal
  BY <1>11, <1>2, <1>3 DEF Reread
<1>12. ASSUME NEW r \in Request, Reset(r) PROVE Goal
  BY <1>12, <1>2, <1>4 DEF Reset, Choose
\* Unless it is overtaken, what it has read is no later than the row, and elapsed: no grant is
\* recent.
<1>13. ASSUME NEW r \in Request, ResetWrite(r) PROVE Goal
  <2>. DEFINE k == call[r].key
  <2>1. pc[r] = "reset_write" /\ call[r] \in [key : Key, last : Time, now : Time]
    BY <1>13, <1>0 DEF ResetWrite
  <2>2. CASE fate[r] # "gone"
    <3>1. k \in Key /\ 1 \in 1 .. Limit[k] - 1 + Cardinality(Request) /\ 1 <= Limit[k]
      BY <2>1, RuleAssumption, AimedFinite
    <3>2. ASSUME ~ Overtaken(r, ResetFits(r)), late[k] <= Held(k)
          PROVE  Grants(k, Recent(k, clock, late[k])) = 0
      <4>1. row[k].last <= call[r].last
        BY <2>1, <2>2, <3>2 DEF IInv, Requests, Knows, TypeOK, Overtaken, ResetFits
      <4>2. call[r].now - call[r].last > Window[k] /\ call[r].now <= clock
        BY <2>1 DEF IInv, Requests, Knows, Past, Elapsed
      <4>3. call[r].now \in Nat /\ call[r].last \in Nat /\ row[k].last \in Nat
        BY <1>0, <1>00, <2>1, <3>1 DEF TypeOK
      <4>4. Held(k) \in Nat /\ Held(k) <= Window[k] /\ Window[k] \in Nat
        BY <3>1, HeldType, RuleAssumption
      <4>5. row[k].last < clock - Held(k)
        <5>. HIDE DEF k
        <5>. QED BY <1>00, <4>1, <4>2, <4>3, <4>4
      <4>. QED BY <1>0, <3>1, <3>2, <4>5, NoneRecent DEF IInv
    <3>3. Write(r, 1, ResetFits(r)) /\ UNCHANGED clock /\ sweeps' = sweeps \union {call[r].now}
      BY <1>13, <2>2 DEF ResetWrite
    <3>. QED BY <1>8, <2>1, <3>1, <3>2, <3>3
  <2>3. CASE fate[r] = "gone"
    BY <1>13, <1>2, <2>3 DEF ResetWrite
  <2>. QED BY <2>2, <2>3
<1>14. ASSUME NEW r \in Request, Increment(r) PROVE Goal
  BY <1>14, <1>4 DEF Increment, Choose
\* Unless it is overtaken, the count is below the limit.
<1>15. ASSUME NEW r \in Request, IncrementWrite(r) PROVE Goal
  <2>. DEFINE k == call[r].key
  <2>1. pc[r] = "increment_write" /\ k \in Key
    BY <1>15, <1>0 DEF IncrementWrite
  <2>2. CASE fate[r] # "gone"
    <3>1. row[k].count \in Nat /\ Limit[k] \in Nat
      BY <1>0, <2>1, RuleAssumption DEF TypeOK
    <3>2. row[k].count + 1 \in 1 .. Limit[k] - 1 + Cardinality(Request)
      BY <2>1, RoomForAimed DEF IInv, TInv
    <3>3. ~ Overtaken(r, IncrementFits(r)) => row[k].count < Limit[k]
      BY <1>0, <2>1, <2>2 DEF IInv, Requests, Knows, TypeOK, Overtaken, IncrementFits
    <3>4. Grants(k, Recent(k, clock, late[k])) \in Nat
      <4>. DEFINE S == Recent(k, clock, late[k])
      <4>1. IsFiniteSet(S) /\ S \subseteq Time
        BY TimesAreFinite DEF Recent
      <4>2. granted[k] \in [Time -> Nat]
        BY <1>0, <2>1 DEF TypeOK
      <4>. HIDE DEF S
      <4>3. SumFunctionOnSet(granted[k], S) \in Nat
        BY <4>1, <4>2, SumType
      <4>. QED BY <4>3 DEF Grants, S
    <3>5. late[k] <= Held(k) => Grants(k, Recent(k, clock, late[k])) + 1 <= row[k].count + 1
      <4>1. late[k] <= Held(k) => Grants(k, Recent(k, clock, late[k])) <= row[k].count
        BY <2>1 DEF IInv, RowCounts, Grants
      <4>. QED BY <3>1, <3>4, <4>1
    <3>6. Write(r, row[k].count + 1, IncrementFits(r)) /\ UNCHANGED <<sweeps, clock>>
      BY <1>15, <2>2 DEF IncrementWrite
    <3>7. ~ Overtaken(r, IncrementFits(r)) => row[k].count + 1 <= Limit[k]
      BY <3>1, <3>3
    <3>. QED BY <1>8, <2>1, <3>2, <3>5, <3>6, <3>7
  <2>3. CASE fate[r] = "gone"
    BY <1>15, <1>4, <2>3 DEF IncrementWrite
  <2>. QED BY <2>2, <2>3
<1>16. ASSUME NEW r \in Request, Fresh(r) PROVE Goal
  BY <1>16, <1>2, <1>3 DEF Fresh
<1>17. ASSUME NEW r \in Request, Abandon(r) PROVE Goal
  BY <1>17, <1>3 DEF Abandon
\* What is deleted is older than Longest, hence than the limit of any key holds.
<1>18. ASSUME NEW s \in Time, Sweep(s) PROVE Goal
  <2>1. ASSUME NEW k \in Key, Old(row[k].last, s) PROVE row[k].last < clock - Held(k) /\ row'[k].count \in Nat
    <3>1. s <= clock /\ s \in Nat /\ row[k].last \in Nat /\ Longest \in Nat
      BY <1>18, <1>0, <1>00, RuleAssumption DEF Sweep, IInv, Past, TypeOK
    <3>2. row[k].last < s - Longest
      BY <2>1 DEF Old
    <3>3. row'[k].count \in Nat
      BY <1>a DEF TypeOK
    <3>. QED BY <1>00, <3>1, <3>2, <3>3, HeldType
  <2>2. \A k \in Key : ~ Old(row[k].last, s) => row'[k] = row[k]
    BY <1>18 DEF Sweep
  <2>3. UNCHANGED <<clock, granted, late>> /\ Past'
    BY <1>18 DEF Sweep, IInv, Past
  <2>4. RowIsDated' /\ RowCounts' /\ LimitHolds'
    BY <2>1, <2>2, <2>3, RowMayChange
  <2>. QED BY <2>3, <2>4
<1>19. ASSUME NEW s \in Time, SweepFails(s) PROVE Goal
  <2>1. UNCHANGED <<row, clock, granted, late>> /\ Past'
    BY <1>19 DEF SweepFails, IInv, Past
  <2>. QED BY <2>1, RowMayChange
<1>20. CASE Tick
  BY <1>20, TickCounts
<1>21. CASE UNCHANGED vars
  BY <1>21, <1>1 DEF vars
<1>. QED BY <1>5, <1>6, <1>7, <1>9, <1>10, <1>11, <1>12, <1>13, <1>14, <1>15, <1>16, <1>17, <1>18, <1>19, <1>20, <1>21
         DEF Next, Step

\* However requests overlap on all servers, and whatever old rows are deleted meanwhile, a key
\* none of whose writes was overtaken is granted no more than its limit in any period for which
\* the limit holds, less the time by which a slow request dates its row back.
THEOREM LimitIsKept == Spec => []LimitHolds
<1>1. Init => IInv
  BY InitInv
<1>2. IInv /\ [Next]_vars => IInv'
  BY InvStep
<1>3. IInv => LimitHolds
  BY DEF IInv
<1>. QED BY <1>1, <1>2, <1>3, PTL DEF Spec
================================================================================
