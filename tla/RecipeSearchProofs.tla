------------------------- MODULE RecipeSearchProofs -------------------------
(***************************************************************************)
(* Machine-checked proofs about RecipeSearch, for any pages, recipes,      *)
(* limits and requests: what either pipeline answers is safe, keeps the    *)
(* ingredients the user insists on, is not emptied by preferences and      *)
(* explains its gaps.                                                      *)
(***************************************************************************)
EXTENDS RecipeSearch, FiniteSetTheorems, WellFoundedInduction, TLAPS

-----------------------------------------------------------------------------
(* The constants, and what both pipelines take from RecipePages            *)

\* The operators of the two instances are the same.
LEMMA SameSets ==
  /\ \A S : Dish!Cardinality(S) = Cardinality(S)
  /\ \A S : Stock!Cardinality(S) = Cardinality(S)
  /\ \A S : Dish!IsFiniteSet(S) <=> IsFiniteSet(S)
<1>1. ASSUME NEW S PROVE Dish!Cardinality(S) = Cardinality(S)
  BY DEF Dish!Cardinality, Cardinality
<1>2. ASSUME NEW S PROVE Stock!Cardinality(S) = Cardinality(S)
  BY DEF Stock!Cardinality, Cardinality
<1>3. ASSUME NEW S PROVE Dish!IsFiniteSet(S) <=> IsFiniteSet(S)
  BY DEF Dish!IsFiniteSet, IsFiniteSet
<1> QED BY <1>1, <1>2, <1>3

LEMMA Limits ==
  /\ Pages \subseteq Nat /\ IsFiniteSet(Pages)
  /\ Kinds \subseteq Dish!RecipeKinds
  /\ MaxPages \in Nat \ {0} /\ Wanted \in Nat \ {0} /\ MaxQueries \in Nat \ {0, 1}
  /\ SearchWorkers \in Nat \ {0} /\ WaveSize \in Nat \ {0} /\ MaxNear \in Nat \ {0}
  /\ Requests \subseteq [target : BOOLEAN, meal : BOOLEAN, ideate : BOOLEAN]
  /\ PoolTarget \in Nat \ {0}
<1>1. Dish!DishLimitsAssumption /\ Stock!EngineAssumption
  BY SearchAssumption
<1>2. Dish!PagesAssumption
  BY <1>1 DEF Dish!DishLimitsAssumption
<1>3. IsFiniteSet(Pages)
  BY <1>2, SameSets DEF Dish!PagesAssumption
<1>4. Pages \subseteq Nat /\ Kinds \subseteq Dish!RecipeKinds
  BY <1>2 DEF Dish!PagesAssumption
<1>5. MaxPages \in Nat \ {0} /\ Wanted \in Nat \ {0} /\ MaxQueries \in Nat \ {0, 1}
  BY <1>2 DEF Dish!PagesAssumption
<1>6. SearchWorkers \in Nat \ {0} /\ WaveSize \in Nat \ {0} /\ MaxNear \in Nat \ {0}
  BY <1>1 DEF Dish!DishLimitsAssumption
<1>7. PoolTarget \in Nat \ {0}
      /\ Requests \subseteq [target : BOOLEAN, meal : BOOLEAN, ideate : BOOLEAN]
  BY <1>1 DEF Stock!EngineAssumption
<1> QED BY <1>3, <1>4, <1>5, <1>6, <1>7

LEMMA ReadablePages ==
  /\ Stock!Readable = Dish!Readable
  /\ Dish!Readable \subseteq Pages
  /\ \A S : S \subseteq Dish!Readable => IsFiniteSet(S) /\ Cardinality(S) \in Nat
<1>1. Stock!Readable = Dish!Readable /\ Dish!Readable \subseteq Pages
  BY DEF Stock!Readable, Dish!Readable
<1>2. ASSUME NEW S, S \subseteq Dish!Readable PROVE IsFiniteSet(S) /\ Cardinality(S) \in Nat
  <2>1. IsFiniteSet(S)
    BY <1>1, <1>2, Limits, FS_Subset
  <2> QED BY <2>1, FS_CardinalityType
<1> QED BY <1>1, <1>2

\* A finite set of recipes has a best one.
LEMMA RepresentativeType ==
  ASSUME NEW k \in [Dish!Readable -> Kinds], NEW C, C \subseteq Dish!Readable, C # {}
  PROVE  Dish!Representative(k, C) \in C
<1> DEFINE Better(p, q) == \/ k[p].score > k[q].score
                           \/ k[p].score = k[q].score /\ p <= q
           Best(X) == \E p \in X : \A q \in X : Better(p, q)
           Bad == {X \in SUBSET C : X # {} /\ ~ Best(X)}
<1>1. \A p \in C : k[p].score \in Nat /\ p \in Nat
  <2> SUFFICES ASSUME NEW p \in C PROVE k[p].score \in Nat /\ p \in Nat
    OBVIOUS
  <2>1. k[p] \in Dish!RecipeKinds
    BY Limits
  <2> QED BY <2>1, Limits, ReadablePages DEF Dish!RecipeKinds
<1>2. IsFiniteSet(C)
  BY ReadablePages
<1>3. Bad \subseteq FiniteSubsetsOf(C)
  BY <1>2, FS_Subset DEF FiniteSubsetsOf
<1>4. ASSUME Bad # {} PROVE FALSE
  <2>1. PICK X \in Bad : \A Y \in Bad : ~ (<<Y, X>> \in StrictSubsetOrdering(C))
    <3> HIDE DEF Bad
    <3> QED BY <1>3, <1>4, FS_StrictSubsetOrderingWellFounded, WFMin
  <2>2. PICK x : x \in X
    OBVIOUS
  <2>3. X \subseteq C /\ ~ Best(X)
    OBVIOUS
  <2>4. PICK Y : Y = X \ {x}
    OBVIOUS
  <2>5. CASE Y = {}
    <3>1. X = {x}
      BY <2>2, <2>4, <2>5
    <3>2. Better(x, x)
      BY <1>1, <2>2, <2>3
    <3> QED BY <2>3, <3>1, <3>2
  <2>6. CASE Y # {}
    <3>1. <<Y, X>> \in StrictSubsetOrdering(C)
      BY <2>2, <2>3, <2>4 DEF StrictSubsetOrdering
    <3>2. Best(Y)
      BY <2>1, <2>3, <2>4, <2>6, <3>1
    <3>3. PICK p \in Y : \A q \in Y : Better(p, q)
      BY <3>2
    <3>4. p \in X /\ p \in C /\ x \in C
      BY <2>2, <2>3, <2>4
    <3>5. Better(p, x) \/ Better(x, p)
      BY <1>1, <3>4
    <3>6. CASE Better(p, x)
      <4>1. \A q \in X : Better(p, q)
        BY <2>4, <3>3, <3>6
      <4> QED BY <2>3, <3>4, <4>1
    <3>7. CASE Better(x, p)
      <4>1. ASSUME NEW q \in X PROVE Better(x, q)
        <5>1. CASE q = x
          BY <1>1, <3>4, <5>1
        <5>2. CASE q # x
          <6>1. q \in Y /\ q \in C
            BY <2>3, <2>4, <5>2
          <6>2. Better(p, q)
            BY <3>3, <6>1
          <6> QED BY <1>1, <3>4, <3>7, <6>1, <6>2
        <5> QED BY <5>1, <5>2
      <4> QED BY <2>2, <2>3, <4>1
    <3> QED BY <3>5, <3>6, <3>7
  <2> QED BY <2>5, <2>6
<1>5. Best(C)
  BY <1>4
<1> QED BY <1>5 DEF Dish!Representative

\* One recipe of each dish stays.
LEMMA DistinctType ==
  ASSUME NEW k \in [Dish!Readable -> Kinds], NEW S, S \subseteq Dish!Readable, NEW m
  PROVE  /\ Dish!Distinct(k, S, m) \subseteq S
         /\ S # {} => Dish!Distinct(k, S, m) # {}
         /\ Stock!Distinct(k, S, m) = Dish!Distinct(k, S, m)
<1>1. ASSUME NEW p \in S
      PROVE  Dish!Representative(k, {q \in S : m[k[q].dish] = m[k[p].dish]}) \in S
  <2>1. PICK C : C = {q \in S : m[k[q].dish] = m[k[p].dish]}
    OBVIOUS
  <2>2. p \in C /\ C \subseteq S
    BY <2>1
  <2>3. Dish!Representative(k, C) \in C
    BY <2>2, RepresentativeType
  <2> QED BY <2>1, <2>2, <2>3
<1>2. Stock!Distinct(k, S, m) = Dish!Distinct(k, S, m)
  BY DEF Stock!Distinct, Dish!Distinct, Stock!Representative, Dish!Representative
<1> DEFINE Rep(p) == Dish!Representative(k, {q \in S : m[k[q].dish] = m[k[p].dish]})
<1>3. Dish!Distinct(k, S, m) = {Rep(p) : p \in S}
  BY DEF Dish!Distinct
<1>4. \A p \in S : Rep(p) \in S
  BY <1>1
<1> HIDE DEF Rep
<1>5. Dish!Distinct(k, S, m) \subseteq S
  BY <1>3, <1>4
<1>6. ASSUME S # {} PROVE Dish!Distinct(k, S, m) # {}
  BY <1>3, <1>6
<1> QED BY <1>2, <1>5, <1>6

\* A preference narrows, but never to nothing.
LEMMA FilterType ==
  ASSUME NEW S, S \subseteq Dish!Readable, NEW M, M \subseteq S, NEW n \in Nat, n > 0
  PROVE  /\ Dish!FilterWhenEnough(S, M, n) \subseteq S
         /\ S # {} => Dish!FilterWhenEnough(S, M, n) # {}
         /\ Stock!FilterWhenEnough(S, M, n) = Dish!FilterWhenEnough(S, M, n)
<1>1. Dish!FilterWhenEnough(S, M, n) = IF Cardinality(M) >= Dish!Smaller(n, Cardinality(S))
                                         THEN M ELSE S
  BY SameSets DEF Dish!FilterWhenEnough
<1>2. Stock!FilterWhenEnough(S, M, n) = IF Cardinality(M) >= Dish!Smaller(n, Cardinality(S))
                                          THEN M ELSE S
  BY SameSets DEF Stock!FilterWhenEnough, Stock!Smaller, Dish!Smaller
<1>3. ASSUME S # {}, Cardinality(M) >= Dish!Smaller(n, Cardinality(S)) PROVE M # {}
  <2>1. Cardinality(S) \in Nat /\ Cardinality(S) # 0 /\ Cardinality(M) \in Nat
    BY <1>3, ReadablePages, FS_EmptySet
  <2>2. Cardinality(M) # 0
    BY <1>3, <2>1 DEF Dish!Smaller
  <2> QED BY <2>2, FS_EmptySet
<1> QED BY <1>1, <1>2, <1>3

LEMMA PicksType ==
  ASSUME NEW S, S \subseteq Dish!Readable, NEW n \in Nat, NEW T \in Dish!Picks(S, n)
  PROVE  T \subseteq S /\ (S # {} /\ n > 0 => T # {})
<1>1. T \subseteq S /\ Cardinality(T) = Dish!Smaller(n, Cardinality(S))
  BY SameSets DEF Dish!Picks
<1>2. ASSUME S # {}, n > 0 PROVE T # {}
  <2>1. Cardinality(S) \in Nat /\ Cardinality(S) # 0
    BY <1>2, ReadablePages, FS_EmptySet
  <2>2. Cardinality(T) # 0
    BY <1>1, <1>2, <2>1 DEF Dish!Smaller
  <2> QED BY <2>2, FS_EmptySet
<1> QED BY <1>1, <1>2

LEMMA SamePicks ==
  ASSUME NEW S, NEW n
  PROVE  Stock!Picks(S, n) = Dish!Picks(S, n)
BY SameSets DEF Stock!Picks, Dish!Picks, Stock!Smaller, Dish!Smaller

-----------------------------------------------------------------------------
(* What a response adds to the pool                                        *)

\* Numbering a finite set of naturals from below reaches every number up to its
\* size.
LEMMA InOrderType ==
  ASSUME NEW A, A \subseteq Nat, IsFiniteSet(A)
  PROVE  Dish!InOrder(A) \in Seq(A)
<1> DEFINE Below(p) == {q \in A : q < p}
           rank == [p \in A |-> Cardinality(Below(p))]
           N == Cardinality(A)
<1>1. N \in Nat
  BY FS_CardinalityType
<1>2. ASSUME NEW p \in A
      PROVE  IsFiniteSet(Below(p)) /\ Cardinality(Below(p)) \in 0..(N - 1)
  <2>1. Below(p) \subseteq A \ {p}
    OBVIOUS
  <2>2. IsFiniteSet(A \ {p}) /\ Cardinality(A \ {p}) = N - 1
    BY FS_RemoveElement
  <2>3. IsFiniteSet(Below(p)) /\ Cardinality(Below(p)) <= N - 1
    <3> HIDE DEF Below, N
    <3> QED BY <2>1, <2>2, FS_Subset
  <2>4. Cardinality(Below(p)) \in Nat
    BY <2>3, FS_CardinalityType
  <2> HIDE DEF Below, N
  <2> QED BY <1>1, <2>3, <2>4
<1>3. ASSUME NEW p \in A, NEW q \in A, p < q PROVE rank[p] # rank[q]
  <2>1. Below(p) \cup {p} \subseteq Below(q) /\ p \notin Below(p)
    <3>1. p \in Nat /\ q \in Nat /\ \A x \in A : x \in Nat
      OBVIOUS
    <3>2. ASSUME NEW x \in A, x < p PROVE x < q
      BY <1>3, <3>1, <3>2
    <3>3. p \in Below(q)
      BY <1>3
    <3>4. ~ (p < p)
      BY <3>1
    <3>5. p \notin Below(p)
      BY <3>4
    <3>6. \A x \in Below(p) : x \in Below(q)
      BY <3>2
    <3> HIDE DEF Below
    <3> QED BY <3>3, <3>5, <3>6
  <2>2. IsFiniteSet(Below(p)) /\ IsFiniteSet(Below(q))
    BY <1>2
  <2> HIDE DEF Below
  <2>3. Cardinality(Below(p) \cup {p}) = Cardinality(Below(p)) + 1
    BY <2>1, <2>2, FS_AddElement
  <2>4. Cardinality(Below(p) \cup {p}) <= Cardinality(Below(q))
    BY <2>1, <2>2, FS_Subset
  <2>5. Cardinality(Below(p)) \in Nat /\ Cardinality(Below(q)) \in Nat
    BY <2>2, FS_CardinalityType
  <2>6. rank[p] = Cardinality(Below(p)) /\ rank[q] = Cardinality(Below(q))
    OBVIOUS
  <2> HIDE DEF rank
  <2> QED BY <2>3, <2>4, <2>5, <2>6
<1>4. rank \in Injection(A, 0..(N - 1))
  <2>1. rank \in [A -> 0..(N - 1)]
    BY <1>2
  <2>2. \A p, q \in A : p = q \/ p < q \/ q < p
    OBVIOUS
  <2>3. ASSUME NEW p \in A, NEW q \in A, rank[p] = rank[q] PROVE p = q
    <3> HIDE DEF rank
    <3> QED BY <1>3, <2>2, <2>3
  <2> HIDE DEF rank, N
  <2> QED BY <2>1, <2>3 DEF Injection, IsInjective
<1>5. IsFiniteSet(0..(N - 1)) /\ Cardinality(0..(N - 1)) = N
  <2>1. 0 \in Int /\ N - 1 \in Int
    BY <1>1
  <2>2. IsFiniteSet(0..(N - 1))
        /\ Cardinality(0..(N - 1)) = IF 0 > N - 1 THEN 0 ELSE (N - 1) - 0 + 1
    <3> HIDE DEF N
    <3> QED BY <2>1, FS_Interval
  <2> HIDE DEF N
  <2> QED BY <1>1, <2>2
<1>6. rank \in Surjection(A, 0..(N - 1))
  <2>1. Cardinality(A) = Cardinality(0..(N - 1))
    BY <1>5
  <2> HIDE DEF rank, N
  <2> QED BY <1>4, <1>5, <2>1, FS_Injection
<1>7. ASSUME NEW n \in 1..N PROVE \E p \in A : Cardinality(Below(p)) = n - 1
  <2>1. n - 1 \in 0..(N - 1)
    BY <1>1
  <2>2. \E p \in A : rank[p] = n - 1
    <3> HIDE DEF rank, N
    <3> QED BY <1>6, <2>1 DEF Surjection
  <2> QED BY <2>2
<1>8. Dish!InOrder(A) = [n \in 1..N |-> CHOOSE p \in A : Dish!Cardinality(Below(p)) = n - 1]
  <2>1. Dish!Cardinality(A) = N
    BY SameSets
  <2> QED BY <2>1 DEF Dish!InOrder
<1>9. \A n \in 1..N : (CHOOSE p \in A : Dish!Cardinality(Below(p)) = n - 1) \in A
  <2> HIDE DEF Below, N
  <2>1. ASSUME NEW n \in 1..N PROVE \E p \in A : Dish!Cardinality(Below(p)) = n - 1
    BY <1>7, SameSets
  <2> QED BY <2>1
<1>10. Dish!InOrder(A) \in [1..N -> A]
  <2> HIDE DEF Below, N
  <2> QED BY <1>8, <1>9
<1> HIDE DEF N
<1> QED BY <1>1, <1>10

LEMMA SameOrder == \A A : Stock!InOrder(A) = Dish!InOrder(A)
BY DEF Stock!InOrder, Dish!InOrder, Stock!Cardinality, Dish!Cardinality

\* Only readable pages come to the pool.
LEMMA PoolType ==
  ASSUME NEW pool \in Seq(Dish!Readable), NEW links, links \subseteq Pages, NEW known
  PROVE  /\ Dish!WithResults(pool, links, known) \in Seq(Dish!Readable)
         /\ Stock!WithResults(pool, links, known) = Dish!WithResults(pool, links, known)
<1> DEFINE readable == links \ DeniedPages
           Fresh(S) == S \ (known \cup Dish!Found(pool))
           Earlier(p) == {q \in readable : q < p}
           A == {p \in Fresh(readable) :
                   \/ Earlier(p) = {}
                   \/ Len(pool) + Cardinality(Fresh(Earlier(p))) < MaxPages}
<1>1. Dish!WithResults(pool, links, known) = pool \o Dish!InOrder(A)
  BY SameSets DEF Dish!WithResults
<1>2. A \subseteq Dish!Readable
  BY DEF Dish!Readable
<1>3. A \subseteq Nat /\ IsFiniteSet(A)
  <2> HIDE DEF A
  <2> QED BY <1>2, Limits, ReadablePages
<1>4. Dish!InOrder(A) \in Seq(A)
  <2> HIDE DEF A
  <2> QED BY <1>3, InOrderType
<1>5. Dish!InOrder(A) \in Seq(Dish!Readable)
  <2> HIDE DEF A
  <2> QED BY <1>2, <1>4
<1>6. Stock!WithResults(pool, links, known) = pool \o Dish!InOrder(A)
  <2>1. Stock!InOrder(A) = Dish!InOrder(A)
    <3> HIDE DEF A
    <3> QED BY SameOrder
  <2>2. Stock!WithResults(pool, links, known) = pool \o Stock!InOrder(A)
    BY SameSets DEF Stock!WithResults, Stock!Found, Dish!Found
  <2> QED BY <2>1, <2>2
<1> QED BY <1>1, <1>5, <1>6

-----------------------------------------------------------------------------
(* The invariant of the dish search                                        *)

DishPhases == {"start", "searches", "aliasSearches", "variants", "fetching", "dedupe",
               "translation", "summary", "done"}
Gathering == {"start", "searches", "aliasSearches", "variants", "fetching"}
Selected == {"translation", "summary", "done"}

\* The shape of what the dish search gathers.
DishShape ==
  /\ phase \in DishPhases
  /\ kind \in [Dish!Readable -> Kinds]
  /\ seen \in Seq(Dish!Readable)
  /\ wave \subseteq Dish!Readable /\ parsed \subseteq Dish!Readable
  /\ queued \in Nat /\ searching \in Nat /\ waveAt \in Nat

\* The spellings are in before the first page is read, so what is safe when the
\* recipes are gated stays safe.
SpellingsFirst ==
  /\ phase \in {"fetching", "dedupe"} \cup Selected => variants # "pending"
  /\ variants \in {"pending", "known", "unknown"}

\* Nothing is offered before the gate, and what is offered and selected passed
\* it.
GateHeld ==
  /\ phase \in Gathering => offered.real = {} /\ offered.near = {} /\ result = {}
  /\ offered.real \subseteq Dish!Real(Dish!Safe(parsed))
  /\ offered.near \subseteq Dish!Near(Dish!Safe(parsed))
  /\ result \subseteq Dish!Safe(parsed)

\* A match that was read leads to an offer and to a result.
MatchesLead ==
  Dish!Real(Dish!Safe(parsed)) # {} =>
    /\ phase \in {"dedupe"} \cup Selected => offered.real # {}
    /\ phase \in Selected => result # {}

\* Why the dish search may end although queries or pages are left.
DishGaps ==
  LET searched == queued = 0 \/ Len(seen) >= MaxPages
  IN /\ phase \in Gathering \ {"fetching"} => waveAt = 0
     /\ phase = "aliasSearches" /\ searching = 0 => Dish!aborted \/ searched
     /\ phase \in {"variants", "fetching"} => Dish!aborted \/ searched
     /\ phase \in {"dedupe"} \cup Selected =>
          Late \/ (searched /\ (waveAt >= Len(Dish!Considered) \/ enough))

\* What failed or was not found is in the warnings once it is settled.
DishWarned ==
  /\ "search" \in failed =>
       \/ phase \in {"searches", "aliasSearches"}
       \/ "SEARCH_PARTIALLY_UNAVAILABLE" \in warnings
  /\ "page" \in failed =>
       phase = "fetching" \/ "PAGES_PARTIALLY_UNAVAILABLE" \in warnings
  /\ phase \in Selected /\ result = {} => "NO_MATCHING_DISH" \in warnings

DishInv ==
  /\ DishShape
  /\ SpellingsFirst
  /\ GateHeld
  /\ MatchesLead
  /\ DishGaps
  /\ DishWarned

-----------------------------------------------------------------------------
(* The invariant of the recommendations                                    *)

\* The waves are over and their recipes counted.
Settled == {"estimation", "dedupe", "translation", "summary", "done"}
Chosen == {"translation", "summary", "done"}

\* The shape of what the waves gather.
StockShape ==
  /\ phase \in Settled \cup {"start", "ideation", "search", "fetch", "threw"}
  /\ kind \in [Stock!Readable -> Kinds]
  /\ seen \in Seq(Stock!Readable)
  /\ wave \subseteq Stock!Readable /\ parsed \subseteq Stock!Readable
  /\ recipes \subseteq Stock!Readable
  /\ left \in Nat

\* The answer is made of safe recipes that passed the meal type, and of ones
\* with the required ingredient when there are any.
AnswerGated ==
  /\ result \subseteq preGatePool /\ preGatePool \subseteq Stock!Safe(recipes)
  /\ request.target =>
       result \subseteq Stock!HoldsTarget(result) \/ Stock!HoldsTarget(preGatePool) = {}

\* A safe recipe leads to a result.
SafeLeads ==
  phase \in Chosen /\ result = {} => request.target \/ Stock!Safe(recipes) = {}

\* Why the waves may end although queries are left.
PoolDeep == Cardinality(Stock!Gate(Stock!Safe(recipes))) >= PoolTarget
StockGaps == phase \in Settled => Late \/ left = 0 \/ seen = <<>> \/ PoolDeep

\* What failed or was not found is in the warnings once it is settled.
StockWarned ==
  /\ "search" \in failed =>
       \/ phase \in {"search", "threw"} \/ Late
       \/ "SEARCH_PARTIALLY_UNAVAILABLE" \in warnings
  /\ "page" \in failed =>
       \/ phase \in {"search", "fetch", "threw"}
       \/ "PAGES_PARTIALLY_UNAVAILABLE" \in warnings
  /\ phase \in Chosen /\ result = {} =>
       warnings \cap {"NO_TARGET_INGREDIENT", "NO_MATCHING_RECIPES"} # {}

StockInv ==
  /\ StockShape
  /\ AnswerGated
  /\ SafeLeads
  /\ StockGaps
  /\ StockWarned

SearchInv == (dishQuery => DishInv) /\ (~ dishQuery => StockInv)

-----------------------------------------------------------------------------
(* The dish search                                                         *)

\* What the gates let through is there.
LEMMA GateSubsets ==
  /\ \A S : Dish!Safe(S) \subseteq S
  /\ \A S : Dish!Real(S) \subseteq S
  /\ \A S : Dish!Near(S) \subseteq S
  /\ \A S, T : S \subseteq T =>
       /\ Dish!Safe(S) \subseteq Dish!Safe(T)
       /\ Dish!Real(S) \subseteq Dish!Real(T) /\ Dish!Near(S) \subseteq Dish!Near(T)
BY DEF Dish!Safe, Dish!Real, Dish!Near

\* Preferences narrow the matches, but never to nothing.
LEMMA PreferredType ==
  ASSUME NEW S, S \subseteq Dish!Readable, NEW n \in Nat, n > 0
  PROVE  /\ Dish!Preferred(S, n) \subseteq S
         /\ S # {} => Dish!Preferred(S, n) # {}
<1>1. PICK fed : fed = Dish!FilterWhenEnough(S, Dish!OfMealType(S), Wanted)
  OBVIOUS
<1>2. Dish!OfMealType(S) \subseteq S /\ Dish!WithinLimits(fed) \subseteq fed
      /\ Wanted \in Nat /\ Wanted > 0
  BY Limits DEF Dish!OfMealType, Dish!WithinLimits
<1>3. fed \subseteq S /\ (S # {} => fed # {})
  BY <1>1, <1>2, FilterType
<1>4. fed \subseteq Dish!Readable
  BY <1>3
<1>5. /\ Dish!FilterWhenEnough(fed, Dish!WithinLimits(fed), n) \subseteq fed
      /\ fed # {} => Dish!FilterWhenEnough(fed, Dish!WithinLimits(fed), n) # {}
  BY <1>2, <1>4, FilterType
<1>6. Dish!Preferred(S, n) = Dish!FilterWhenEnough(fed, Dish!WithinLimits(fed), n)
  BY <1>1 DEF Dish!Preferred
<1> QED BY <1>3, <1>5, <1>6

\* The selection takes offered recipes, and some when any is a match or near.
LEMMA SelectType ==
  ASSUME NEW S, S \subseteq Dish!Readable, S \subseteq Dish!Real(S) \cup Dish!Near(S),
         NEW T \in Dish!Select(S)
  PROVE  T \subseteq S /\ (S # {} => T # {})
<1> DEFINE room == Wanted - Dish!Smaller(Wanted, Cardinality(Dish!Real(S)))
<1>1. Dish!Real(S) \subseteq Dish!Readable /\ Dish!Near(S) \subseteq Dish!Readable
      /\ Dish!Real(S) \subseteq S /\ Dish!Near(S) \subseteq S
  BY GateSubsets
<1>2. Cardinality(Dish!Real(S)) \in Nat /\ Wanted \in Nat /\ Wanted > 0
  BY <1>1, ReadablePages, Limits
<1>3. room \in Nat /\ (Cardinality(Dish!Real(S)) = 0 => room > 0)
  BY <1>2 DEF Dish!Smaller
<1>4. PICK r \in Dish!Picks(Dish!Real(S), Wanted), n \in Dish!Picks(Dish!Near(S), room) :
        T = r \cup n
  BY SameSets DEF Dish!Select
<1> HIDE DEF room
<1>5. r \subseteq Dish!Real(S) /\ (Dish!Real(S) # {} => r # {})
  BY <1>1, <1>2, PicksType
<1>6. n \subseteq Dish!Near(S) /\ (Dish!Near(S) # {} /\ room > 0 => n # {})
  BY <1>1, <1>3, PicksType
<1>7. ASSUME S # {} PROVE T # {}
  <2>1. CASE Dish!Real(S) # {}
    BY <1>4, <1>5, <2>1
  <2>2. CASE Dish!Real(S) = {}
    <3>1. Cardinality(Dish!Real(S)) = 0
      BY <2>2, FS_EmptySet
    <3>2. Dish!Near(S) # {}
      BY <1>7, <2>2
    <3> QED BY <1>3, <1>4, <1>6, <3>1, <3>2
  <2> QED BY <2>1, <2>2
<1> QED BY <1>1, <1>4, <1>5, <1>6, <1>7

LEMMA DishInitially ==
  ASSUME Dish!Init
  PROVE  DishInv
<1>1. /\ phase = "start" /\ kind \in [Dish!Readable -> Kinds]
      /\ queued = 0 /\ searching = 0 /\ variants = "pending" /\ seen = <<>>
      /\ waveAt = 0 /\ wave = {} /\ parsed = {} /\ failed = {}
      /\ offered = [real |-> {}, near |-> {}] /\ result = {}
  BY DEF Dish!Init
<1>2. DishShape
  BY <1>1 DEF DishShape, DishPhases
<1>3. offered.real = {} /\ offered.near = {} /\ Dish!Safe(parsed) = {}
      /\ Dish!Real(Dish!Safe(parsed)) = {}
  BY <1>1 DEF Dish!Safe, Dish!Real
<1>4. GateHeld /\ MatchesLead
  BY <1>1, <1>3 DEF GateHeld, MatchesLead
<1>5. SpellingsFirst /\ DishGaps /\ DishWarned
  BY <1>1 DEF SpellingsFirst, DishGaps, DishWarned, Selected, Gathering
<1> QED BY <1>2, <1>4, <1>5 DEF DishInv


\* What was gated stays gated while no page is read and no spelling learnt.
LEMMA GatesStand ==
  ASSUME GateHeld, MatchesLead, UNCHANGED <<kind, variants, parsed, offered, result>>,
         phase' \in Gathering => phase \in Gathering,
         phase' \in {"dedupe"} \cup Selected => phase \in {"dedupe"} \cup Selected,
         phase' \in Selected => phase \in Selected
  PROVE  GateHeld' /\ MatchesLead'
<1>1. Dish!Safe(parsed)' = Dish!Safe(parsed)
  BY DEF Dish!Safe, Dish!Conflicts, Dish!Matches
<1>2. Dish!Real(Dish!Safe(parsed))' = Dish!Real(Dish!Safe(parsed))
      /\ Dish!Near(Dish!Safe(parsed))' = Dish!Near(Dish!Safe(parsed))
  BY DEF Dish!Safe, Dish!Conflicts, Dish!Matches, Dish!Real, Dish!Near
<1>3. GateHeld'
  BY <1>1, <1>2 DEF GateHeld
<1>4. MatchesLead'
  BY <1>2 DEF MatchesLead
<1> QED BY <1>3, <1>4

\* A search launched for n queries leaves some to its workers only in time and
\* while pages are wanted.
LEMMA LaunchType ==
  ASSUME NEW n \in Nat, Dish!Launch(n)
  PROVE  /\ searching' \in Nat /\ queued' \in Nat
         /\ searching' = 0 => Dish!aborted \/ queued' = 0 \/ Len(seen) >= MaxPages
<1>1. CASE Dish!MaySearch(seen)
  <2>1. searching' = Dish!Smaller(SearchWorkers, n)
        /\ queued' = n - Dish!Smaller(SearchWorkers, n)
    BY <1>1 DEF Dish!Launch
  <2>2. SearchWorkers \in Nat /\ SearchWorkers > 0
    BY Limits
  <2> QED BY <2>1, <2>2 DEF Dish!Smaller
<1>2. CASE ~ Dish!MaySearch(seen)
  <2>1. searching' = 0 /\ queued' = n - 0
    BY <1>2 DEF Dish!Launch
  <2>2. Dish!aborted \/ ~ (Len(seen) < MaxPages)
    BY <1>2 DEF Dish!MaySearch
  <2>3. CASE Dish!aborted
    BY <2>1, <2>3
  <2>4. CASE ~ (Len(seen) < MaxPages) /\ ~ Dish!aborted
    <3>1. MaxPages \in Nat
      BY Limits
    <3>2. CASE n = 0
      BY <2>1, <3>2
    <3>3. CASE n # 0
      BY <2>1, <2>4, <3>1
    <3> QED BY <3>2, <3>3
  <2> QED BY <2>2, <2>3, <2>4
<1> QED BY <1>1, <1>2

LEMMA QueryBudgets == Dish!Reserved \in Nat /\ Dish!PrimaryQueries \in Nat
<1>1. MaxQueries \in Nat
  BY Limits
<1>2. MaxQueries \div 3 \in Nat
  BY <1>1
<1>3. Dish!Reserved \in Nat
  BY <1>2 DEF Dish!Reserved, Dish!Smaller, Dish!Larger
<1>4. MaxQueries - Dish!Reserved \in Int
  BY <1>1, <1>3
<1> QED BY <1>3, <1>4 DEF Dish!PrimaryQueries, Dish!Larger

LEMMA DishBegins ==
  ASSUME DishInv, Dish!Begin
  PROVE  DishInv'
<1>1. /\ phase = "start" /\ phase' = "searches" /\ Dish!Launch(Dish!PrimaryQueries)
      /\ UNCHANGED <<kind, variants, seen, waveAt, wave, parsed, enough, failed,
                     offered, result, warnings, deadline>>
  BY DEF Dish!Begin, Dish!reading, Dish!answer
<1>2. searching' \in Nat /\ queued' \in Nat
  BY <1>1, LaunchType, QueryBudgets
<1>3. DishShape'
  BY <1>1, <1>2 DEF DishInv, DishShape, DishPhases
<1>4. GateHeld' /\ MatchesLead'
  BY <1>1, GatesStand DEF DishInv, Gathering, Selected
<1>5. SpellingsFirst' /\ DishGaps'
  BY <1>1 DEF DishInv, SpellingsFirst, DishGaps, Gathering, Selected
<1>6. DishWarned'
  BY <1>1 DEF DishInv, DishWarned, Selected
<1> QED BY <1>3, <1>4, <1>5, <1>6 DEF DishInv

LEMMA DishSearchReturns ==
  ASSUME DishInv, Dish!SearchReturns
  PROVE  DishInv'
<1>1. /\ phase \in {"searches", "aliasSearches"} /\ phase' = phase
      /\ UNCHANGED <<kind, variants, waveAt, wave, parsed, enough, offered, result,
                     warnings, deadline>>
  BY DEF Dish!SearchReturns, Dish!reading, Dish!answer
<1>2. seen \in Seq(Dish!Readable) /\ queued \in Nat /\ searching \in Nat /\ searching > 0
  BY DEF DishInv, DishShape, Dish!SearchReturns
<1>3. seen' \in Seq(Dish!Readable)
  <2>1. CASE \E links \in Dish!SearchResults : seen' = Dish!WithResults(seen, links, {})
    <3>1. PICK links \in Dish!SearchResults : seen' = Dish!WithResults(seen, links, {})
      BY <2>1
    <3>2. links \subseteq Pages
      BY DEF Dish!SearchResults
    <3> QED BY <1>2, <3>1, <3>2, PoolType
  <2>2. CASE seen' = seen
    BY <1>2, <2>2
  <2> QED BY <2>1, <2>2 DEF Dish!SearchReturns
<1>4. PICK taken : /\ taken = IF queued > 0 /\ Dish!MaySearch(seen') THEN 1 ELSE 0
                   /\ searching' = searching - 1 + taken /\ queued' = queued - taken
  BY DEF Dish!SearchReturns
<1>5. searching' \in Nat /\ queued' \in Nat
  BY <1>2, <1>4
<1>6. ASSUME searching' = 0, ~ Dish!aborted PROVE queued' = 0 \/ Len(seen') >= MaxPages
  <2>1. taken = 0
    BY <1>2, <1>4, <1>6
  <2>2. queued = 0 \/ ~ Dish!MaySearch(seen')
    BY <1>2, <1>4, <2>1
  <2>3. CASE queued = 0
    BY <1>4, <2>1, <2>3
  <2>4. CASE ~ Dish!MaySearch(seen')
    <3>1. ~ (Len(seen') < MaxPages)
      BY <1>6, <2>4 DEF Dish!MaySearch
    <3>2. MaxPages \in Nat
      BY Limits
    <3>3. Len(seen') \in Nat
      BY <1>3
    <3> QED BY <3>1, <3>2, <3>3
  <2> QED BY <2>2, <2>3, <2>4
<1>7. DishShape'
  BY <1>1, <1>3, <1>5 DEF DishInv, DishShape, DishPhases
<1>8. GateHeld' /\ MatchesLead'
  BY <1>1, GatesStand DEF DishInv
<1>9. SpellingsFirst'
  BY <1>1 DEF DishInv, SpellingsFirst
<1>10. Dish!aborted' <=> Dish!aborted
  BY <1>1 DEF Dish!aborted
<1>11. DishGaps'
  <2>1. waveAt' = 0
    BY <1>1 DEF DishInv, DishGaps, Gathering
  <2> QED BY <1>1, <1>6, <1>10, <2>1 DEF DishGaps, Selected
<1>12. DishWarned'
  <2>1. "page" \in failed' => "page" \in failed
    BY DEF Dish!SearchReturns
  <2> QED BY <1>1, <2>1 DEF DishInv, DishWarned, Selected
<1> QED BY <1>7, <1>8, <1>9, <1>11, <1>12 DEF DishInv

LEMMA DishServicesAnswer ==
  ASSUME DishInv, Dish!AliasesAnswer \/ Dish!VariantsAnswer
  PROVE  DishInv'
<1>1. UNCHANGED <<phase, kind, seen, queued, searching, waveAt, wave, parsed, enough, failed,
                  offered, result, warnings, deadline>>
  BY DEF Dish!AliasesAnswer, Dish!VariantsAnswer, Dish!found, Dish!reading, Dish!answer
<1>2. DishShape' /\ DishWarned'
  BY <1>1 DEF DishInv, DishShape, DishWarned
<1>3. (Dish!aborted' <=> Dish!aborted) /\ (Late' <=> Late)
      /\ Dish!Considered' = Dish!Considered
  BY <1>1 DEF Dish!aborted, Late, Dish!Considered
<1>4. DishGaps'
  BY <1>1, <1>3 DEF DishInv, DishGaps
<1>5. CASE variants' = variants
  <2>1. GateHeld' /\ MatchesLead'
    BY <1>1, <1>5, GatesStand DEF DishInv
  <2>2. SpellingsFirst'
    BY <1>1, <1>5 DEF DishInv, SpellingsFirst
  <2> QED BY <1>2, <1>4, <2>1, <2>2 DEF DishInv
<1>6. CASE Dish!VariantsAnswer
  <2>1. variants = "pending" /\ variants' \in {"known", "unknown"}
    BY <1>6 DEF Dish!VariantsAnswer
  <2>2. phase \in Gathering /\ phase \notin {"dedupe"} \cup Selected
    BY <2>1 DEF DishInv, DishShape, DishPhases, SpellingsFirst, Gathering, Selected
  <2>3. offered.real = {} /\ offered.near = {} /\ result = {}
    BY <2>2 DEF DishInv, GateHeld
  <2>4. GateHeld'
    BY <1>1, <2>3 DEF GateHeld
  <2>5. MatchesLead'
    BY <1>1, <2>2 DEF MatchesLead
  <2>6. SpellingsFirst'
    BY <2>1 DEF SpellingsFirst
  <2> QED BY <1>2, <1>4, <2>4, <2>5, <2>6 DEF DishInv
<1>7. Dish!AliasesAnswer => variants' = variants
  BY DEF Dish!AliasesAnswer
<1> QED BY <1>5, <1>6, <1>7

LEMMA DishAliasesSearched ==
  ASSUME DishInv, Dish!AliasesSearched
  PROVE  DishInv'
<1>1. /\ phase = "searches" /\ phase' = "aliasSearches"
      /\ UNCHANGED <<kind, variants, seen, waveAt, wave, parsed, enough, failed,
                     offered, result, warnings, deadline>>
  BY DEF Dish!AliasesSearched, Dish!reading, Dish!answer
<1>2. PICK n \in IF alias = "expanded" THEN 0..Dish!Reserved ELSE {0} : Dish!Launch(n)
  BY DEF Dish!AliasesSearched
<1>3. n \in Nat
  BY QueryBudgets
<1>4. /\ searching' \in Nat /\ queued' \in Nat
      /\ searching' = 0 => Dish!aborted \/ queued' = 0 \/ Len(seen) >= MaxPages
  BY <1>2, <1>3, LaunchType
<1>5. DishShape'
  BY <1>1, <1>4 DEF DishInv, DishShape, DishPhases
<1>6. GateHeld' /\ MatchesLead'
  BY <1>1, GatesStand DEF DishInv, Gathering, Selected
<1>7. SpellingsFirst'
  BY <1>1 DEF DishInv, SpellingsFirst, Selected
<1>8. DishGaps'
  <2>1. Dish!aborted' <=> Dish!aborted
    BY <1>1 DEF Dish!aborted
  <2>2. waveAt' = 0
    BY <1>1 DEF DishInv, DishGaps, Gathering
  <2> QED BY <1>1, <1>4, <2>1, <2>2 DEF DishGaps, Selected
<1>9. DishWarned'
  BY <1>1 DEF DishInv, DishWarned, Selected
<1> QED BY <1>5, <1>6, <1>7, <1>8, <1>9 DEF DishInv

LEMMA DishVariantsKnown ==
  ASSUME DishInv, Dish!VariantsKnown
  PROVE  DishInv'
<1>1. /\ phase = "aliasSearches" /\ searching = 0 /\ phase' = "variants"
      /\ UNCHANGED <<kind, variants, seen, queued, searching, waveAt, wave, parsed, enough,
                     failed, offered, result, deadline>>
      /\ warnings' = IF "search" \in failed
                       THEN warnings \cup {"SEARCH_PARTIALLY_UNAVAILABLE"} ELSE warnings
  BY DEF Dish!VariantsKnown, Dish!found, Dish!reading, Dish!answer
<1>2. DishShape'
  BY <1>1 DEF DishInv, DishShape, DishPhases
<1>3. GateHeld' /\ MatchesLead'
  BY <1>1, GatesStand DEF DishInv, Gathering, Selected
<1>4. SpellingsFirst'
  BY <1>1 DEF DishInv, SpellingsFirst, Selected
<1>5. DishGaps'
  <2>1. Dish!aborted' <=> Dish!aborted
    BY <1>1 DEF Dish!aborted
  <2>2. waveAt' = 0 /\ (Dish!aborted \/ queued = 0 \/ Len(seen) >= MaxPages)
    BY <1>1 DEF DishInv, DishGaps, Gathering
  <2> QED BY <1>1, <2>1, <2>2 DEF DishGaps, Selected
<1>6. DishWarned'
  BY <1>1 DEF DishInv, DishWarned, Selected
<1> QED BY <1>2, <1>3, <1>4, <1>5, <1>6 DEF DishInv

\* The gate after the last wave.
LEMMA DishGated ==
  ASSUME DishInv, Dish!Gate, wave' = {},
         UNCHANGED <<kind, seen, queued, searching, variants, parsed, failed, result, deadline>>,
         phase \in {"variants", "fetching"}, variants # "pending", waveAt' \in Nat,
         Dish!aborted \/ waveAt' >= Len(Dish!Considered) \/ enough'
  PROVE  DishInv'
<1>1. PICK safe : safe = Dish!Safe(parsed)
  OBVIOUS
<1>2. Dish!Safe(parsed') = safe /\ Dish!Safe(parsed)' = safe
  BY <1>1 DEF Dish!Safe, Dish!Conflicts, Dish!Matches
<1>3. PICK near \in Dish!NearKept(safe) :
        /\ offered' = [real |-> Dish!Preferred(Dish!Real(safe), Wanted),
                       near |-> Dish!Preferred(near, MaxNear)]
        /\ warnings' = warnings \cup Dish!LateNotice
             \cup (IF "page" \in failed' THEN {"PAGES_PARTIALLY_UNAVAILABLE"} ELSE {})
             \cup (IF near # {} THEN {"NEAR_DISH_MATCH"} ELSE {})
  BY <1>2 DEF Dish!Gate
<1>4. phase' = "dedupe"
  BY DEF Dish!Gate
<1>5. safe \subseteq parsed /\ parsed \subseteq Dish!Readable
  BY <1>1, GateSubsets DEF DishInv, DishShape
<1>6. Dish!Real(safe) \subseteq Dish!Readable /\ Dish!Near(safe) \subseteq Dish!Readable
  BY <1>5, GateSubsets
<1>7. Wanted \in Nat /\ Wanted > 0 /\ MaxNear \in Nat /\ MaxNear > 0
  BY Limits
<1>8. near \subseteq Dish!Near(safe)
  BY <1>3, <1>6, <1>7, PicksType DEF Dish!NearKept
<1>9. near \subseteq Dish!Readable
  BY <1>6, <1>8
<1>10. /\ offered'.real \subseteq Dish!Real(safe)
       /\ Dish!Real(safe) # {} => offered'.real # {}
  BY <1>3, <1>6, <1>7, PreferredType
<1>11. offered'.near \subseteq Dish!Near(safe)
  <2>1. offered'.near \subseteq near
    BY <1>3, <1>7, <1>9, PreferredType
  <2> QED BY <1>8, <2>1
<1>12. Dish!Real(Dish!Safe(parsed))' = Dish!Real(safe)
       /\ Dish!Near(Dish!Safe(parsed))' = Dish!Near(safe)
  BY <1>1 DEF Dish!Safe, Dish!Conflicts, Dish!Matches, Dish!Real, Dish!Near
<1>13. result = {}
  BY DEF DishInv, GateHeld, Gathering
<1>14. DishShape'
  BY <1>4 DEF DishInv, DishShape, DishPhases
<1>15. SpellingsFirst'
  BY DEF DishInv, SpellingsFirst
<1>16. GateHeld'
  BY <1>2, <1>4, <1>10, <1>11, <1>12, <1>13 DEF GateHeld, Gathering
<1>17. MatchesLead'
  BY <1>4, <1>10, <1>12 DEF MatchesLead, Selected
<1>18. DishGaps'
  <2>1. CASE Dish!aborted
    <3>1. "SEARCH_DEADLINE_REACHED" \in warnings'
      BY <1>3, <2>1 DEF Dish!LateNotice
    <3>2. Late'
      BY <3>1 DEF Late
    <3> QED BY <1>4, <3>2 DEF DishGaps, Gathering
  <2>2. CASE ~ Dish!aborted
    <3>1. queued = 0 \/ Len(seen) >= MaxPages
      BY <2>2 DEF DishInv, DishGaps
    <3>2. waveAt' >= Len(Dish!Considered)' \/ enough'
      BY <2>2 DEF Dish!Considered
    <3> QED BY <1>4, <3>1, <3>2 DEF DishGaps, Gathering
  <2> QED BY <2>1, <2>2
<1>19. DishWarned'
  BY <1>3, <1>4 DEF DishInv, DishWarned, Selected
<1> QED BY <1>14, <1>15, <1>16, <1>17, <1>18, <1>19 DEF DishInv

\* The next wave, or the gate when the pages or the time are spent.
LEMMA DishWaveOrGate ==
  ASSUME DishInv, NEW at \in Nat, Dish!WaveOrGate(at), waveAt' = at,
         UNCHANGED <<kind, seen, queued, searching, variants, parsed, failed, result, deadline>>,
         phase \in {"variants", "fetching"}, variants # "pending"
  PROVE  DishInv'
<1>1. CASE Dish!aborted \/ at >= Len(Dish!Considered)
  <2>1. Dish!Gate /\ wave' = {}
    BY <1>1 DEF Dish!WaveOrGate
  <2> QED BY <1>1, <2>1, DishGated
<1>2. CASE ~ (Dish!aborted \/ at >= Len(Dish!Considered))
  <2>1. /\ wave' = {Dish!Considered[i] :
                      i \in (at + 1)..Dish!Smaller(at + WaveSize, Len(Dish!Considered))}
        /\ phase' = "fetching" /\ UNCHANGED <<offered, warnings>>
    BY <1>2 DEF Dish!WaveOrGate
  <2>2. seen \in Seq(Dish!Readable) /\ MaxPages \in Nat /\ WaveSize \in Nat
    BY Limits DEF DishInv, DishShape
  <2>3. Dish!Smaller(MaxPages, Len(seen)) \in 0..Len(seen)
    BY <2>2 DEF Dish!Smaller
  <2>4. Dish!Considered \in Seq(Dish!Readable)
    <3>1. PICK m : m = Dish!Smaller(MaxPages, Len(seen))
      OBVIOUS
    <3>2. SubSeq(seen, 1, m) \in Seq(Dish!Readable)
      BY <2>2, <2>3, <3>1
    <3> QED BY <3>1, <3>2 DEF Dish!Considered
  <2>5. wave' \subseteq Dish!Readable
    <3>1. ASSUME NEW i \in (at + 1)..Dish!Smaller(at + WaveSize, Len(Dish!Considered))
          PROVE  i \in 1..Len(Dish!Considered)
      BY <2>2, <2>4 DEF Dish!Smaller
    <3> QED BY <2>1, <2>4, <3>1
  <2>6. DishShape'
    BY <2>1, <2>5 DEF DishInv, DishShape, DishPhases
  <2>7. GateHeld' /\ MatchesLead'
    BY <2>1, GatesStand DEF DishInv, Gathering, Selected
  <2>8. SpellingsFirst'
    BY DEF DishInv, SpellingsFirst
  <2>9. DishGaps'
    <3>1. Dish!aborted' <=> Dish!aborted
      BY DEF Dish!aborted
    <3>2. Dish!aborted \/ queued = 0 \/ Len(seen) >= MaxPages
      BY DEF DishInv, DishGaps
    <3> QED BY <2>1, <3>1, <3>2 DEF DishGaps, Selected, Gathering
  <2>10. DishWarned'
    BY <2>1 DEF DishInv, DishWarned, Selected
  <2> QED BY <2>6, <2>7, <2>8, <2>9, <2>10 DEF DishInv
<1> QED BY <1>1, <1>2

LEMMA DishFirstWave ==
  ASSUME DishInv, Dish!FirstWave
  PROVE  DishInv'
<1>1. waveAt = 0
  BY DEF Dish!FirstWave, DishInv, DishGaps, Gathering
<1>2. UNCHANGED <<kind, seen, queued, searching, variants, parsed, failed, result, deadline, waveAt>>
  BY DEF Dish!FirstWave, Dish!found
<1>3. Dish!WaveOrGate(0) /\ phase = "variants" /\ variants # "pending"
  BY DEF Dish!FirstWave
<1> QED BY <1>1, <1>2, <1>3, DishWaveOrGate

LEMMA DishWaveEnds ==
  ASSUME DishInv, Dish!WaveEnds
  PROVE  DishInv'
<1>1. UNCHANGED <<kind, seen, queued, searching, variants, parsed, failed, result, deadline>>
  BY DEF Dish!WaveEnds, Dish!found
<1>2. phase = "fetching" /\ waveAt' = waveAt + WaveSize
  BY DEF Dish!WaveEnds, Dish!AfterWave
<1>3. waveAt + WaveSize \in Nat
  BY Limits DEF DishInv, DishShape
<1>4. variants # "pending"
  BY <1>2 DEF DishInv, SpellingsFirst
<1>5. CASE enough'
  <2>1. Dish!Gate /\ wave' = {}
    BY <1>5 DEF Dish!WaveEnds
  <2> QED BY <1>1, <1>2, <1>3, <1>4, <1>5, <2>1, DishGated
<1>6. CASE ~ enough'
  <2>1. Dish!WaveOrGate(waveAt + WaveSize)
    BY <1>6 DEF Dish!WaveEnds, Dish!AfterWave
  <2> QED BY <1>1, <1>2, <1>3, <1>4, <2>1, DishWaveOrGate
<1> QED BY <1>5, <1>6

LEMMA DishPageReturns ==
  ASSUME DishInv, NEW p \in Pages, Dish!PageReturns(p)
  PROVE  DishInv'
<1>1. /\ phase = "fetching" /\ phase' = "fetching" /\ p \in wave /\ wave' = wave \ {p}
      /\ UNCHANGED <<kind, seen, queued, searching, variants, waveAt, enough,
                     offered, result, warnings, deadline>>
      /\ parsed' = parsed \cup {p} \/ parsed' = parsed
  BY DEF Dish!PageReturns, Dish!found, Dish!answer
<1>2. DishShape'
  BY <1>1 DEF DishInv, DishShape
<1>3. offered.real = {} /\ offered.near = {} /\ result = {}
  BY <1>1 DEF DishInv, GateHeld, Gathering
<1>4. GateHeld'
  BY <1>1, <1>3 DEF GateHeld
<1>5. MatchesLead'
  BY <1>1 DEF MatchesLead, Selected
<1>6. SpellingsFirst'
  BY <1>1 DEF DishInv, SpellingsFirst
<1>7. DishGaps'
  <2>1. Dish!aborted' <=> Dish!aborted
    BY <1>1 DEF Dish!aborted
  <2> QED BY <1>1, <2>1 DEF DishInv, DishGaps, Selected, Gathering
<1>8. DishWarned'
  <2>1. "search" \in failed' => "search" \in failed
    BY DEF Dish!PageReturns
  <2> QED BY <1>1, <2>1 DEF DishInv, DishWarned, Selected
<1> QED BY <1>2, <1>4, <1>5, <1>6, <1>7, <1>8 DEF DishInv

\* What follows the selection keeps the recipes and adds warnings.
LEMMA DishSummarizes ==
  ASSUME NEW notes, Dish!Summarize(notes)
  PROVE  phase' \in {"summary", "done"} /\ warnings \cup notes \subseteq warnings'
BY DEF Dish!Summarize

LEMMA DishDeduplicated ==
  ASSUME DishInv, Dish!Deduplicated
  PROVE  DishInv'
<1>1. /\ phase = "dedupe"
      /\ UNCHANGED <<kind, seen, queued, searching, variants, waveAt, wave, parsed, enough,
                     failed, offered, deadline>>
  BY DEF Dish!Deduplicated, Dish!found, Dish!reading
<1>2. phase' \in Selected /\ warnings \subseteq warnings'
      /\ (result' = {} => "NO_MATCHING_DISH" \in warnings')
  <2>1. PICK foreign \in BOOLEAN :
          IF foreign /\ result' # {} /\ deadline = "ample"
            THEN phase' = "translation" /\ warnings' = warnings \cup Dish!EmptyNotice
            ELSE Dish!Summarize(Dish!EmptyNotice \cup
                   (IF foreign /\ result' # {} /\ ~ Dish!aborted
                      THEN {"TRANSLATION_SKIPPED"} ELSE {}))
    BY DEF Dish!Deduplicated
  <2>2. result' = {} => "NO_MATCHING_DISH" \in Dish!EmptyNotice
    BY DEF Dish!EmptyNotice
  <2>3. CASE foreign /\ result' # {} /\ deadline = "ample"
    BY <2>1, <2>3 DEF Selected
  <2>4. CASE ~ (foreign /\ result' # {} /\ deadline = "ample")
    <3>1. PICK notes : notes = Dish!EmptyNotice \cup
                         (IF foreign /\ result' # {} /\ ~ Dish!aborted
                            THEN {"TRANSLATION_SKIPPED"} ELSE {})
      OBVIOUS
    <3>2. Dish!Summarize(notes) /\ Dish!EmptyNotice \subseteq notes
      BY <2>1, <2>4, <3>1
    <3> QED BY <2>2, <3>2, DishSummarizes DEF Selected
  <2> QED BY <2>3, <2>4
<1>3. PICK S : S = offered.real \cup offered.near
  OBVIOUS
<1>4. PICK D : D = Dish!Distinct(kind, S, group')
  OBVIOUS
<1>5. result' \in Dish!Select(D)
  BY <1>3, <1>4 DEF Dish!Deduplicated
<1>6. /\ offered.real \subseteq Dish!Real(Dish!Safe(parsed))
      /\ offered.near \subseteq Dish!Near(Dish!Safe(parsed))
  BY DEF DishInv, GateHeld
<1>7. S \subseteq Dish!Safe(parsed) /\ S \subseteq Dish!Real(S) \cup Dish!Near(S)
  BY <1>3, <1>6 DEF Dish!Real, Dish!Near
<1>8. kind \in [Dish!Readable -> Kinds] /\ parsed \subseteq Dish!Readable
  BY DEF DishInv, DishShape
<1>9. S \subseteq Dish!Readable
  BY <1>7, <1>8, GateSubsets
<1>10. D \subseteq S /\ (S # {} => D # {})
  BY <1>4, <1>8, <1>9, DistinctType
<1>11. D \subseteq Dish!Real(D) \cup Dish!Near(D) /\ D \subseteq Dish!Readable
  BY <1>7, <1>9, <1>10 DEF Dish!Real, Dish!Near
<1>12. result' \subseteq D /\ (D # {} => result' # {})
  BY <1>5, <1>11, SelectType
<1>13. Dish!Safe(parsed)' = Dish!Safe(parsed)
  BY <1>1 DEF Dish!Safe, Dish!Conflicts, Dish!Matches
<1>14. Dish!Real(Dish!Safe(parsed))' = Dish!Real(Dish!Safe(parsed))
       /\ Dish!Near(Dish!Safe(parsed))' = Dish!Near(Dish!Safe(parsed))
  BY <1>1 DEF Dish!Safe, Dish!Conflicts, Dish!Matches, Dish!Real, Dish!Near
<1>15. DishShape'
  BY <1>1, <1>2 DEF DishInv, DishShape, DishPhases, Selected
<1>16. SpellingsFirst'
  BY <1>1 DEF DishInv, SpellingsFirst
<1>17. GateHeld'
  BY <1>1, <1>2, <1>6, <1>7, <1>10, <1>12, <1>13, <1>14 DEF GateHeld, Gathering, Selected
<1>18. MatchesLead'
  <2>1. ASSUME Dish!Real(Dish!Safe(parsed)) # {} PROVE offered.real # {} /\ result' # {}
    <3>1. offered.real # {}
      BY <1>1, <2>1 DEF DishInv, MatchesLead
    <3>2. S # {}
      BY <1>3, <3>1
    <3> QED BY <1>10, <1>12, <3>1, <3>2
  <2> QED BY <1>1, <1>14, <2>1 DEF MatchesLead
<1>19. DishGaps'
  <2>1. Dish!Considered' = Dish!Considered /\ (Late => Late')
    BY <1>1, <1>2 DEF Dish!Considered, Late
  <2> QED BY <1>1, <1>2, <2>1 DEF DishInv, DishGaps, Selected, Gathering
<1>20. DishWarned'
  BY <1>1, <1>2 DEF DishInv, DishWarned, Selected
<1> QED BY <1>15, <1>16, <1>17, <1>18, <1>19, <1>20 DEF DishInv

LEMMA DishAfterwards ==
  ASSUME DishInv, Dish!Translated \/ Dish!Summarized
  PROVE  DishInv'
<1>1. /\ phase \in {"translation", "summary"} /\ phase' \in {"summary", "done"}
      /\ warnings \subseteq warnings'
      /\ UNCHANGED <<kind, seen, queued, searching, variants, waveAt, wave, parsed, enough,
                     failed, offered, result, deadline>>
  <2>1. CASE Dish!Translated
    BY <2>1, DishSummarizes DEF Dish!Translated, Dish!found, Dish!reading, Dish!answer
  <2>2. CASE Dish!Summarized
    BY <2>2 DEF Dish!Summarized, Dish!found, Dish!reading, Dish!answer
  <2> QED BY <2>1, <2>2
<1>2. DishShape'
  BY <1>1 DEF DishInv, DishShape, DishPhases
<1>3. SpellingsFirst'
  BY <1>1 DEF DishInv, SpellingsFirst, Selected
<1>4. GateHeld' /\ MatchesLead'
  BY <1>1, GatesStand DEF DishInv, Gathering, Selected
<1>5. DishGaps'
  <2>1. Dish!Considered' = Dish!Considered /\ (Late => Late')
    BY <1>1 DEF Dish!Considered, Late
  <2> QED BY <1>1, <2>1 DEF DishInv, DishGaps, Selected, Gathering
<1>6. DishWarned'
  BY <1>1 DEF DishInv, DishWarned, Selected
<1> QED BY <1>2, <1>3, <1>4, <1>5, <1>6 DEF DishInv

LEMMA DishDeadlineMoves ==
  ASSUME DishInv, Dish!DeadlineMoves
  PROVE  DishInv'
<1>1. UNCHANGED <<phase, kind, seen, queued, searching, variants, waveAt, wave, parsed, enough,
                  failed, offered, result, warnings>>
  BY DEF Dish!DeadlineMoves, Dish!found, Dish!reading, Dish!answer
<1>2. ~ Dish!aborted
  BY DEF Dish!DeadlineMoves, Dish!aborted
<1>3. DishShape' /\ SpellingsFirst' /\ DishWarned'
  BY <1>1 DEF DishInv, DishShape, SpellingsFirst, DishWarned
<1>4. GateHeld' /\ MatchesLead'
  BY <1>1, GatesStand DEF DishInv
<1>5. DishGaps'
  <2>1. Dish!Considered' = Dish!Considered /\ (Late => Late')
    BY <1>1 DEF Dish!Considered, Late
  <2> QED BY <1>1, <1>2, <2>1 DEF DishInv, DishGaps
<1> QED BY <1>3, <1>4, <1>5 DEF DishInv

LEMMA DishStep ==
  ASSUME DishInv, Dish!Next
  PROVE  DishInv'
<1>1. CASE Dish!PipelineStep
  <2>1. CASE Dish!Begin
    BY <2>1, DishBegins
  <2>2. CASE Dish!SearchReturns
    BY <2>2, DishSearchReturns
  <2>3. CASE Dish!AliasesAnswer \/ Dish!VariantsAnswer
    BY <2>3, DishServicesAnswer
  <2>4. CASE Dish!AliasesSearched
    BY <2>4, DishAliasesSearched
  <2>5. CASE Dish!VariantsKnown
    BY <2>5, DishVariantsKnown
  <2>6. CASE Dish!FirstWave
    BY <2>6, DishFirstWave
  <2>7. CASE \E p \in Pages : Dish!PageReturns(p)
    BY <2>7, DishPageReturns
  <2>8. CASE Dish!WaveEnds
    BY <2>8, DishWaveEnds
  <2>9. CASE Dish!Deduplicated
    BY <2>9, DishDeduplicated
  <2>10. CASE Dish!Translated \/ Dish!Summarized
    BY <2>10, DishAfterwards
  <2> QED BY <1>1, <2>1, <2>2, <2>3, <2>4, <2>5, <2>6, <2>7, <2>8, <2>9, <2>10
          DEF Dish!PipelineStep
<1>2. CASE Dish!DeadlineMoves
  BY <1>2, DishDeadlineMoves
<1> QED BY <1>1, <1>2 DEF Dish!Next

-----------------------------------------------------------------------------
(* The recommendations                                                     *)

\* The gates narrow; the ideas narrow, but never to nothing.
LEMMA StockGates ==
  /\ \A S : Stock!Safe(S) \subseteq S
  /\ \A S : Stock!HoldsTarget(S) \subseteq S
  /\ \A S : Stock!OfMealType(S) \subseteq S
  /\ \A S : Stock!Backed(S) \subseteq S
  /\ \A S, T : S \subseteq T => Stock!Safe(S) \subseteq Stock!Safe(T)
BY DEF Stock!Safe, Stock!HoldsTarget, Stock!OfMealType, Stock!Backed

LEMMA DeepStays ==
  ASSUME UNCHANGED <<kind, request, recipes>>
  PROVE  PoolDeep' <=> PoolDeep
<1>1. Stock!Gate(Stock!Safe(recipes))' = Stock!Gate(Stock!Safe(recipes))
  BY DEF Stock!Gate, Stock!Safe, Stock!Conflicts, Stock!HoldsTarget
<1> QED BY <1>1 DEF PoolDeep

LEMMA MealFilteredType ==
  ASSUME NEW S, S \subseteq Dish!Readable
  PROVE  Stock!MealFiltered(S) \subseteq S /\ (S # {} => Stock!MealFiltered(S) # {})
<1>1. PICK M : M = Stock!OfMealType(S)
  OBVIOUS
<1>2. M \subseteq S /\ Wanted \in Nat /\ Wanted > 0
  BY <1>1, StockGates, Limits
<1>3. Stock!FilterWhenEnough(S, M, Wanted) \subseteq S
      /\ (S # {} => Stock!FilterWhenEnough(S, M, Wanted) # {})
  BY <1>2, FilterType
<1> QED BY <1>1, <1>3 DEF Stock!MealFiltered

LEMMA VerifiedType ==
  ASSUME NEW S, S \subseteq Dish!Readable
  PROVE  Stock!Verified(S) \subseteq S /\ (S # {} => Stock!Verified(S) # {})
<1>1. PICK M : M = Stock!Backed(S)
  OBVIOUS
<1>2. M \subseteq S /\ Wanted \in Nat /\ Wanted > 0
  BY <1>1, StockGates, Limits
<1>3. Stock!FilterWhenEnough(S, M, Wanted) \subseteq S
      /\ (S # {} => Stock!FilterWhenEnough(S, M, Wanted) # {})
  BY <1>2, FilterType
<1>4. Stock!Verified(S) = IF ~ ideas THEN S
                          ELSE IF request.meal /\ M # {} THEN M
                          ELSE Stock!FilterWhenEnough(S, M, Wanted)
  BY <1>1 DEF Stock!Verified
<1> QED BY <1>2, <1>3, <1>4

\* Recipes without a required ingredient are only let through when none with it
\* is left.
LEMMA RelaxedType ==
  ASSUME NEW S, S \subseteq Dish!Readable
  PROVE  /\ Stock!Relaxed(S) \subseteq S
         /\ request.target /\ Stock!HoldsTarget(S) # {} =>
              Stock!Relaxed(S) = Stock!HoldsTarget(S)
         /\ ~ request.target => Stock!Relaxed(S) = S
<1>1. Stock!Gate(S) = IF request.target THEN Stock!HoldsTarget(S) ELSE S
  BY DEF Stock!Gate
<1>2. Stock!Relaxed(S) = IF ideas /\ request.target /\ Stock!Gate(S) = {}
                           THEN Stock!Verified(S) ELSE Stock!Gate(S)
  BY DEF Stock!Relaxed
<1>3. Stock!Gate(S) \subseteq S
  BY <1>1, StockGates
<1>4. Stock!Relaxed(S) \subseteq S
  BY <1>2, <1>3, VerifiedType
<1> QED BY <1>1, <1>2, <1>4

LEMMA StockInitially ==
  ASSUME Stock!Init
  PROVE  StockInv
<1>1. /\ phase = "start" /\ kind \in [Stock!Readable -> Kinds] /\ left = 0 /\ seen = <<>>
      /\ wave = {} /\ parsed = {} /\ recipes = {} /\ failed = {} /\ preGatePool = {}
      /\ result = {}
  BY DEF Stock!Init
<1>2. StockShape
  BY <1>1 DEF StockShape
<1>3. AnswerGated
  BY <1>1 DEF AnswerGated
<1>4. SafeLeads /\ StockGaps /\ StockWarned
  BY <1>1 DEF SafeLeads, StockGaps, StockWarned, Settled, Chosen
<1> QED BY <1>2, <1>3, <1>4 DEF StockInv

\* The waves change neither the gates nor the answer, and only add recipes.
LEMMA AnswerStands ==
  ASSUME AnswerGated, UNCHANGED <<kind, request, preGatePool, result>>, recipes \subseteq recipes'
  PROVE  AnswerGated'
<1>1. Stock!Safe(recipes)' = Stock!Safe(recipes')
  BY DEF Stock!Safe, Stock!Conflicts
<1>2. Stock!HoldsTarget(preGatePool)' = Stock!HoldsTarget(preGatePool)
      /\ Stock!HoldsTarget(result)' = Stock!HoldsTarget(result)
  BY DEF Stock!HoldsTarget
<1>3. Stock!Safe(recipes) \subseteq Stock!Safe(recipes')
  BY StockGates
<1> QED BY <1>1, <1>2, <1>3 DEF AnswerGated

LEMMA NextWaveType ==
  ASSUME NEW n \in Nat, Stock!NextWave(n)
  PROVE  /\ phase' = "search" /\ left' \in Nat
         /\ seen' = <<>> /\ parsed' = {} /\ wave' = {}
<1>1. phase' = "search" /\ inWave' = Stock!Smaller(2, n) /\ left' = n - inWave'
      /\ seen' = <<>> /\ parsed' = {} /\ wave' = {}
  BY DEF Stock!NextWave
<1> QED BY <1>1 DEF Stock!Smaller

LEMMA PlanType ==
  ASSUME Stock!Plan
  PROVE  /\ phase' = "search" /\ left' \in Nat
         /\ seen' = <<>> /\ parsed' = {} /\ wave' = {}
<1>1. PICK n \in 1..MaxQueries : Stock!NextWave(n)
  BY DEF Stock!Plan
<1>2. n \in Nat
  BY Limits
<1> QED BY <1>1, <1>2, NextWaveType

LEMMA CollectedType ==
  ASSUME NEW notes, Stock!Collected(notes)
  PROVE  /\ phase' \in {"estimation", "dedupe"} /\ wave' = {} /\ parsed' = {}
         /\ warnings \cup notes \subseteq warnings'
         /\ "page" \in failed' => "PAGES_PARTIALLY_UNAVAILABLE" \in warnings'
BY DEF Stock!Collected

LEMMA StockBegins ==
  ASSUME StockInv, Stock!Begin \/ Stock!IdeationAnswers
  PROVE  StockInv'
<1>1. /\ UNCHANGED <<kind, request, recipes, failed, preGatePool, result, warnings>>
      /\ phase \in {"start", "ideation"}
  BY DEF Stock!Begin, Stock!IdeationAnswers, Stock!answer
<1>2. \/ phase' = "ideation" /\ UNCHANGED <<left, seen, wave, parsed>>
      \/ /\ phase' = "search" /\ left' \in Nat
         /\ seen' = <<>> /\ parsed' = {} /\ wave' = {}
  <2>1. CASE Stock!Plan
    BY <2>1, PlanType
  <2>2. CASE Stock!Begin /\ ~ Stock!Plan
    BY <2>2 DEF Stock!Begin, Stock!waves
  <2> QED BY <2>1, <2>2 DEF Stock!IdeationAnswers
<1>3. <<>> \in Seq(Stock!Readable)
  OBVIOUS
<1>4. StockShape'
  BY <1>1, <1>2, <1>3 DEF StockInv, StockShape, Stock!Readable
<1>5. AnswerGated'
  BY <1>1, AnswerStands DEF StockInv
<1>6. SafeLeads' /\ StockGaps'
  BY <1>2 DEF SafeLeads, StockGaps, Settled, Chosen
<1>7. StockWarned'
  BY <1>1, <1>2 DEF StockInv, StockWarned, Late, Chosen
<1> QED BY <1>4, <1>5, <1>6, <1>7 DEF StockInv

LEMMA StockSearchReturns ==
  ASSUME StockInv, Stock!SearchReturns
  PROVE  StockInv'
<1>1. /\ UNCHANGED <<kind, request, recipes, left, preGatePool, result>>
      /\ phase = "search"
  BY DEF Stock!SearchReturns, Stock!answer
<1>2. "page" \in failed' => "page" \in failed
  BY DEF Stock!SearchReturns
<1>3. seen' \in Seq(Stock!Readable)
  <2>1. seen \in Seq(Dish!Readable)
    BY ReadablePages DEF StockInv, StockShape
  <2>2. CASE \E links \in Stock!SearchResults : seen' = Stock!WithResults(seen, links, seenUrls)
    <3>1. PICK links \in Stock!SearchResults : seen' = Stock!WithResults(seen, links, seenUrls)
      BY <2>2
    <3>2. links \subseteq Pages
      BY DEF Stock!SearchResults
    <3>3. seen' \in Seq(Dish!Readable)
      BY <2>1, <3>1, <3>2, PoolType
    <3> QED BY <3>3, ReadablePages
  <2>3. CASE seen' = seen
    BY <2>1, <2>3, ReadablePages
  <2> QED BY <2>2, <2>3 DEF Stock!SearchReturns
<1>4. PICK pages : pages = Stock!Found(seen')
  OBVIOUS
<1>5. pages \subseteq Stock!Readable /\ (pages = {} => seen' = <<>>)
  BY <1>3, <1>4 DEF Stock!Found
<1>6. "search" \in failed' => "SEARCH_PARTIALLY_UNAVAILABLE" \in Stock!SearchNotice
  BY DEF Stock!SearchNotice
<1>7. \/ UNCHANGED <<phase, wave, parsed, warnings>>
      \/ pages = {} /\ Stock!Collected(Stock!SearchNotice)
      \/ /\ phase' = "fetch" /\ wave' = pages /\ parsed' = parsed
         /\ warnings' = warnings \cup Stock!SearchNotice
  BY <1>4 DEF Stock!SearchReturns
<1>8. AnswerGated'
  BY <1>1, AnswerStands DEF StockInv
<1>9. CASE UNCHANGED <<phase, wave, parsed, warnings>>
  <2>1. StockShape'
    BY <1>1, <1>3, <1>9 DEF StockInv, StockShape, Stock!Readable
  <2>2. SafeLeads' /\ StockGaps' /\ StockWarned'
    BY <1>1, <1>9 DEF SafeLeads, StockGaps, StockWarned, Settled, Chosen
  <2> QED BY <1>8, <2>1, <2>2 DEF StockInv
<1>10. CASE pages = {} /\ Stock!Collected(Stock!SearchNotice)
  <2>1. /\ phase' \in {"estimation", "dedupe"} /\ wave' = {} /\ parsed' = {}
        /\ Stock!SearchNotice \subseteq warnings'
        /\ "page" \in failed' => "PAGES_PARTIALLY_UNAVAILABLE" \in warnings'
    BY <1>10, CollectedType
  <2>2. seen' = <<>>
    BY <1>5, <1>10
  <2>3. StockShape'
    BY <1>1, <1>3, <2>1 DEF StockInv, StockShape, Stock!Readable, Settled
  <2>4. SafeLeads' /\ StockGaps'
    BY <2>1, <2>2 DEF SafeLeads, StockGaps, Chosen
  <2>5. StockWarned'
    BY <1>6, <2>1 DEF StockWarned, Chosen
  <2> QED BY <1>8, <2>3, <2>4, <2>5 DEF StockInv
<1>11. CASE /\ phase' = "fetch" /\ wave' = pages /\ parsed' = parsed
            /\ warnings' = warnings \cup Stock!SearchNotice
  <2>1. StockShape'
    BY <1>1, <1>3, <1>5, <1>11 DEF StockInv, StockShape, Stock!Readable
  <2>2. SafeLeads' /\ StockGaps'
    BY <1>11 DEF SafeLeads, StockGaps, Settled, Chosen
  <2>3. StockWarned'
    BY <1>6, <1>11 DEF StockWarned, Chosen
  <2> QED BY <1>8, <2>1, <2>2, <2>3 DEF StockInv
<1> QED BY <1>7, <1>9, <1>10, <1>11

LEMMA StockPageReturns ==
  ASSUME StockInv, NEW p \in Pages, Stock!PageReturns(p)
  PROVE  StockInv'
<1>1. /\ UNCHANGED <<phase, kind, request, recipes, left, seen, failed, preGatePool, result,
                     warnings>>
      /\ phase = "fetch" /\ p \in wave /\ wave' = wave \ {p}
      /\ parsed' = parsed \cup {p} \/ parsed' = parsed
  BY DEF Stock!PageReturns, Stock!answer
<1>2. StockShape'
  BY <1>1 DEF StockInv, StockShape, Stock!Readable
<1>3. AnswerGated'
  BY <1>1, AnswerStands DEF StockInv
<1>4. SafeLeads' /\ StockGaps'
  BY <1>1 DEF SafeLeads, StockGaps, Settled, Chosen
<1>5. StockWarned'
  BY <1>1 DEF StockInv, StockWarned, Late, Chosen
<1> QED BY <1>2, <1>3, <1>4, <1>5 DEF StockInv

LEMMA StockWaveEnds ==
  ASSUME StockInv, Stock!WaveEnds
  PROVE  StockInv'
<1>1. /\ UNCHANGED <<kind, request, preGatePool, result>>
      /\ phase = "fetch" /\ recipes' = recipes \cup parsed
      /\ "search" \in failed' => "search" \in failed
  BY DEF Stock!WaveEnds, Stock!answer
<1>2. recipes' \subseteq Stock!Readable /\ left \in Nat
  BY <1>1 DEF StockInv, StockShape
<1>3. AnswerGated'
  BY <1>1, AnswerStands DEF StockInv
<1>4. CASE Stock!Usable >= PoolTarget \/ left = 0
  <2>1. Stock!Collected({}) /\ UNCHANGED <<left, seen>>
    BY <1>4 DEF Stock!WaveEnds
  <2>2. /\ phase' \in {"estimation", "dedupe"} /\ wave' = {} /\ parsed' = {}
        /\ warnings \subseteq warnings'
        /\ "page" \in failed' => "PAGES_PARTIALLY_UNAVAILABLE" \in warnings'
    BY <2>1, CollectedType
  <2>3. StockShape'
    BY <1>1, <1>2, <2>1, <2>2 DEF StockInv, StockShape, Stock!Readable, Settled
  <2>4. Stock!Usable >= PoolTarget => PoolDeep'
    <3>1. Stock!Gate(Stock!Safe(recipes))' = Stock!Gate(Stock!Safe(recipes'))
      BY <1>1 DEF Stock!Gate, Stock!Safe, Stock!Conflicts, Stock!HoldsTarget
    <3>2. Stock!Usable = Cardinality(Stock!Gate(Stock!Safe(recipes')))
      BY SameSets DEF Stock!Usable
    <3> QED BY <3>1, <3>2 DEF PoolDeep
  <2>5. SafeLeads'
    BY <2>2 DEF SafeLeads, Chosen
  <2>6. StockGaps'
    BY <1>4, <2>1, <2>4 DEF StockGaps
  <2>7. StockWarned'
    BY <1>1, <2>2 DEF StockInv, StockWarned, Late, Chosen
  <2> QED BY <1>3, <2>3, <2>5, <2>6, <2>7 DEF StockInv
<1>5. CASE ~ (Stock!Usable >= PoolTarget \/ left = 0)
  <2>1. Stock!NextWave(left) /\ warnings' = warnings
    BY <1>5 DEF Stock!WaveEnds
  <2>2. /\ phase' = "search" /\ left' \in Nat
        /\ seen' = <<>> /\ parsed' = {} /\ wave' = {}
    BY <1>2, <2>1, NextWaveType
  <2>3. <<>> \in Seq(Stock!Readable)
    OBVIOUS
  <2>4. StockShape'
    BY <1>1, <1>2, <2>2, <2>3 DEF StockInv, StockShape, Stock!Readable
  <2>5. SafeLeads' /\ StockGaps' /\ StockWarned'
    BY <2>2 DEF SafeLeads, StockGaps, StockWarned, Settled, Chosen
  <2> QED BY <1>3, <2>4, <2>5 DEF StockInv
<1> QED BY <1>4, <1>5

LEMMA StockEstimated ==
  ASSUME StockInv, Stock!Estimated
  PROVE  StockInv'
<1>1. /\ UNCHANGED <<kind, request, left, seen, wave, parsed, recipes, failed, preGatePool,
                     result>>
      /\ phase = "estimation" /\ phase' = "dedupe" /\ warnings \subseteq warnings'
  BY DEF Stock!Estimated, Stock!waves, Stock!answer
<1>2. StockShape'
  BY <1>1 DEF StockInv, StockShape, Stock!Readable, Settled
<1>3. AnswerGated'
  BY <1>1, AnswerStands DEF StockInv
<1>4. Late => Late'
  BY <1>1 DEF Late
<1>5. SafeLeads'
  BY <1>1 DEF SafeLeads, Chosen
<1>6. StockGaps'
  BY <1>1, <1>4, DeepStays DEF StockInv, StockGaps, Settled
<1>7. StockWarned'
  BY <1>1, <1>4 DEF StockInv, StockWarned, Chosen
<1> QED BY <1>2, <1>3, <1>5, <1>6, <1>7 DEF StockInv

LEMMA StockInterrupted ==
  ASSUME StockInv, Stock!Interrupted
  PROVE  StockInv'
<1>1. UNCHANGED <<kind, request, left, seen, recipes, failed, preGatePool, result>>
  BY DEF Stock!Interrupted, Stock!answer
<1>2. AnswerGated'
  BY <1>1, AnswerStands DEF StockInv
<1>3. CASE phase' = "threw" /\ UNCHANGED <<wave, parsed>>
  <2>1. StockShape'
    BY <1>1, <1>3 DEF StockInv, StockShape, Stock!Readable
  <2>2. SafeLeads' /\ StockGaps' /\ StockWarned'
    BY <1>3 DEF SafeLeads, StockGaps, StockWarned, Settled, Chosen
  <2> QED BY <1>2, <2>1, <2>2 DEF StockInv
<1>4. CASE Stock!Collected({"RECIPE_SEARCH_TIMEOUT"})
  <2>1. /\ phase' \in {"estimation", "dedupe"} /\ wave' = {} /\ parsed' = {}
        /\ "RECIPE_SEARCH_TIMEOUT" \in warnings'
        /\ "page" \in failed' => "PAGES_PARTIALLY_UNAVAILABLE" \in warnings'
    BY <1>4, CollectedType
  <2>2. Late'
    BY <2>1 DEF Late
  <2>3. StockShape'
    BY <1>1, <2>1 DEF StockInv, StockShape, Stock!Readable, Settled
  <2>4. SafeLeads' /\ StockGaps' /\ StockWarned'
    BY <2>1, <2>2 DEF SafeLeads, StockGaps, StockWarned, Chosen
  <2> QED BY <1>2, <2>3, <2>4 DEF StockInv
<1>5. CASE /\ phase = "estimation" /\ phase' = "dedupe"
           /\ warnings \subseteq warnings' /\ UNCHANGED <<wave, parsed>>
  <2>1. StockShape'
    BY <1>1, <1>5 DEF StockInv, StockShape, Stock!Readable, Settled
  <2>2. Late => Late'
    BY <1>5 DEF Late
  <2>3. SafeLeads'
    BY <1>5 DEF SafeLeads, Chosen
  <2>4. StockGaps'
    BY <1>1, <1>5, <2>2, DeepStays DEF StockInv, StockGaps, Settled
  <2>5. StockWarned'
    BY <1>1, <1>5, <2>2 DEF StockInv, StockWarned, Chosen
  <2> QED BY <1>2, <2>1, <2>3, <2>4, <2>5 DEF StockInv
<1> QED BY <1>3, <1>4, <1>5 DEF Stock!Interrupted

LEMMA StockDeduplicated ==
  ASSUME StockInv, Stock!Deduplicated
  PROVE  StockInv'
<1>1. /\ UNCHANGED <<kind, request, left, seen, wave, parsed, recipes, failed, ideas>>
      /\ phase = "dedupe" /\ phase' \in Chosen
      /\ warnings' = warnings \cup Stock!EmptyNotice
  BY DEF Stock!Deduplicated, Stock!waves, Chosen
<1>2. PICK S : S = Stock!Safe(recipes)
  OBVIOUS
<1>3. PICK D : D = Dish!Distinct(kind, S, group')
  OBVIOUS
<1>4. PICK P : P = preGatePool'
  OBVIOUS
<1>5. kind \in [Dish!Readable -> Kinds] /\ recipes \subseteq Dish!Readable
  BY ReadablePages DEF StockInv, StockShape
<1>6. S \subseteq Dish!Readable
  BY <1>2, <1>5, StockGates
<1>7. /\ D \subseteq S /\ (S # {} => D # {})
      /\ Stock!Distinct(kind, S, group') = D
  BY <1>3, <1>5, <1>6, DistinctType
<1>8. P = Stock!MealFiltered(D)
  BY <1>2, <1>4, <1>7 DEF Stock!Deduplicated
<1>9. P \subseteq D /\ (D # {} => P # {})
  BY <1>6, <1>7, <1>8, MealFilteredType
<1>10. P \subseteq Dish!Readable
  BY <1>6, <1>7, <1>9
<1>11. PICK R : R = Stock!Relaxed(P)
  OBVIOUS
<1>12. /\ R \subseteq P
       /\ request.target /\ Stock!HoldsTarget(P) # {} => R = Stock!HoldsTarget(P)
       /\ ~ request.target => R = P
  BY <1>10, <1>11, RelaxedType
<1>13. PICK V : V = Stock!Verified(R)
  OBVIOUS
<1>14. V \subseteq R /\ (R # {} => V # {})
  BY <1>10, <1>12, <1>13, VerifiedType
<1>15. result' \subseteq V /\ (V # {} => result' # {})
  <2>1. result' \in Dish!Picks(V, Wanted)
    BY <1>4, <1>11, <1>13, SamePicks DEF Stock!Deduplicated
  <2>2. V \subseteq Dish!Readable /\ Wanted \in Nat /\ Wanted > 0
    BY <1>10, <1>12, <1>14, Limits
  <2> QED BY <2>1, <2>2, PicksType
<1>16. StockShape'
  BY <1>1 DEF StockInv, StockShape, Stock!Readable, Chosen, Settled
<1>17. Stock!Safe(recipes)' = S
  BY <1>1, <1>2 DEF Stock!Safe, Stock!Conflicts
<1>18. AnswerGated'
  <2>1. result' \subseteq preGatePool' /\ preGatePool' \subseteq S
    BY <1>4, <1>7, <1>9, <1>12, <1>14, <1>15
  <2>2. ASSUME request.target, Stock!HoldsTarget(P) # {}
        PROVE  \A p \in result' : kind[p].target
    <3>1. result' \subseteq Stock!HoldsTarget(P)
      BY <1>12, <1>14, <1>15, <2>2
    <3> QED BY <3>1 DEF Stock!HoldsTarget
  <2>3. Stock!HoldsTarget(preGatePool)' = Stock!HoldsTarget(P)
    BY <1>1, <1>4 DEF Stock!HoldsTarget
  <2>4. ASSUME \A p \in result' : kind[p].target
        PROVE  result' \subseteq Stock!HoldsTarget(result)'
    BY <1>1, <2>4 DEF Stock!HoldsTarget
  <2> QED BY <1>1, <1>17, <2>1, <2>2, <2>3, <2>4 DEF AnswerGated
<1>19. SafeLeads'
  <2>1. ASSUME ~ request.target, S # {} PROVE result' # {}
    BY <1>7, <1>9, <1>12, <1>14, <1>15, <2>1
  <2> QED BY <1>1, <1>17, <2>1 DEF SafeLeads
<1>20. Late => Late'
  BY <1>1 DEF Late
<1>21. StockGaps'
  BY <1>1, <1>20, DeepStays DEF StockInv, StockGaps, Settled
<1>22. StockWarned'
  <2>1. result' = {} => Stock!EmptyNotice \cap {"NO_TARGET_INGREDIENT", "NO_MATCHING_RECIPES"} # {}
    BY DEF Stock!EmptyNotice
  <2> QED BY <1>1, <1>20, <2>1 DEF StockInv, StockWarned, Chosen
<1> QED BY <1>16, <1>18, <1>19, <1>21, <1>22 DEF StockInv

LEMMA StockAfterwards ==
  ASSUME StockInv, Stock!Translated \/ Stock!Summarized
  PROVE  StockInv'
<1>1. /\ UNCHANGED <<kind, request, left, seen, wave, parsed, recipes, failed, preGatePool,
                     result, warnings>>
      /\ phase \in Chosen /\ phase' \in Chosen
  BY DEF Stock!Translated, Stock!Summarized, Stock!waves, Stock!answer, Chosen
<1>2. StockShape'
  BY <1>1 DEF StockInv, StockShape, Stock!Readable, Settled, Chosen
<1>3. AnswerGated'
  BY <1>1, AnswerStands DEF StockInv
<1>4. SafeLeads'
  BY <1>1 DEF StockInv, SafeLeads, Stock!Safe, Stock!Conflicts
<1>5. StockGaps'
  BY <1>1, DeepStays DEF StockInv, StockGaps, Settled, Chosen, Late
<1>6. StockWarned'
  BY <1>1 DEF StockInv, StockWarned, Late, Chosen
<1> QED BY <1>2, <1>3, <1>4, <1>5, <1>6 DEF StockInv

LEMMA StockDeadlineFires ==
  ASSUME StockInv, Stock!DeadlineFires
  PROVE  StockInv'
<1>1. UNCHANGED <<phase, kind, request, left, seen, wave, parsed, recipes, failed,
                  preGatePool, result, warnings>>
  BY DEF Stock!DeadlineFires, Stock!waves, Stock!answer
<1>2. StockShape'
  BY <1>1 DEF StockInv, StockShape, Stock!Readable
<1>3. AnswerGated'
  BY <1>1, AnswerStands DEF StockInv
<1>4. SafeLeads'
  BY <1>1 DEF StockInv, SafeLeads, Stock!Safe, Stock!Conflicts
<1>5. StockGaps' /\ StockWarned'
  BY <1>1, DeepStays DEF StockInv, StockGaps, StockWarned, Late
<1> QED BY <1>2, <1>3, <1>4, <1>5 DEF StockInv

LEMMA StockStep ==
  ASSUME StockInv, Stock!Next
  PROVE  StockInv'
<1>1. CASE Stock!EngineStep
  <2>1. CASE Stock!Begin \/ Stock!IdeationAnswers
    BY <2>1, StockBegins
  <2>2. CASE Stock!SearchReturns
    BY <2>2, StockSearchReturns
  <2>3. CASE \E p \in Pages : Stock!PageReturns(p)
    BY <2>3, StockPageReturns
  <2>4. CASE Stock!WaveEnds
    BY <2>4, StockWaveEnds
  <2>5. CASE Stock!Estimated
    BY <2>5, StockEstimated
  <2>6. CASE Stock!Interrupted
    BY <2>6, StockInterrupted
  <2>7. CASE Stock!Deduplicated
    BY <2>7, StockDeduplicated
  <2>8. CASE Stock!Translated \/ Stock!Summarized
    BY <2>8, StockAfterwards
  <2> QED BY <1>1, <2>1, <2>2, <2>3, <2>4, <2>5, <2>6, <2>7, <2>8 DEF Stock!EngineStep
<1>2. CASE Stock!DeadlineFires
  BY <1>2, StockDeadlineFires
<1> QED BY <1>1, <1>2 DEF Stock!Next

-----------------------------------------------------------------------------
(* The search                                                              *)

\* A step of neither pipeline keeps the invariants.
LEMMA SearchIdles ==
  ASSUME SearchInv, UNCHANGED vars
  PROVE  SearchInv'
<1>1. UNCHANGED <<dishQuery, phase, kind, seen, wave, parsed, failed, result, warnings,
                  deadline>>
  BY DEF vars, shared
<1>2. UNCHANGED <<queued, searching, variants, waveAt, enough, offered>>
  BY DEF vars, dishVars
<1>3. UNCHANGED <<request, left, recipes, preGatePool>>
  BY DEF vars, stockVars
<1>4. CASE dishQuery
  <2>1. DishInv
    BY <1>4 DEF SearchInv
  <2>2. DishShape' /\ SpellingsFirst' /\ DishWarned'
    BY <1>1, <1>2, <2>1 DEF DishInv, DishShape, SpellingsFirst, DishWarned
  <2>3. GateHeld' /\ MatchesLead'
    BY <1>1, <1>2, <2>1, GatesStand DEF DishInv
  <2>4. DishGaps'
    BY <1>1, <1>2, <2>1 DEF DishInv, DishGaps, Dish!aborted, Dish!Considered, Late
  <2> QED BY <1>1, <1>4, <2>2, <2>3, <2>4 DEF SearchInv, DishInv
<1>5. CASE ~ dishQuery
  <2>1. StockInv
    BY <1>5 DEF SearchInv
  <2>2. StockShape'
    BY <1>1, <1>3, <2>1 DEF StockInv, StockShape, Stock!Readable
  <2>3. AnswerGated'
    BY <1>1, <1>3, <2>1, AnswerStands DEF StockInv
  <2>4. SafeLeads'
    BY <1>1, <1>3, <2>1 DEF StockInv, SafeLeads, Stock!Safe, Stock!Conflicts
  <2>5. StockGaps' /\ StockWarned'
    BY <1>1, <1>3, <2>1, DeepStays DEF StockInv, StockGaps, StockWarned, Late
  <2> QED BY <1>1, <1>5, <2>2, <2>3, <2>4, <2>5 DEF SearchInv, StockInv
<1> QED BY <1>4, <1>5

\* The invariant of whichever pipeline the request runs
\* (searchRecipesWithDish in recipeDishSearch.js).
THEOREM SearchInvariant == Spec => []SearchInv
<1>1. Init => SearchInv
  <2> SUFFICES ASSUME Init PROVE SearchInv
    OBVIOUS
  <2>1. DishInv
    BY DishInitially DEF Init
  <2>2. StockInv
    BY StockInitially DEF Init
  <2> QED BY <2>1, <2>2 DEF SearchInv
<1>2. SearchInv /\ [Next]_vars => SearchInv'
  <2> SUFFICES ASSUME SearchInv, [Next]_vars PROVE SearchInv'
    OBVIOUS
  <2>1. CASE dishQuery /\ Dish!Next /\ UNCHANGED <<dishQuery, stockVars>>
    <3>1. DishInv'
      BY <2>1, DishStep DEF SearchInv
    <3> QED BY <2>1, <3>1 DEF SearchInv
  <2>2. CASE ~ dishQuery /\ Stock!Next /\ UNCHANGED <<dishQuery, dishVars>>
    <3>1. StockInv'
      BY <2>2, StockStep DEF SearchInv
    <3> QED BY <2>2, <3>1 DEF SearchInv
  <2>3. CASE UNCHANGED vars
    BY <2>3, SearchIdles
  <2> QED BY <2>1, <2>2, <2>3 DEF Next
<1> QED BY <1>1, <1>2, PTL DEF Spec

\* What every page holds: one of the four ways an ingredient may clash.
LEMMA ClashType ==
  ASSUME NEW k \in [Dish!Readable -> Kinds], NEW p \in Dish!Readable
  PROVE  k[p].clash \in {"no", "plain", "expanded", "excused"}
<1>1. k[p] \in Dish!RecipeKinds
  BY Limits
<1> QED BY <1>1 DEF Dish!RecipeKinds

\* No answer holds an ingredient that the matcher of its request recognises as
\* excluded: findConstraintConflict and applyHardConstraints run over all that
\* is read, after the last spelling is learnt, and nothing that passes later
\* brings a recipe back.
THEOREM ResultsAreSafe == Spec => []SafeResults
<1>1. SearchInv => SafeResults
  <2> SUFFICES ASSUME SearchInv, NEW p \in result
               PROVE  kind[p].clash \in
                        {"no", IF dishQuery /\ variants = "known" THEN "excused" ELSE "expanded"}
    BY DEF SafeResults
  <2>1. CASE dishQuery
    <3>1. result \subseteq Dish!Safe(parsed) /\ parsed \subseteq Dish!Readable
          /\ kind \in [Dish!Readable -> Kinds]
      BY <2>1 DEF SearchInv, DishInv, GateHeld, DishShape
    <3>2. p \in Dish!Readable /\ ~ Dish!Conflicts(p)
      BY <3>1 DEF Dish!Safe
    <3>3. kind[p].clash \in {"no", "plain", "expanded", "excused"}
      BY <3>1, <3>2, ClashType
    <3> QED BY <2>1, <3>2, <3>3 DEF Dish!Conflicts, Dish!Matches
  <2>2. CASE ~ dishQuery
    <3>1. result \subseteq Stock!Safe(recipes) /\ recipes \subseteq Dish!Readable
          /\ kind \in [Dish!Readable -> Kinds]
      BY <2>2, ReadablePages DEF SearchInv, StockInv, AnswerGated, StockShape
    <3>2. p \in Dish!Readable /\ ~ Stock!Conflicts(p)
      BY <3>1 DEF Stock!Safe
    <3>3. kind[p].clash \in {"no", "plain", "expanded", "excused"}
      BY <3>1, <3>2, ClashType
    <3> QED BY <2>2, <3>2, <3>3 DEF Stock!Conflicts
  <2> QED BY <2>1, <2>2
<1> QED BY <1>1, SearchInvariant, PTL

\* A recipe without the required ingredient is answered only when no recipe
\* with it was left (filterMissingRequested and the relaxation after it).
THEOREM TargetComesFirst == Spec => []TargetFirst
<1>1. SearchInv => TargetFirst
  BY DEF SearchInv, StockInv, AnswerGated, TargetFirst
<1> QED BY <1>1, SearchInvariant, PTL

\* A safe recipe, of the dish when one is named, leads to a recipe in the
\* answer: filterWhenEnough never narrows to nothing, a duplicate leaves one of
\* its kind, and the selection takes what there is.
THEOREM PreferencesOnlyNarrow == Spec => []PreferencesNeverEmpty
<1>1. SearchInv => PreferencesNeverEmpty
  <2> SUFFICES ASSUME SearchInv, phase = "done", result = {}
               PROVE  IF dishQuery THEN Dish!Real(Dish!Safe(parsed)) = {}
                                   ELSE request.target \/ Stock!Safe(recipes) = {}
    BY DEF PreferencesNeverEmpty
  <2>1. CASE dishQuery
    <3>1. Dish!Real(Dish!Safe(parsed)) = {}
      BY <2>1 DEF SearchInv, DishInv, MatchesLead, Selected
    <3> QED BY <2>1, <3>1
  <2>2. CASE ~ dishQuery
    <3>1. request.target \/ Stock!Safe(recipes) = {}
      BY <2>2 DEF SearchInv, StockInv, SafeLeads, Chosen
    <3> QED BY <2>2, <3>1
  <2> QED BY <2>1, <2>2
<1> QED BY <1>1, SearchInvariant, PTL

\* Failed searches, failed pages of finished waves and an empty answer are in
\* the warnings of both pipelines, and a dish search that stops short of its
\* limits says that its time ran out, for any pages, recipes, limits and timing.
THEOREM GapsAreExplained == Spec => []GapsExplained
<1>1. SearchInv => GapsExplained
  <2> SUFFICES ASSUME SearchInv, phase = "done" PROVE GapsExplained
    BY DEF GapsExplained
  <2>1. CASE dishQuery
    <3>1. Late \/ (/\ queued = 0 \/ Len(seen) >= MaxPages
                   /\ waveAt >= Len(Dish!Considered) \/ enough)
      BY <2>1 DEF SearchInv, DishInv, DishGaps, Selected
    <3>2. /\ "search" \in failed => "SEARCH_PARTIALLY_UNAVAILABLE" \in warnings
          /\ "page" \in failed => "PAGES_PARTIALLY_UNAVAILABLE" \in warnings
          /\ result = {} => "NO_MATCHING_DISH" \in warnings
      BY <2>1 DEF SearchInv, DishInv, DishWarned, Selected
    <3> QED BY <2>1, <3>1, <3>2 DEF GapsExplained, Late
  <2>2. CASE ~ dishQuery
    <3>1. /\ "search" \in failed => Late \/ "SEARCH_PARTIALLY_UNAVAILABLE" \in warnings
          /\ "page" \in failed => "PAGES_PARTIALLY_UNAVAILABLE" \in warnings
          /\ result = {} => warnings \cap {"NO_TARGET_INGREDIENT", "NO_MATCHING_RECIPES"} # {}
      BY <2>2 DEF SearchInv, StockInv, StockWarned, Chosen
    <3> QED BY <2>2, <3>1 DEF GapsExplained, Late
  <2> QED BY <2>1, <2>2
<1> QED BY <1>1, SearchInvariant, PTL

\* The waves of recipeRecommendations.js stop with queries left for three
\* reasons only: no time, enough usable recipes, or a wave without a new page,
\* which no warning mentions.
THEOREM WavesStopForReasons == Spec => []WavesGoOn
<1>1. SearchInv => WavesGoOn
  BY DEF SearchInv, StockInv, StockGaps, Settled, PoolDeep, WavesGoOn
<1> QED BY <1>1, SearchInvariant, PTL
=============================================================================
