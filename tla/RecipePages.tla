----------------------------- MODULE RecipePages -----------------------------
(***************************************************************************)
(* What the two recipe pipelines share (src/src/chat/recipeDishSearch.js   *)
(* and recipeRecommendations.js): links, recipes, preference filters and   *)
(* the removal of duplicate dishes (recipeDedup.js).                       *)
(*                                                                         *)
(* A page stands for the recipe it holds. Its record says what the gates   *)
(* would find out about that recipe.                                       *)
(***************************************************************************)
EXTENDS Naturals, Sequences, FiniteSets

CONSTANTS
  Pages,       \* links a search may return, numbered
  DeniedPages, \* the ones on hosts that carry no recipes
  Kinds,       \* recipes a page may hold
  Dishes,      \* classes of titles that the similarity rule holds equal
  MaxPages,    \* limits.maxPages
  MaxQueries,  \* limits.maxSearchQueries
  Wanted       \* how many recipes the request asks for

\* verdict: whether the recipe is the dish asked for, a near match that keeps
\* its head noun or neither. clash: how an excluded ingredient shows, to the
\* built-in vocabulary, only with the spellings of the language service, or only
\* without the names the service calls a different product. target: it holds the
\* required ingredients. idea: it backs a generated idea.
RecipeKinds ==
  [verdict : {"real", "near", "none"},
   clash : {"no", "plain", "expanded", "excused"},
   dish : Dishes, score : Nat, mealOk : BOOLEAN, inLimits : BOOLEAN,
   target : BOOLEAN, idea : BOOLEAN]

PagesAssumption ==
  /\ Pages \subseteq Nat /\ IsFiniteSet(Pages)
  /\ DeniedPages \subseteq Pages
  /\ Kinds \subseteq RecipeKinds
  /\ {MaxPages, Wanted} \subseteq Nat \ {0}
  /\ MaxQueries \in Nat \ {0, 1}

Readable == Pages \ DeniedPages

Smaller(a, b) == IF a <= b THEN a ELSE b
Larger(a, b) == IF a >= b THEN a ELSE b

\* What a search may return.
SearchResults == SUBSET Pages

\* The links of a response, best first.
InOrder(links) ==
  [n \in 1..Cardinality(links) |->
     CHOOSE p \in links : Cardinality({q \in links : q < p}) = n - 1]

Found(pool) == {pool[i] : i \in DOMAIN pool}

\* The pages of a response, on hosts that are not denied, that are neither in
\* the pool nor among the known ones are added until the pool is full. The
\* limit is looked at after each page, so never before the first one.
WithResults(pool, links, known) ==
  LET readable == links \ DeniedPages
      Fresh(S) == S \ (known \cup Found(pool))
      Earlier(p) == {q \in readable : q < p}
  IN pool \o InOrder({p \in Fresh(readable) :
                        \/ Earlier(p) = {}
                        \/ Len(pool) + Cardinality(Fresh(Earlier(p))) < MaxPages})

\* A preference narrows S to its matches when enough are left.
FilterWhenEnough(S, matches, minimum) ==
  IF Cardinality(matches) >= Smaller(minimum, Cardinality(S)) THEN matches ELSE S

\* Subsets of S with n members, or S when it has no more.
Picks(S, n) == {T \in SUBSET S : Cardinality(T) = Smaller(n, Cardinality(S))}

\* pickRepresentative: the highest score, ties by url.
Representative(kind, cluster) ==
  CHOOSE p \in cluster : \A q \in cluster :
    \/ kind[p].score > kind[q].score
    \/ kind[p].score = kind[q].score /\ p <= q

\* What the deduper may answer: some classes are one dish.
Merges ==
  {[d \in Dishes |-> IF d \in same THEN CHOOSE e \in same : TRUE ELSE d] :
     same \in SUBSET Dishes}

\* dedupeSimilarDishes: titles of one class are one dish, as are classes that
\* the model deduper merged; one recipe of each dish stays.
Distinct(kind, S, merged) ==
  {Representative(kind, {q \in S : merged[kind[q].dish] = merged[kind[p].dish]}) : p \in S}
=============================================================================
