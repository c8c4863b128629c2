---------------------------- MODULE RecipeEngine ----------------------------
(***************************************************************************)
(* Recommendations from the inventory (recommendRecipes in                 *)
(* src/src/chat/recipeRecommendations.js): dish ideas from a model, waves  *)
(* of two searches whose pages are read, estimation of missing metadata,   *)
(* removal of duplicates, the meal type, the required ingredients, the     *)
(* ideas, selection, translation and method summaries.                     *)
(*                                                                         *)
(* Unlike in DishSearch the deadline rejects what is awaited: the engine   *)
(* ends early or goes on with what it has (Interrupted).                   *)
(*                                                                         *)
(* A definition whose comment starts with "Wrong:" is a faulty variant of  *)
(* the next one; no specification uses it.                                 *)
(***************************************************************************)
EXTENDS RecipePages

CONSTANTS
  Requests,  \* what requests may ask for: [target, meal, ideate]
  PoolTarget \* CANDIDATE_POOL_TARGET

\* target: ingredients that the recipe must hold; meal: a meal type; ideate:
\* whether a model is asked for ideas.
EngineAssumption ==
  /\ PagesAssumption
  /\ Requests \subseteq [target : BOOLEAN, meal : BOOLEAN, ideate : BOOLEAN]
  /\ PoolTarget \in Nat \ {0}

VARIABLES
  phase,      \* the await the engine stands at
  kind,       \* the recipe of each page on a host that is not denied
  request,
  ideas,      \* ideaPlan is not null
  left,       \* queries of the plan that no wave has taken
  inWave,     \* queries of the current wave that have not answered
  queriesRun, \* searchesRun
  seen,       \* pages that the current wave found
  seenUrls,   \* pages of all waves that were read or are being read
  wave,       \* pages of the current wave that are still read
  parsed,     \* pages of the current wave whose recipe was read
  recipes,    \* aggregate.recipes
  failed,     \* what failed: "search", or "page" once its wave has ended
  lost,       \* a page of the current wave could not be read
  preGatePool,\* the recipes before the required ingredients are looked at
  group,      \* titles that the model deduper merged
  result,     \* selected
  warnings,
  deadline    \* "ample", "over" or, when the client went first, "left"

waves == <<left, inWave, queriesRun, seen, seenUrls, wave, parsed, lost>>
answer == <<preGatePool, group, result>>
vars == <<phase, kind, request, ideas, waves, recipes, failed, answer, warnings, deadline>>

-----------------------------------------------------------------------------
(* Gates                                                                   *)

\* createConstraintRules: only the built-in vocabulary is known.
Conflicts(p) == kind[p].clash \in {"plain", "excused"}

\* applyHardConstraints
Safe(S) == {p \in S : ~ Conflicts(p)}

HoldsTarget(S) == {p \in S : kind[p].target}

\* mealTypeSignal: recipes that do not signal another meal type
OfMealType(S) == {p \in S : kind[p].mealOk}

\* filterMealTypeMismatches, and the same test again around it.
MealFiltered(S) ==
  IF request.meal THEN FilterWhenEnough(S, OfMealType(S), Wanted) ELSE S

\* filterMissingRequested
Gate(S) == IF request.target THEN HoldsTarget(S) ELSE S

\* bestIdeaMatch: recipes that back one of the ideas
Backed(S) == {p \in S : kind[p].idea}

\* applyIdeaVerification
Verified(S) ==
  IF ~ ideas THEN S
  ELSE IF request.meal /\ Backed(S) # {} THEN Backed(S)
  ELSE FilterWhenEnough(S, Backed(S), Wanted)

\* When no recipe holds the required ingredients, the ideas are tried on the
\* recipes from before that gate.
Relaxed(S) ==
  IF ideas /\ request.target /\ Gate(S) = {} THEN Verified(S) ELSE Gate(S)

-----------------------------------------------------------------------------
Init ==
  /\ phase = "start"
  /\ kind \in [Readable -> Kinds]
  /\ request \in Requests
  /\ ideas = FALSE
  /\ left = 0 /\ inWave = 0 /\ queriesRun = 0
  /\ seen = <<>> /\ seenUrls = {}
  /\ wave = {} /\ parsed = {} /\ lost = FALSE
  /\ recipes = {} /\ failed = {}
  /\ preGatePool = {} /\ group = [d \in Dishes |-> d] /\ result = {}
  /\ warnings = {}
  /\ deadline = "ample"

\* Two queries of the n that are left.
NextWave(n) ==
  /\ phase' = "search"
  /\ inWave' = Smaller(2, n)
  /\ left' = n - inWave'
  /\ queriesRun' = queriesRun + inWave'
  /\ seen' = <<>> /\ parsed' = {} /\ lost' = FALSE /\ wave' = {}

\* buildQueryPlan, buildIdeaQueryPlan: one query at least.
Plan == \E n \in 1..MaxQueries : NextWave(n)

Begin ==
  /\ phase = "start"
  /\ IF request.ideate THEN phase' = "ideation" /\ UNCHANGED waves
                       ELSE Plan /\ UNCHANGED seenUrls
  /\ UNCHANGED <<kind, request, ideas, recipes, failed, answer, warnings, deadline>>

\* Usable ideas, none, or an error.
IdeationAnswers ==
  /\ phase = "ideation"
  /\ deadline = "ample"
  /\ ideas' \in BOOLEAN
  /\ Plan
  /\ UNCHANGED <<kind, request, seenUrls, recipes, failed, answer, warnings, deadline>>

\* After the waves: warnings about pages, then estimation when metadata are
\* missing. Once the time is spent the estimation is skipped.
Collected(notes) ==
  /\ wave' = {} /\ parsed' = {} /\ lost' = FALSE
  /\ \E missing \in IF recipes' = {} THEN {FALSE} ELSE BOOLEAN :
       LET skipped == missing /\ deadline # "ample"
       IN /\ phase' = IF missing /\ ~ skipped THEN "estimation" ELSE "dedupe"
          /\ warnings' = warnings \cup notes
               \cup (IF "page" \in failed' THEN {"PAGES_PARTIALLY_UNAVAILABLE"} ELSE {})
               \cup (IF skipped THEN {"METADATA_ESTIMATION_PARTIAL"} ELSE {})

SearchNotice ==
  IF "search" \in failed' THEN {"SEARCH_PARTIALLY_UNAVAILABLE"} ELSE {}

\* A search answers or fails; the next one of the wave follows unless the pool
\* is full. With the last one the pages are read, or, when there are none, the
\* waves end, whatever queries are left, and no warning says so.
SearchReturns ==
  /\ phase = "search"
  /\ deadline = "ample"
  /\ \/ /\ \E links \in SearchResults : seen' = WithResults(seen, links, seenUrls)
        /\ UNCHANGED failed
     \/ /\ failed' = failed \cup {"search"}
        /\ UNCHANGED seen
  /\ inWave' = IF Len(seen') >= MaxPages THEN 0 ELSE inWave - 1
  /\ UNCHANGED <<kind, request, ideas, left, queriesRun, recipes, answer, deadline>>
  /\ LET pages == Found(seen')
     IN CASE inWave' > 0 -> UNCHANGED <<phase, wave, parsed, lost, seenUrls, warnings>>
          [] inWave' = 0 /\ pages = {} -> Collected(SearchNotice) /\ UNCHANGED seenUrls
          [] OTHER -> /\ phase' = "fetch"
                      /\ wave' = pages
                      /\ seenUrls' = seenUrls \cup pages
                      /\ warnings' = warnings \cup SearchNotice
                      /\ UNCHANGED <<parsed, lost>>

\* A page's recipe is parsed or extracted, or it has none, or cannot be read.
PageReturns(p) ==
  /\ phase = "fetch"
  /\ deadline = "ample"
  /\ p \in wave
  /\ wave' = wave \ {p}
  /\ \/ parsed' = parsed \cup {p} /\ UNCHANGED lost
     \/ UNCHANGED <<parsed, lost>>
     \/ lost' = TRUE /\ UNCHANGED parsed
  /\ UNCHANGED <<phase, kind, request, ideas, left, inWave, queriesRun, seen, seenUrls,
                 recipes, failed, answer, warnings, deadline>>

\* Wrong: every recipe that was read counts.
UsableRead == Cardinality(recipes')

\* usableRequired: the safe recipes that hold the required ingredients.
Usable == Cardinality(Gate(Safe(recipes')))

\* fetchRecipePages returns: the wave counts, and the waves go on until the
\* pool is deep enough.
WaveEnds ==
  /\ phase = "fetch"
  /\ wave = {}
  /\ deadline = "ample"
  /\ recipes' = recipes \cup parsed
  /\ failed' = IF lost THEN failed \cup {"page"} ELSE failed
  /\ IF Usable >= PoolTarget \/ left = 0
       THEN Collected({}) /\ UNCHANGED <<left, inWave, queriesRun, seen>>
       ELSE NextWave(left) /\ UNCHANGED warnings
  /\ UNCHANGED <<kind, request, ideas, seenUrls, answer, deadline>>

Estimated ==
  /\ phase = "estimation"
  /\ deadline = "ample"
  /\ phase' = "dedupe"
  /\ \E partial \in SUBSET {"METADATA_ESTIMATION_PARTIAL"} : warnings' = warnings \cup partial
  /\ UNCHANGED <<kind, request, ideas, waves, recipes, failed, answer, deadline>>

\* The deadline rejects what is awaited. Only a search that has begun outlives a
\* time-out; none outlives the client. The pages of a wave that is cut off are
\* not counted, neither the ones that were read nor the ones that failed.
Interrupted ==
  /\ deadline # "ample"
  /\ UNCHANGED <<recipes, failed>>
  /\ \/ /\ \/ phase = "ideation"
           \/ phase \in {"search", "fetch", "estimation"} /\ deadline = "left"
        /\ phase' = "threw"
        /\ UNCHANGED <<wave, parsed, lost, warnings>>
     \/ /\ phase \in {"search", "fetch"} /\ deadline = "over"
        /\ Collected({"RECIPE_SEARCH_TIMEOUT"})
     \/ /\ phase = "estimation" /\ deadline = "over"
        /\ phase' = "dedupe"
        /\ warnings' = warnings \cup {"METADATA_ESTIMATION_PARTIAL"}
        /\ UNCHANGED <<wave, parsed, lost>>
  /\ UNCHANGED <<kind, request, ideas, left, inWave, queriesRun, seen, seenUrls,
                 answer, deadline>>

EmptyNotice ==
  IF result' # {} THEN {}
  ELSE IF request.target THEN {"NO_TARGET_INGREDIENT"} ELSE {"NO_MATCHING_RECIPES"}

\* The deduper answers; gates and selection follow.
Deduplicated ==
  /\ phase = "dedupe"
  /\ group' \in Merges
  /\ preGatePool' = MealFiltered(Distinct(kind, Safe(recipes), group'))
  /\ result' \in Picks(Verified(Relaxed(preGatePool')), Wanted)
  /\ warnings' = warnings \cup EmptyNotice
  /\ phase' \in IF result' = {} THEN {"done"} ELSE {"translation", "summary", "done"}
  /\ UNCHANGED <<kind, request, ideas, waves, recipes, failed, deadline>>

\* Translations and summaries keep the recipes, whether they succeed or not.
Translated ==
  /\ phase = "translation"
  /\ phase' \in {"summary", "done"}
  /\ UNCHANGED <<kind, request, ideas, waves, recipes, failed, answer, warnings, deadline>>

Summarized ==
  /\ phase = "summary"
  /\ phase' = "done"
  /\ UNCHANGED <<kind, request, ideas, waves, recipes, failed, answer, warnings, deadline>>

\* createLinkedDeadline: the timer fires, or the client's signal is forwarded.
\* The controller takes the first of them. Later than this it changes nothing.
DeadlineFires ==
  /\ phase \in {"ideation", "search", "fetch", "estimation"}
  /\ deadline = "ample"
  /\ deadline' \in {"over", "left"}
  /\ UNCHANGED <<phase, kind, request, ideas, waves, recipes, failed, answer, warnings>>

EngineStep ==
  \/ Begin \/ IdeationAnswers \/ SearchReturns \/ (\E p \in Pages : PageReturns(p))
  \/ WaveEnds \/ Estimated \/ Interrupted \/ Deduplicated \/ Translated \/ Summarized

Next == EngineStep \/ DeadlineFires

Spec == Init /\ [][Next]_vars

\* Searches, pages and helper calls all carry a timeout of their own.
FairSpec == Spec /\ WF_vars(EngineStep)
=============================================================================
