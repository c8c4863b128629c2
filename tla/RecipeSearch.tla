---------------------------- MODULE RecipeSearch ----------------------------
(***************************************************************************)
(* The recipe tool's search (searchRecipesWithDish in                      *)
(* src/src/chat/recipeDishSearch.js): a request that names a dish runs     *)
(* DishSearch, any other runs RecipeEngine. The variables that both have   *)
(* are shared; those of the pipeline that does not run keep their first    *)
(* values.                                                                 *)
(***************************************************************************)
EXTENDS Naturals, Sequences, FiniteSets

CONSTANTS
  Pages, DeniedPages, Dishes, MaxPages, MaxQueries, Wanted,
  DishKinds,  \* recipes that pages hold when a dish is asked for
  StockKinds, \* recipes that pages hold when none is
  AliasModes, SearchWorkers, WaveSize, MaxNear, \* of DishSearch
  Requests, PoolTarget                          \* of RecipeEngine

Kinds == DishKinds \cup StockKinds

VARIABLES
  dishQuery,  \* whether the request names a dish
  phase, kind, seen, wave, parsed, failed, queriesRun, group, result, warnings, deadline,
  queued, searching, alias, variants, waveAt, enough, offered,
  request, ideas, left, inWave, seenUrls, recipes, lost, preGatePool

shared == <<phase, kind, seen, wave, parsed, failed, queriesRun, group, result, warnings,
            deadline>>
dishVars == <<queued, searching, alias, variants, waveAt, enough, offered>>
stockVars == <<request, ideas, left, inWave, seenUrls, recipes, lost, preGatePool>>
vars == <<dishQuery, shared, dishVars, stockVars>>

Dish == INSTANCE DishSearch
Stock == INSTANCE RecipeEngine

ASSUME SearchAssumption == Dish!DishLimitsAssumption /\ Stock!EngineAssumption

Init ==
  /\ dishQuery \in BOOLEAN
  /\ Dish!Init /\ Stock!Init
  /\ LET holds == {kind[p] : p \in DOMAIN kind}
     IN IF dishQuery
          THEN /\ holds \subseteq DishKinds
               /\ request = CHOOSE r \in Requests : TRUE
          ELSE /\ holds \subseteq StockKinds
               /\ alias = CHOOSE a \in AliasModes : TRUE

Next ==
  \/ dishQuery /\ Dish!Next /\ UNCHANGED <<dishQuery, stockVars>>
  \/ ~ dishQuery /\ Stock!Next /\ UNCHANGED <<dishQuery, dishVars>>

Spec == Init /\ [][Next]_vars

Step ==
  \/ dishQuery /\ Dish!PipelineStep /\ UNCHANGED <<dishQuery, stockVars>>
  \/ ~ dishQuery /\ Stock!EngineStep /\ UNCHANGED <<dishQuery, dishVars>>

\* As in the pipelines: what they wait for answers or times out.
FairSpec == Spec /\ WF_vars(Step)

-----------------------------------------------------------------------------
(* Properties                                                              *)

\* No recipe that reaches the answer holds an excluded ingredient that the
\* matcher of this request can recognise: not as a near match or after the
\* required ingredients were relaxed, whatever the language service and the
\* ideas say and whenever the waves stopped.
SafeResults ==
  LET spelled == dishQuery /\ variants = "known"
  IN \A p \in result : kind[p].clash \in {"no", IF spelled THEN "excused" ELSE "expanded"}

\* The answer says that its time ran out.
Late == warnings \cap {"SEARCH_DEADLINE_REACHED", "RECIPE_SEARCH_TIMEOUT"} # {}

\* In both pipelines the answer says that searches failed (or that the time ran
\* out), that pages of a finished wave failed and that it is empty. A dish
\* search, besides, leaves queries or pages untried only at the limit of pages
\* or with enough recipes; otherwise it says that its time ran out. What
\* recommendations leave untried is the subject of WavesGoOn.
GapsExplained ==
  phase = "done" =>
    /\ dishQuery => \/ Late
                    \/ /\ queued = 0 \/ Len(seen) >= MaxPages
                       /\ waveAt >= Len(Dish!Considered) \/ enough
    /\ "search" \in failed => Late \/ "SEARCH_PARTIALLY_UNAVAILABLE" \in warnings
    /\ "page" \in failed => "PAGES_PARTIALLY_UNAVAILABLE" \in warnings
    /\ result = {} => warnings \cap {"NO_MATCHING_DISH", "NO_TARGET_INGREDIENT",
                                     "NO_MATCHING_RECIPES"} # {}

\* The waves of recommendations end before they have taken every query of the
\* plan for three reasons only: the time ran out, which the answer says; the
\* recipes read so far hold enough that are safe and have the required ingredients; or the last wave brought no page
\* that is new. The third one is silent: nothing in the answer says that the
\* queries after such a wave were not tried. (A query that a wave has taken is
\* skipped, also in silence, when the one before it filled the wave's pages.)
WavesGoOn ==
  phase = "done" /\ ~ dishQuery =>
    \/ Late \/ left = 0
    \/ Cardinality(Stock!Gate(Stock!Safe(recipes))) >= PoolTarget
    \/ seen = <<>>

\* Preferences never empty the answer: a safe recipe that was read, and is the
\* dish when one is asked for, leads to an answer with a recipe in it. The meal
\* type, the ceilings, the ideas and the deduper cannot take the last one away.
PreferencesNeverEmpty ==
  phase = "done" /\ result = {} =>
    IF dishQuery THEN Dish!Real(Dish!Safe(parsed)) = {}
                 ELSE request.target \/ Stock!Safe(recipes) = {}

\* An ingredient the user insists on comes before a full list: a recipe without
\* it is only returned when none with it was left.
TargetFirst ==
  ~ dishQuery /\ request.target =>
    result \subseteq Stock!HoldsTarget(result) \/ Stock!HoldsTarget(preGatePool) = {}

\* A search that began ends, deadline or not.
SearchEnds == phase # "start" ~> phase \in {"done", "threw"}

\* recipeRecommendations.js says that "the requested/target ingredient is a hard
\* requirement: never pad the short list with recipes that omit it", and of the
\* relaxation that only recipes a generated idea's core ingredients match may
\* take their place.
TargetOrIdea ==
  ~ dishQuery /\ request.target =>
    \A p \in result : kind[p].target \/ (ideas /\ kind[p].idea)
=============================================================================
