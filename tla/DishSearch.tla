----------------------------- MODULE DishSearch -----------------------------
(***************************************************************************)
(* The search for one named dish (searchRecipesByDish in                   *)
(* src/src/chat/recipeDishSearch.js): queries run by a few workers, the    *)
(* language services that were asked meanwhile, pages read in waves, the   *)
(* safety and dish gates, removal of duplicates, selection, translation    *)
(* and method summaries, all under one deadline and one client.            *)
(*                                                                         *)
(* A query is only counted.                                                *)
(*                                                                         *)
(* A definition whose comment starts with "Wrong:" is a faulty variant of  *)
(* the next one; no specification uses it.                                 *)
(***************************************************************************)
EXTENDS RecipePages

CONSTANTS
  AliasModes,    \* how a request may begin: "pending" when aliases are asked
                 \* for, "provided" or "off" when not
  SearchWorkers, \* limits.searchConcurrency
  WaveSize,      \* limits.fetchConcurrency
  MaxNear        \* MAX_NEAR_MATCH_RESULTS

DishLimitsAssumption ==
  /\ PagesAssumption
  /\ AliasModes \subseteq {"pending", "provided", "off"}
  /\ {SearchWorkers, WaveSize, MaxNear} \subseteq Nat \ {0}

VARIABLES
  phase,      \* the await the pipeline stands at
  kind,       \* the recipe of each page on a host that is not denied
  queued,     \* queries no worker has taken yet
  searching,  \* queries in flight
  queriesRun, \* queries sent so far
  alias,      \* what became of the request for other names of the dish
  variants,   \* what became of the request for ingredient spellings
  seen,       \* pages found, in the order they were found
  waveAt,     \* pages before the current wave
  wave,       \* pages of the current wave that are still read
  parsed,     \* pages whose recipe was read
  failed,     \* kinds of work that failed: "search", "page"
  enough,     \* the waves stopped because the pool was deep enough
  offered,    \* recipes that passed the gates and filters: [real, near]
  group,      \* titles that the model deduper merged
  result,     \* the recipes selected
  warnings,   \* codes in the answer
  deadline    \* of the overall budget: "ample", "short" or "over", or "left"
              \* when the client went first

found  == <<seen, queued, searching, queriesRun>>
reading == <<waveAt, wave, parsed, enough>>
answer == <<offered, group, result>>
vars == <<phase, kind, found, alias, variants, reading, failed, answer,
          warnings, deadline>>

\* deadline.signal.aborted
aborted == deadline \in {"over", "left"}

-----------------------------------------------------------------------------
(* Budgets                                                                 *)

\* Queries set aside for the dish's other names, when these are asked for.
Reserved ==
  IF alias \in {"pending", "failed", "empty", "expanded"}
    THEN Smaller(2, Larger(1, MaxQueries \div 3)) ELSE 0

PrimaryQueries == Larger(1, MaxQueries - Reserved)

\* A worker takes another query only in time and while pages are wanted.
MaySearch(found_) == ~ aborted /\ Len(found_) < MaxPages

\* runQueries begins: each worker takes its first query.
Launch(n) ==
  LET started == IF MaySearch(seen) THEN Smaller(SearchWorkers, n) ELSE 0
  IN /\ searching' = started
     /\ queued' = n - started
     /\ queriesRun' = queriesRun + started

Considered == SubSeq(seen, 1, Smaller(MaxPages, Len(seen)))

-----------------------------------------------------------------------------
(* Gates, filters, duplicates                                              *)

\* Wrong: the spellings of the language service are left out.
ConflictsPlainly(p) == kind[p].clash = "plain"

\* createIngredientMatcher: the matcher built from the service's answer finds
\* more spellings and leaves other products alone.
Matches(clash) ==
  \/ clash = "plain"
  \/ clash = "expanded" /\ variants = "known"
  \/ clash = "excused" /\ variants # "known"

\* findConstraintConflict
Conflicts(p) == Matches(kind[p].clash)

Safe(S) == {p \in S : ~ Conflicts(p)}
Real(S) == {p \in S : kind[p].verdict = "real"}
Near(S) == {p \in S : kind[p].verdict = "near"}

\* Wrong: a preference may empty the answer.
PreferredAlways(S, minimum) == {p \in S : kind[p].mealOk /\ kind[p].inLimits}

\* mealTypeMismatch: recipes that do not state another meal type
OfMealType(S) == {p \in S : kind[p].mealOk}

\* applyLimits: recipes within the ceilings for cost, calories and time
WithinLimits(S) == {p \in S : kind[p].inLimits}

\* The meal type first, then the ceilings.
Preferred(S, minimum) ==
  LET fed == FilterWhenEnough(S, OfMealType(S), Wanted)
  IN FilterWhenEnough(fed, WithinLimits(fed), minimum)

\* The near matches kept, the best few of the safe ones.
NearKept(S) == Picks(Near(S), MaxNear)

\* Real matches first; near ones only fill the places that are left.
Select(S) ==
  {r \cup n : r \in Picks(Real(S), Wanted),
              n \in Picks(Near(S), Wanted - Smaller(Wanted, Cardinality(Real(S))))}

-----------------------------------------------------------------------------
Init ==
  /\ phase = "start"
  /\ kind \in [Readable -> Kinds]
  /\ queued = 0 /\ searching = 0 /\ queriesRun = 0
  /\ alias \in AliasModes
  /\ variants = "pending"
  /\ seen = <<>>
  /\ waveAt = 0 /\ wave = {} /\ parsed = {} /\ enough = FALSE
  /\ failed = {}
  /\ offered = [real |-> {}, near |-> {}]
  /\ group = [d \in Dishes |-> d]
  /\ result = {} /\ warnings = {}
  /\ deadline = "ample"

\* Both language services are asked, then the primary queries are launched.
Begin ==
  /\ phase = "start"
  /\ phase' = "searches"
  /\ Launch(PrimaryQueries)
  /\ UNCHANGED <<kind, alias, variants, seen, reading, failed, answer, warnings,
                 deadline>>

\* A worker's search answers, with results or an error, and the worker takes
\* the next query.
SearchReturns ==
  /\ phase \in {"searches", "aliasSearches"}
  /\ searching > 0
  /\ \/ /\ \E links \in SearchResults :
             seen' = WithResults(seen, links, {})
        /\ UNCHANGED failed
     \/ /\ failed' = failed \cup {"search"}
        /\ UNCHANGED seen
  /\ LET taken == IF queued > 0 /\ MaySearch(seen') THEN 1 ELSE 0
     IN /\ searching' = searching - 1 + taken
        /\ queued' = queued - taken
        /\ queriesRun' = queriesRun + taken
  /\ UNCHANGED <<phase, kind, alias, variants, reading, answer, warnings,
                 deadline>>

\* The services answer while the searches run: with other names for the dish,
\* none that can be used, or not at all;
AliasesAnswer ==
  /\ phase # "start"
  /\ alias = "pending"
  /\ alias' \in {"expanded", "empty", "failed"}
  /\ UNCHANGED <<phase, kind, found, variants, reading, failed, answer, warnings, deadline>>

\* with spellings of the excluded ingredients, or not at all.
VariantsAnswer ==
  /\ phase # "start"
  /\ variants = "pending"
  /\ variants' \in {"known", "unknown"}
  /\ UNCHANGED <<phase, kind, found, alias, reading, failed, answer, warnings, deadline>>

\* The searches are done; other names are awaited and searched for, unless
\* their query is a primary one.
AliasesSearched ==
  /\ phase = "searches"
  /\ searching = 0
  /\ Reserved > 0 => alias # "pending"
  /\ phase' = "aliasSearches"
  /\ \E n \in IF alias = "expanded" THEN 0..Reserved ELSE {0} : Launch(n)
  /\ UNCHANGED <<kind, alias, variants, seen, reading, failed, answer, warnings,
                 deadline>>

-----------------------------------------------------------------------------
(* Pages                                                                   *)

\* Wrong: an expired deadline is not reported once something was read.
LateNoticeWhenEmpty ==
  IF aborted /\ parsed' = {} THEN {"SEARCH_DEADLINE_REACHED"} ELSE {}

LateNotice == IF aborted THEN {"SEARCH_DEADLINE_REACHED"} ELSE {}

\* After the last wave: warnings, safety, the dish gate, near matches and the
\* preference filters, up to the call of the deduper.
Gate ==
  LET safe == Safe(parsed')
  IN /\ phase' = "dedupe"
     /\ \E near \in NearKept(safe) :
          /\ offered' = [real |-> Preferred(Real(safe), Wanted),
                         near |-> Preferred(near, MaxNear)]
          /\ warnings' = warnings \cup LateNotice
               \cup (IF "page" \in failed' THEN {"PAGES_PARTIALLY_UNAVAILABLE"} ELSE {})
               \cup (IF near # {} THEN {"NEAR_DISH_MATCH"} ELSE {})

\* The wave that begins after the first `at` pages, or the gate when the pages
\* or the time are spent.
WaveOrGate(at) ==
  IF aborted \/ at >= Len(Considered)
    THEN /\ wave' = {}
         /\ Gate
    ELSE /\ wave' = {Considered[i] : i \in (at + 1)..Smaller(at + WaveSize, Len(Considered))}
         /\ phase' = "fetching"
         /\ UNCHANGED <<offered, warnings>>

\* The searches and the variants are in: the first wave begins.
VariantsKnown ==
  /\ phase = "aliasSearches"
  /\ searching = 0
  /\ phase' = "variants"
  /\ warnings' = IF "search" \in failed
                   THEN warnings \cup {"SEARCH_PARTIALLY_UNAVAILABLE"} ELSE warnings
  /\ UNCHANGED <<kind, found, alias, variants, reading, failed, answer, deadline>>

FirstWave ==
  /\ phase = "variants"
  /\ variants # "pending"
  /\ UNCHANGED <<kind, found, alias, variants, waveAt, parsed, enough, failed,
                 group, result, deadline>>
  /\ WaveOrGate(0)

\* A page of the wave is read and its recipe parsed or extracted, or it holds
\* none, or it cannot be read.
PageReturns(p) ==
  /\ phase = "fetching"
  /\ p \in wave
  /\ wave' = wave \ {p}
  /\ \/ parsed' = parsed \cup {p} /\ UNCHANGED failed
     \/ failed' = failed \cup {"page"} /\ UNCHANGED parsed
  /\ UNCHANGED <<phase, kind, found, alias, variants, waveAt, enough, answer,
                 warnings, deadline>>

Pool == Cardinality(Real(Safe(parsed)))

\* Wrong: the loop forgets to move on.
SameWave == waveAt

AfterWave == waveAt + WaveSize

\* All pages of the wave are in. The waves stop when the pool is deep enough.
WaveEnds ==
  /\ phase = "fetching"
  /\ wave = {}
  /\ enough' = (Pool >= Smaller(Wanted + 2, MaxPages))
  /\ waveAt' = AfterWave
  /\ UNCHANGED <<parsed, failed>>
  /\ IF enough' THEN Gate /\ wave' = {} ELSE WaveOrGate(AfterWave)
  /\ UNCHANGED <<kind, found, alias, variants, group, result, deadline>>

-----------------------------------------------------------------------------
(* The answer                                                              *)

\* What is left after the selection: translation, when something is foreign
\* and there is time, then the method summaries, when there is time, and the
\* end.
Summarize(notes) ==
  \/ /\ deadline \in {"ample", "left"}
     /\ phase' = "summary" /\ warnings' = warnings \cup notes
  \/ /\ deadline # "ample"
     /\ phase' = "done" /\ warnings' = warnings \cup notes \cup {"METHOD_SUMMARY_SKIPPED"}

EmptyNotice == IF result' = {} THEN {"NO_MATCHING_DISH"} ELSE {}

\* The deduper answers, with merged titles or none; recipes are selected.
Deduplicated ==
  /\ phase = "dedupe"
  /\ group' \in Merges
  /\ result' \in Select(Distinct(kind, offered.real \cup offered.near, group'))
  /\ \E foreign \in BOOLEAN :
       IF foreign /\ result' # {} /\ deadline = "ample"
         THEN phase' = "translation" /\ warnings' = warnings \cup EmptyNotice
         ELSE Summarize(EmptyNotice \cup
                (IF foreign /\ result' # {} /\ ~ aborted
                   THEN {"TRANSLATION_SKIPPED"} ELSE {}))
  /\ UNCHANGED <<kind, found, alias, variants, reading, failed, offered, deadline>>

\* Translations keep the recipes, whether they succeed or not.
Translated ==
  /\ phase = "translation"
  /\ Summarize({})
  /\ UNCHANGED <<kind, found, alias, variants, reading, failed, answer, deadline>>

Summarized ==
  /\ phase = "summary"
  /\ phase' = "done"
  /\ UNCHANGED <<kind, found, alias, variants, reading, failed, answer, warnings,
                 deadline>>

\* Time passes: little is left, then the deadline's timer aborts what runs. The
\* client's signal is forwarded when it disconnects. During the summaries it changes nothing any more.
DeadlineMoves ==
  /\ phase \notin {"start", "summary", "done"}
  /\ deadline' \in CASE deadline = "ample" -> {"short", "left"}
                     [] deadline = "short" -> {"over", "left"}
                     [] OTHER -> {}
  /\ UNCHANGED <<phase, kind, found, alias, variants, reading, failed, answer, warnings>>

PipelineStep ==
  \/ Begin \/ SearchReturns \/ AliasesAnswer \/ VariantsAnswer \/ AliasesSearched
  \/ VariantsKnown \/ FirstWave \/ (\E p \in Pages : PageReturns(p)) \/ WaveEnds
  \/ Deduplicated \/ Translated \/ Summarized

Next == PipelineStep \/ DeadlineMoves

Spec == Init /\ [][Next]_vars

\* Searches, pages and helper calls all carry a timeout of their own.
FairSpec == Spec /\ WF_vars(PipelineStep)
=============================================================================
