# A formal model of PantrioBackend

TLA+ modules, TLC configurations and TLAPS proofs for the Pantrio backend, a Node.js server with one
process, one SQLite database, an HTTP API and a WebSocket chat gateway. The server calls out to Firebase
(identity), Apple (sign-in tokens, purchases), a model provider (chat rounds) and Serper (web search).
Paths below are relative to `src/src/` unless they start with `src/`.

The process runs one JavaScript thread: code between two `await`s is atomic, and every `await` is a
point where any other handler, timer, callback or statement may come in. SQLite statements are atomic one
by one; almost none of the code modelled here uses transactions. So a TLA+ action is the code from one
`await` to the next, or one SQL statement, and all of the system's difficulty is in what happens between.

## 1. Inventory

| component | state | operations | interacts with | hard behaviour | correctness |
|---|---|---|---|---|---|
| Token quota: `usage/usageStore.js`, `quotaWindows.js`, `tokenBudget.js` | `usage_daily`, `usage_periods` | read window, reserve (conditional upsert), settle, add, mirror | chat rounds, `POST /summarize`, plans, account purge | reservation held over a provider call; midnight and month ends; failing second statements; later rounds without a reservation | no token lost or counted twice; holds within the limit; bounded overshoot; nothing written after the purge |
| Recipe quota: `chat/recipeQuota.js` | `usage_actions` | take day, take month, give back, refund | recipe tool, account purge | two statements, no transaction, minutes between taking and refunding | counts honest; allowance respected; every run ends holding nothing |
| Account deletion: `accountDeletion/*` | `account_deletions` row, per-account keyed lock, all of the account's rows | DELETE, deletion-status, recovery worker; revoke, delete, purge, finalize | Firebase, Apple, the link route, triggers on the six tables it purges | crash between a call and its record; bounded retries; client that leaves holding a lock; writers that do not lock, one of them to a table without a trigger | nothing comes back into a purged table; complete means done; accepted means completed; status answers true |
| Chat gateway: `ws/chatGateway.js`, `chat/toolRunner.js` | Maps `active` and `starting` per connection, slot counters, a state object per request, a timer per request | start, cancel, tool_results, rounds, timer, close, drain | token quota, provider, tools, client | stale state objects after an await, early, late and partial results, cancel at any await | slots match live requests; one driver per request; each call answered once; drained stays idle |
| Apple claims: `subscriptions/appleSubscriptionService.js`, `...Store.js` | ownership, subscription, transaction and notification tables; per-chain locks | verify evidence, classify, claim, adopt, notification | Apple's server API, subscriptions | partial writes, out-of-order and repeated notifications, two accounts claiming one chain | one owner per chain; newer state wins; a notification takes effect once |
| Subscriptions: `subscriptionStatus.js`, `subscriptionStore.js`, `entitlementPolicy.js`, `planCatalog.js` | the report in the account's row | save newer snapshot, decide access | sessions, Apple claims, quota | reports out of order, update then read, expiry | the newest report wins, Apple's state over all |
| Recipe pipeline: `chat/recipeRecommendations.js`, `recipeDishSearch.js` and helpers | per-run pools, budgets and deadlines; `recipe_history` | ideate, search, fetch, extract, estimate, filter, translate | Serper, pages, helper model calls | partial failure of parallel work, late language services, deadlines that fall anywhere | safe results; failures reported and no early stop beyond the known ones; preferences never empty the answer |
| Page fetching: `chat/safeWebFetch.js`, `recipeTextExtract.js`, `recipeJsonLd.js` | robots.txt cache, an agent per request | fetch with redirects, limits | recipe pipeline | shared cache that expires and evicts, redirects to other publishers, aborts | each hop validated and allowed; agents destroyed |
| Model streams: `chat/openaiStream.js`, `responsesStream.js`, `responsesAdapter.js` | partial tool calls | accumulate deltas | gateway | chunks that end inside events, cut streams, time-out or cancel | calls reassembled exactly or not at all |
| Message trimming: `chat/messageTrimmer.js` | none | drop oldest tool rounds | gateway | calls and results belong together | no orphan tool message, newest kept |
| Sign in with Apple: `auth/*` | encrypted refresh token | link, exchange, revoke | Apple, account deletion | link races deletion | no token survives its account |
| Sessions and routes: `http/routes.js`, `session/sessionService.js` | session bindings | about thirty handlers | everything | tombstone check then write | a deleted account is refused |
| Concurrency utilities: `utils/*` | promise chains, counters, buckets | lock, limit, guard, rate limit | many | hand-off, double release, pruning | mutual exclusion, FIFO, bounds |
| Database: `db/db.js`, `initDb.js`, `schema.sql` | schema, connection | open, migrate, close | everything | crash in a migration, use after close | migrations atomic |
| Start and shutdown: `server.js`, `operations/*` | draining flag, shutdown promise | recovery worker, drain, close, exit | gateway, database | deadlines, repeated signals | database closed last; exit always reached |
| Serper counter, request log, trials, snapshots, configuration, scripts | `serper_usage_daily`, files | count, append | searches, account purge | a row written around the purge | nothing left of a deleted account |

`PROJECT.json` lists the same components with their modelling status and, under `hazards`, each
behaviour that is hard to test at its line, with the properties that cover it.

## 2. Plan

In this order, most important first. A tick means written, checked and mapped.

1. `TokenQuota` ✓, with the abstract `QuotaLedger` ✓ it implements and `TokenQuotaProofs` ✓
2. `RecipeQuota` ✓, `RecipeQuotaProofs` ✓
3. `AccountDeletion` ✓, `AccountDeletionProofs` ✓
4. `ChatGateway` ✓ (rounds, slots, timers; its quota part is `TokenQuota`), `ChatGatewayProofs` ✓
5. `AppleClaims` ✓, with the abstract `OwnerRegister` ✓ it implements and `AppleClaimsProofs` ✓
6. the recipe pipeline ✓: `RecipePages`, `DishSearch`, `RecipeEngine`, composed by `RecipeSearch`, with
   `RecipeSearchProofs` ✓; `RecipeTranslation`
7. the parts of the server without shared state ✓: `ServerLife`, `Limits`, `SafeFetch`, `UserProfile`, `StreamReader`,
   run together by `ServerParts`; `LimitsProofs` ✓, `ServerPartsProofs` ✓
8. left: recipe history (a client writes and reads it back), message trimming, trial counters

Every invariant and every action property of the passing runs, and both refinements, are theorems as well (section 5).
The modules with proofs contain no RECURSIVE operator, and constants carry named assumptions, for that reason.

## 3. Modules

Every module keeps faulty variants of a few definitions, marked "Wrong:" and used by no specification:
they show that the properties notice the bugs they are about.

### TokenQuota, QuotaLedger

`used[w]` is the token column of one row of `usage_daily` (`w = <<"day", d>>`) or `usage_periods`
(`<<"month", m>>`, `<<"week", k>>`) of one owner. `job[r]` is the request: its plan and its prompt and
completion sizes; `pc[r]` is the `await` it stands at; `seen`, `win`, `res` and `round` are the local variables
the code carries over awaits (the day row read first, the resolved window, the reservation, the tool
round). `billed` is a history variable: what the code decided to charge to each row.

* `ReadDaily`, `ReadPeriods`: `loadTokenWindow` reads two tables in two statements; midnight may fall between.
* `Reserve`, `ReserveDenied`, `ReserveBlocked`: the conditional upsert of `reserveUsage` and `reservePeriodUsage`.
* `Settle`, `AddUsage`, `Mirror`, `MirrorFails`: `reconcileTokenWindow`, `addTokenWindowUsage` and the daily
  mirror of a monthly charge, a second statement that may fail after the first.
* `ProviderFailed`, `ProviderAnswered`, `Unmetered`, `Continue`, `Finish`: what a chat round or a summary does
  with the provider's answer. Chat and `/summarize` differ in how much they reserve, in whether later
  rounds exist, and in what their catch blocks settle; both are in the module.
* `Strand`, `Crash`: a failing statement or the end of the process leaves a reservation on its row for good.
* `Tick`, `Tombstone`, `Purge`: midnight, the deletion record, the purge table by table.

`QuotaLedger` is what the component promises, without windows or rounds: a row has charges and holds; a hold is
granted only if everything charged and held still fits a limit; a hold ends once, by a charge or without
one. `TokenQuota` implements it with `charged <- billed` and `hold <- res`.

### RecipeQuota

`count[w]` is `usage_actions`, `held[r]` the units a run took and not returned, `owed[r]` the releases its
error path still has to issue, `kept` the history of units a successful run keeps. One action per
statement of `consumeRecipeUnit`, `releaseRecipeUnit` and `withRecipeQuota`; a release that fails is swallowed,
as in `releaseAction`.

### AccountDeletion

`tomb` is the `account_deletions` row; `rows` the tables that hold a row of the account; `credential` its stored
Apple token; `queue` the promise chain of `acquireKeyedLock`, whose head holds the lock. External state is one
variable each for Firebase (`firebase`, `provider`) and Apple (`authorized`: Apple still honours the token stored
last). DELETE, deletion-status, the Apple link route and the recovery worker are processes with a `pc`; the
steps of `advanceAccountDeletionLocked` (`AdvanceStep`) are shared by all that resume a deletion. `Write` is every
other route: it inserts a row into a table of the purge, without the lock, whenever that table's trigger lets it. `Meter` is
`recordSerperUsage`: `serper_usage_daily` (`Unguarded`) has no trigger and the purge does not empty it, so its row comes at any
time and stays (section 6).
`Close` is the client that disconnects, at any moment, which may release the lock before or after the handler does.

Two of the six purge statements are modelled (`PurgeOrder`): they have one shape and their tables one trigger each, and the
last one also deletes the credential by cascade. `apple_subscription_ownership`, kept on purpose, is not part of `rows`. The retry time of a failed step is a flag that becomes true again (`RetryDue`).

### ChatGateway

A start message `s` stands for the state object it creates. `active` and `starting` are the Maps keyed by
connection and requestId; `slots` and `pending` the requests whose release function has not run; `req[s]` the fields
of the state object that control rounds; `task` the rounds in flight, each with the start it was launched
for. The handlers share code that deletes, resumes and launches within one synchronous stretch, so `Deleted`, `Resumed`,
`Launched`, `Accepted` and `Published` are functions from a part of the state to its next value, and an action
applies one of them (`Becomes`).

What matters is what each piece of code looks up: rounds use the object they were launched with for
their own fields, but `deleteActiveRequest`, `maybeResumeAfterTools`, `handleRoundFailure` and the timer look
their requestId up again after an await, and may find nothing, or another request. The model keeps that distinction.

* `StartArrives`, `PreflightFails`, `Admit`: the start handler up to its first await, any of its refusals, and its last
  synchronous stretch (cancel check, slot, `active.set`, first round).
* `Cancel`, `ToolResults`, `InvalidToolResults`, `ToolResultsTimeout`, `Close`, `BeginDrain`: the other handlers.
* `CallProvider`, `ProviderReturns`, `RoundEnds`, `RoundCallsTools`, `ServerToolsReturn`, `ServerToolsFail`,
  `RoundThrows`, `FailureReported`: `runOneRound` from await to await, and `handleRoundFailure`.

The awaits of the preflight are one waiting point, because nothing is read before one and used after another;
so are the quota statements before the provider call and those after it.

### AppleClaims, OwnerRegister

One chain of transactions. `store` is Apple's side: signed versions, each with the account token of the transaction it carries;
`owned`, `sub`, `txRow` and `recorded` are the four tables, `queue` and `uuidQueue` the keyed locks of the chain and of a
notification. A call is a verify, a refresh or a notification at one of its awaits.

* `StartVerify`, `EvidenceRejected`, `Classify`, `StartRefresh`, `Fetch`, `VerifyStatus`: the routes up to the chain's lock. `Fetch` is
  Apple's answer, `VerifyStatus` the verification of its transactions, which Apple may overtake, with the comparison of tokens in
  `fetchAndPersistCurrentStatus`. `Claim` is `classifyAppleChainClaim`.
* `Deliver`, `CheckDuplicate`, `NotificationRejected`, `FindByChain`, `FindByToken`, `Record`: the webhook, one delivery at a
  time per notification.
* `AssertOwnership`, `UpsertOwnership`, `UpsertSubscription`, `UpsertTransaction`, `Recheck`: `saveVerifiedAppleState`,
  one statement each, under the chain's lock.
* `DeleteAccount` is the cascade of the purge; `StoreChanges`, `Fails` and `Crash` are Apple, failing statements and the end of
  the process.

`OwnerRegister` promises an origin set once and an owner bound only while there is none; `AppleClaims` implements it with
`owner <- sub.uid` and `origin <- owned`.

### RecipePages, DishSearch, RecipeEngine, RecipeSearch

A page stands for the recipe it holds, as a record of what the gates would find out about it: whether it is the dish, how an
excluded ingredient shows, whether it holds the required ones, its class of titles, its score. `RecipePages` has what both
pipelines share: `WithResults` (de-duplicating links into the pool, the code's loop in closed form), `FilterWhenEnough`, `Picks`, `Distinct` (`recipeDedup.js`).

* `DishSearch` is `searchRecipesByDish`: `SearchReturns` is a worker's query, `AliasesAnswer` and `VariantsAnswer` the two
  language services, which answer whenever they like, `PageReturns` and `WaveEnds` the waves of pages, `Gate` the safety gate, the
  dish gate and the preference filters, `Deduplicated` the selection, then translation and summaries. `DeadlineMoves` is the
  overall budget or the client leaving, at any moment.
* `RecipeEngine` is `recommendRecipes` for a request that names no dish: ideation, waves of two queries and their pages,
  estimation, gates with the relaxation of required ingredients, and `Interrupted` for every await the deadline cuts.
* `RecipeSearch` starts one or the other, as `searchRecipesWithDish` does. The variables both have are shared.

`RecipeTranslation` is `createRecipeTranslator` alone: chunks, workers that take them, one retry, what the recipes show then.

### ServerParts: ServerLife, Limits, SafeFetch, UserProfile, StreamReader

These parts have no state in common, so `ServerParts` runs one of them per behaviour (`subject`); their products would only
multiply states.

* `ServerLife`: `file` is the committed schema and `tx` the one inside the migration's transaction. `Preflight` to `Commit` are
  the statements of `initDb`; `OtherMigrates` is a second process with another release. `Announce`, `Tick` and the traffic are
  what runs while the server serves; `HttpCloses`, `WsCloses`, `BackgroundEnds`, `CloseStarts`, `CloseEnds`, `Exits` and
  `HardDeadline` are `createGracefulShutdown`; `LateQuery` is a handler without a client that still asks `getDb`.
* `Limits`: `Arrives` is `rateLimitStart` and then the guard of open responses; `Finishes` and `Closes` the response's two
  events; `Calls`, `TaskEnds` and `Resumes` are `createAsyncConcurrencyLimit`. `unpruned` is a history variable: the
  buckets had nobody pruned them.
* `SafeFetch`: a fetch validates a URL, asks robots.txt or the shared cache (`Remembers`, `AsksRobots`, `RobotsAnswer`), requests
  the page, follows redirects and reads the body. `rules`, `valid`, `agents` and `hops` are its locals.
* `UserProfile`: the account's row, and `POST /api/users`, `PATCH /api/users/me` and `GET /api/session` one statement at a time;
  `Tombstoned` and `Purged` are the deletion, `AppleVerifies` a claim.
* `StreamReader`: a provider's events, two units each, arrive in chunks that end anywhere; `ChatEvents` and `ResponsesEvents` are
  the two dialects; `Aborts` and `Rejects` the time-out and the gateway's cancel. `ChatProtocol` and `ResponsesProtocol`, part of
  the assumption on the streams, are what the provider promises about the order of its events and the code relies on.

## 4. What the runs show

| run | instance | checks |
|---|---|---|
| `token_quota` | 1 chat of 2 rounds and 1 summary of an owner whose plan changes: monthly limit 3 with burst guard 2, or weekly 3; grace floor 1; 2 days in 2 weeks of one month; deletion, crashes | `LedgerExact`, `ReservedWithinLimit`, `NoUsageAfterPurge`, `OvershootBounded`, `ImplementsLedger`, `RequestsEnd` |
| `recipe_paid` | 3 runs, 1 a day, 1 a month, 2 days | `CountsHonest`, `AllowanceRespected`, `NoUnitsAfterPurge`, `RunsEnd` |
| `account` | a DELETE with a status request and a link, or 2 DELETEs; the worker; 2 tables of the purge and `serper_usage_daily`; 2 Apple attempts, 2 faults | `NothingComesBack`, `CompleteMeansDone`, `NoSilentAuthorization`, `OneAtATime`, `NotRequestedIsTrue`, `OutcomesAreFinal`, `TombstoneCompletes` |
| `gateway_requests` | 2 starts of one user with a slot for one, equal or different ids, 1 server and 2 client tools, 1 tool round | `SlotsAreLiveRequests`, `DrivenByOne`, `CallsHoldSlots`, `AnsweredOnce`, `DrainIsFinal` |
| `apple_claims` | 2 accounts, 2 calls, 2 versions of one chain, 2 faults, deletions | `RowsAgree`, `OwnersBought`, `RecordedMeansApplied`, `ImplementsRegister`, `CallsEnd` |
| `recipe_search` | both pipelines: 3 pages, one on a denied host, 2 of them considered, 3 queries, 2 workers, waves of 1, 1 recipe wanted | `SafeResults`, `GapsExplained`, `WavesGoOn`, `PreferencesNeverEmpty`, `SearchEnds` |
| `server` | each part of `ServerParts`: 2 releases and 2 starts; 3 requests with 2 keys and 4 tasks, limits of 2; 2 fetches, 3 hosts, 1 redirect, a cache of 2; 2 callers, 2 account tokens, 2 reports; 4 streams | `SchemaOnlyGrows`, `NoWorkOnClosedDatabase`, `SignalsStop`, `LimitsHold`, `FetchesOrderly`, `ProfilesConsistent`, `ReportsOrdered`, `StreamFaithful` |
| `recipe_grace`, `recipe_target`, `translation_unfinished`, `apple_adoption`, `gateway_reused` | the smallest instance that shows it | one statement of the code or its documents each, violated: section 6 |

Each property is explained where it is defined, and each has a faulty variant of the code under
`mutants` that violates it.

**Bounds.** Limits of one to three tokens or units make two requests compete for the last one; charges of 0
and 4 and an unreported one lie below, at and above every reservation. Two days put midnight (and a week's
end) at every await. Two or three requests are enough because rows and locks are the only things they share and every
guard compares a sum with a limit; the proofs of section 5 remove the bound. Two faults let a second
step fail while the first failure is being retried. `MaxFaults` bounds database errors, failing services and crashes,
`MaxAttempts` is the code's own bound on Apple (five there), `MaxRounds` and `MaxToolRounds` are `MAX_TOOL_ROUNDS`
(six there), `MaxEarly` is `MAX_CHAT_MESSAGES` (fifty there), and `Tasks` bounds the rounds in flight in
`ChatGateway`: three for two requests, more than requests with ids of their own ever use. In `AppleClaims` two versions give an
older and a newer state of the chain, which may belong to two accounts. In the recipe run a pool of two pages fills up before the queries
are spent, a wave of one page puts a deadline between any two pages, and one recipe wanted makes every filter's minimum bite.
The four kinds of recipe of each pipeline are the ones its gates disagree about. In `ServerParts` the older release can meet the
newer one's file; prunes every second call meet live and expired buckets; a third host pushes an entry out of a cache of two.
`MCAsks` gives the two callers of `UserProfile` different requests so that a session meets a creation and an
older report a newer one; all pairs of the five kinds would only add symmetric cases.

**Deadlock** is not checked: requests are finite and the models stop when all are done.

**Fairness.** `TokenQuota`: weak fairness of every started request; the event loop resumes each
await, provider calls have timeouts, statements return or fail. `RecipeQuota`: the same for every
started run. `AccountDeletion`: weak fairness of every process that is under way, of the worker's next tick (an
interval of 60 s), of flushing a response and of a retry coming due; no fairness for clients, Apple's success, midnight,
crashes or deletions. `AppleClaims`: weak fairness of each call's steps; Apple's answers time out and the locks are first come, first
served. The recipe pipelines: weak fairness of a pipeline's step, because searches, pages and helper calls carry timeouts of their own;
the overall deadline may or may not fire. `ServerLife`: weak fairness of the migration's next statement, of listening, of the
shutdown's steps and of the hard deadline's timer; none for clients, operations or the recovery. `ChatGateway` states no liveness:
that nobody waits for ever is the invariant `DrivenByOne`, a request with a slot always has exactly one round in flight or its timer
armed.

**Conditions.** `DrivenByOne`, `CallsHoldSlots` and `AnsweredOnce` speak of requests whose requestId no other
start of the connection uses. With a reused id they are violated (section 6); `SlotsAreLiveRequests` and
`DrainIsFinal` hold with reused ids as well. `NoWorkOnClosedDatabase` speaks of requests whose clients are there: a handler
whose client left is not waited for. If it asks for the database again after the close it is refused; if it already holds the handle,
the database may close under it, which no property speaks of. `FetchesOrderly` speaks of page requests. `LimitsHold` says of the rate
limit that pruning changes no answer. `NothingComesBack` and `CompleteMeansDone` speak of the tables of the purge; `serper_usage_daily` is
not among them (section 6). `GapsExplained` says of recommendations that failures and an empty answer are reported; that they stop
early for known reasons only is `WavesGoOn`.

**What a reader may not expect.** When a wave of recommendations brings no page that is new, the waves end
(`chat/recipeRecommendations.js:1782`): the rest of the plan's queries is not tried, and no warning says so. The request for robots.txt
(`chat/safeWebFetch.js:338`) is made to the validated host but without a pinned agent, so the name is resolved once more. A robots.txt that cannot be fetched, or whose fetch was aborted, is cached as "allowed".
The guard of a route counts open responses, not running handlers: a client that leaves frees its slot although the
handler goes on. A responses stream that is cut before `response.completed` returns the calls it has seen whole, without usage.

## 5. What is proved

`TokenQuotaProofs` proves, for every finite set of requests, every set of plans and sizes in natural numbers,
every calendar and every other value of the constants that the three named assumptions of `TokenQuota` allow:

* `TypeCorrect`: `Spec => []TypeOK`. Inductive as it stands, with the window's limits natural numbers.
* `LedgerIsExact`: `Spec => []LedgerExact`. The invariant `used = billed + Outstanding` alone is not
  inductive: a request that starts over, or one that reserves, must not hold anything yet. The strengthening is
  `LedgerInv == LedgerExact /\ HoldingAtProvider`: a request holds tokens only while it waits for the
  provider. From the equation follows that the `MAX(0, ...)` of a settlement never cuts. The sum of what is
  held is the cardinality of a set of token units (`HeldUnits`), so that facts on finite sets replace an
  induction over requests.
* `DeletedRowsStayDeleted`: `Spec => []NoUsageAfterPurge`, from the guards of the tombstone triggers.
* `ReservationsFitTheLimit`: `Spec => []ReservedWithinLimit`, by `LedgerInv` and `ReservingUnderLimit`: a request about
  to reserve carries a limit of some plan, and all that is held is part of what the upsert compared with it.
* `LedgerImplemented`: `Spec => ImplementsLedger`. Each step maps to one step of `QuotaLedger` or to none, under
  `BooksInv`, which adds that a summary only reserves in a window that has tokens left (`ReservingInOpenWindow`).
* `OvershootIsBounded`: with enforcement on and if some charge is the largest, `Spec => []OvershootBounded`. The bound
  itself is not inductive, because it does not say who may still be charged. In `OvershootInv` a request is `Pending`
  on a row when it found the window open and has not been charged since; what is billed is less than a limit plus
  one largest charge for every request that is *not* pending (`WindowsCovered`). A request becomes pending only by reading a counter
  below the limit, so at that moment what is billed fits without anybody's allowance; when it is charged it stops being pending and
  brings its own. That a charge can be the largest is a bound on a model's answer, which the provider's token limits give. The rest of
  the invariant keeps the rows of days to come and of purged accounts at zero (`NothingBilledYet`), bounds what is reserved
  (`HoldsAreCharges`), and says that nothing is mirrored without monthly plans (`NoMonths`).

Each proof has one step per action; lemmas state how `Outstanding` changes when one request gains or gives up its hold.

`RecipeQuotaProofs` proves `QuotaTypeCorrect`, `CountsAreHonest`, `PurgedRowsStayGone` and
`AllowanceIsRespected` for any finite set of recommendations, any plans and any calendar, from one inductive
invariant `QuotaInv`:

* `CountsHonest` alone is not inductive: a release lowers the row whether or not the recommendation holds a
  unit on it, so a day's equation breaks when a release is owed for a unit nobody holds. `HoldsWhatItTook` ties what a
  recommendation holds, and the releases it owes, to where it stands. For the month the converse fails
  (a recommendation in grace owes a release of a unit it never took, see section 6), which is why
  `CountsHonest` has only an inequality there.
* `AllowanceRespected` follows from `DayWithinLimit`, about the counts, and from the equation for days.
* Lemmas about `HeldOn`, the cardinality of the recommendations that hold a unit on a row, say how it moves when one of them takes
  or returns a unit (`UnitTaken`, `UnitReturned`). `GrowthIsTaking` says that a count only grows by a unit taken, from which the
  other two parts follow without a case for each action.

`AccountDeletionProofs` proves every safety property of `AccountDeletion`, for any sets of requests, any tables that end with `users`, and
any number of faults and crashes, from one inductive invariant `DeletionInv`:

Of rows they say what the code guarantees, that the tables of the purge stay empty; `TypeOK` alone speaks of
the unguarded table, which `Meter` may fill in any state.

* `LockInv`: the lock's queue lists each caller that holds or awaits the lock once, with every holder at its head (`Line`).
  A status request whose client has left no longer counts as a holder, although its handler goes on: this is why the second
  release of such a request must find somebody else at the head and do nothing.
* `TombTrue`: what the tombstone says of Firebase and Apple is true, and a pending revocation always has its token.
* `RequestOK`: what a request relies on between two statements, such as the tables its purge has passed being empty.
* `HolderActs` and `DataStay` split the steps in two: the holder's, which may change the account because nobody else relies on anything
  (`Vacuous`), and the others', which change nothing anybody relies on. `RecordKept` does what the statements of
  `advanceAccountDeletionLocked` have in common. Each of its steps also gives `Final`, from which `RecordedOutcomesStay` follows.

`LimitsProofs` proves `LimitsAlwaysHold`, `Spec => []LimitsHold`, for any finite sets of requests and tasks and any
limits. The strengthening says for the rate limit that pruning only removes expired buckets (`BucketsInv`), for the guard that
the flag of a request says whether its slot was freed (`GuardInv`), and for the limiter that the queue lists each waiting task once
and is empty while a slot is free (`TasksInv`): without the last one a released slot could be both handed over and taken.

`AppleClaimsProofs` proves `RowsAlwaysAgree`, `OwnersAlwaysBought`, `RecordedIsApplied` and, step by step,
that the tables implement `OwnerRegister` (`RegisterImplemented`), for any accounts, any finite history of the chain, any calls and any number of
faults. The argument has two layers:

* `LockInv`: the lock's queue lists each caller once, exactly while it wants the lock, and whoever is past the wait is its head. So at most
  one call is between `AssertOwnership` and `Recheck` (`OneInside`).
* `CallOK`: what a call may rely on at each statement although the account routes do not take the lock. Between the check of
  the owner and the upsert of the subscription, the row is absent or the call's own; after it, the row is the call's own *or the
  call's account has been deleted*. That alternative is what makes the unlocked deletion harmless, and the reason why the upsert of the
  transaction must rely on the foreign key. `Bystander` shows in one lemma that no step of another call or account breaks it.

`ChatGatewayProofs` proves every property of `ChatGateway`: `SlotsMatchRequests`, `RequestsAreDriven`, `CallsAreCounted`,
`CallsAnswered` and the action property `DrainedStaysIdle`, for any connections, users, starts and bounds, any finite set of tool names
and any number of tool rounds, from one inductive invariant `IInv == TypeOK /\ SlotInv /\ RoundInv`:

* `SlotInv`: the Maps, the stages of the starts and the slots agree. An entry of a Map has the key of the start it holds, an accepted
  one in `active` and one in its preflight in `starting`, and a start in its preflight is in `starting` until its connection closes.
  This part needs no condition on ids.
* `RoundInv`: for a requestId of its own (`Unique`), a request that holds a slot is in one of three situations (`Driven`): a round asks
  the model (`Asking`), a round runs the server's tools (`RunningTools`), or no round is in flight, a client's result lacks and the timer
  runs (`AwaitingClient`). Each says exactly which calls of the round are answered. That none of the results received belongs to
  a later round (`ReceivedSoFar`) is what keeps the next round's books clean.
* The handlers are functions on a part of the state, so a lemma states once what `Deleted`, `Resumed`, `Launched` or `Published` does to
  an orderly gateway, and the actions that apply it cite the lemma.

`ServerPartsProofs` proves the safety properties of each part of `ServerParts`, again under `PartsSpec`. The parts share no variables, so
the invariant is a conjunction of one for each (`PartsInv`):

* `SchemaKept`, `ClosedWhenIdle` (`LifeInv`): under the write lock the version of the file is the one that was found supported, and each
  statement of the migration finds what the one before left; drained parts stay drained, and the close waits for them.
* `HopsAreChecked` (`WebInv`): from the validation of a hop to its end the target is the validated one; the rules are those of the host
  the request goes to, although the shared cache may evict or replace the entry meanwhile.
* `AccountsConsistent`, `NewestReportWins` (`ProfileInv`): what a caller noted at one statement is still true at the next *unless a
  tombstone was written*. Until then the row's report never gets older (`Grows`), which is why an answer computed
  after the update cannot be older than the caller's own report.
* `StreamsAreFaithful` (`StreamInv`): whatever chunks arrive, the text and the pieces of each call collected so far are those of the events
  that have arrived whole, and the buffer holds the half event. That a chunk's new events follow the old ones in the
  same order is stated about `At`, the subsequence at a set of positions, without recursion.
* `PartsLimits` is `LimitsAlwaysHold` inside the composition.

`RecipeSearchProofs` proves the safety properties of both pipelines, `ResultsAreSafe`, `TargetComesFirst`, `PreferencesOnlyNarrow`,
`GapsAreExplained` and `WavesStopForReasons`, for any readable pages, kinds of recipe, wave sizes, budgets and numbers of workers that the assumptions allow,
from `SearchInv` (`TargetFirst`, that a recipe without the required ingredient comes only when none with it is left, is proved and
not run), which is `DishInv` for a dish query and `StockInv` otherwise:

* `SpellingsFirst`: the spellings of an excluded ingredient are in before the first page is read, so what the gate called safe stays safe.
* `GateHeld`, `AnswerGated`: nothing is offered before the gate, and everything offered and selected passed it.
* `MatchesLead`, `SafeLeads`: a match that was read leads to a result through every later filter; an answer is empty only for a reason
  that is in the warnings.
* `DishGaps`, `StockGaps`: why a pipeline may stop although queries or pages are left (for recommendations, `PoolDeep`: the recipes read
  so far are enough), and `DishWarned`, `StockWarned`: what failed is in
  the warnings once it is settled.
* Lemmas say what the operators of `RecipePages` return: `FilterType`, `DistinctType`, `RepresentativeType`, `PicksType`, `SelectType`,
  `PoolType`, `RelaxedType`.

Only model-checked: the liveness properties (`RequestsEnd`, `RunsEnd`, `TombstoneCompletes`, `CallsEnd`, `SearchEnds`, `SignalsStop`), because
fairness and ENABLED are out of the prover's reach, and the five counterexamples of section 6.

## 6. Where code and documents disagree

Each is shown by a run that TLC ends with a counterexample; `PROJECT.json` quotes both sides.

1. `recipe_grace`: a failed recommendation in grace gives back a monthly unit it never took.
2. `recipe_target`: when no recipe holds the required ingredients, the relaxation may return recipes that neither hold them nor
   match a generated idea.
3. `translation_unfinished`: a translation worker stops after the first chunk it translates, so chunks beyond the number of workers are
   never sent.
4. `apple_adoption`: a chain left over by a deleted account is classified as adoptable and then refused, because its token is
   compared with the caller's all the same.
5. `gateway_reused`: a cancelled request's round, resumed after its database await, looks its requestId up and acts on
   the request that reused it; two rounds then run on one request and their tool results mix.

Read in the code while modelling, and not run as a claim:

* `serper_usage_daily` is keyed by the account (`db/schema.sql:204`), but no tombstone trigger guards it (`db/schema.sql:253-311`) and
  `purgeLocalAccountData` does not empty it (`accountDeletion/accountDeletionService.js:198-229`): its rows outlive a deletion
  recorded as done, and a request that authenticated before can write one after it, against the comment at `db/schema.sql:247-252`.
  `AccountDeletion` reaches such states (`Meter`), and its properties leave the table out by name;
* when the mirror of a summary's settlement fails, the catch block settles the same reservation once more (`http/routes.js:1572`);
  `MirrorFails` does the same, and no property calls it wrong;
* later tool rounds are refused when the window is spent (`ws/chatGateway.js:755`; the comment at 771-773 says otherwise);
* with `QUOTA_ENFORCEMENT=false`, `/summarize` still answers 429 (`http/routes.js:1412`), and the same branch lets a denied summary run unmetered;
* a DELETE reads Firebase's providers before it waits for the lock (`accountDeletion/accountDeletionRoutes.js:275`), so an account
  linked meanwhile is recorded as `not_linked`;
* two recommendations that compete for the last monthly unit: the loser is refused once instead of continuing on the daily floor;
* with a reused requestId a failing old round ends the new request without aborting its provider call;
* a near match with a better score displaces the real dish it is a duplicate of (`chat/recipeDishSearch.js:2586`);
* pages read in a wave that the deadline cuts are lost (`chat/recipeRecommendations.js:894`);
* the meal filter, a preference, runs before the gate of the required ingredients and can drop the only recipes that hold them.

## 7. Not modelled

For now: recipe history, message trimming, the trial counters, the catalog of plans and the fields of a subscription report, the snapshots
shown to clients. For good: prompts, texts and page contents, and the parsers of recipes in them (data no property
is about), request logging and the counts of the Serper counter (written, they decide nothing; that its row exists is part of
`AccountDeletion`), wire formats and cryptography, configuration
parsing (values are CONSTANTS), maintenance scripts, and several replicas, which `src/README.md` excludes. In `AccountDeletion` four
of the six purge tables; in `ChatGateway` the heartbeat, the contents and order of frames to the client, and copies in the
early-result buffer; in `RecipeSearch` scores other than a recipe's rank among duplicates, and what a query asks for.
