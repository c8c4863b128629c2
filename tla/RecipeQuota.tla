----------------------------- MODULE RecipeQuota -----------------------------
(***************************************************************************)
(* Counting recipe recommendations (src/src/chat/recipeQuota.js on the     *)
(* usage_actions rows of usageStore.js). A recommendation takes one unit   *)
(* from the day and one from the month, runs its engine, and gives back    *)
(* what it took when the engine throws. The units are taken and given back *)
(* by separate statements, so recommendations of the same owner, midnight, *)
(* database errors, a crash and the account deletion fall between them.    *)
(*                                                                         *)
(* A definition whose comment starts with "Wrong:" is a faulty variant of  *)
(* the next one; no specification uses it.                                 *)
(***************************************************************************)
EXTENDS Integers, FiniteSets

CONSTANTS
  Runs,         \* recommendations, each started at most once
  Plans,        \* [perDay, perMonth], 0 standing for null
  FreePerDay,   \* FREE_RECIPES_PER_DAY
  Enforcement,  \* QUOTA_ENFORCEMENT_ENABLED
  LastDay,      \* bound: the clock stops here
  MonthOf       \* monthKeyLA, as a function of the day

Days == 0..LastDay
Kinds == {"day", "month"}

\* Primary keys of the owner's recipe_recommendation rows in usage_actions.
Rows == Kinds \X Days

ASSUME PlansAssumption ==
  /\ Plans \subseteq [perDay : Nat, perMonth : Nat]
  /\ FreePerDay \in Nat \ {0}
  /\ Enforcement \in BOOLEAN
ASSUME RunsAssumption ==
  /\ IsFiniteSet(Runs)
  /\ LastDay \in Nat
  /\ MonthOf \in [Days -> Days]

VARIABLES
  count,    \* usage_actions.count; an absent row counts 0
  kept,     \* history: units that stay on a row for good
  today,    \* dayKeyLA()
  account,  \* how far the owner's account deletion got
  plan,     \* the plan of each recommendation
  pc,       \* where each recommendation stands between two awaits
  day,      \* `now` of consumeRecipeUnit: its day
  grace,    \* the recommendation runs on the free daily floor
  held,     \* units taken and neither kept nor given back
  owed      \* releaseAction calls of releaseRecipeUnit still to run

vars == <<count, kept, today, account, plan, pc, day, grace, held, owed>>

Smaller(a, b) == IF a <= b THEN a ELSE b
Larger(a, b) == IF a >= b THEN a ELSE b

\* The row of the day or month in which the recommendation started.
RowOf(r, kind) == <<kind, IF kind = "day" THEN day[r] ELSE MonthOf[day[r]]>>

\* The limit a unit of each kind is taken under, 0 when it is only counted.
Floor(p) == IF p.perDay = 0 THEN FreePerDay ELSE Smaller(p.perDay, FreePerDay)
LimitOf(r, kind) ==
  CASE ~ Enforcement -> 0
    [] Enforcement /\ kind = "month" -> plan[r].perMonth
    [] OTHER -> IF grace[r] THEN Floor(plan[r]) ELSE plan[r].perDay

HeldOn(w) ==
  Cardinality({r \in Runs : w[1] \in held[r] /\ RowOf(r, w[1]) = w})

Gone == account = "purged"

\* The tombstone trigger of usage_actions aborts every INSERT, so every upsert.
TriggersBlock == account # "active"

-----------------------------------------------------------------------------
Init ==
  /\ count = [w \in Rows |-> 0]
  /\ kept = [w \in Rows |-> 0]
  /\ today = 0
  /\ account = "active"
  /\ plan \in [Runs -> Plans]
  /\ pc = [r \in Runs |-> "idle"]
  /\ day = [r \in Runs |-> 0]
  /\ grace = [r \in Runs |-> FALSE]
  /\ held = [r \in Runs |-> {}]
  /\ owed = [r \in Runs |-> {}]

Goto(r, label) == pc' = [pc EXCEPT ![r] = label]

\* withRecipeQuota takes the time; a plan with a monthly allowance reads its
\* counter first.
Start(r) ==
  /\ pc[r] = "idle"
  /\ account = "active"
  /\ day' = [day EXCEPT ![r] = today]
  /\ Goto(r, IF Enforcement /\ plan[r].perMonth > 0 THEN "reading" ELSE "takeDay")
  /\ UNCHANGED <<count, kept, today, account, plan, grace, held, owed>>

ReadMonth(r) ==
  /\ pc[r] = "reading"
  /\ grace' = [grace EXCEPT ![r] = count[RowOf(r, "month")] >= plan[r].perMonth]
  /\ Goto(r, "takeDay")
  /\ UNCHANGED <<count, kept, today, account, plan, day, held, owed>>

\* Wrong: the limit is compared with the count before the increment.
FitsOffByOne(r, kind) ==
  LimitOf(r, kind) = 0 \/ count[RowOf(r, kind)] <= LimitOf(r, kind)

\* consumeAction: one conditional upsert.
Fits(r, kind) ==
  LimitOf(r, kind) = 0 \/ count[RowOf(r, kind)] + 1 <= LimitOf(r, kind)

\* Wrong: the upsert goes through although the account is being deleted.
TakeUnchecked(r, kind) ==
  /\ Fits(r, kind)
  /\ count' = [count EXCEPT ![RowOf(r, kind)] = @ + 1]
  /\ held' = [held EXCEPT ![r] = @ \cup {kind}]

Take(r, kind) ==
  /\ ~ TriggersBlock
  /\ Fits(r, kind)
  /\ count' = [count EXCEPT ![RowOf(r, kind)] = @ + 1]
  /\ held' = [held EXCEPT ![r] = @ \cup {kind}]

\* Grace takes only the daily unit.
TakeDay(r) ==
  /\ pc[r] = "takeDay"
  /\ Take(r, "day")
  /\ Goto(r, IF grace[r] THEN "running" ELSE "takeMonth")
  /\ UNCHANGED <<kept, today, account, plan, day, grace, owed>>

TakeMonth(r) ==
  /\ pc[r] = "takeMonth"
  /\ Take(r, "month")
  /\ Goto(r, "running")
  /\ UNCHANGED <<kept, today, account, plan, day, grace, owed>>

\* RecipeQuotaExceededError; a full month first gives the day's unit back.
Exceeded(r) ==
  /\ ~ TriggersBlock
  /\ \/ pc[r] = "takeDay" /\ ~ Fits(r, "day") /\ Goto(r, "refused")
     \/ pc[r] = "takeMonth" /\ ~ Fits(r, "month") /\ Goto(r, "returning")
  /\ UNCHANGED <<count, kept, today, account, plan, day, grace, held, owed>>

\* Any other error of a statement, the trigger's included: the engine runs
\* unmetered.
MeteringFails(r) ==
  /\ \/ pc[r] \in {"reading", "takeDay"} /\ Goto(r, "running")
     \/ pc[r] = "takeMonth" /\ Goto(r, "recovering")
  /\ UNCHANGED <<count, kept, today, account, plan, day, grace, held, owed>>

\* Wrong: the UPDATE goes to the row of the day it runs on.
ReleaseToday(r, kind) ==
  LET row == <<kind, IF kind = "day" THEN today ELSE MonthOf[today]>>
  IN /\ held' = [held EXCEPT ![r] = @ \ {kind}]
     /\ count' = IF Gone THEN count ELSE [count EXCEPT ![row] = Larger(0, @ - 1)]
     /\ UNCHANGED kept

\* releaseAction never throws: the UPDATE lowers the row, finds none once the
\* account was purged, or fails and leaves the unit where it is.
Release(r, kind) ==
  LET row == RowOf(r, kind)
  IN /\ held' = [held EXCEPT ![r] = @ \ {kind}]
     /\ \/ /\ ~ Gone
           /\ count' = [count EXCEPT ![row] = Larger(0, @ - 1)]
           /\ UNCHANGED kept
        \/ /\ kept' = IF kind \in held[r] /\ ~ Gone
                        THEN [kept EXCEPT ![row] = @ + 1] ELSE kept
           /\ UNCHANGED count

\* The month refused or failed after the day's unit was taken.
GiveDayBack(r) ==
  /\ pc[r] \in {"returning", "recovering"}
  /\ Release(r, "day")
  /\ Goto(r, IF pc[r] = "returning" THEN "refused" ELSE "running")
  /\ UNCHANGED <<today, account, plan, day, grace, owed>>

\* The engine returned a result: its units are spent.
EngineReturns(r) ==
  /\ pc[r] = "running"
  /\ kept' = [w \in Rows |-> IF ~ Gone /\ w[1] \in held[r] /\ RowOf(r, w[1]) = w
                               THEN kept[w] + 1 ELSE kept[w]]
  /\ held' = [held EXCEPT ![r] = {}]
  /\ Goto(r, "ended")
  /\ UNCHANGED <<count, today, account, plan, day, grace, owed>>

\* Wrong: a failed recommendation leaves its month's unit taken.
EngineThrowsDayOnly(r) ==
  /\ pc[r] = "running"
  /\ owed' = [owed EXCEPT ![r] = IF held[r] = {} THEN {} ELSE {"day"}]
  /\ Goto(r, IF held[r] = {} THEN "ended" ELSE "refunding")
  /\ UNCHANGED <<count, kept, today, account, plan, day, grace, held>>

\* The engine threw: a recommendation that holds a reservation starts both
\* releases of releaseRecipeUnit, whether or not it runs in grace.
EngineThrows(r) ==
  /\ pc[r] = "running"
  /\ owed' = [owed EXCEPT ![r] = IF held[r] = {} THEN {} ELSE Kinds]
  /\ Goto(r, IF held[r] = {} THEN "ended" ELSE "refunding")
  /\ UNCHANGED <<count, kept, today, account, plan, day, grace, held>>

\* One of the two UPDATEs that Promise.all waits for.
Refund(r) ==
  /\ pc[r] = "refunding"
  /\ \E kind \in owed[r] :
       /\ Release(r, kind)
       /\ owed' = [owed EXCEPT ![r] = @ \ {kind}]
       /\ Goto(r, IF owed[r] = {kind} THEN "ended" ELSE "refunding")
  /\ UNCHANGED <<today, account, plan, day, grace>>

\* The process dies; what running recommendations took stays on the rows.
Crash ==
  /\ \E r \in Runs : pc[r] \notin {"idle", "refused", "ended"}
  /\ pc' = [r \in Runs |-> IF pc[r] \in {"idle", "refused"} THEN pc[r] ELSE "ended"]
  /\ kept' = [w \in Rows |-> IF Gone THEN kept[w] ELSE kept[w] + HeldOn(w)]
  /\ held' = [r \in Runs |-> {}]
  /\ owed' = [r \in Runs |-> {}]
  /\ UNCHANGED <<count, today, account, plan, day, grace>>

\* Midnight in the quota time zone.
Tick ==
  /\ today < LastDay
  /\ today' = today + 1
  /\ UNCHANGED <<count, kept, account, plan, pc, day, grace, held, owed>>

Tombstone ==
  /\ account = "active"
  /\ account' = "tombstoned"
  /\ UNCHANGED <<count, kept, today, plan, pc, day, grace, held, owed>>

\* purgeDeletedUserLocalData: DELETE FROM usage_actions.
Purge ==
  /\ account = "tombstoned"
  /\ account' = "purged"
  /\ count' = [w \in Rows |-> 0]
  /\ kept' = [w \in Rows |-> 0]
  /\ UNCHANGED <<today, plan, pc, day, grace, held, owed>>

RunStep(r) ==
  \/ Start(r) \/ ReadMonth(r) \/ TakeDay(r) \/ TakeMonth(r) \/ Exceeded(r)
  \/ MeteringFails(r) \/ GiveDayBack(r)
  \/ EngineReturns(r) \/ EngineThrows(r) \/ Refund(r)

Next == (\E r \in Runs : RunStep(r)) \/ Crash \/ Tick \/ Tombstone \/ Purge

Spec == Init /\ [][Next]_vars

\* A started recommendation keeps running: statements return or fail and the
\* engine's fetches time out.
FairSpec == Spec /\ \A r \in Runs : WF_vars(pc[r] # "idle" /\ RunStep(r))

-----------------------------------------------------------------------------
(* Properties                                                              *)

\* The shape of the state.
TypeOK ==
  /\ count \in [Rows -> Nat]
  /\ kept \in [Rows -> Nat]
  /\ today \in Days
  /\ account \in {"active", "tombstoned", "purged"}
  /\ plan \in [Runs -> Plans]
  /\ pc \in [Runs -> {"idle", "reading", "takeDay", "takeMonth", "running",
                      "returning", "recovering", "refunding", "refused", "ended"}]
  /\ day \in [Runs -> Days]
  /\ grace \in [Runs -> BOOLEAN]
  /\ held \in [Runs -> SUBSET Kinds]
  /\ owed \in [Runs -> SUBSET Kinds]

\* An owner is never charged for a unit nobody took or that came back: a day's
\* count is exactly the units kept and held on it, whatever midnight, refusal
\* or failure came between taking and giving back, and a month's never more.
CountsHonest ==
  \A w \in Rows :
    ~ Gone => /\ count[w] <= kept[w] + HeldOn(w)
              /\ w[1] = "day" => count[w] = kept[w] + HeldOn(w)

\* Concurrent recommendations never take together more than the allowance: a
\* day under a daily limit holds no more units than the limit, the units kept,
\* held and returned in any order.
AllowanceRespected ==
  Enforcement =>
    \A p \in Plans, d \in Days :
      Plans = {p} /\ p.perDay > 0 /\ ~ Gone =>
        kept[<<"day", d>>] + HeldOn(<<"day", d>>) <= p.perDay

\* A recommendation running while its owner's account is deleted never
\* recreates a usage_actions row.
NoUnitsAfterPurge == Gone => \A w \in Rows : count[w] = 0

\* A started recommendation ends and holds no unit any more.
RunsEnd ==
  \A r \in Runs :
    pc[r] # "idle" ~> (pc[r] \in {"refused", "ended"} /\ held[r] = {})

\* usageStore.js says that releaseAction "Returns a consumed unit", and
\* recipeQuota.js that "Grace consumes only the daily unit": a count only goes
\* down by a unit somebody held on that row.
OnlyConsumedReturned ==
  [][\A w \in Rows :
       account' = account /\ count'[w] < count[w] => HeldOn(w)' < HeldOn(w)]_vars
=============================================================================
