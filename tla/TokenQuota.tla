------------------------------ MODULE TokenQuota ------------------------------
(***************************************************************************)
(* Token metering of one quota owner (src/src/usage/quotaWindows.js,       *)
(* usageStore.js, tokenBudget.js) as the chat gateway's runOneRound and    *)
(* the /summarize route drive it.                                          *)
(*                                                                         *)
(* Each request is a process whose steps are separated by the awaits of    *)
(* the code: two reads of the usage rows, one conditional upsert that      *)
(* reserves, the provider call, one update that settles the reservation    *)
(* and, for a month, one upsert that mirrors the charge into today's row.  *)
(* Other requests, midnight, an account deletion, a database error or a    *)
(* crash can fall between any two of them.                                 *)
(*                                                                         *)
(* A definition whose comment starts with "Wrong:" is a faulty variant of  *)
(* the next one; no specification uses it.                                 *)
(***************************************************************************)
EXTENDS Integers, FiniteSets

CONSTANTS
  Reqs,         \* requests, each used once
  Summaries,    \* the ones that are POST /summarize; the rest are chat requests
  Plans,        \* plan limits, 0 standing for null: [monthly, weekly, daily]
  Sizes,        \* estimates of a request: [prompt, completion] tokens
  Actuals,      \* total_tokens a provider may report; Null when it reports none
  Null,
  GraceLimit,   \* PAID_MONTHLY_GRACE_TOKENS_PER_DAY
  Enforcement,  \* QUOTA_ENFORCEMENT_ENABLED
  MaxRounds,    \* MAX_TOOL_ROUNDS
  LastDay,      \* bound: the clock stops here
  WeekOf,       \* weekKeyLA, as a function of the day
  MonthOf       \* monthKeyLA, as a function of the day

Days == 0..LastDay

ASSUME LimitsAssumption ==
  /\ Plans \subseteq [monthly : Nat, weekly : Nat, daily : Nat]
  /\ \A p \in Plans : p.monthly > 0 \/ p.weekly > 0 \/ p.daily > 0
  /\ GraceLimit \in Nat \ {0}
  /\ Enforcement \in BOOLEAN
ASSUME RequestsAssumption ==
  /\ IsFiniteSet(Reqs)
  /\ Summaries \subseteq Reqs
  /\ Sizes \subseteq [prompt : Nat \ {0}, completion : Nat \ {0}]
  /\ Null \notin Nat
  /\ Actuals \subseteq Nat \cup {Null}
  /\ MaxRounds \in Nat
ASSUME CalendarAssumption ==
  /\ LastDay \in Nat
  /\ WeekOf \in [Days -> Days]
  /\ MonthOf \in [Days -> Days]

Kinds == {"day", "week", "month"}

\* The primary keys of the owner's rows in usage_daily and usage_periods.
Windows == Kinds \X Days

Jobs == [plan : Plans, size : Sizes]

VARIABLES
  used,     \* tokens_used of every row; an absent row counts 0
  billed,   \* history: tokens settled on every row, reservations excluded
  today,    \* dayKeyLA()
  account,  \* how far the owner's account deletion got
  job,      \* plan and estimate of each request
  pc,       \* where each request stands between two awaits
  round,    \* state.round
  seen,     \* what the first read of loadTokenWindow returned, and when
  win,      \* the window loadTokenWindow resolved
  res,      \* quotaReservation
  spent     \* charge of the answer being settled

vars == <<used, billed, today, account, job, pc, round, seen, win, res, spent>>

-----------------------------------------------------------------------------
(* The rules of quotaWindows.js and tokenBudget.js                         *)

Smaller(a, b) == IF a <= b THEN a ELSE b
Larger(a, b) == IF a >= b THEN a ELSE b

\* computeRemainingTokens
Remaining(tokensUsed, limit) == Larger(0, limit - tokensUsed)

Window(kind, key, limit, tokensUsed) ==
  [kind |-> kind, key |-> key, limit |-> limit,
   remaining |-> Remaining(tokensUsed, limit)]

\* The bounded daily allowance of a plan whose month is spent.
GraceOf(plan) ==
  IF plan.daily = 0 THEN GraceLimit ELSE Smaller(plan.daily, GraceLimit)

\* resolveTokenWindow at day `day` for the three counters just read.
ResolveWindow(plan, day, dailyUsed, monthUsed, weekUsed) ==
  CASE plan.monthly > 0 /\ Remaining(monthUsed, plan.monthly) = 0 ->
         Window("day", day, GraceOf(plan), dailyUsed)
    [] plan.monthly > 0 /\ Remaining(monthUsed, plan.monthly) > 0 ->
         IF plan.daily > 0 /\ dailyUsed >= plan.daily
           THEN Window("day", day, plan.daily, dailyUsed)
           ELSE Window("month", MonthOf[day], plan.monthly, monthUsed)
    [] plan.monthly = 0 /\ plan.weekly > 0 ->
         Window("week", WeekOf[day], plan.weekly, weekUsed)
    [] OTHER -> Window("day", day, plan.daily, dailyUsed)

NoReservation == [tokens |-> 0, row |-> <<"day", 0>>]
Holding(r) == res[r].tokens > 0

Want(r) == job[r].size.prompt + job[r].size.completion

\* What a round reserves: a chat request clamps to what is left but never below
\* one token, a summary clamps its completion to the remaining budget.
ChatReserve(r) == Larger(1, Smaller(Larger(1, win[r].remaining), Want(r)))
SummaryReserve(r) == Smaller(Want(r), win[r].remaining)
ReserveTokens(r) == IF r \in Summaries THEN SummaryReserve(r) ELSE ChatReserve(r)

\* The row a window's writes go to. Day windows are keyed by the clock at the
\* write, period windows by the key resolved when the round was admitted.
RowOf(w) == <<w.kind, IF w.kind = "day" THEN today ELSE w.key>>

\* Wrong: the window is consulted on the first round only.
ChatRefusedOnce(r, w) == Enforcement /\ w.remaining = 0 /\ round[r] = 0

\* A chat round is refused by a spent window when enforcement is on.
ChatRefused(r, w) == Enforcement /\ w.remaining = 0

\* A summary is refused by computeTokenBudget whatever the switch says.
SummaryRefused(r, w) == w.remaining = 0 \/ job[r].size.prompt >= w.remaining

RefusedOnRead(r, w) ==
  IF r \in Summaries THEN SummaryRefused(r, w) ELSE ChatRefused(r, w)

\* Rows that purgeDeletedUserLocalData has already deleted.
Gone(w) ==
  \/ account = "purged"
  \/ account = "dailyPurged" /\ w[1] = "day"

\* Wrong: upserts check the tombstone no more once the purge is running.
TriggersBlockUntilPurge == account = "tombstoned"

\* The tombstone triggers of schema.sql abort every INSERT, so every upsert.
TriggersBlock == account # "active"

\* Tokens reserved on a row and not settled yet, one unit per token.
HeldUnits(w) ==
  UNION {{r} \X (1..res[r].tokens) : r \in {q \in Reqs : res[q].row = w}}
Outstanding(w) == Cardinality(HeldUnits(w))

-----------------------------------------------------------------------------
Init ==
  /\ used = [w \in Windows |-> 0]
  /\ billed = [w \in Windows |-> 0]
  /\ today = 0
  /\ account = "active"
  /\ job \in [Reqs -> Jobs]
  /\ pc = [r \in Reqs |-> "idle"]
  /\ round = [r \in Reqs |-> 0]
  /\ seen = [r \in Reqs |-> [day |-> 0, used |-> 0]]
  /\ win = [r \in Reqs |-> Window("day", 0, 0, 0)]
  /\ res = [r \in Reqs |-> NoReservation]
  /\ spent = [r \in Reqs |-> 0]

Goto(r, label) == pc' = [pc EXCEPT ![r] = label]

\* loadTokenWindow begins: getUsageRow reads today's row. A first round starts
\* only while the account has no tombstone; later rounds do not look again.
ReadDaily(r) ==
  /\ \/ pc[r] = "idle" /\ account = "active"
     \/ pc[r] = "nextRound"
  /\ seen' = [seen EXCEPT ![r] = [day |-> today, used |-> used[<<"day", today>>]]]
  /\ Goto(r, "reading")
  /\ UNCHANGED <<used, billed, today, account, job, round, win, res, spent>>

\* loadTokenWindow ends: the period rows are read, the window is resolved and
\* the round is refused, reserves (first round) or calls the provider.
ReadPeriods(r) ==
  LET w == ResolveWindow(job[r].plan, seen[r].day, seen[r].used,
                         used[<<"month", MonthOf[seen[r].day]>>],
                         used[<<"week", WeekOf[seen[r].day]>>])
  IN /\ pc[r] = "reading"
     /\ win' = [win EXCEPT ![r] = w]
     /\ Goto(r, IF RefusedOnRead(r, w) THEN "refused"
                ELSE IF round[r] = 0 THEN "reserving" ELSE "provider")
     /\ UNCHANGED <<used, billed, today, account, job, round, seen, res, spent>>

\* Wrong: the guard compares with the total that was read before the upsert.
FitsStaleRead(r) == ReserveTokens(r) <= Larger(1, win[r].remaining)

\* reserveUsage and reservePeriodUsage: one atomic conditional upsert.
Fits(r) == used[RowOf(win[r])] + ReserveTokens(r) <= win[r].limit

Reserve(r) ==
  /\ pc[r] = "reserving"
  /\ ~ TriggersBlock
  /\ Fits(r)
  /\ used' = [used EXCEPT ![RowOf(win[r])] = @ + ReserveTokens(r)]
  /\ res' = [res EXCEPT ![r] = [tokens |-> ReserveTokens(r), row |-> RowOf(win[r])]]
  /\ Goto(r, "provider")
  /\ UNCHANGED <<billed, today, account, job, round, seen, win, spent>>

\* The upsert changed no row: refused, or run without a reservation.
ReserveDenied(r) ==
  /\ pc[r] = "reserving"
  /\ ~ TriggersBlock
  /\ ~ Fits(r)
  /\ Goto(r, IF Enforcement THEN "refused" ELSE "provider")
  /\ UNCHANGED <<used, billed, today, account, job, round, seen, win, res, spent>>

\* The tombstone triggers abort the upsert and the request fails.
ReserveBlocked(r) ==
  /\ pc[r] = "reserving"
  /\ TriggersBlock
  /\ Goto(r, "ended")
  /\ UNCHANGED <<used, billed, today, account, job, round, seen, win, res, spent>>

\* Wrong: the settlement goes to the row of the day it happens on.
SettleTodaysRow(r, charge) ==
  LET row == IF res[r].row[1] = "day" THEN <<"day", today>> ELSE res[r].row
  IN /\ used' = [used EXCEPT ![row] = Larger(0, @ + (charge - res[r].tokens))]
     /\ billed' = [billed EXCEPT ![row] = @ + charge]

\* reconcileUsageReservation and reconcilePeriodReservation: replace the
\* reservation by `charge` on the reservation's own row.
SettleRow(r, charge) ==
  LET row == res[r].row
  IN /\ used' = [used EXCEPT ![row] = Larger(0, @ + (charge - res[r].tokens))]
     /\ billed' = [billed EXCEPT ![row] = @ + charge]

\* reconcileTokenWindow with a reservation, after which the request stands at
\* `next`. The update finds no row once the account was purged and throws; a
\* month goes on to mirror its charge (a charge of 0 still counts the request,
\* except in a refund), for the last time when the request is already failing.
Settle(r, actual, next) ==
  LET charge == IF actual = Null THEN res[r].tokens ELSE actual
  IN /\ pc[r] = "provider"
     /\ Holding(r)
     /\ res' = [res EXCEPT ![r] = NoReservation]
     /\ spent' = [spent EXCEPT ![r] = charge]
     /\ IF Gone(res[r].row)
          THEN Goto(r, "ended") /\ UNCHANGED <<used, billed>>
          ELSE /\ SettleRow(r, charge)
               /\ Goto(r, IF res[r].row[1] # "month" THEN next
                          ELSE IF next = "settled" THEN "mirroring"
                          ELSE IF charge > 0 THEN "lastMirror" ELSE "ended")
     /\ UNCHANGED <<today, account, job, round, seen, win>>

\* addTokenWindowUsage: a chat round without a reservation adds what the
\* provider reported to the window it was admitted under.
AddUsage(r, actual) ==
  /\ pc[r] = "provider"
  /\ ~ Holding(r)
  /\ r \notin Summaries
  /\ actual # Null
  /\ spent' = [spent EXCEPT ![r] = actual]
  /\ IF TriggersBlock
       THEN Goto(r, "ended") /\ UNCHANGED <<used, billed>>
       ELSE /\ used' = [used EXCEPT ![RowOf(win[r])] = @ + actual]
            /\ billed' = [billed EXCEPT ![RowOf(win[r])] = @ + actual]
            /\ Goto(r, IF win[r].kind = "month" /\ actual > 0
                         THEN "mirroring" ELSE "settled")
  /\ UNCHANGED <<today, account, job, round, seen, win, res>>

\* An answer nobody meters: no usage reported, or a summary that runs without
\* a reservation.
Unmetered(r, actual) ==
  /\ pc[r] = "provider"
  /\ ~ Holding(r)
  /\ actual = Null \/ r \in Summaries
  /\ spent' = [spent EXCEPT ![r] = IF actual = Null THEN 0 ELSE actual]
  /\ Goto(r, "settled")
  /\ UNCHANGED <<used, billed, today, account, job, round, seen, win, res>>

\* The provider refused, timed out or was cancelled: a chat round refunds its
\* reservation.
ChatFailed(r) == r \notin Summaries /\ Settle(r, 0, "ended")

\* A summary that got an error refunds; one that threw keeps what it reserved.
SummaryFailed(r) ==
  r \in Summaries /\ (Settle(r, 0, "ended") \/ Settle(r, Null, "ended"))

FailedUnreserved(r) ==
  /\ pc[r] = "provider"
  /\ ~ Holding(r)
  /\ Goto(r, "ended")
  /\ UNCHANGED <<used, billed, today, account, job, round, seen, win, res, spent>>

ProviderFailed(r) == ChatFailed(r) \/ SummaryFailed(r) \/ FailedUnreserved(r)

ProviderAnswered(r) ==
  \E actual \in Actuals :
    Settle(r, actual, "settled") \/ AddUsage(r, actual) \/ Unmetered(r, actual)

\* adjustDailyUsage: the month's charge is added to the row of the day it is
\* settled on.
Mirror(r) ==
  /\ pc[r] \in {"mirroring", "lastMirror"}
  /\ ~ TriggersBlock
  /\ used' = [used EXCEPT ![<<"day", today>>] = @ + spent[r]]
  /\ billed' = [billed EXCEPT ![<<"day", today>>] = @ + spent[r]]
  /\ Goto(r, IF pc[r] = "lastMirror" THEN "ended" ELSE "settled")
  /\ UNCHANGED <<today, account, job, round, seen, win, res, spent>>

\* The tombstone trigger or a database error stops it. A summary settles once
\* more from its catch block, as if the provider had reported nothing: the
\* month stays as it is and the reserved amount is mirrored.
MirrorFails(r) ==
  /\ pc[r] \in {"mirroring", "lastMirror"}
  /\ IF pc[r] = "mirroring" /\ r \in Summaries
       THEN /\ Goto(r, "lastMirror")
            /\ spent' = [spent EXCEPT ![r] = ReserveTokens(r)]
       ELSE Goto(r, "ended") /\ UNCHANGED spent
  /\ UNCHANGED <<used, billed, today, account, job, round, seen, win, res>>

\* Wrong: the round counter is not advanced.
ContinueUncounted(r) ==
  /\ pc[r] = "settled"
  /\ r \notin Summaries
  /\ round[r] < MaxRounds
  /\ Goto(r, "nextRound")
  /\ UNCHANGED <<used, billed, today, account, job, round, seen, win, res, spent>>

\* The model asked for tools and their results came back: another round.
Continue(r) ==
  /\ pc[r] = "settled"
  /\ r \notin Summaries
  /\ round[r] < MaxRounds
  /\ round' = [round EXCEPT ![r] = @ + 1]
  /\ Goto(r, "nextRound")
  /\ UNCHANGED <<used, billed, today, account, job, seen, win, res, spent>>

Finish(r) ==
  /\ pc[r] = "settled"
  /\ Goto(r, "ended")
  /\ UNCHANGED <<used, billed, today, account, job, round, seen, win, res, spent>>

\* A database error after the reservation (the refreshed read, or the settling
\* update itself) ends the request and leaves the reservation on the row.
Strand(r) ==
  /\ pc[r] = "provider"
  /\ Holding(r)
  /\ billed' = IF Gone(res[r].row) THEN billed
               ELSE [billed EXCEPT ![res[r].row] = @ + res[r].tokens]
  /\ res' = [res EXCEPT ![r] = NoReservation]
  /\ Goto(r, "ended")
  /\ UNCHANGED <<used, today, account, job, round, seen, win, spent>>

\* The server process dies: every running request is lost, the rows stay.
Crash ==
  /\ \E r \in Reqs : pc[r] \notin {"idle", "refused", "ended"}
  /\ pc' = [r \in Reqs |-> IF pc[r] = "idle" THEN "idle" ELSE
                           IF pc[r] = "refused" THEN "refused" ELSE "ended"]
  /\ billed' = [w \in Windows |-> IF Gone(w) THEN billed[w]
                                  ELSE billed[w] + Outstanding(w)]
  /\ res' = [r \in Reqs |-> NoReservation]
  /\ UNCHANGED <<used, today, account, job, round, seen, win, spent>>

\* Midnight in the quota time zone.
Tick ==
  /\ today < LastDay
  /\ today' = today + 1
  /\ UNCHANGED <<used, billed, account, job, pc, round, seen, win, res, spent>>

\* requestAccountDeletion writes the tombstone.
Tombstone ==
  /\ account = "active"
  /\ account' = "tombstoned"
  /\ UNCHANGED <<used, billed, today, job, pc, round, seen, win, res, spent>>

\* purgeDeletedUserLocalData: one DELETE for usage_daily, then one for
\* usage_periods.
Purge ==
  /\ \/ account = "tombstoned" /\ account' = "dailyPurged"
     \/ account = "dailyPurged" /\ account' = "purged"
  /\ used' = [w \in Windows |->
                IF (w[1] = "day") = (account = "tombstoned") THEN 0 ELSE used[w]]
  /\ billed' = [w \in Windows |->
                  IF (w[1] = "day") = (account = "tombstoned") THEN 0 ELSE billed[w]]
  /\ UNCHANGED <<today, job, pc, round, seen, win, res, spent>>

RequestStep(r) ==
  \/ ReadDaily(r) \/ ReadPeriods(r)
  \/ Reserve(r) \/ ReserveDenied(r) \/ ReserveBlocked(r)
  \/ ProviderFailed(r) \/ ProviderAnswered(r) \/ Mirror(r) \/ MirrorFails(r)
  \/ Continue(r) \/ Finish(r) \/ Strand(r)

Next ==
  \/ \E r \in Reqs : RequestStep(r)
  \/ Crash \/ Tick \/ Tombstone \/ Purge

Spec == Init /\ [][Next]_vars

\* A started request keeps running: the event loop resumes each await, the
\* provider calls carry timeouts. Nobody has to start one, nor does midnight,
\* a crash or a deletion have to happen.
Running(r) == pc[r] # "idle" /\ RequestStep(r)
FairSpec == Spec /\ \A r \in Reqs : WF_vars(Running(r))

-----------------------------------------------------------------------------
(* Properties                                                              *)

Labels == {"idle", "reading", "reserving", "provider", "mirroring", "lastMirror",
           "settled", "nextRound", "refused", "ended"}
Accounts == {"active", "tombstoned", "dailyPurged", "purged"}

\* The shape of the state.
TypeOK ==
  /\ used \in [Windows -> Nat]
  /\ billed \in [Windows -> Nat]
  /\ today \in Days
  /\ account \in Accounts
  /\ job \in [Reqs -> Jobs]
  /\ pc \in [Reqs -> Labels]
  /\ round \in [Reqs -> 0..MaxRounds]
  /\ seen \in [Reqs -> [day : Days, used : Nat]]
  /\ win \in [Reqs -> [kind : Kinds, key : Days, limit : Nat, remaining : Nat]]
  /\ res \in [Reqs -> [tokens : Nat, row : Windows]]
  /\ spent \in [Reqs -> Nat]

\* No token is lost and none is counted twice: a row holds exactly what was
\* settled on it plus what is still reserved on it, whatever midnight, failure
\* or second request came between a reservation and its settlement. In
\* particular the MAX(0, ...) of the settling updates never swallows a refund.
LedgerExact ==
  \A w \in Windows : ~ Gone(w) => used[w] = billed[w] + Outstanding(w)

\* The limits any plan lets a row of this kind be reserved under.
LimitsOf(kind) ==
  CASE kind = "month" -> {p.monthly : p \in Plans}
    [] kind = "week"  -> {p.weekly : p \in Plans}
    [] kind = "day"   -> {p.daily : p \in Plans} \cup
                         {GraceOf(p) : p \in {q \in Plans : q.monthly > 0}}

\* Requests in flight never hold together more than a plan's limit on a row:
\* what the comment on reserveUsage promises of concurrent requests.
ReservedWithinLimit ==
  \A w \in Windows :
    ~ Gone(w) /\ Outstanding(w) > 0 =>
      \E limit \in LimitsOf(w[1]) : Outstanding(w) <= limit

\* A request in flight when its owner's account is deleted never recreates a
\* usage row the purge has removed.
NoUsageAfterPurge ==
  \A w \in Windows : Gone(w) => used[w] = 0

\* The largest charge one round can bring.
MaxCharge ==
  LET charges == (Actuals \ {Null}) \cup {s.prompt + s.completion : s \in Sizes}
  IN CHOOSE n \in charges : \A m \in charges : m <= n

\* The limits that windows of this kind are admitted under; none for the daily
\* rows when monthly charges are mirrored on them.
AdmissionLimits(kind) ==
  LET monthly == {p \in Plans : p.monthly > 0}
      weekly  == {p \in Plans \ monthly : p.weekly > 0}
      daily   == {p \in Plans \ weekly : p.daily > 0}
  IN CASE kind = "month" -> {p.monthly : p \in monthly}
       [] kind = "week"  -> {p.weekly : p \in weekly}
       [] kind = "day"   -> IF monthly = {} THEN {p.daily : p \in daily} ELSE {}

\* With enforcement on, a window is overshot by at most one round of every
\* request: each round reads the window again before it calls the provider
\* (policy.js: "so overshoot past the limit stays bounded").
OvershootBounded ==
  \A w \in Windows :
    LET limits == AdmissionLimits(w[1])
    IN limits # {} =>
         \E limit \in limits :
           billed[w] <= limit - 1 + Cardinality(Reqs) * MaxCharge

\* The counters, windows and rounds implement the ledger of QuotaLedger: each
\* reservation is granted against all that is settled and all that is held on
\* its row, and ends exactly once.
Ledger == INSTANCE QuotaLedger
            WITH charged <- billed, hold <- res,
                 Limits <- [w \in Windows |-> LimitsOf(w[1])]
ImplementsLedger == Ledger!Spec

\* A started request comes to an end and gives up its reservation: no round
\* loops for ever.
RequestsEnd ==
  \A r \in Reqs :
    pc[r] # "idle" ~> (pc[r] \in {"refused", "ended"} /\ ~ Holding(r))
=============================================================================
