-------------------------- MODULE TokenQuotaProofs --------------------------
(***************************************************************************)
(* Machine-checked proofs about TokenQuota, for any set of requests, any   *)
(* plans, any calendar and any usage a provider may report.                *)
(***************************************************************************)
EXTENDS TokenQuota, FiniteSetTheorems, TLAPS

WindowRecords == [kind : Kinds, key : Days, limit : Nat, remaining : Nat]
Reservations == [tokens : Nat, row : Windows]

-----------------------------------------------------------------------------
(* Operators                                                               *)

LEMMA RemainingType ==
  ASSUME NEW n \in Nat, NEW limit \in Nat
  PROVE  Remaining(n, limit) \in Nat
BY DEF Remaining, Larger

\* A window built from a limit some plan sets for its kind.
LEMMA WindowType ==
  ASSUME NEW kind \in Kinds, NEW key \in Days, NEW limit \in Nat, NEW n \in Nat,
         limit \in LimitsOf(kind), NEW w, w = Window(kind, key, limit, n)
  PROVE  w \in WindowRecords /\ w.limit \in LimitsOf(w.kind)
<1>1. Remaining(n, limit) \in Nat
  BY RemainingType
<1>2. /\ w = [kind |-> kind, key |-> key, limit |-> limit,
               remaining |-> Remaining(n, limit)]
  BY DEF Window
<1>3. w.kind = kind /\ w.limit = limit /\ w \in WindowRecords
  BY <1>1, <1>2 DEF WindowRecords
<1> QED BY <1>3

LEMMA DaysFacts == /\ 0 \in Days
                   /\ \A d \in Days : d \in Nat
                   /\ \A d \in Days : WeekOf[d] \in Days /\ MonthOf[d] \in Days
<1>1. LastDay \in Nat
  BY CalendarAssumption
<1>2. WeekOf \in [Days -> Days] /\ MonthOf \in [Days -> Days]
  BY CalendarAssumption
<1>3. 0 \in Days /\ \A d \in Days : d \in Nat
  BY <1>1 DEF Days
<1> QED BY <1>2, <1>3

LEMMA RowType ==
  ASSUME NEW kind \in Kinds, NEW d \in Days
  PROVE  <<kind, d>> \in Windows
BY DEF Windows

LEMMA GraceType ==
  ASSUME NEW plan \in Plans
  PROVE  /\ plan.monthly \in Nat /\ plan.weekly \in Nat /\ plan.daily \in Nat
         /\ GraceOf(plan) \in Nat
BY LimitsAssumption DEF GraceOf, Smaller

\* resolveTokenWindow yields a window whose limit some plan sets for its kind.
LEMMA ResolveType ==
  ASSUME NEW plan \in Plans, NEW day \in Days,
         NEW d \in Nat, NEW m \in Nat, NEW k \in Nat
  PROVE  LET w == ResolveWindow(plan, day, d, m, k)
         IN  w \in WindowRecords /\ w.limit \in LimitsOf(w.kind)
<1> DEFINE w == ResolveWindow(plan, day, d, m, k)
<1> SUFFICES w \in WindowRecords /\ w.limit \in LimitsOf(w.kind)
  OBVIOUS
<1>0. /\ plan.monthly \in Nat /\ plan.weekly \in Nat /\ plan.daily \in Nat
      /\ GraceOf(plan) \in Nat
      /\ Remaining(m, plan.monthly) \in Nat
  BY GraceType, RemainingType
<1>1. /\ "day" \in Kinds /\ "week" \in Kinds /\ "month" \in Kinds
      /\ MonthOf[day] \in Days /\ WeekOf[day] \in Days
  BY DaysFacts DEF Kinds
<1>2. CASE plan.monthly > 0 /\ Remaining(m, plan.monthly) = 0
  <2>1. w = Window("day", day, GraceOf(plan), d)
    BY <1>2 DEF ResolveWindow
  <2>2. GraceOf(plan) \in LimitsOf("day")
    BY <1>2 DEF LimitsOf
  <2> QED BY <2>1, <2>2, <1>0, <1>1, WindowType
<1>3. CASE plan.monthly > 0 /\ Remaining(m, plan.monthly) > 0
  <2>1. CASE plan.daily > 0 /\ d >= plan.daily
    <3>1. w = Window("day", day, plan.daily, d)
      BY <1>0, <1>3, <2>1 DEF ResolveWindow
    <3>2. plan.daily \in LimitsOf("day")
      BY DEF LimitsOf
    <3> QED BY <3>1, <3>2, <1>0, <1>1, WindowType
  <2>2. CASE ~(plan.daily > 0 /\ d >= plan.daily)
    <3>1. w = Window("month", MonthOf[day], plan.monthly, m)
      BY <1>0, <1>3, <2>2 DEF ResolveWindow
    <3>2. plan.monthly \in LimitsOf("month")
      BY DEF LimitsOf
    <3> QED BY <3>1, <3>2, <1>0, <1>1, WindowType
  <2> QED BY <2>1, <2>2
<1>4. CASE plan.monthly = 0 /\ plan.weekly > 0
  <2>1. w = Window("week", WeekOf[day], plan.weekly, k)
    BY <1>0, <1>4 DEF ResolveWindow
  <2>2. plan.weekly \in LimitsOf("week")
    BY DEF LimitsOf
  <2> QED BY <2>1, <2>2, <1>0, <1>1, WindowType
<1>5. CASE plan.monthly = 0 /\ plan.weekly = 0
  <2>1. w = Window("day", day, plan.daily, d)
    BY <1>0, <1>5 DEF ResolveWindow
  <2>2. plan.daily \in LimitsOf("day")
    BY DEF LimitsOf
  <2> QED BY <2>1, <2>2, <1>0, <1>1, WindowType
<1> QED BY <1>0, <1>2, <1>3, <1>4, <1>5

\* What a round reserves and where its writes go.
LEMMA ReserveType ==
  ASSUME TypeOK, NEW r \in Reqs
  PROVE  /\ ReserveTokens(r) \in Nat
         /\ RowOf(win[r]) \in Windows
         /\ res[r].row \in Windows /\ res[r].tokens \in Nat
<1>1. /\ win[r] \in WindowRecords
      /\ job[r].size.prompt \in Nat /\ job[r].size.completion \in Nat
      /\ res[r] \in Reservations
  BY RequestsAssumption DEF TypeOK, WindowRecords, Reservations, Jobs
<1>2. ReserveTokens(r) \in Nat
  BY <1>1 DEF ReserveTokens, ChatReserve, SummaryReserve, Want, Smaller, Larger, WindowRecords
<1>3. RowOf(win[r]) \in Windows
  BY <1>1, RowType DEF RowOf, WindowRecords, TypeOK
<1> QED BY <1>1, <1>2, <1>3 DEF Reservations

-----------------------------------------------------------------------------
(* The tokens held on a row                                                *)

UnitsOf(f, w) == UNION {{r} \X (1..f[r].tokens) : r \in {q \in Reqs : f[q].row = w}}

LEMMA UnitsMember ==
  ASSUME NEW f \in [Reqs -> Reservations], NEW w, NEW u
  PROVE  u \in UnitsOf(f, w) <=>
           \E r \in Reqs : \E k \in 1..f[r].tokens : f[r].row = w /\ u = <<r, k>>
BY DEF UnitsOf

LEMMA BlockFinite ==
  ASSUME NEW r, NEW n \in Nat
  PROVE  /\ IsFiniteSet({r} \X (1..n))
         /\ Cardinality({r} \X (1..n)) = n
<1> DEFINE S == {r}
           T == 1..n
<1>1. IsFiniteSet(S) /\ Cardinality(S) = 1
  BY FS_Singleton
<1>2. IsFiniteSet(T) /\ Cardinality(T) = n
  BY FS_Interval
<1> HIDE DEF S, T
<1>3. IsFiniteSet(S \X T) /\ Cardinality(S \X T) = Cardinality(S) * Cardinality(T)
  BY <1>1, <1>2, FS_Product
<1>4. 1 * n = n
  OBVIOUS
<1> QED BY <1>1, <1>2, <1>3, <1>4 DEF S, T

LEMMA UnitsFinite ==
  ASSUME NEW f \in [Reqs -> Reservations], NEW w
  PROVE  IsFiniteSet(UnitsOf(f, w))
<1> DEFINE S == {q \in Reqs : f[q].row = w}
           Block(r) == {r} \X (1..f[r].tokens)
           T == {Block(r) : r \in S}
           g == [r \in S |-> Block(r)]
<1>1. IsFiniteSet(S)
  BY RequestsAssumption, FS_Subset
<1>2. g \in Surjection(S, T)
  BY DEF Surjection
<1>3. IsFiniteSet(T)
  BY <1>1, <1>2, FS_Surjection
<1>4. \A B \in T : IsFiniteSet(B)
  <2> SUFFICES ASSUME NEW r \in S PROVE IsFiniteSet(Block(r))
    OBVIOUS
  <2>1. f[r].tokens \in Nat
    BY DEF Reservations
  <2> QED BY <2>1, BlockFinite
<1>5. IsFiniteSet(UNION T)
  BY <1>3, <1>4, FS_UNION
<1> QED BY <1>5 DEF UnitsOf

\* A reservation given to a request that had none adds its tokens to its row
\* and nothing elsewhere.
LEMMA UnitsGrown ==
  ASSUME NEW f \in [Reqs -> Reservations], NEW r \in Reqs, f[r].tokens = 0,
         NEW g \in [Reqs -> Reservations], \A q \in Reqs \ {r} : g[q] = f[q],
         NEW w
  PROVE  /\ w = g[r].row =>
               Cardinality(UnitsOf(g, w)) = Cardinality(UnitsOf(f, w)) + g[r].tokens
         /\ w # g[r].row =>
               Cardinality(UnitsOf(g, w)) = Cardinality(UnitsOf(f, w))
<1> DEFINE n == g[r].tokens
           B == {r} \X (1..n)
<1>0. n \in Nat
  BY DEF Reservations
<1>1. IsFiniteSet(B) /\ Cardinality(B) = n
  BY <1>0, BlockFinite
<1>2. IsFiniteSet(UnitsOf(f, w)) /\ Cardinality(UnitsOf(f, w)) \in Nat
  BY UnitsFinite, FS_CardinalityType
<1>3. CASE w = g[r].row
  <2>1. UnitsOf(g, w) = UnitsOf(f, w) \cup B
    <3>1. ASSUME NEW u \in UnitsOf(g, w) PROVE u \in UnitsOf(f, w) \cup B
      <4>1. PICK q \in Reqs, k \in Nat : k \in 1..g[q].tokens /\ g[q].row = w /\ u = <<q, k>>
        BY <1>0, <3>1, UnitsMember
      <4>2. CASE q = r
        BY <4>1, <4>2
      <4>3. CASE q # r
        <5>1. f[q] = g[q]
          BY <4>3
        <5> QED BY <4>1, <5>1, UnitsMember
      <4> QED BY <4>2, <4>3
    <3>2. ASSUME NEW u \in UnitsOf(f, w) PROVE u \in UnitsOf(g, w)
      <4>1. PICK q \in Reqs, k \in Nat : k \in 1..f[q].tokens /\ f[q].row = w /\ u = <<q, k>>
        BY <3>2, UnitsMember
      <4>2. f[q] = g[q]
        BY <4>1
      <4> QED BY <1>0, <4>1, <4>2, UnitsMember
    <3>3. ASSUME NEW u \in B PROVE u \in UnitsOf(g, w)
      <4>1. PICK k \in 1..n : u = <<r, k>>
        BY <3>3
      <4> QED BY <1>0, <1>3, <4>1, UnitsMember
    <3> QED BY <3>1, <3>2, <3>3
  <2>2. UnitsOf(f, w) \cap B = {}
    BY UnitsMember
  <2>3. Cardinality(UnitsOf(f, w) \cup B) =
          Cardinality(UnitsOf(f, w)) + Cardinality(B) - Cardinality({})
    BY <1>1, <1>2, <2>2, FS_Union
  <2>4. Cardinality({}) = 0
    BY FS_EmptySet
  <2>5. Cardinality(UnitsOf(g, w)) = Cardinality(UnitsOf(f, w)) + n
    <3> HIDE DEF B, n
    <3> QED BY <1>0, <1>1, <1>2, <2>1, <2>3, <2>4
  <2> QED BY <1>3, <2>5
<1>4. CASE w # g[r].row
  <2>1. \A q \in Reqs : /\ q # r => f[q] = g[q]
                        /\ q = r => g[q].row # w
    BY <1>4
  <2>2. UnitsOf(g, w) \subseteq UnitsOf(f, w)
    <3> SUFFICES ASSUME NEW u \in UnitsOf(g, w) PROVE u \in UnitsOf(f, w)
      OBVIOUS
    <3>1. PICK q \in Reqs, k \in Nat : k \in 1..g[q].tokens /\ g[q].row = w /\ u = <<q, k>>
      BY <1>0, UnitsMember
    <3>2. f[q] = g[q]
      BY <2>1, <3>1
    <3> QED BY <3>1, <3>2, UnitsMember
  <2>3. UnitsOf(f, w) \subseteq UnitsOf(g, w)
    <3> SUFFICES ASSUME NEW u \in UnitsOf(f, w) PROVE u \in UnitsOf(g, w)
      OBVIOUS
    <3>1. PICK q \in Reqs, k \in Nat : k \in 1..f[q].tokens /\ f[q].row = w /\ u = <<q, k>>
      BY UnitsMember
    <3>2. f[q] = g[q]
      BY <2>1, <3>1
    <3> QED BY <1>0, <3>1, <3>2, UnitsMember
  <2>4. UnitsOf(g, w) = UnitsOf(f, w)
    BY <2>2, <2>3
  <2> QED BY <1>2, <1>4, <2>4
<1> QED BY <1>3, <1>4

LEMMA NoReservationType == NoReservation \in Reservations
BY RowType, DaysFacts DEF NoReservation, Reservations, Kinds

\* Giving a reservation up takes its tokens off its row.
LEMMA UnitsShrunk ==
  ASSUME NEW f \in [Reqs -> Reservations], NEW r \in Reqs,
         NEW g \in [Reqs -> Reservations], g[r].tokens = 0,
         \A q \in Reqs \ {r} : g[q] = f[q], NEW w
  PROVE  /\ w = f[r].row =>
               Cardinality(UnitsOf(g, w)) = Cardinality(UnitsOf(f, w)) - f[r].tokens
         /\ w # f[r].row =>
               Cardinality(UnitsOf(g, w)) = Cardinality(UnitsOf(f, w))
<1>1. f[r].tokens \in Nat
  BY DEF Reservations
<1>2. /\ w = f[r].row =>
           Cardinality(UnitsOf(f, w)) = Cardinality(UnitsOf(g, w)) + f[r].tokens
      /\ w # f[r].row =>
           Cardinality(UnitsOf(f, w)) = Cardinality(UnitsOf(g, w))
  BY UnitsGrown
<1>3. Cardinality(UnitsOf(f, w)) \in Nat /\ Cardinality(UnitsOf(g, w)) \in Nat
  BY UnitsFinite, FS_CardinalityType
<1> QED BY <1>1, <1>2, <1>3

LEMMA UnitsNone ==
  ASSUME NEW g \in [Reqs -> Reservations], \A r \in Reqs : g[r].tokens = 0, NEW w
  PROVE  Cardinality(UnitsOf(g, w)) = 0
<1>1. UnitsOf(g, w) = {}
  BY UnitsMember
<1> QED BY <1>1, FS_EmptySet

LEMMA HeldFinite ==
  ASSUME TypeOK, NEW w
  PROVE  IsFiniteSet(HeldUnits(w)) /\ Outstanding(w) \in Nat
<1>1. HeldUnits(w) = UnitsOf(res, w)
  BY DEF HeldUnits, UnitsOf
<1>2. res \in [Reqs -> Reservations]
  BY DEF TypeOK, Reservations
<1> QED BY <1>1, <1>2, UnitsFinite, FS_CardinalityType DEF Outstanding

-----------------------------------------------------------------------------
(* Types                                                                   *)

\* SettleRow keeps both counters natural.
LEMMA SettleRowType ==
  ASSUME TypeOK, NEW r \in Reqs, NEW charge \in Nat, SettleRow(r, charge)
  PROVE  used' \in [Windows -> Nat] /\ billed' \in [Windows -> Nat]
<1>1. res[r].row \in Windows /\ res[r].tokens \in Nat
  BY ReserveType
<1>2. Larger(0, used[res[r].row] + (charge - res[r].tokens)) \in Nat
  BY <1>1 DEF Larger, TypeOK
<1>3. billed[res[r].row] + charge \in Nat
  BY <1>1 DEF TypeOK
<1> QED BY <1>2, <1>3 DEF SettleRow, TypeOK

\* One step of one request keeps the types.
LEMMA RequestStepType ==
  ASSUME TypeOK, NEW r \in Reqs, RequestStep(r)
  PROVE  TypeOK'
<1>1. /\ ReserveTokens(r) \in Nat /\ RowOf(win[r]) \in Windows
      /\ res[r].row \in Windows /\ res[r].tokens \in Nat
  BY ReserveType
<1>2. \A d \in Days : <<"day", d>> \in Windows /\ <<"week", d>> \in Windows
                       /\ <<"month", d>> \in Windows
  BY RowType DEF Kinds
<1>3. CASE ReadDaily(r)
  BY <1>2, <1>3 DEF ReadDaily, Goto, TypeOK, Labels
<1>4. CASE ReadPeriods(r)
  <2> DEFINE w == ResolveWindow(job[r].plan, seen[r].day, seen[r].used,
                                used[<<"month", MonthOf[seen[r].day]>>],
                                used[<<"week", WeekOf[seen[r].day]>>])
  <2>1. seen[r].day \in Days /\ seen[r].used \in Nat /\ job[r].plan \in Plans
    BY DEF TypeOK, Jobs
  <2>2. /\ used[<<"month", MonthOf[seen[r].day]>>] \in Nat
        /\ used[<<"week", WeekOf[seen[r].day]>>] \in Nat
    BY <1>2, <2>1, DaysFacts DEF TypeOK
  <2>3. w \in WindowRecords
    BY <2>1, <2>2, ResolveType
  <2>4. win' = [win EXCEPT ![r] = w]
    BY <1>4 DEF ReadPeriods
  <2>5. win' \in [Reqs -> WindowRecords]
    BY <2>3, <2>4 DEF TypeOK, WindowRecords
  <2>6. pc' \in [Reqs -> Labels]
    BY <1>4 DEF ReadPeriods, Goto, TypeOK, Labels
  <2> QED BY <1>4, <2>5, <2>6 DEF ReadPeriods, TypeOK, WindowRecords
<1>5. CASE Reserve(r)
  BY <1>1, <1>5 DEF Reserve, Goto, TypeOK, Labels
<1>6. CASE ReserveDenied(r) \/ ReserveBlocked(r)
  BY <1>6 DEF ReserveDenied, ReserveBlocked, Goto, TypeOK, Labels
<1>7. ASSUME NEW actual \in Nat \cup {Null}, NEW next \in Labels,
             Settle(r, actual, next)
      PROVE  TypeOK'
  <2> DEFINE charge == IF actual = Null THEN res[r].tokens ELSE actual
  <2>1. charge \in Nat
    BY <1>1
  <2>2. res' \in [Reqs -> Reservations] /\ spent' \in [Reqs -> Nat]
    BY <1>7, <2>1, NoReservationType DEF Settle, TypeOK, Reservations
  <2>3. used' \in [Windows -> Nat] /\ billed' \in [Windows -> Nat]
    BY <1>7, <2>1, SettleRowType DEF Settle, TypeOK
  <2>4. pc' \in [Reqs -> Labels]
    BY <1>7 DEF Settle, Goto, TypeOK, Labels
  <2> QED BY <1>7, <2>2, <2>3, <2>4 DEF Settle, TypeOK, Reservations
<1>8. CASE ProviderFailed(r)
  <2>1. CASE Settle(r, 0, "ended") \/ Settle(r, Null, "ended")
    BY <2>1, <1>7 DEF Labels
  <2>2. CASE FailedUnreserved(r)
    BY <2>2 DEF FailedUnreserved, Goto, TypeOK, Labels
  <2> QED BY <1>8, <2>1, <2>2 DEF ProviderFailed, ChatFailed, SummaryFailed
<1>9. CASE ProviderAnswered(r)
  <2>1. PICK actual \in Actuals : \/ Settle(r, actual, "settled")
                                  \/ AddUsage(r, actual) \/ Unmetered(r, actual)
    BY <1>9 DEF ProviderAnswered
  <2>2. actual \in Nat \cup {Null}
    BY RequestsAssumption
  <2>3. CASE Settle(r, actual, "settled")
    BY <2>2, <2>3, <1>7 DEF Labels
  <2>4. CASE AddUsage(r, actual)
    <3>1. actual \in Nat /\ today \in Days
      BY <2>2, <2>4 DEF AddUsage, TypeOK
    <3>2. \/ used' = used /\ billed' = billed
          \/ /\ used' = [used EXCEPT ![RowOf(win[r])] = @ + actual]
             /\ billed' = [billed EXCEPT ![RowOf(win[r])] = @ + actual]
      BY <2>4 DEF AddUsage
    <3>5. used \in [Windows -> Nat] /\ billed \in [Windows -> Nat]
      BY DEF TypeOK
    <3>4. used' \in [Windows -> Nat] /\ billed' \in [Windows -> Nat]
      BY <1>1, <3>1, <3>2, <3>5
    <3>3. pc' \in [Reqs -> Labels]
      BY <2>4 DEF AddUsage, Goto, TypeOK, Labels
    <3> QED BY <2>4, <3>1, <3>3, <3>4 DEF AddUsage, TypeOK
  <2>5. CASE Unmetered(r, actual)
    BY <2>2, <2>5 DEF Unmetered, Goto, TypeOK, Labels
  <2> QED BY <2>1, <2>3, <2>4, <2>5
<1>10. CASE Mirror(r)
  <2>1. <<"day", today>> \in Windows /\ spent[r] \in Nat
    BY <1>2 DEF TypeOK
  <2>2. used' \in [Windows -> Nat] /\ billed' \in [Windows -> Nat]
    <3>1. used \in [Windows -> Nat] /\ billed \in [Windows -> Nat]
      BY DEF TypeOK
    <3> QED BY <1>10, <2>1, <3>1 DEF Mirror
  <2>3. pc' \in [Reqs -> Labels]
    BY <1>10 DEF Mirror, Goto, TypeOK, Labels
  <2> QED BY <1>10, <2>2, <2>3 DEF Mirror, TypeOK
<1>13. CASE MirrorFails(r)
  <2>1. pc' \in [Reqs -> Labels]
    BY <1>13 DEF MirrorFails, Goto, TypeOK, Labels
  <2>2. spent' \in [Reqs -> Nat]
    BY <1>1, <1>13 DEF MirrorFails, TypeOK
  <2>3. UNCHANGED <<used, billed, today, account, job, round, seen, win, res>>
    BY <1>13 DEF MirrorFails
  <2> QED BY <2>1, <2>2, <2>3 DEF TypeOK
<1>11. CASE Continue(r) \/ Finish(r)
  <2>1. pc' \in [Reqs -> Labels]
    BY <1>11 DEF Continue, Finish, Goto, TypeOK, Labels
  <2>2. round' \in [Reqs -> 0..MaxRounds]
    BY <1>11, RequestsAssumption DEF Continue, Finish, TypeOK
  <2>3. UNCHANGED <<used, billed, today, account, job, seen, win, res, spent>>
    BY <1>11 DEF Continue, Finish
  <2> QED BY <2>1, <2>2, <2>3 DEF TypeOK
<1>12. CASE Strand(r)
  <2>1. res' \in [Reqs -> Reservations]
    BY <1>12, NoReservationType DEF Strand, TypeOK, Reservations
  <2>2. billed' \in [Windows -> Nat]
    BY <1>1, <1>12 DEF Strand, TypeOK
  <2>3. pc' \in [Reqs -> Labels]
    BY <1>12 DEF Strand, Goto, TypeOK, Labels
  <2> QED BY <1>12, <2>1, <2>2, <2>3 DEF Strand, TypeOK, Reservations
<1> QED
  BY <1>3, <1>4, <1>5, <1>6, <1>8, <1>9, <1>10, <1>11, <1>12, <1>13 DEF RequestStep

LEMMA InitType == Init => TypeOK
<1> SUFFICES ASSUME Init PROVE TypeOK
  OBVIOUS
<1>1. <<"day", 0>> \in Windows
  BY RowType, DaysFacts DEF Kinds
<1>2. Window("day", 0, 0, 0) \in WindowRecords
  BY DaysFacts, RemainingType DEF Window, WindowRecords, Kinds
<1>3. /\ win \in [Reqs -> WindowRecords]
      /\ res \in [Reqs -> Reservations]
      /\ seen \in [Reqs -> [day : Days, used : Nat]]
  BY <1>1, <1>2, DaysFacts DEF Init, NoReservation, Reservations
<1>4. round \in [Reqs -> 0..MaxRounds]
  BY RequestsAssumption DEF Init
<1> QED
  BY <1>3, <1>4, DaysFacts DEF Init, TypeOK, WindowRecords, Reservations, Labels, Accounts

\* The steps that belong to no single request keep the types.
LEMMA GlobalStepType ==
  ASSUME TypeOK, Crash \/ Tick \/ Tombstone \/ Purge
  PROVE  TypeOK'
<1>1. CASE Crash
  <2>1. res' \in [Reqs -> Reservations]
    BY <1>1, NoReservationType DEF Crash
  <2>2. pc' \in [Reqs -> Labels]
    BY <1>1 DEF Crash, Labels
  <2>3. \A w \in Windows : Outstanding(w) \in Nat
    BY HeldFinite, FS_CardinalityType DEF Outstanding
  <2>4. billed' \in [Windows -> Nat]
    BY <1>1, <2>3 DEF Crash, TypeOK
  <2> QED BY <1>1, <2>1, <2>2, <2>4 DEF Crash, TypeOK, Reservations
<1>2. CASE Tick
  <2>1. LastDay \in Nat
    BY CalendarAssumption
  <2>2. today' \in Days
    BY <1>2, <2>1 DEF Tick, TypeOK, Days
  <2> QED BY <1>2, <2>2 DEF Tick, TypeOK
<1>3. CASE Tombstone
  BY <1>3 DEF Tombstone, TypeOK, Accounts
<1>4. CASE Purge
  <2>1. used' \in [Windows -> Nat] /\ billed' \in [Windows -> Nat]
    BY <1>4 DEF Purge, TypeOK
  <2> QED BY <1>4, <2>1 DEF Purge, TypeOK, Accounts
<1> QED BY <1>1, <1>2, <1>3, <1>4

\* Every reachable state has the declared shape, with natural counters.
THEOREM TypeCorrect == Spec => []TypeOK
<1>1. TypeOK /\ [Next]_vars => TypeOK'
  <2> SUFFICES ASSUME TypeOK, [Next]_vars PROVE TypeOK'
    OBVIOUS
  <2>1. CASE \E r \in Reqs : RequestStep(r)
    BY <2>1, RequestStepType
  <2>2. CASE Crash \/ Tick \/ Tombstone \/ Purge
    BY <2>2, GlobalStepType
  <2>3. CASE UNCHANGED vars
    BY <2>3 DEF vars, TypeOK
  <2> QED BY <2>1, <2>2, <2>3 DEF Next
<1> QED BY <1>1, InitType, PTL DEF Spec

-----------------------------------------------------------------------------
(* The ledger                                                              *)

\* The strengthening that makes the ledger inductive: a request holds tokens
\* only while it waits for the provider, so no step forgets a reservation or
\* takes a second one.
HoldingAtProvider == \A r \in Reqs : Holding(r) => pc[r] = "provider"
LedgerInv == LedgerExact /\ HoldingAtProvider

HeldOf(f, w) == Cardinality(UnitsOf(f, w))

LEMMA OutstandingIs == /\ \A w : Outstanding(w) = HeldOf(res, w)
                       /\ \A w : Outstanding(w)' = HeldOf(res', w)
BY DEF Outstanding, HeldUnits, HeldOf, UnitsOf

\* A request that stays where it was or gives up what it held.
LEMMA NoNewHold ==
  ASSUME TypeOK, HoldingAtProvider, NEW r \in Reqs, NEW label,
         pc[r] # "provider" \/ res'[r].tokens = 0, Goto(r, label),
         res' = res \/ res' = [res EXCEPT ![r] = NoReservation]
  PROVE  HoldingAtProvider'
<1> SUFFICES ASSUME NEW q \in Reqs, res'[q].tokens > 0
             PROVE  pc'[q] = "provider"
  BY DEF HoldingAtProvider, Holding
<1>1. res \in [Reqs -> Reservations] /\ pc \in [Reqs -> Labels]
  BY DEF TypeOK, Reservations
<1>2. CASE q = r
  <2>1. res[r].tokens > 0 /\ pc[r] # "provider"
    BY <1>1, <1>2 DEF NoReservation
  <2> QED BY <2>1 DEF HoldingAtProvider, Holding
<1>3. CASE q # r
  <2>1. res'[q] = res[q]
    BY <1>1, <1>3
  <2>2. pc[q] = "provider"
    BY <2>1 DEF HoldingAtProvider, Holding
  <2> QED BY <1>1, <1>3, <2>2 DEF Goto
<1> QED BY <1>2, <1>3

LEMMA LedgerUntouched ==
  ASSUME LedgerExact, UNCHANGED <<used, billed, res, account>>
  PROVE  LedgerExact'
<1>1. \A w : Outstanding(w)' = Outstanding(w)
  BY OutstandingIs DEF HeldOf, UnitsOf
<1>2. \A w : Gone(w)' <=> Gone(w)
  BY DEF Gone
<1> QED BY <1>1, <1>2 DEF LedgerExact

\* Unreserved spending adds the same amount to the row and to the bill.
LEMMA LedgerAdded ==
  ASSUME TypeOK, LedgerExact, NEW v \in Windows, NEW n \in Nat,
         used' = [used EXCEPT ![v] = @ + n], billed' = [billed EXCEPT ![v] = @ + n],
         UNCHANGED <<res, account>>
  PROVE  LedgerExact'
<1> SUFFICES ASSUME NEW w \in Windows, ~ Gone(w)'
             PROVE  used'[w] = billed'[w] + Outstanding(w)'
  BY DEF LedgerExact
<1>1. Outstanding(w)' = Outstanding(w) /\ Outstanding(w) \in Nat
  BY OutstandingIs, HeldFinite DEF HeldOf, UnitsOf
<1>2. used[w] = billed[w] + Outstanding(w)
  BY DEF Gone, LedgerExact
<1>3. used \in [Windows -> Nat] /\ billed \in [Windows -> Nat]
  BY DEF TypeOK
<1>4. CASE w = v
  <2>1. used'[w] = used[w] + n /\ billed'[w] = billed[w] + n
    BY <1>3, <1>4
  <2> QED BY <1>1, <1>2, <1>3, <2>1
<1>5. CASE w # v
  <2>1. used'[w] = used[w] /\ billed'[w] = billed[w]
    BY <1>3, <1>5
  <2> QED BY <1>1, <1>2, <2>1
<1> QED BY <1>4, <1>5

\* A reservation raises the row by what it newly holds.
LEMMA LedgerReserved ==
  ASSUME TypeOK, LedgerInv, NEW r \in Reqs, Reserve(r)
  PROVE  LedgerExact'
<1> DEFINE v == RowOf(win[r])
           n == ReserveTokens(r)
<1>1. v \in Windows /\ n \in Nat
  BY ReserveType
<1>2. res \in [Reqs -> Reservations] /\ used \in [Windows -> Nat]
      /\ billed \in [Windows -> Nat]
  BY DEF TypeOK, Reservations
<1>3. used' = [used EXCEPT ![v] = @ + n] /\ billed' = billed /\ account' = account
      /\ res' = [res EXCEPT ![r] = [tokens |-> n, row |-> v]]
  BY DEF Reserve
<1>4. res[r].tokens = 0
  <2>1. ~ Holding(r)
    BY DEF LedgerInv, HoldingAtProvider, Reserve
  <2> QED BY <1>2, <2>1 DEF Holding, Reservations
<1> HIDE DEF v, n
<1>5. res' \in [Reqs -> Reservations] /\ res'[r] = [tokens |-> n, row |-> v]
      /\ \A q \in Reqs \ {r} : res'[q] = res[q]
  BY <1>1, <1>2, <1>3 DEF Reservations
<1> SUFFICES ASSUME NEW w \in Windows, ~ Gone(w)'
             PROVE  used'[w] = billed'[w] + Outstanding(w)'
  BY DEF LedgerExact
<1>6. used[w] = billed[w] + Outstanding(w)
  BY <1>3 DEF Gone, LedgerExact, LedgerInv
<1>7. /\ w = v => Outstanding(w)' = Outstanding(w) + n
      /\ w # v => Outstanding(w)' = Outstanding(w)
  <2>1. /\ w = res'[r].row => HeldOf(res', w) = HeldOf(res, w) + res'[r].tokens
        /\ w # res'[r].row => HeldOf(res', w) = HeldOf(res, w)
    BY <1>2, <1>4, <1>5, UnitsGrown DEF HeldOf
  <2> QED BY <1>5, <2>1, OutstandingIs DEF HeldOf, UnitsOf
<1>8. Outstanding(w) \in Nat
  BY HeldFinite
<1> QED BY <1>1, <1>2, <1>3, <1>6, <1>7, <1>8

\* A settlement replaces what the row held for the request by its charge; the
\* clamp at zero does nothing because the row still holds the reservation.
LEMMA LedgerSettled ==
  ASSUME TypeOK, LedgerExact, NEW r \in Reqs, NEW charge \in Nat,
         NEW v, v = res[r].row, NEW n, n = res[r].tokens,
         ~ Gone(v), SettleRow(r, charge), account' = account,
         res' \in [Reqs -> Reservations], res'[r].tokens = 0,
         \A q \in Reqs \ {r} : res'[q] = res[q]
  PROVE  LedgerExact'
<1>1. v \in Windows /\ n \in Nat
  BY ReserveType
<1>2. res \in [Reqs -> Reservations] /\ used \in [Windows -> Nat]
      /\ billed \in [Windows -> Nat]
  BY DEF TypeOK, Reservations
<1>3. /\ used' = [used EXCEPT ![v] = Larger(0, used[v] + (charge - n))]
      /\ billed' = [billed EXCEPT ![v] = billed[v] + charge]
  BY DEF SettleRow
<1>5. ASSUME NEW w \in Windows
      PROVE  /\ Outstanding(w) \in Nat /\ Outstanding(w)' \in Nat
             /\ w = v => Outstanding(w)' = Outstanding(w) - n
             /\ w # v => Outstanding(w)' = Outstanding(w)
  <2>1. /\ w = v => HeldOf(res', w) = HeldOf(res, w) - n
        /\ w # v => HeldOf(res', w) = HeldOf(res, w)
    BY <1>2, UnitsShrunk DEF HeldOf
  <2>2. HeldOf(res, w) \in Nat /\ HeldOf(res', w) \in Nat
    BY <1>2, UnitsFinite, FS_CardinalityType DEF HeldOf
  <2>3. Outstanding(w) = HeldOf(res, w) /\ Outstanding(w)' = HeldOf(res', w)
    BY OutstandingIs DEF HeldOf, UnitsOf
  <2> QED BY <2>1, <2>2, <2>3
<1>6. used[v] = billed[v] + Outstanding(v)
  BY <1>1 DEF LedgerExact
<1>7. Larger(0, used[v] + (charge - n)) = billed[v] + charge + Outstanding(v)'
  <2>1. Outstanding(v) - n \in Nat /\ Outstanding(v)' = Outstanding(v) - n
    BY <1>1, <1>5
  <2>2. used[v] \in Nat /\ billed[v] \in Nat
    BY <1>1, <1>2
  <2> QED BY <1>1, <1>5, <1>6, <2>1, <2>2 DEF Larger
<1> SUFFICES ASSUME NEW w \in Windows, ~ Gone(w)'
             PROVE  used'[w] = billed'[w] + Outstanding(w)'
  BY DEF LedgerExact
<1>8. CASE w = v
  BY <1>1, <1>2, <1>3, <1>7, <1>8
<1>9. CASE w # v
  <2>1. used[w] = billed[w] + Outstanding(w)
    BY DEF Gone, LedgerExact
  <2>2. used'[w] = used[w] /\ billed'[w] = billed[w]
    BY <1>2, <1>3, <1>9
  <2> QED BY <1>5, <1>9, <2>1, <2>2
<1> QED BY <1>8, <1>9

\* A hold on a row the purge has deleted may be forgotten.
LEMMA LedgerForgotten ==
  ASSUME TypeOK, LedgerExact, NEW r \in Reqs, Gone(res[r].row),
         UNCHANGED <<used, billed, account>>,
         res' \in [Reqs -> Reservations], res'[r].tokens = 0,
         \A q \in Reqs \ {r} : res'[q] = res[q]
  PROVE  LedgerExact'
<1> SUFFICES ASSUME NEW w \in Windows, ~ Gone(w)'
             PROVE  used'[w] = billed'[w] + Outstanding(w)'
  BY DEF LedgerExact
<1>1. ~ Gone(w) /\ w # res[r].row
  BY DEF Gone
<1>2. res \in [Reqs -> Reservations]
  BY DEF TypeOK, Reservations
<1>3. HeldOf(res', w) = HeldOf(res, w)
  BY <1>1, <1>2, UnitsShrunk DEF HeldOf
<1>4. Outstanding(w)' = Outstanding(w)
  BY <1>3, OutstandingIs DEF HeldOf, UnitsOf
<1> QED BY <1>1, <1>4 DEF LedgerExact

\* Whoever gives up a reservation leaves the other reservations alone.
LEMMA Dropped ==
  ASSUME TypeOK, NEW r \in Reqs, res' = [res EXCEPT ![r] = NoReservation]
  PROVE  /\ res' \in [Reqs -> Reservations]
         /\ res'[r] = NoReservation /\ res'[r].tokens = 0
         /\ \A q \in Reqs \ {r} : res'[q] = res[q]
<1>1. res \in [Reqs -> Reservations]
  BY DEF TypeOK, Reservations
<1>2. res'[r] = NoReservation /\ \A q \in Reqs \ {r} : res'[q] = res[q]
  BY <1>1
<1>3. res' \in [Reqs -> Reservations]
  BY <1>1, NoReservationType
<1> QED BY <1>2, <1>3 DEF NoReservation

\* A settlement keeps the books whichever way it ends.
LEMMA SettleLedger ==
  ASSUME TypeOK, LedgerInv, NEW r \in Reqs, NEW actual \in Nat \cup {Null},
         NEW next, Settle(r, actual, next)
  PROVE  LedgerInv'
<1> DEFINE charge == IF actual = Null THEN res[r].tokens ELSE actual
<1>1. charge \in Nat
  BY ReserveType
<1>2. res' = [res EXCEPT ![r] = NoReservation] /\ account' = account
  BY DEF Settle
<1>3. /\ res' \in [Reqs -> Reservations] /\ res'[r].tokens = 0
      /\ \A q \in Reqs \ {r} : res'[q] = res[q]
  BY <1>2, Dropped
<1>4. LedgerExact'
  <2>1. CASE Gone(res[r].row)
    <3>1. UNCHANGED <<used, billed, account>>
      BY <2>1 DEF Settle
    <3> QED BY <1>3, <2>1, <3>1, LedgerForgotten DEF LedgerInv
  <2>2. CASE ~ Gone(res[r].row)
    <3>1. SettleRow(r, charge)
      BY <2>2 DEF Settle
    <3> QED BY <1>1, <1>2, <1>3, <2>2, <3>1, LedgerSettled DEF LedgerInv
  <2> QED BY <2>1, <2>2
<1>5. \E label : Goto(r, label)
  BY DEF Settle
<1>6. HoldingAtProvider'
  BY <1>2, <1>3, <1>5, NoNewHold DEF LedgerInv
<1> QED BY <1>4, <1>6 DEF LedgerInv

\* Every step of a request keeps the books.
LEMMA RequestStepLedger ==
  ASSUME TypeOK, LedgerInv, NEW r \in Reqs, RequestStep(r)
  PROVE  LedgerInv'
<1>1. LedgerExact /\ HoldingAtProvider
  BY DEF LedgerInv
<1>2. ASSUME NEW label, Goto(r, label), UNCHANGED <<used, billed, res, account>>,
             ~ Holding(r)
      PROVE  LedgerInv'
  <2>1. pc[r] # "provider" \/ res'[r].tokens = 0
    BY <1>2, ReserveType DEF Holding
  <2> QED BY <1>1, <1>2, <2>1, LedgerUntouched, NoNewHold DEF LedgerInv
<1>3. pc[r] # "provider" => ~ Holding(r)
  BY <1>1 DEF HoldingAtProvider
<1>4. CASE ReadDaily(r) \/ ReserveDenied(r) \/ ReserveBlocked(r)
           \/ Continue(r) \/ Finish(r)
  BY <1>2, <1>3, <1>4 DEF ReadDaily, ReserveDenied, ReserveBlocked, Continue, Finish
<1>5. CASE ReadPeriods(r)
  <2>1. \E label : Goto(r, label)
    BY <1>5 DEF ReadPeriods
  <2> QED BY <1>2, <1>3, <1>5, <2>1 DEF ReadPeriods
<1>6. CASE Reserve(r)
  <2>1. LedgerExact'
    BY <1>6, LedgerReserved
  <2>2. HoldingAtProvider'
    <3> SUFFICES ASSUME NEW q \in Reqs, res'[q].tokens > 0
                 PROVE  pc'[q] = "provider"
      BY DEF HoldingAtProvider, Holding
    <3>1. res \in [Reqs -> Reservations] /\ pc \in [Reqs -> Labels]
      BY DEF TypeOK, Reservations
    <3>2. CASE q = r
      BY <1>6, <3>1, <3>2 DEF Reserve, Goto
    <3>3. CASE q # r
      <4>1. res'[q] = res[q] /\ pc'[q] = pc[q]
        BY <1>6, <3>1, <3>3 DEF Reserve, Goto
      <4> QED BY <1>1, <4>1 DEF HoldingAtProvider, Holding
    <3> QED BY <3>2, <3>3
  <2> QED BY <2>1, <2>2 DEF LedgerInv
<1>7. CASE ProviderFailed(r)
  <2>1. CASE Settle(r, 0, "ended") \/ Settle(r, Null, "ended")
    BY <2>1, SettleLedger
  <2>2. CASE FailedUnreserved(r)
    BY <1>2, <2>2 DEF FailedUnreserved
  <2> QED BY <1>7, <2>1, <2>2 DEF ProviderFailed, ChatFailed, SummaryFailed
<1>8. ASSUME NEW label, NEW v \in Windows, NEW n \in Nat, Goto(r, label),
             ~ Holding(r), UNCHANGED <<res, account>>,
             used' = [used EXCEPT ![v] = @ + n],
             billed' = [billed EXCEPT ![v] = @ + n]
      PROVE  LedgerInv'
  <2>1. LedgerExact'
    BY <1>1, <1>8, LedgerAdded
  <2>2. pc[r] # "provider" \/ res'[r].tokens = 0
    BY <1>8, ReserveType DEF Holding
  <2> QED BY <1>1, <1>8, <2>1, <2>2, NoNewHold DEF LedgerInv
<1>9. CASE ProviderAnswered(r)
  <2>1. PICK actual \in Actuals : \/ Settle(r, actual, "settled")
                                  \/ AddUsage(r, actual) \/ Unmetered(r, actual)
    BY <1>9 DEF ProviderAnswered
  <2>2. actual \in Nat \cup {Null}
    BY RequestsAssumption
  <2>3. CASE Settle(r, actual, "settled")
    BY <2>2, <2>3, SettleLedger
  <2>4. CASE AddUsage(r, actual)
    <3>1. ~ Holding(r) /\ UNCHANGED <<res, account>> /\ \E label : Goto(r, label)
      BY <2>4 DEF AddUsage
    <3>2. actual \in Nat /\ RowOf(win[r]) \in Windows
      BY <2>2, <2>4, ReserveType DEF AddUsage
    <3>3. CASE UNCHANGED <<used, billed>>
      BY <1>2, <3>1, <3>3
    <3>4. CASE /\ used' = [used EXCEPT ![RowOf(win[r])] = @ + actual]
               /\ billed' = [billed EXCEPT ![RowOf(win[r])] = @ + actual]
      BY <1>8, <3>1, <3>2, <3>4
    <3> QED BY <2>4, <3>3, <3>4 DEF AddUsage
  <2>5. CASE Unmetered(r, actual)
    BY <1>2, <2>5 DEF Unmetered
  <2> QED BY <2>1, <2>3, <2>4, <2>5
<1>10. CASE Mirror(r)
  <2>1. ~ Holding(r) /\ UNCHANGED <<res, account>> /\ \E label : Goto(r, label)
    BY <1>3, <1>10 DEF Mirror
  <2>2. spent[r] \in Nat /\ <<"day", today>> \in Windows
    BY RowType DEF TypeOK, Kinds
  <2> QED BY <1>8, <1>10, <2>1, <2>2 DEF Mirror
<1>12. CASE MirrorFails(r)
  <2>1. ~ Holding(r) /\ \E label : Goto(r, label)
    BY <1>3, <1>12 DEF MirrorFails
  <2> QED BY <1>2, <1>12, <2>1 DEF MirrorFails
<1>11. CASE Strand(r)
  <2>1. /\ res' = [res EXCEPT ![r] = NoReservation] /\ account' = account
        /\ used' = used /\ Goto(r, "ended")
    BY <1>11 DEF Strand
  <2>2. /\ res' \in [Reqs -> Reservations] /\ res'[r].tokens = 0
        /\ \A q \in Reqs \ {r} : res'[q] = res[q]
    BY <2>1, Dropped
  <2>3. CASE Gone(res[r].row)
    <3>1. UNCHANGED <<used, billed, account>>
      BY <1>11, <2>3 DEF Strand
    <3> QED BY <1>1, <2>1, <2>2, <2>3, <3>1, LedgerForgotten, NoNewHold DEF LedgerInv
  <2>4. CASE ~ Gone(res[r].row)
    <3>1. res[r].tokens \in Nat /\ res[r].row \in Windows
          /\ used \in [Windows -> Nat]
      BY ReserveType DEF TypeOK
    <3>2. Larger(0, used[res[r].row] + (res[r].tokens - res[r].tokens))
            = used[res[r].row]
      BY <3>1 DEF Larger
    <3>3. billed' = [billed EXCEPT ![res[r].row] = @ + res[r].tokens]
      BY <1>11, <2>4 DEF Strand
    <3>4. used' = [used EXCEPT ![res[r].row] = used[res[r].row]]
      BY <2>1, <3>1
    <3>5. SettleRow(r, res[r].tokens)
      BY <3>2, <3>3, <3>4 DEF SettleRow
    <3>6. LedgerExact'
      BY <1>1, <2>1, <2>2, <2>4, <3>1, <3>5, LedgerSettled
    <3> QED BY <1>1, <2>1, <2>2, <3>6, NoNewHold DEF LedgerInv
  <2> QED BY <2>3, <2>4
<1> QED BY <1>4, <1>5, <1>6, <1>7, <1>9, <1>10, <1>11, <1>12 DEF RequestStep

\* So do the crash, midnight and the account deletion.
LEMMA GlobalStepLedger ==
  ASSUME TypeOK, LedgerInv, Crash \/ Tick \/ Tombstone \/ Purge
  PROVE  LedgerInv'
<1>1. LedgerExact /\ HoldingAtProvider
  BY DEF LedgerInv
<1>2. /\ used \in [Windows -> Nat] /\ billed \in [Windows -> Nat]
      /\ res \in [Reqs -> Reservations]
  BY DEF TypeOK, Reservations
<1>3. CASE Crash
  <2>1. /\ used' = used /\ account' = account
        /\ billed' = [w \in Windows |-> IF Gone(w) THEN billed[w]
                                        ELSE billed[w] + Outstanding(w)]
        /\ res' = [r \in Reqs |-> NoReservation]
    BY <1>3 DEF Crash
  <2>2. /\ res' \in [Reqs -> Reservations]
        /\ \A r \in Reqs : res'[r].tokens = 0
    BY <2>1, NoReservationType DEF NoReservation
  <2>3. LedgerExact'
    <3> SUFFICES ASSUME NEW w \in Windows, ~ Gone(w)'
                 PROVE  used'[w] = billed'[w] + Outstanding(w)'
      BY DEF LedgerExact
    <3>1. ~ Gone(w)
      BY <2>1 DEF Gone
    <3>2. used[w] = billed[w] + Outstanding(w)
      BY <1>1, <3>1 DEF LedgerExact
    <3>3. HeldOf(res', w) = 0
      BY <2>2, UnitsNone DEF HeldOf
    <3>4. Outstanding(w)' = 0
      BY <3>3, OutstandingIs DEF HeldOf, UnitsOf
    <3>5. Outstanding(w) \in Nat /\ billed[w] \in Nat
      BY <1>2, HeldFinite
    <3>6. billed'[w] = billed[w] + Outstanding(w)
      BY <2>1, <3>1
    <3> QED BY <2>1, <3>2, <3>4, <3>5, <3>6
  <2>4. HoldingAtProvider'
    BY <2>2 DEF HoldingAtProvider, Holding
  <2> QED BY <2>3, <2>4 DEF LedgerInv
<1>4. CASE Tick
  BY <1>1, <1>4, LedgerUntouched DEF Tick, LedgerInv, HoldingAtProvider, Holding
<1>5. CASE Tombstone
  <2>1. \A w : Gone(w)' => Gone(w)
    BY <1>5 DEF Tombstone, Gone
  <2>2. \A w : Gone(w) => Gone(w)'
    BY <1>5 DEF Tombstone, Gone
  <2>3. \A w : Outstanding(w)' = Outstanding(w)
    BY <1>5, OutstandingIs DEF Tombstone, HeldOf, UnitsOf
  <2>4. LedgerExact'
    BY <1>1, <1>5, <2>1, <2>2, <2>3 DEF LedgerExact, Tombstone
  <2> QED
    BY <1>1, <1>5, <2>4 DEF LedgerInv, HoldingAtProvider, Holding, Tombstone
<1>6. CASE Purge
  <2>1. LedgerExact'
    <3> SUFFICES ASSUME NEW w \in Windows, ~ Gone(w)'
                 PROVE  used'[w] = billed'[w] + Outstanding(w)'
      BY DEF LedgerExact
    <3>1. account = "tombstoned" /\ account' = "dailyPurged" /\ w[1] # "day"
      BY <1>6 DEF Purge, Gone
    <3>2. used'[w] = used[w] /\ billed'[w] = billed[w]
      BY <1>6, <3>1 DEF Purge
    <3>3. Outstanding(w)' = Outstanding(w)
      BY <1>6, OutstandingIs DEF Purge, HeldOf, UnitsOf
    <3>4. ~ Gone(w)
      BY <3>1 DEF Gone
    <3> QED BY <1>1, <3>2, <3>3, <3>4 DEF LedgerExact
  <2> QED
    BY <1>1, <1>6, <2>1 DEF LedgerInv, HoldingAtProvider, Holding, Purge
<1> QED BY <1>3, <1>4, <1>5, <1>6

LEMMA InitLedger == Init => LedgerInv
<1> SUFFICES ASSUME Init PROVE LedgerInv
  OBVIOUS
<1>1. res \in [Reqs -> Reservations] /\ \A r \in Reqs : res[r].tokens = 0
  BY NoReservationType DEF Init, NoReservation
<1>2. ASSUME NEW w PROVE Outstanding(w) = 0
  BY <1>1, OutstandingIs, UnitsNone DEF HeldOf
<1> QED
  BY <1>1, <1>2 DEF Init, LedgerInv, LedgerExact, HoldingAtProvider, Holding

LEMMA LedgerStep == TypeOK /\ LedgerInv /\ [Next]_vars => LedgerInv'
<1> SUFFICES ASSUME TypeOK, LedgerInv, [Next]_vars PROVE LedgerInv'
  OBVIOUS
<1>1. CASE \E r \in Reqs : RequestStep(r)
  BY <1>1, RequestStepLedger
<1>2. CASE Crash \/ Tick \/ Tombstone \/ Purge
  BY <1>2, GlobalStepLedger
<1>3. CASE UNCHANGED vars
  <2>1. UNCHANGED <<used, billed, res, account, pc>>
    BY <1>3 DEF vars
  <2> QED BY <2>1, LedgerUntouched DEF LedgerInv, HoldingAtProvider, Holding
<1> QED BY <1>1, <1>2, <1>3 DEF Next

\* LedgerExact holds in every reachable state, for any number of requests,
\* rounds, days and any usage reported: no token reserved, settled or mirrored
\* by quotaWindows.js is lost or counted twice.
THEOREM LedgerIsExact == Spec => []LedgerExact
<1>1. LedgerInv => LedgerExact
  BY DEF LedgerInv
<1> QED BY <1>1, LedgerStep, InitLedger, TypeCorrect, PTL DEF Spec

-----------------------------------------------------------------------------
(* The account deletion                                                    *)

\* No step writes to a row the purge has removed: the settling updates find no
\* row, and the tombstone triggers abort the upserts that would create one.
LEMMA RequestStepAfterPurge ==
  ASSUME TypeOK, NoUsageAfterPurge, NEW r \in Reqs, RequestStep(r)
  PROVE  NoUsageAfterPurge'
<1>1. account' = account
  BY DEF RequestStep, ReadDaily, ReadPeriods, Reserve, ReserveDenied,
         ReserveBlocked, ProviderFailed, ChatFailed, SummaryFailed,
         FailedUnreserved, ProviderAnswered, Settle, AddUsage,
         Unmetered, Mirror, MirrorFails, Continue, Finish, Strand
<1>2. used \in [Windows -> Nat]
  BY DEF TypeOK
<1> SUFFICES ASSUME NEW w \in Windows, Gone(w)
             PROVE  used'[w] = 0
  BY <1>1 DEF NoUsageAfterPurge, Gone
<1>3. used[w] = 0 /\ TriggersBlock
  BY DEF NoUsageAfterPurge, Gone, TriggersBlock
<1>4. ASSUME NEW actual, NEW next, Settle(r, actual, next)
      PROVE  used'[w] = 0
  <2>1. CASE Gone(res[r].row)
    BY <1>3, <1>4, <2>1 DEF Settle
  <2>2. CASE ~ Gone(res[r].row)
    <3>1. w # res[r].row
      BY <2>2
    <3>2. used' = [used EXCEPT ![res[r].row] =
                     Larger(0, @ + ((IF actual = Null THEN res[r].tokens ELSE actual)
                                      - res[r].tokens))]
      BY <1>4, <2>2 DEF Settle, SettleRow
    <3> QED BY <1>2, <1>3, <3>1, <3>2
  <2> QED BY <2>1, <2>2
<1>5. CASE ProviderAnswered(r) \/ ProviderFailed(r)
  <2>1. \/ \E actual, next : Settle(r, actual, next)
        \/ used' = used
        \/ \E actual : AddUsage(r, actual)
    BY <1>5 DEF ProviderAnswered, ProviderFailed, ChatFailed, SummaryFailed,
               FailedUnreserved, Unmetered
  <2> QED BY <1>3, <1>4, <2>1 DEF AddUsage
<1>6. CASE Reserve(r)
  BY <1>3, <1>6 DEF Reserve
<1>7. CASE Mirror(r)
  BY <1>3, <1>7 DEF Mirror
<1>8. CASE \/ ReadDaily(r) \/ ReadPeriods(r) \/ ReserveDenied(r) \/ ReserveBlocked(r)
           \/ MirrorFails(r) \/ Continue(r) \/ Finish(r) \/ Strand(r)
  <2>1. used' = used
    BY <1>8 DEF ReadDaily, ReadPeriods, ReserveDenied, ReserveBlocked,
               MirrorFails, Continue, Finish, Strand
  <2> QED BY <1>3, <2>1
<1> QED BY <1>5, <1>6, <1>7, <1>8 DEF RequestStep

\* A deleted account's rows stay deleted, whatever requests were in flight.
THEOREM DeletedRowsStayDeleted == Spec => []NoUsageAfterPurge
<1>1. Init => NoUsageAfterPurge
  BY DEF Init, NoUsageAfterPurge
<1>2. TypeOK /\ NoUsageAfterPurge /\ [Next]_vars => NoUsageAfterPurge'
  <2> SUFFICES ASSUME TypeOK, NoUsageAfterPurge, [Next]_vars
               PROVE  NoUsageAfterPurge'
    OBVIOUS
  <2>1. CASE \E r \in Reqs : RequestStep(r)
    BY <2>1, RequestStepAfterPurge
  <2>2. CASE \/ Crash \/ Tick \/ UNCHANGED vars
    BY <2>2 DEF Crash, Tick, vars, NoUsageAfterPurge, Gone
  <2>3. CASE Tombstone
    BY <2>3 DEF Tombstone, NoUsageAfterPurge, Gone
  <2>4. CASE Purge
    <3> SUFFICES ASSUME NEW w \in Windows, Gone(w)'
                 PROVE  used'[w] = 0
      BY DEF NoUsageAfterPurge
    <3>1. CASE (w[1] = "day") = (account = "tombstoned")
      BY <2>4, <3>1 DEF Purge
    <3>2. CASE (w[1] = "day") # (account = "tombstoned")
      <4>1. used'[w] = used[w]
        BY <2>4, <3>2 DEF Purge
      <4>2. account = "dailyPurged" /\ w[1] = "day"
        BY <2>4, <3>2 DEF Purge, Gone
      <4> QED BY <4>1, <4>2 DEF NoUsageAfterPurge, Gone
    <3> QED BY <3>1, <3>2
  <2> QED BY <2>1, <2>2, <2>3, <2>4 DEF Next
<1> QED BY <1>1, <1>2, TypeCorrect, PTL DEF Spec

-----------------------------------------------------------------------------
(* What requests in flight hold together                                   *)

\* The window a request reserves under is one resolveTokenWindow returned.
ReservingUnderLimit ==
  \A r \in Reqs : pc[r] = "reserving" => win[r].limit \in LimitsOf(win[r].kind)

LEMMA ReadWindowLimit ==
  ASSUME TypeOK, NEW r \in Reqs, ReadPeriods(r)
  PROVE  win'[r].limit \in LimitsOf(win'[r].kind)
<1> DEFINE w == ResolveWindow(job[r].plan, seen[r].day, seen[r].used,
                              used[<<"month", MonthOf[seen[r].day]>>],
                              used[<<"week", WeekOf[seen[r].day]>>])
<1>1. seen[r].day \in Days /\ seen[r].used \in Nat /\ job[r].plan \in Plans
  BY DEF TypeOK, Jobs
<1>2. <<"month", MonthOf[seen[r].day]>> \in Windows
      /\ <<"week", WeekOf[seen[r].day]>> \in Windows
  BY <1>1, DaysFacts, RowType DEF Kinds
<1>3. /\ used[<<"month", MonthOf[seen[r].day]>>] \in Nat
      /\ used[<<"week", WeekOf[seen[r].day]>>] \in Nat
  BY <1>2 DEF TypeOK
<1>4. w.limit \in LimitsOf(w.kind)
  BY <1>1, <1>3, ResolveType
<1>5. win' = [win EXCEPT ![r] = w]
  BY DEF ReadPeriods
<1>6. win'[r] = w
  BY <1>5 DEF TypeOK
<1> QED BY <1>4, <1>6

LEMMA StepReservingUnderLimit ==
  ASSUME TypeOK, ReservingUnderLimit, [Next]_vars
  PROVE  ReservingUnderLimit'
<1> SUFFICES ASSUME NEW q \in Reqs, pc'[q] = "reserving"
             PROVE  win'[q].limit \in LimitsOf(win'[q].kind)
  BY DEF ReservingUnderLimit, LimitsOf
<1>1. pc \in [Reqs -> Labels]
      /\ win \in [Reqs -> WindowRecords]
  BY DEF TypeOK, WindowRecords
<1>2. CASE pc[q] = "reserving" /\ win'[q] = win[q]
  BY <1>2 DEF ReservingUnderLimit
<1>3. CASE Crash \/ Tick \/ Tombstone \/ Purge \/ UNCHANGED vars
  <2>1. pc[q] = "reserving" /\ win' = win
    BY <1>3 DEF Crash, Tick, Tombstone, Purge, vars
  <2> QED BY <1>2, <2>1
<1>4. ASSUME NEW r \in Reqs, RequestStep(r)
      PROVE  win'[q].limit \in LimitsOf(win'[q].kind)
  <2>1. CASE ReadPeriods(r)
    <3>1. CASE q = r
      BY <2>1, <3>1, ReadWindowLimit
    <3>2. CASE q # r
      <4>1. win'[q] = win[q] /\ pc'[q] = pc[q]
        BY <1>1, <2>1, <3>2 DEF ReadPeriods, Goto
      <4> QED BY <1>2, <4>1
    <3> QED BY <3>1, <3>2
  <2>2. CASE ~ ReadPeriods(r)
    <3>1. win' = win
      BY <1>4, <2>2 DEF RequestStep, ReadDaily, Reserve, ReserveDenied,
             ReserveBlocked, ProviderFailed, ChatFailed, SummaryFailed,
         FailedUnreserved, ProviderAnswered, Settle, AddUsage,
             Unmetered, Mirror, MirrorFails, Continue, Finish, Strand
    <3>2. \E label : Goto(r, label) /\ label # "reserving"
      BY <1>4, <2>2 DEF RequestStep, ReadDaily, Reserve, ReserveDenied,
             ReserveBlocked, ProviderFailed, ChatFailed, SummaryFailed,
         FailedUnreserved, ProviderAnswered, Settle, AddUsage,
             Unmetered, Mirror, MirrorFails, Continue, Finish, Strand
    <3>3. pc[q] = "reserving"
      BY <1>1, <3>2 DEF Goto
    <3> QED BY <1>2, <3>1, <3>3
  <2> QED BY <2>1, <2>2
<1> QED BY <1>3, <1>4 DEF Next

\* Giving reservations up lowers what a row holds.
LEMMA HeldLowered ==
  ASSUME TypeOK, NEW r \in Reqs, NEW w,
         res' = res \/ res' = [res EXCEPT ![r] = NoReservation]
  PROVE  Outstanding(w)' <= Outstanding(w)
<1>1. res \in [Reqs -> Reservations]
  BY DEF TypeOK, Reservations
<1>2. HeldOf(res, w) \in Nat
  BY <1>1, UnitsFinite, FS_CardinalityType DEF HeldOf
<1>3. CASE res' = res
  BY <1>2, <1>3, OutstandingIs DEF HeldOf, UnitsOf
<1>4. CASE res' = [res EXCEPT ![r] = NoReservation]
  <2>1. /\ res' \in [Reqs -> Reservations] /\ res'[r].tokens = 0
        /\ \A q \in Reqs \ {r} : res'[q] = res[q]
    BY <1>4, Dropped
  <2>2. /\ w = res[r].row => HeldOf(res', w) = HeldOf(res, w) - res[r].tokens
        /\ w # res[r].row => HeldOf(res', w) = HeldOf(res, w)
    BY <1>1, <2>1, UnitsShrunk DEF HeldOf
  <2>3. HeldOf(res', w) <= HeldOf(res, w)
    BY <1>2, <2>2, ReserveType
  <2> QED BY <2>3, OutstandingIs DEF HeldOf, UnitsOf
<1> QED BY <1>3, <1>4

\* A granted reservation keeps its row's holds within the window's limit.
LEMMA ReserveWithinLimit ==
  ASSUME TypeOK, LedgerInv, ReservingUnderLimit, ReservedWithinLimit,
         NEW r \in Reqs, Reserve(r)
  PROVE  ReservedWithinLimit'
<1> DEFINE v == RowOf(win[r])
           n == ReserveTokens(r)
<1> SUFFICES ASSUME NEW w \in Windows, ~ Gone(w)', Outstanding(w)' > 0
             PROVE  \E limit \in LimitsOf(w[1]) : Outstanding(w)' <= limit
  BY DEF ReservedWithinLimit, LimitsOf
<1>1. v \in Windows /\ n \in Nat
  BY ReserveType
<1>2. LedgerExact'
  BY LedgerReserved
<1>3. ~ Gone(w)
  BY DEF Gone, Reserve
<1>4. used' = [used EXCEPT ![v] = @ + n] /\ billed' = billed
  BY DEF Reserve
<1>5. used'[w] = billed'[w] + Outstanding(w)'
  BY <1>2 DEF LedgerExact
<1>6. used[w] = billed[w] + Outstanding(w)
  BY <1>3 DEF LedgerExact, LedgerInv
<1>7. used \in [Windows -> Nat] /\ billed \in [Windows -> Nat]
  BY DEF TypeOK
<1>8. Outstanding(w) \in Nat
  BY HeldFinite
<1>9. Outstanding(w)' \in Nat
  <2>1. TypeOK'
    BY RequestStepType DEF RequestStep
  <2>2. res' \in [Reqs -> Reservations]
    BY <2>1 DEF TypeOK, Reservations
  <2>3. HeldOf(res', w) \in Nat
    BY <2>2, UnitsFinite, FS_CardinalityType DEF HeldOf
  <2> QED BY <2>3, OutstandingIs DEF HeldOf, UnitsOf
<1>10. CASE w = v
  <2>1. used[v] + n <= win[r].limit
    BY DEF Reserve, Fits
  <2>2. used'[w] = used[v] + n
    BY <1>1, <1>4, <1>7, <1>10
  <2>3. win[r].limit \in Nat /\ win[r].limit \in LimitsOf(win[r].kind)
    BY DEF TypeOK, Reserve, ReservingUnderLimit
  <2>4. w[1] = win[r].kind
    BY <1>10 DEF RowOf
  <2>5. Outstanding(w)' <= win[r].limit
    BY <1>1, <1>4, <1>5, <1>7, <1>9, <2>1, <2>2, <2>3
  <2> QED BY <2>3, <2>4, <2>5
<1>11. CASE w # v
  <2>1. used'[w] = used[w] /\ billed'[w] = billed[w]
    BY <1>4, <1>7, <1>11
  <2>2. Outstanding(w)' = Outstanding(w)
    BY <1>5, <1>6, <1>7, <1>8, <1>9, <2>1
  <2> QED BY <1>3, <2>2 DEF ReservedWithinLimit
<1> QED BY <1>10, <1>11

LEMMA StepReservedWithinLimit ==
  ASSUME TypeOK, TypeOK', LedgerInv, ReservingUnderLimit, ReservedWithinLimit,
         [Next]_vars
  PROVE  ReservedWithinLimit'
<1>1. ASSUME \A w \in Windows : ~ Gone(w)' => ~ Gone(w),
             \A w \in Windows : Outstanding(w)' <= Outstanding(w)
      PROVE  ReservedWithinLimit'
  <2> SUFFICES ASSUME NEW w \in Windows, ~ Gone(w)', Outstanding(w)' > 0
               PROVE  \E limit \in LimitsOf(w[1]) : Outstanding(w)' <= limit
    BY DEF ReservedWithinLimit, LimitsOf
  <2>1. Outstanding(w) \in Nat
    BY HeldFinite
  <2>2. Outstanding(w)' \in Nat
    <3>1. res' \in [Reqs -> Reservations]
      BY DEF TypeOK, Reservations
    <3>2. HeldOf(res', w) \in Nat
      BY <3>1, UnitsFinite, FS_CardinalityType DEF HeldOf
    <3> QED BY <3>2, OutstandingIs DEF HeldOf, UnitsOf
  <2>3. PICK limit \in LimitsOf(w[1]) : Outstanding(w) <= limit
    BY <1>1, <2>1, <2>2 DEF ReservedWithinLimit
  <2>4. limit \in Nat
    <3>1. w[1] \in {"day", "week", "month"}
      BY DEF Windows, Kinds
    <3>2. CASE w[1] = "day"
      BY <3>2, GraceType DEF LimitsOf
    <3>3. CASE w[1] = "week"
      BY <3>3, GraceType DEF LimitsOf
    <3>4. CASE w[1] = "month"
      BY <3>4, GraceType DEF LimitsOf
    <3> QED BY <3>1, <3>2, <3>3, <3>4
  <2>5. Outstanding(w)' <= limit
    BY <1>1, <2>1, <2>2, <2>3, <2>4
  <2> QED BY <2>5
<1>2. ASSUME NEW r \in Reqs, RequestStep(r)
      PROVE  ReservedWithinLimit'
  <2>1. CASE Reserve(r)
    BY <2>1, ReserveWithinLimit
  <2>2. CASE ~ Reserve(r)
    <3>1. account' = account /\ (res' = res \/ res' = [res EXCEPT ![r] = NoReservation])
      BY <1>2, <2>2 DEF RequestStep, ReadDaily, ReadPeriods, ReserveDenied,
             ReserveBlocked, ProviderFailed, ChatFailed, SummaryFailed,
         FailedUnreserved, ProviderAnswered, Settle, AddUsage,
             Unmetered, Mirror, MirrorFails, Continue, Finish, Strand
    <3> QED BY <1>1, <3>1, HeldLowered DEF Gone
  <2> QED BY <2>1, <2>2
<1>3. CASE Crash
  <2>1. res' = [r \in Reqs |-> NoReservation] /\ account' = account
    BY <1>3 DEF Crash
  <2>2. /\ res' \in [Reqs -> Reservations]
        /\ \A r \in Reqs : res'[r].tokens = 0
    BY <2>1, NoReservationType DEF NoReservation
  <2>3. ASSUME NEW w \in Windows PROVE Outstanding(w)' <= Outstanding(w)
    <3>1. HeldOf(res', w) = 0
      BY <2>2, UnitsNone DEF HeldOf
    <3>2. Outstanding(w)' = 0
      BY <3>1, OutstandingIs DEF HeldOf, UnitsOf
    <3> QED BY <3>2, HeldFinite
  <2> QED BY <1>1, <2>1, <2>3 DEF Gone
<1>4. CASE Tick \/ Tombstone \/ Purge \/ UNCHANGED vars
  <2>1. res' = res
    BY <1>4 DEF Tick, Tombstone, Purge, vars
  <2>2. \A w \in Windows : Outstanding(w)' = Outstanding(w)
    BY <2>1, OutstandingIs DEF HeldOf, UnitsOf
  <2>3. \A w \in Windows : Outstanding(w)' <= Outstanding(w)
    BY <2>2, HeldFinite
  <2>4. \A w \in Windows : ~ Gone(w)' => ~ Gone(w)
    BY <1>4 DEF Gone, Tick, Tombstone, Purge, vars
  <2> QED BY <1>1, <2>3, <2>4
<1> QED BY <1>2, <1>3, <1>4 DEF Next

\* Concurrent requests never hold more on a row than one plan's limit, for
\* any number of requests: the conditional upserts of usageStore.js read the
\* row they raise.
THEOREM ReservationsFitTheLimit == Spec => []ReservedWithinLimit
<1>1. Init => ReservingUnderLimit /\ ReservedWithinLimit
  <2> SUFFICES ASSUME Init PROVE ReservingUnderLimit /\ ReservedWithinLimit
    OBVIOUS
  <2>1. ReservingUnderLimit
    BY DEF Init, ReservingUnderLimit
  <2>2. res \in [Reqs -> Reservations] /\ \A r \in Reqs : res[r].tokens = 0
    BY NoReservationType DEF Init, NoReservation
  <2>3. ASSUME NEW w PROVE Outstanding(w) = 0
    BY <2>2, OutstandingIs, UnitsNone DEF HeldOf
  <2> QED BY <2>1, <2>3 DEF ReservedWithinLimit
<1>2. Spec => []LedgerInv
  BY LedgerStep, InitLedger, TypeCorrect, PTL DEF Spec
<1>3. TypeOK /\ TypeOK' /\ LedgerInv /\ ReservingUnderLimit /\ ReservedWithinLimit
        /\ [Next]_vars => ReservingUnderLimit' /\ ReservedWithinLimit'
  BY StepReservingUnderLimit, StepReservedWithinLimit
<1> QED BY <1>1, <1>2, <1>3, TypeCorrect, PTL DEF Spec

-----------------------------------------------------------------------------
(* The ledger                                                              *)

\* A summary only reserves in a window that still has tokens: computeTokenBudget
\* refused it otherwise.
ReservingInOpenWindow ==
  \A r \in Reqs :
    pc[r] = "reserving" /\ r \in Summaries => win[r].remaining > 0

LEMMA StepReservingInOpenWindow ==
  ASSUME TypeOK, ReservingInOpenWindow, [Next]_vars
  PROVE  ReservingInOpenWindow'
<1> SUFFICES ASSUME NEW q \in Reqs, pc'[q] = "reserving", q \in Summaries
             PROVE  win'[q].remaining > 0
  BY DEF ReservingInOpenWindow
<1>1. pc \in [Reqs -> Labels] /\ win \in [Reqs -> WindowRecords]
  BY DEF TypeOK, WindowRecords
<1>2. CASE pc[q] = "reserving" /\ win'[q] = win[q]
  BY <1>2 DEF ReservingInOpenWindow
<1>3. CASE Crash \/ Tick \/ Tombstone \/ Purge \/ UNCHANGED vars
  <2>1. pc[q] = "reserving" /\ win' = win
    BY <1>3 DEF Crash, Tick, Tombstone, Purge, vars
  <2> QED BY <1>2, <2>1
<1>4. ASSUME NEW r \in Reqs, RequestStep(r)
      PROVE  win'[q].remaining > 0
  <2>1. CASE ReadPeriods(r)
    <3>1. CASE q = r
      <4> DEFINE w == ResolveWindow(job[r].plan, seen[r].day, seen[r].used,
                                    used[<<"month", MonthOf[seen[r].day]>>],
                                    used[<<"week", WeekOf[seen[r].day]>>])
      <4>1. /\ win' = [win EXCEPT ![r] = w]
            /\ Goto(r, IF RefusedOnRead(r, w) THEN "refused"
                       ELSE IF round[r] = 0 THEN "reserving" ELSE "provider")
        BY <2>1 DEF ReadPeriods
      <4> HIDE DEF w
      <4>2. win'[q] = w /\ ~ RefusedOnRead(r, w)
        BY <1>1, <3>1, <4>1 DEF Goto
      <4>3. w.remaining # 0
        BY <3>1, <4>2 DEF RefusedOnRead, SummaryRefused
      <4>4. win'[q].remaining \in Nat
        <5>1. TypeOK'
          BY <1>4, RequestStepType
        <5> QED BY <5>1 DEF TypeOK
      <4> QED BY <4>2, <4>3, <4>4
    <3>2. CASE q # r
      <4>1. win'[q] = win[q] /\ pc'[q] = pc[q]
        BY <1>1, <2>1, <3>2 DEF ReadPeriods, Goto
      <4> QED BY <1>2, <4>1
    <3> QED BY <3>1, <3>2
  <2>2. CASE ~ ReadPeriods(r)
    <3>1. win' = win
      BY <1>4, <2>2 DEF RequestStep, ReadDaily, Reserve, ReserveDenied,
             ReserveBlocked, ProviderFailed, ChatFailed, SummaryFailed,
             FailedUnreserved, ProviderAnswered, Settle, AddUsage,
             Unmetered, Mirror, MirrorFails, Continue, Finish, Strand
    <3>2. \E label : Goto(r, label) /\ label # "reserving"
      BY <1>4, <2>2 DEF RequestStep, ReadDaily, Reserve, ReserveDenied,
             ReserveBlocked, ProviderFailed, ChatFailed, SummaryFailed,
             FailedUnreserved, ProviderAnswered, Settle, AddUsage,
             Unmetered, Mirror, MirrorFails, Continue, Finish, Strand
    <3>3. pc[q] = "reserving"
      BY <1>1, <3>2 DEF Goto
    <3> QED BY <1>2, <3>1, <3>3
  <2> QED BY <2>1, <2>2
<1> QED BY <1>3, <1>4 DEF Next

\* The invariant under which every step is a step of the ledger.
BooksInv == /\ TypeOK
            /\ LedgerInv
            /\ ReservingUnderLimit
            /\ ReservingInOpenWindow

LEMMA BooksInitially == Init => BooksInv
<1>1. Init => ReservingUnderLimit /\ ReservingInOpenWindow
  BY DEF Init, ReservingUnderLimit, ReservingInOpenWindow
<1> QED BY <1>1, InitType, InitLedger DEF BooksInv

LEMMA BooksKept == BooksInv /\ TypeOK' /\ [Next]_vars => BooksInv'
BY LedgerStep, StepReservingUnderLimit, StepReservingInOpenWindow DEF BooksInv

LEMMA BooksSafe == Spec => []BooksInv
<1>1. BooksInv => TypeOK
  BY DEF BooksInv
<1> QED BY <1>1, BooksInitially, BooksKept, TypeCorrect, PTL DEF Spec

\* The holds of the ledger are the reservations.
LEMMA HoldsAreReservations ==
  /\ \A w : Ledger!Held(w) = Outstanding(w)
  /\ \A r : Ledger!Open(r) <=> Holding(r)
<1>1. ASSUME NEW S PROVE Ledger!Cardinality(S) = Cardinality(S)
  BY DEF Ledger!Cardinality, Cardinality
<1>2. ASSUME NEW w PROVE Ledger!Held(w) = Outstanding(w)
  <2>1. Ledger!Units(w) = HeldUnits(w)
    BY DEF Ledger!Units, HeldUnits
  <2> QED BY <1>1, <2>1 DEF Ledger!Held, Outstanding
<1>3. ASSUME NEW r PROVE Ledger!Open(r) <=> Holding(r)
  BY DEF Ledger!Open, Holding
<1> QED BY <1>2, <1>3

\* The conditional upsert that reserves is a grant.
LEMMA ReserveGrants ==
  ASSUME BooksInv, NEW r \in Reqs, Reserve(r)
  PROVE  Ledger!Grant(r)
<1> DEFINE v == RowOf(win[r])
           n == ReserveTokens(r)
<1>1. v \in Windows /\ n \in Nat
  BY ReserveType DEF BooksInv
<1>2. res \in [Reqs -> Reservations] /\ win[r] \in WindowRecords
      /\ used \in [Windows -> Nat] /\ billed \in [Windows -> Nat]
  BY DEF BooksInv, TypeOK, Reservations, WindowRecords
<1>3. n > 0
  <2>1. job[r].size.prompt \in Nat \ {0} /\ job[r].size.completion \in Nat \ {0}
    BY RequestsAssumption DEF BooksInv, TypeOK, Jobs
  <2>2. Want(r) \in Nat /\ Want(r) > 0
    BY <2>1 DEF Want
  <2>3. win[r].remaining \in Nat
    BY <1>2 DEF WindowRecords
  <2>4. CASE r \in Summaries
    <3>1. win[r].remaining > 0
      BY <2>4 DEF BooksInv, ReservingInOpenWindow, Reserve
    <3> QED BY <2>2, <2>3, <2>4, <3>1 DEF ReserveTokens, SummaryReserve, Smaller
  <2>5. CASE r \notin Summaries
    BY <2>2, <2>3, <2>5 DEF ReserveTokens, ChatReserve, Smaller, Larger
  <2> QED BY <2>4, <2>5
<1>4. res' = [res EXCEPT ![r] = [tokens |-> n, row |-> v]] /\ billed' = billed
  BY DEF Reserve
<1>5. ~ Holding(r)
  BY DEF BooksInv, LedgerInv, HoldingAtProvider, Reserve
<1>6. used[v] = billed[v] + Outstanding(v)
  BY <1>1 DEF BooksInv, LedgerInv, LedgerExact, Gone, Reserve, TriggersBlock
<1>7. used[v] + n <= win[r].limit
  BY DEF Reserve, Fits
<1>8. win[r].limit \in LimitsOf(v[1])
  BY DEF RowOf, Reserve, BooksInv, ReservingUnderLimit
<1> HIDE DEF v, n
<1>9. res'[r].tokens = n /\ res'[r].row = v /\ \A q \in Reqs \ {r} : res'[q] = res[q]
  BY <1>2, <1>4
<1>10. billed[v] + Outstanding(v) + n <= win[r].limit
  BY <1>6, <1>7
<1>11. [w \in Windows |-> LimitsOf(w[1])][v] = LimitsOf(v[1])
  BY <1>1
<1> QED
  BY <1>3, <1>4, <1>5, <1>8, <1>9, <1>10, <1>11, HoldsAreReservations
  DEF Ledger!Grant, Ledger!OnlyHoldOf

\* A settlement releases the hold, whether or not its row still exists.
LEMMA SettleReleases ==
  ASSUME TypeOK, NEW r \in Reqs, NEW actual \in Nat \cup {Null}, NEW next,
         Settle(r, actual, next)
  PROVE  Ledger!Release(r)
<1> DEFINE charge == IF actual = Null THEN res[r].tokens ELSE actual
<1>1. charge \in Nat /\ res[r].row \in Windows
  BY ReserveType
<1>2. billed \in [Windows -> Nat] /\ Holding(r)
  BY DEF TypeOK, Settle
<1>3. res'[r].tokens = 0 /\ \A q \in Reqs \ {r} : res'[q] = res[q]
  BY Dropped DEF Settle
<1>4. billed' = billed \/ billed' = [billed EXCEPT ![res[r].row] = @ + charge]
  BY DEF Settle, SettleRow
<1> HIDE DEF charge
<1>5. /\ billed'[res[r].row] >= billed[res[r].row]
      /\ \A w \in Windows \ {res[r].row} : billed'[w] = billed[w]
  BY <1>1, <1>2, <1>4
<1> QED BY <1>2, <1>3, <1>5, HoldsAreReservations
        DEF Ledger!Release, Ledger!OnlyHoldOf

\* So does a database error after the reservation.
LEMMA StrandReleases ==
  ASSUME TypeOK, NEW r \in Reqs, Strand(r)
  PROVE  Ledger!Release(r)
<1>1. res[r].tokens \in Nat /\ res[r].row \in Windows
  BY ReserveType
<1>2. billed \in [Windows -> Nat] /\ Holding(r)
  BY DEF TypeOK, Strand
<1>3. res'[r].tokens = 0 /\ \A q \in Reqs \ {r} : res'[q] = res[q]
  BY Dropped DEF Strand
<1>4. billed' = billed \/ billed' = [billed EXCEPT ![res[r].row] = @ + res[r].tokens]
  BY DEF Strand
<1>5. /\ billed'[res[r].row] >= billed[res[r].row]
      /\ \A w \in Windows \ {res[r].row} : billed'[w] = billed[w]
  BY <1>1, <1>2, <1>4
<1> QED BY <1>2, <1>3, <1>5, HoldsAreReservations
        DEF Ledger!Release, Ledger!OnlyHoldOf

\* Spending without a reservation, and a month's mirror, charge one row.
LEMMA AddingCharges ==
  ASSUME TypeOK, NEW v \in Windows, NEW n \in Nat,
         billed' = [billed EXCEPT ![v] = @ + n], res' = res
  PROVE  Ledger!Charge(v)
<1>1. billed \in [Windows -> Nat]
  BY DEF TypeOK
<1> QED BY <1>1 DEF Ledger!Charge

LEMMA RequestStepLedgers ==
  ASSUME BooksInv, NEW r \in Reqs, RequestStep(r)
  PROVE  Ledger!Next \/ UNCHANGED <<billed, res>>
<1>1. TypeOK
  BY DEF BooksInv
<1>2. CASE Reserve(r)
  BY <1>2, ReserveGrants DEF Ledger!Next
<1>3. CASE Strand(r)
  BY <1>1, <1>3, StrandReleases DEF Ledger!Next
<1>4. CASE Mirror(r)
  <2>1. <<"day", today>> \in Windows /\ spent[r] \in Nat
    BY <1>1, RowType DEF TypeOK, Kinds
  <2>2. billed' = [billed EXCEPT ![<<"day", today>>] = @ + spent[r]] /\ res' = res
    BY <1>4 DEF Mirror
  <2> QED BY <1>1, <2>1, <2>2, AddingCharges DEF Ledger!Next
<1>5. CASE ProviderFailed(r)
  <2>1. CASE FailedUnreserved(r)
    BY <2>1 DEF FailedUnreserved
  <2>2. CASE Settle(r, 0, "ended") \/ Settle(r, Null, "ended")
    BY <1>1, <2>2, SettleReleases DEF Ledger!Next
  <2> QED BY <1>5, <2>1, <2>2 DEF ProviderFailed, ChatFailed, SummaryFailed
<1>6. CASE ProviderAnswered(r)
  <2>1. PICK actual \in Actuals : \/ Settle(r, actual, "settled")
                                  \/ AddUsage(r, actual) \/ Unmetered(r, actual)
    BY <1>6 DEF ProviderAnswered
  <2>2. actual \in Nat \cup {Null}
    BY RequestsAssumption
  <2>3. CASE Settle(r, actual, "settled")
    BY <1>1, <2>2, <2>3, SettleReleases DEF Ledger!Next
  <2>4. CASE AddUsage(r, actual)
    <3>1. RowOf(win[r]) \in Windows /\ actual \in Nat
      BY <1>1, <2>2, <2>4, ReserveType DEF AddUsage
    <3>2. \/ UNCHANGED <<billed, res>>
          \/ billed' = [billed EXCEPT ![RowOf(win[r])] = @ + actual] /\ res' = res
      BY <2>4 DEF AddUsage
    <3> QED BY <1>1, <3>1, <3>2, AddingCharges DEF Ledger!Next
  <2>5. CASE Unmetered(r, actual)
    BY <2>5 DEF Unmetered
  <2> QED BY <2>1, <2>3, <2>4, <2>5
<1>7. CASE \/ ReadDaily(r) \/ ReadPeriods(r) \/ ReserveDenied(r) \/ ReserveBlocked(r)
           \/ MirrorFails(r) \/ Continue(r) \/ Finish(r)
  BY <1>7 DEF ReadDaily, ReadPeriods, ReserveDenied, ReserveBlocked, MirrorFails,
              Continue, Finish
<1> QED BY <1>2, <1>3, <1>4, <1>5, <1>6, <1>7 DEF RequestStep

LEMMA LedgerRefined ==
  BooksInv /\ TypeOK' /\ [Next]_vars =>
    [/\ Ledger!Next
     /\ billed' \in [Windows -> Nat]
     /\ res' \in [Reqs -> [tokens : Nat, row : Windows]]]_<<billed, res>>
<1> SUFFICES ASSUME BooksInv, TypeOK', [Next]_vars
             PROVE  Ledger!Next \/ UNCHANGED <<billed, res>>
  BY DEF TypeOK
<1>1. TypeOK
  BY DEF BooksInv
<1>2. ASSUME NEW r \in Reqs, RequestStep(r)
      PROVE  Ledger!Next \/ UNCHANGED <<billed, res>>
  BY <1>2, RequestStepLedgers
<1>3. CASE Crash
  <2>1. \A r \in Reqs : res'[r].tokens = 0
    BY <1>3 DEF Crash, NoReservation
  <2>2. \A w \in Windows : billed'[w] \in {billed[w], billed[w] + Outstanding(w)}
    BY <1>3 DEF Crash
  <2> QED BY <2>1, <2>2, HoldsAreReservations DEF Ledger!Next, Ledger!Abandon
<1>4. CASE Purge
  <2>1. /\ \A w \in Windows : billed'[w] \in {0, billed[w]}
        /\ res' = res
    BY <1>4 DEF Purge
  <2> QED BY <2>1 DEF Ledger!Next, Ledger!Wipe
<1>5. CASE Tick \/ Tombstone \/ UNCHANGED vars
  BY <1>5 DEF Tick, Tombstone, vars
<1> QED BY <1>2, <1>3, <1>4, <1>5 DEF Next

\* The upserts and updates of quotaWindows.js implement the ledger: whatever
\* requests, midnights, failures, crashes and purges come in between, each
\* reservation is granted against all that is settled and all that is held on
\* its row, and ends exactly once.
THEOREM LedgerImplemented == Spec => ImplementsLedger
<1>1. Init => Ledger!Init
  <2> SUFFICES ASSUME Init PROVE Ledger!Init
    OBVIOUS
  <2>1. NoReservation \in [tokens : {0}, row : Windows]
    BY NoReservationType DEF NoReservation, Reservations
  <2> QED BY <2>1 DEF Init, Ledger!Init
<1>2. BooksInv /\ BooksInv' /\ [Next]_vars =>
        [/\ Ledger!Next
         /\ billed' \in [Windows -> Nat]
         /\ res' \in [Reqs -> [tokens : Nat, row : Windows]]]_<<billed, res>>
  BY LedgerRefined DEF BooksInv
<1> QED BY <1>1, <1>2, BooksSafe, PTL DEF Spec, ImplementsLedger, Ledger!Spec

-----------------------------------------------------------------------------
(* How far a window is overshot                                            *)

Charges == (Actuals \ {Null}) \cup {s.prompt + s.completion : s \in Sizes}

\* What MaxCharge presumes: some charge is the largest.
LargestCharge == \E n \in Charges : \A m \in Charges : m <= n

LEMMA MaxChargeBounds ==
  ASSUME LargestCharge
  PROVE  /\ MaxCharge \in Nat
         /\ \A m \in Charges : m \in Nat /\ m <= MaxCharge
<1>1. \A m \in Charges : m \in Nat
  BY RequestsAssumption DEF Charges
<1>2. MaxCharge \in Charges /\ \A m \in Charges : m <= MaxCharge
  BY DEF LargestCharge, MaxCharge, Charges
<1> QED BY <1>1, <1>2

\* The request may still bring a charge to the row: it has read the counter of
\* the window, found it open, and has not been charged since. Day windows follow
\* the clock.
Pending(r, w) ==
  \/ Holding(r) /\ res[r].row = w
  \/ ~ Holding(r) /\ pc[r] \in {"reserving", "provider"} /\ RowOf(win[r]) = w
  \/ /\ pc[r] = "reading" /\ w = <<"day", today>>
     /\ job[r].plan.monthly = 0 /\ job[r].plan.weekly = 0
     /\ seen[r].used < job[r].plan.daily

Clear(w) == {r \in Reqs : ~ Pending(r, w)}

\* What requests without a pending charge may have overshot the window by.
AllowanceOf(S) == Cardinality(S \X (1..MaxCharge))

Covered(amount, S, kind) ==
  AdmissionLimits(kind) # {} =>
    \E limit \in AdmissionLimits(kind) : amount <= limit - 1 + AllowanceOf(S)

\* Every request overshoots a window at most once before it reads it again.
WindowsCovered == \A w \in Windows : Covered(billed[w], Clear(w), w[1])

\* Reservations are charges, on rows that are not of the future.
HoldsAreCharges ==
  \A r \in Reqs :
    /\ res[r].tokens <= MaxCharge
    /\ res[r].row[1] = "day" => res[r].row[2] <= today

\* Nothing is billed on rows of the future, nor on rows that were purged.
NothingBilledYet ==
  /\ \A d \in Days : d > today => billed[<<"day", d>>] = 0
  /\ \A w \in Windows : Gone(w) => billed[w] = 0

\* Without monthly plans no charge is mirrored.
NoMonths ==
  (\A p \in Plans : p.monthly = 0) =>
    \A r \in Reqs : /\ win[r].kind # "month" /\ res[r].row[1] # "month"
                    /\ pc[r] \notin {"mirroring", "lastMirror"}

-----------------------------------------------------------------------------
(* Allowances                                                              *)

LEMMA AllowanceFacts ==
  ASSUME LargestCharge, NEW S, S \subseteq Reqs
  PROVE  /\ IsFiniteSet(S \X (1..MaxCharge)) /\ AllowanceOf(S) \in Nat
         /\ AllowanceOf(S) = Cardinality(S) * MaxCharge
<1>1. IsFiniteSet(S)
  BY RequestsAssumption, FS_Subset
<1>2. IsFiniteSet(1..MaxCharge) /\ Cardinality(1..MaxCharge) = MaxCharge
  <2>1. MaxCharge \in Nat /\ 0 \in Nat /\ 1 \in Int /\ MaxCharge \in Int
    BY MaxChargeBounds
  <2>2. IsFiniteSet(1..MaxCharge)
    BY <2>1, FS_Interval
  <2>3. Cardinality(1..MaxCharge) = IF 1 > MaxCharge THEN 0 ELSE MaxCharge - 1 + 1
    BY <2>1, FS_Interval
  <2> QED BY <2>1, <2>2, <2>3
<1> DEFINE T == 1..MaxCharge
<1> HIDE DEF T
<1>3. /\ IsFiniteSet(S \X T)
      /\ Cardinality(S \X T) = Cardinality(S) * Cardinality(T)
  BY <1>1, <1>2, FS_Product DEF T
<1>4. Cardinality(S \X T) \in Nat
  BY <1>3, FS_CardinalityType
<1> QED BY <1>2, <1>3, <1>4 DEF T, AllowanceOf

LEMMA AllowanceGrows ==
  ASSUME LargestCharge, NEW S, NEW T, S \subseteq T, T \subseteq Reqs
  PROVE  AllowanceOf(S) <= AllowanceOf(T)
<1>1. S \X (1..MaxCharge) \subseteq T \X (1..MaxCharge)
  OBVIOUS
<1>2. IsFiniteSet(T \X (1..MaxCharge))
  BY AllowanceFacts
<1> QED BY <1>1, <1>2, FS_Subset DEF AllowanceOf

\* Two disjoint sets of requests have the sum of their allowances.
LEMMA AllowancesAdd ==
  ASSUME LargestCharge, NEW S, NEW T, S \subseteq Reqs, T \subseteq Reqs, S \cap T = {}
  PROVE  AllowanceOf(S \cup T) = AllowanceOf(S) + AllowanceOf(T)
<1> DEFINE A == S \X (1..MaxCharge)
           B == T \X (1..MaxCharge)
<1>1. (S \cup T) \X (1..MaxCharge) = A \cup B /\ A \cap B = {}
  OBVIOUS
<1>2. IsFiniteSet(A) /\ IsFiniteSet(B)
  BY AllowanceFacts
<1>3. Cardinality(A) \in Nat /\ Cardinality(B) \in Nat
  BY <1>2, FS_CardinalityType
<1>4. AllowanceOf(S) = Cardinality(A) /\ AllowanceOf(T) = Cardinality(B)
      /\ AllowanceOf(S \cup T) = Cardinality(A \cup B)
  BY <1>1 DEF AllowanceOf
<1> HIDE DEF A, B
<1>5. Cardinality(A \cup B) = Cardinality(A) + Cardinality(B) - Cardinality(A \cap B)
  BY <1>2, FS_Union
<1>6. Cardinality(A \cap B) = 0
  BY <1>1, FS_EmptySet
<1> QED BY <1>3, <1>4, <1>5, <1>6

LEMMA AllowanceOfOne ==
  ASSUME LargestCharge, NEW r \in Reqs
  PROVE  AllowanceOf({r}) = MaxCharge
<1>1. AllowanceOf({r}) = Cardinality({r}) * MaxCharge
  BY AllowanceFacts
<1>2. Cardinality({r}) = 1
  BY FS_Singleton
<1>3. 1 * MaxCharge = MaxCharge
  BY MaxChargeBounds
<1> QED BY <1>1, <1>2, <1>3

LEMMA LimitsAreNumbers ==
  \A kind \in Kinds : \A limit \in AdmissionLimits(kind) : limit \in Nat /\ limit > 0
<1> SUFFICES ASSUME NEW kind \in Kinds, NEW limit \in AdmissionLimits(kind)
             PROVE  limit \in Nat /\ limit > 0
  OBVIOUS
<1>1. CASE kind = "month"
  BY <1>1, LimitsAssumption DEF AdmissionLimits
<1>2. CASE kind = "week"
  BY <1>2, LimitsAssumption DEF AdmissionLimits
<1>3. CASE kind = "day"
  BY <1>3, LimitsAssumption DEF AdmissionLimits
<1> QED BY <1>1, <1>2, <1>3 DEF Kinds

-----------------------------------------------------------------------------
(* Ways in which a window stays covered                                    *)

LEMMA CoveredStill ==
  ASSUME LargestCharge, NEW w \in Windows, NEW S, NEW T, S \subseteq T, T \subseteq Reqs,
         NEW a \in Nat, NEW b \in Nat, b <= a, Covered(a, S, w[1])
  PROVE  Covered(b, T, w[1])
<1> SUFFICES ASSUME AdmissionLimits(w[1]) # {}
             PROVE  \E limit \in AdmissionLimits(w[1]) : b <= limit - 1 + AllowanceOf(T)
  BY DEF Covered
<1>1. PICK limit \in AdmissionLimits(w[1]) : a <= limit - 1 + AllowanceOf(S)
  BY DEF Covered
<1>2. limit \in Nat
  BY LimitsAreNumbers DEF Windows
<1>3. AllowanceOf(S) \in Nat /\ AllowanceOf(T) \in Nat /\ AllowanceOf(S) <= AllowanceOf(T)
  BY AllowanceFacts, AllowanceGrows
<1>4. b <= limit - 1 + AllowanceOf(T)
  BY <1>1, <1>2, <1>3
<1> QED BY <1>4

\* A request with a pending charge is charged.
LEMMA CoveredCharge ==
  ASSUME LargestCharge, NEW w \in Windows, NEW S, NEW T, S \subseteq T, T \subseteq Reqs,
         NEW r \in T, r \notin S, NEW a \in Nat, NEW b \in Nat, b <= a + MaxCharge,
         Covered(a, S, w[1])
  PROVE  Covered(b, T, w[1])
<1> SUFFICES ASSUME AdmissionLimits(w[1]) # {}
             PROVE  \E limit \in AdmissionLimits(w[1]) : b <= limit - 1 + AllowanceOf(T)
  BY DEF Covered
<1>1. PICK limit \in AdmissionLimits(w[1]) : a <= limit - 1 + AllowanceOf(S)
  BY DEF Covered
<1>2. limit \in Nat /\ MaxCharge \in Nat
  BY LimitsAreNumbers, MaxChargeBounds DEF Windows
<1>3. AllowanceOf(S \cup {r}) = AllowanceOf(S) + MaxCharge
  <2>1. S \subseteq Reqs /\ {r} \subseteq Reqs /\ S \cap {r} = {} /\ r \in Reqs
    OBVIOUS
  <2>2. AllowanceOf({r}) = MaxCharge
    BY <2>1, AllowanceOfOne
  <2>3. AllowanceOf(S \cup {r}) = AllowanceOf(S) + AllowanceOf({r})
    BY <2>1, AllowancesAdd
  <2> QED BY <2>2, <2>3
<1>4. AllowanceOf(S \cup {r}) <= AllowanceOf(T)
  <2>1. S \cup {r} \subseteq T
    OBVIOUS
  <2> QED BY <2>1, AllowanceGrows
<1>5. AllowanceOf(S) \in Nat /\ AllowanceOf(T) \in Nat
  BY AllowanceFacts
<1>6. b <= limit - 1 + AllowanceOf(T)
  BY <1>1, <1>2, <1>3, <1>4, <1>5
<1> QED BY <1>6

\* A window that is open is covered by its limit.
LEMMA CoveredOpen ==
  ASSUME LargestCharge, NEW w \in Windows, NEW T, T \subseteq Reqs, NEW b \in Nat,
         AdmissionLimits(w[1]) # {} => \E limit \in AdmissionLimits(w[1]) : b < limit
  PROVE  Covered(b, T, w[1])
<1> SUFFICES ASSUME AdmissionLimits(w[1]) # {}
             PROVE  \E limit \in AdmissionLimits(w[1]) : b <= limit - 1 + AllowanceOf(T)
  BY DEF Covered
<1>1. PICK limit \in AdmissionLimits(w[1]) : b < limit
  OBVIOUS
<1>2. limit \in Nat
  BY LimitsAreNumbers DEF Windows
<1>3. AllowanceOf(T) \in Nat
  BY AllowanceFacts
<1>4. b <= limit - 1 + AllowanceOf(T)
  BY <1>1, <1>2, <1>3
<1> QED BY <1>4

LEMMA CoveredEmpty ==
  ASSUME LargestCharge, NEW w \in Windows, NEW T, T \subseteq Reqs
  PROVE  Covered(0, T, w[1])
<1>1. AdmissionLimits(w[1]) # {} => \E limit \in AdmissionLimits(w[1]) : 0 < limit
  BY LimitsAreNumbers DEF Windows
<1> QED BY <1>1, CoveredOpen


OvershootInv == /\ WindowsCovered
                /\ HoldsAreCharges
                /\ NothingBilledYet
                /\ NoMonths

-----------------------------------------------------------------------------
(* What the steps of one request leave alone                               *)

LEMMA OthersStay ==
  ASSUME TypeOK, NEW r \in Reqs, RequestStep(r)
  PROVE  /\ job' = job /\ today' = today /\ account' = account
         /\ \A q \in Reqs : q # r =>
              /\ pc'[q] = pc[q] /\ win'[q] = win[q]
              /\ res'[q] = res[q] /\ seen'[q] = seen[q]
<1> DEFINE Stay == /\ job' = job /\ today' = today /\ account' = account
                   /\ \A q \in Reqs : q # r =>
                        /\ pc'[q] = pc[q] /\ win'[q] = win[q]
                        /\ res'[q] = res[q] /\ seen'[q] = seen[q]
<1> SUFFICES Stay
  OBVIOUS
<1>1. /\ pc \in [Reqs -> Labels] /\ win \in [Reqs -> WindowRecords]
      /\ res \in [Reqs -> Reservations]
      /\ seen \in [Reqs -> [day : Days, used : Nat]]
  BY DEF TypeOK, WindowRecords, Reservations
<1>2. ASSUME NEW label, Goto(r, label), job' = job, today' = today, account' = account,
             NEW a, win' = win \/ win' = [win EXCEPT ![r] = a],
             NEW b, res' = res \/ res' = [res EXCEPT ![r] = b],
             NEW c, seen' = seen \/ seen' = [seen EXCEPT ![r] = c]
      PROVE  Stay
  BY <1>1, <1>2 DEF Goto
<1>3. CASE ReadDaily(r)
  BY <1>2, <1>3 DEF ReadDaily
<1>4. CASE ReadPeriods(r)
  <2>1. \E label : Goto(r, label)
    BY <1>4 DEF ReadPeriods
  <2>2. \E a : win' = [win EXCEPT ![r] = a]
    BY <1>4 DEF ReadPeriods
  <2> QED BY <1>2, <1>4, <2>1, <2>2 DEF ReadPeriods
<1>5. CASE Reserve(r)
  BY <1>2, <1>5 DEF Reserve
<1>6. CASE ReserveDenied(r) \/ ReserveBlocked(r)
  BY <1>2, <1>6 DEF ReserveDenied, ReserveBlocked
<1>7. ASSUME NEW actual, NEW next, Settle(r, actual, next) PROVE Stay
  <2>1. \E label : Goto(r, label)
    BY <1>7 DEF Settle
  <2> QED BY <1>2, <1>7, <2>1 DEF Settle
<1>8. CASE ProviderFailed(r)
  BY <1>2, <1>7, <1>8 DEF ProviderFailed, ChatFailed, SummaryFailed, FailedUnreserved
<1>9. CASE ProviderAnswered(r)
  <2>1. PICK actual \in Actuals : \/ Settle(r, actual, "settled")
                                  \/ AddUsage(r, actual) \/ Unmetered(r, actual)
    BY <1>9 DEF ProviderAnswered
  <2>2. CASE AddUsage(r, actual)
    <3>1. \E label : Goto(r, label)
      BY <2>2 DEF AddUsage
    <3> QED BY <1>2, <2>2, <3>1 DEF AddUsage
  <2>3. CASE Unmetered(r, actual)
    BY <1>2, <2>3 DEF Unmetered
  <2> QED BY <1>7, <2>1, <2>2, <2>3
<1>10. CASE Mirror(r) \/ Continue(r) \/ Finish(r) \/ Strand(r)
  BY <1>2, <1>10 DEF Mirror, Continue, Finish, Strand
<1>11. CASE MirrorFails(r)
  <2>1. \E label : Goto(r, label)
    BY <1>11 DEF MirrorFails
  <2> QED BY <1>2, <1>11, <2>1 DEF MirrorFails
<1> QED BY <1>3, <1>4, <1>5, <1>6, <1>8, <1>9, <1>10, <1>11 DEF RequestStep

LEMMA PendingOfOthers ==
  ASSUME NEW q \in Reqs, NEW w,
         pc'[q] = pc[q], win'[q] = win[q], res'[q] = res[q], seen'[q] = seen[q],
         job' = job, today' = today, Pending(q, w)'
  PROVE  Pending(q, w)
<1>1. Holding(q)' <=> Holding(q)
  BY DEF Holding
<1>2. RowOf(win[q])' = RowOf(win[q])
  BY DEF RowOf
<1> QED BY <1>1, <1>2 DEF Pending

\* Windows nobody newly takes aim at stay covered when no more is billed.
LEMMA CoveredQuietly ==
  ASSUME LargestCharge, TypeOK, TypeOK', WindowsCovered,
         \A w \in Windows : billed'[w] <= billed[w],
         \A q \in Reqs : \A w \in Windows : Pending(q, w)' => Pending(q, w)
  PROVE  WindowsCovered'
<1> SUFFICES ASSUME NEW w \in Windows PROVE Covered(billed'[w], Clear(w)', w[1])
  BY DEF WindowsCovered, Covered, AdmissionLimits, AllowanceOf, MaxCharge
<1>1. Covered(billed[w], Clear(w), w[1])
  BY DEF WindowsCovered
<1>2. Clear(w) \subseteq Clear(w)' /\ Clear(w)' \subseteq Reqs
  BY DEF Clear
<1>3. billed[w] \in Nat /\ billed'[w] \in Nat /\ billed'[w] <= billed[w]
  BY DEF TypeOK
<1> QED BY <1>1, <1>2, <1>3, CoveredStill

\* A step of a request that bills nothing and takes aim at no other window.
LEMMA QuietStep ==
  ASSUME LargestCharge, TypeOK, TypeOK', WindowsCovered, NEW r \in Reqs, RequestStep(r),
         billed' = billed, \A w \in Windows : Pending(r, w)' => Pending(r, w)
  PROVE  WindowsCovered'
<1>1. ASSUME NEW q \in Reqs, NEW w \in Windows, Pending(q, w)' PROVE Pending(q, w)
  BY <1>1, OthersStay, PendingOfOthers
<1>2. \A w \in Windows : billed'[w] <= billed[w]
  BY DEF TypeOK
<1> QED BY <1>1, <1>2, CoveredQuietly

\* A request brings the charge it had pending.
LEMMA ChargingStep ==
  ASSUME LargestCharge, TypeOK, TypeOK', WindowsCovered, NEW r \in Reqs, RequestStep(r),
         NEW v \in Windows, NEW n \in Nat, n <= MaxCharge,
         billed' = [billed EXCEPT ![v] = @ + n],
         Pending(r, v), \A w \in Windows : ~ Pending(r, w)'
  PROVE  WindowsCovered'
<1> SUFFICES ASSUME NEW w \in Windows PROVE Covered(billed'[w], Clear(w)', w[1])
  BY DEF WindowsCovered, Covered, AdmissionLimits, AllowanceOf, MaxCharge
<1>1. Covered(billed[w], Clear(w), w[1])
  BY DEF WindowsCovered
<1>2. ASSUME NEW q \in Reqs, Pending(q, w)' PROVE Pending(q, w)
  BY <1>2, OthersStay, PendingOfOthers
<1>3. Clear(w) \subseteq Clear(w)' /\ Clear(w)' \subseteq Reqs /\ r \in Clear(w)'
  BY <1>2 DEF Clear
<1>4. billed \in [Windows -> Nat] /\ billed' \in [Windows -> Nat]
  BY DEF TypeOK
<1>5. billed[w] \in Nat /\ billed'[w] \in Nat /\ MaxCharge \in Nat
  BY <1>4, MaxChargeBounds
<1>6. CASE w = v
  <2>1. r \notin Clear(w)
    BY <1>6 DEF Clear
  <2>2. billed'[w] <= billed[w] + MaxCharge
    BY <1>4, <1>5, <1>6
  <2> QED BY <1>1, <1>3, <1>5, <2>1, <2>2, CoveredCharge
<1>7. CASE w # v
  <2>1. billed'[w] <= billed[w]
    BY <1>4, <1>5, <1>7
  <2> QED BY <1>1, <1>3, <1>5, <2>1, CoveredStill
<1> QED BY <1>6, <1>7

\* A request that takes aim at a window has found it open.
LEMMA OpeningStep ==
  ASSUME LargestCharge, TypeOK, TypeOK', WindowsCovered, NEW r \in Reqs, RequestStep(r),
         billed' = billed, NEW v \in Windows,
         AdmissionLimits(v[1]) # {} => \E limit \in AdmissionLimits(v[1]) : billed[v] < limit,
         \A w \in Windows : w # v /\ Pending(r, w)' => Pending(r, w)
  PROVE  WindowsCovered'
<1> SUFFICES ASSUME NEW w \in Windows PROVE Covered(billed'[w], Clear(w)', w[1])
  BY DEF WindowsCovered, Covered, AdmissionLimits, AllowanceOf, MaxCharge
<1>1. billed[w] \in Nat /\ billed'[w] = billed[w] /\ Clear(w)' \subseteq Reqs
  BY DEF TypeOK, Clear
<1>2. CASE w = v
  BY <1>1, <1>2, CoveredOpen
<1>3. CASE w # v
  <2>1. ASSUME NEW q \in Reqs, Pending(q, w)' PROVE Pending(q, w)
    BY <1>3, <2>1, OthersStay, PendingOfOthers
  <2>2. Clear(w) \subseteq Clear(w)'
    BY <2>1 DEF Clear
  <2>3. Covered(billed[w], Clear(w), w[1])
    BY DEF WindowsCovered
  <2>4. billed[w] <= billed[w]
    BY <1>1
  <2> QED BY <1>1, <2>2, <2>3, <2>4, CoveredStill
<1> QED BY <1>2, <1>3

\* A row that is under a limit has billed less than it.
LEMMA BilledBelowUsed ==
  ASSUME TypeOK, LedgerExact, NothingBilledYet, NEW w \in Windows
  PROVE  billed[w] = 0 \/ billed[w] <= used[w]
<1>1. CASE Gone(w)
  BY <1>1 DEF NothingBilledYet
<1>2. CASE ~ Gone(w)
  <2>1. used[w] = billed[w] + Outstanding(w) /\ Outstanding(w) \in Nat /\ billed[w] \in Nat
    BY <1>2, HeldFinite DEF LedgerExact, TypeOK
  <2> QED BY <2>1
<1> QED BY <1>1, <1>2

LEMMA BilledBelowLimit ==
  ASSUME TypeOK, LedgerExact, NothingBilledYet, NEW w \in Windows, NEW limit \in Nat,
         used[w] < limit
  PROVE  billed[w] < limit
<1>1. billed[w] \in Nat /\ used[w] \in Nat
  BY DEF TypeOK
<1> QED BY <1>1, BilledBelowUsed

\* The limit a plan admits windows of a kind under.
LEMMA AdmissionLimitsOf ==
  ASSUME NEW p \in Plans
  PROVE  /\ p.monthly > 0 => p.monthly \in AdmissionLimits("month")
         /\ p.monthly > 0 => AdmissionLimits("day") = {}
         /\ p.monthly = 0 /\ p.weekly > 0 => p.weekly \in AdmissionLimits("week")
         /\ p.monthly = 0 /\ p.weekly = 0 =>
              p.daily > 0 /\ (AdmissionLimits("day") # {} => p.daily \in AdmissionLimits("day"))
<1>1. p.monthly \in Nat /\ p.weekly \in Nat /\ p.daily \in Nat
      /\ (p.monthly > 0 \/ p.weekly > 0 \/ p.daily > 0)
  BY LimitsAssumption
<1>2. p.monthly > 0 => p.monthly \in AdmissionLimits("month") /\ AdmissionLimits("day") = {}
  BY DEF AdmissionLimits
<1>3. p.monthly = 0 /\ p.weekly > 0 => p.weekly \in AdmissionLimits("week")
  BY <1>1 DEF AdmissionLimits
<1>4. p.monthly = 0 /\ p.weekly = 0 =>
        (AdmissionLimits("day") # {} => p.daily \in AdmissionLimits("day"))
  BY <1>1 DEF AdmissionLimits
<1> QED BY <1>1, <1>2, <1>3, <1>4

-----------------------------------------------------------------------------
(* The windows stay covered, action by action                              *)

\* No reservation is held but at the provider.
LEMMA NotHolding ==
  ASSUME TypeOK, HoldingAtProvider, NEW r \in Reqs, pc[r] # "provider"
  PROVE  ~ Holding(r) /\ res[r].tokens = 0
<1>1. ~ Holding(r)
  BY DEF HoldingAtProvider
<1>2. res[r].tokens \in Nat
  BY ReserveType
<1> QED BY <1>1, <1>2 DEF Holding

LEMMA ReadDailyCovers ==
  ASSUME LargestCharge, TypeOK, TypeOK', LedgerInv, OvershootInv, NEW r \in Reqs, ReadDaily(r)
  PROVE  WindowsCovered'
<1>0. RequestStep(r) /\ WindowsCovered /\ NothingBilledYet /\ LedgerExact /\ HoldingAtProvider
  BY DEF RequestStep, OvershootInv, LedgerInv
<1>1. /\ pc'[r] = "reading" /\ res' = res /\ job' = job /\ today' = today /\ billed' = billed
      /\ seen'[r] = [day |-> today, used |-> used[<<"day", today>>]]
      /\ pc[r] # "provider"
  BY DEF ReadDaily, Goto, TypeOK
<1>2. ~ Holding(r)'
  BY <1>0, <1>1, NotHolding DEF Holding
<1> DEFINE v == <<"day", today>>
<1>3. v \in Windows /\ v[1] = "day"
  BY RowType DEF TypeOK, Kinds
<1>4. seen'[r].used = used[v]
  BY <1>1
<1>5. ASSUME NEW w \in Windows, Pending(r, w)'
      PROVE  /\ w = v /\ job[r].plan.monthly = 0 /\ job[r].plan.weekly = 0
             /\ used[v] < job[r].plan.daily
  BY <1>1, <1>2, <1>4, <1>5 DEF Pending
<1>6. CASE job[r].plan.monthly = 0 /\ job[r].plan.weekly = 0 /\ used[v] < job[r].plan.daily
  <2>1. job[r].plan \in Plans
    BY DEF TypeOK, Jobs
  <2>2. job[r].plan.daily \in Nat
    BY <2>1, LimitsAssumption
  <2>3. billed[v] < job[r].plan.daily
    BY <1>0, <1>3, <1>6, <2>2, BilledBelowLimit
  <2>4. AdmissionLimits("day") # {} => job[r].plan.daily \in AdmissionLimits("day")
    BY <1>6, <2>1, AdmissionLimitsOf
  <2>5. AdmissionLimits(v[1]) # {} => \E limit \in AdmissionLimits(v[1]) : billed[v] < limit
    BY <1>3, <2>3, <2>4
  <2>6. \A w \in Windows : w # v /\ Pending(r, w)' => Pending(r, w)
    BY <1>5
  <2> HIDE DEF v
  <2> QED BY <1>0, <1>1, <1>3, <2>5, <2>6, OpeningStep
<1>7. CASE ~ (job[r].plan.monthly = 0 /\ job[r].plan.weekly = 0 /\ used[v] < job[r].plan.daily)
  <2>1. \A w \in Windows : Pending(r, w)' => Pending(r, w)
    BY <1>5, <1>7
  <2> QED BY <1>0, <1>1, <2>1, QuietStep
<1> QED BY <1>6, <1>7

\* A resolved window with tokens left, and the counter that says so.
LEMMA ResolvedOpen ==
  ASSUME NEW plan \in Plans, NEW day \in Days, NEW d \in Nat, NEW m \in Nat, NEW k \in Nat,
         NEW w, w = ResolveWindow(plan, day, d, m, k), w.remaining # 0
  PROVE  \/ w.kind = "day" /\ plan.monthly > 0
         \/ w.kind = "month" /\ w.key = MonthOf[day] /\ plan.monthly > 0 /\ m < plan.monthly
         \/ /\ w.kind = "week" /\ w.key = WeekOf[day]
            /\ plan.monthly = 0 /\ plan.weekly > 0 /\ k < plan.weekly
         \/ w.kind = "day" /\ plan.monthly = 0 /\ plan.weekly = 0 /\ d < plan.daily
<1>0. /\ plan.monthly \in Nat /\ plan.weekly \in Nat /\ plan.daily \in Nat
      /\ Remaining(m, plan.monthly) \in Nat
  BY GraceType, RemainingType
<1>1. \A n \in Nat : \A limit \in Nat : Remaining(n, limit) # 0 => n < limit
  BY DEF Remaining, Larger
<1>2. CASE plan.monthly > 0
  <2>1. w.kind = "day" \/ w = Window("month", MonthOf[day], plan.monthly, m)
    BY <1>0, <1>2 DEF ResolveWindow, Window
  <2>2. CASE w = Window("month", MonthOf[day], plan.monthly, m)
    <3>1. w.kind = "month" /\ w.key = MonthOf[day] /\ w.remaining = Remaining(m, plan.monthly)
      BY <2>2 DEF Window
    <3> QED BY <1>0, <1>1, <1>2, <3>1
  <2> QED BY <1>2, <2>1, <2>2
<1>3. CASE plan.monthly = 0 /\ plan.weekly > 0
  <2>1. w = Window("week", WeekOf[day], plan.weekly, k)
    BY <1>0, <1>3 DEF ResolveWindow
  <2>2. w.kind = "week" /\ w.key = WeekOf[day] /\ w.remaining = Remaining(k, plan.weekly)
    BY <2>1 DEF Window
  <2> QED BY <1>0, <1>1, <1>3, <2>2
<1>4. CASE plan.monthly = 0 /\ plan.weekly = 0
  <2>1. w = Window("day", day, plan.daily, d)
    BY <1>0, <1>4 DEF ResolveWindow
  <2>2. w.kind = "day" /\ w.remaining = Remaining(d, plan.daily)
    BY <2>1 DEF Window
  <2> QED BY <1>0, <1>1, <1>4, <2>2
<1> QED BY <1>0, <1>2, <1>3, <1>4

LEMMA ReadPeriodsCovers ==
  ASSUME LargestCharge, Enforcement, TypeOK, TypeOK', LedgerInv, OvershootInv,
         NEW r \in Reqs, ReadPeriods(r)
  PROVE  WindowsCovered'
<1>0. RequestStep(r) /\ WindowsCovered /\ NothingBilledYet /\ LedgerExact /\ HoldingAtProvider
  BY DEF RequestStep, OvershootInv, LedgerInv
<1>1. PICK plan \in Plans, day \in Days :
         plan = job[r].plan /\ day = seen[r].day
  BY DEF TypeOK, Jobs
<1> DEFINE mRow == <<"month", MonthOf[day]>>
           kRow == <<"week", WeekOf[day]>>
<1>2. mRow \in Windows /\ kRow \in Windows /\ mRow[1] = "month" /\ kRow[1] = "week"
  BY <1>1, RowType, DaysFacts DEF Kinds
<1>3. PICK w : w = ResolveWindow(plan, day, seen[r].used, used[mRow], used[kRow])
  OBVIOUS
<1>4. /\ win' = [win EXCEPT ![r] = w]
      /\ Goto(r, IF RefusedOnRead(r, w) THEN "refused"
                 ELSE IF round[r] = 0 THEN "reserving" ELSE "provider")
      /\ pc[r] = "reading" /\ res' = res /\ today' = today /\ billed' = billed
      /\ UNCHANGED <<job, seen>>
  BY <1>1, <1>3 DEF ReadPeriods
<1>5. win'[r] = w /\ (~ RefusedOnRead(r, w) \/ pc'[r] = "refused")
      /\ pc'[r] \in {"refused", "reserving", "provider"}
  BY <1>4 DEF TypeOK, Goto
<1>6. ~ Holding(r)' /\ ~ Holding(r)
  BY <1>0, <1>4, NotHolding DEF Holding
<1>7. CASE RefusedOnRead(r, w)
  <2>1. \A x \in Windows : ~ Pending(r, x)'
    BY <1>5, <1>6, <1>7 DEF Pending
  <2> QED BY <1>0, <1>4, <2>1, QuietStep
<1>8. CASE ~ RefusedOnRead(r, w)
  <2>1. w.remaining # 0
    BY <1>8 DEF RefusedOnRead, SummaryRefused, ChatRefused
  <2>2. used[mRow] \in Nat /\ used[kRow] \in Nat /\ seen[r].used \in Nat
    BY <1>2 DEF TypeOK
  <2>3. \/ w.kind = "day" /\ plan.monthly > 0
        \/ w.kind = "month" /\ w.key = MonthOf[day] /\ plan.monthly > 0 /\ used[mRow] < plan.monthly
        \/ /\ w.kind = "week" /\ w.key = WeekOf[day]
           /\ plan.monthly = 0 /\ plan.weekly > 0 /\ used[kRow] < plan.weekly
        \/ w.kind = "day" /\ plan.monthly = 0 /\ plan.weekly = 0 /\ seen[r].used < plan.daily
    <3> HIDE DEF mRow, kRow
    <3> QED BY <1>3, <2>1, <2>2, ResolvedOpen
  <2>4. PICK v : v = <<w.kind, IF w.kind = "day" THEN today ELSE w.key>>
    OBVIOUS
  <2>5. ASSUME NEW x \in Windows, Pending(r, x)' PROVE x = v
    BY <1>4, <1>5, <1>6, <2>4, <2>5 DEF Pending, RowOf
  <2>6. today \in Days /\ plan.monthly \in Nat /\ plan.weekly \in Nat
    BY LimitsAssumption DEF TypeOK
  <2>7. \A x \in Windows : x # v /\ Pending(r, x)' => Pending(r, x)
    BY <2>5
  <2>8. CASE w.kind = "day" /\ plan.monthly > 0
    <3>1. v \in Windows /\ v[1] = "day"
      BY <2>4, <2>6, <2>8, RowType DEF Kinds
    <3>2. AdmissionLimits(v[1]) = {}
      BY <2>8, <3>1, AdmissionLimitsOf
    <3> QED BY <1>0, <1>4, <2>7, <3>1, <3>2, OpeningStep
  <2>9. CASE w.kind = "month" /\ w.key = MonthOf[day] /\ plan.monthly > 0 /\ used[mRow] < plan.monthly
    <3>1. v = mRow
      BY <2>4, <2>9
    <3>2. billed[v] < plan.monthly
      BY <1>0, <1>2, <2>6, <2>9, <3>1, BilledBelowLimit
    <3>3. plan.monthly \in AdmissionLimits(v[1])
      BY <1>2, <2>9, <3>1, AdmissionLimitsOf
    <3> QED BY <1>0, <1>2, <1>4, <2>7, <3>1, <3>2, <3>3, OpeningStep
  <2>10. CASE /\ w.kind = "week" /\ w.key = WeekOf[day]
              /\ plan.monthly = 0 /\ plan.weekly > 0 /\ used[kRow] < plan.weekly
    <3>1. v = kRow
      BY <2>4, <2>10
    <3>2. billed[v] < plan.weekly
      BY <1>0, <1>2, <2>6, <2>10, <3>1, BilledBelowLimit
    <3>3. plan.weekly \in AdmissionLimits(v[1])
      BY <1>2, <2>10, <3>1, AdmissionLimitsOf
    <3> QED BY <1>0, <1>2, <1>4, <2>7, <3>1, <3>2, <3>3, OpeningStep
  <2>11. CASE w.kind = "day" /\ plan.monthly = 0 /\ plan.weekly = 0 /\ seen[r].used < plan.daily
    <3>1. v = <<"day", today>>
      BY <2>4, <2>11
    <3>2. Pending(r, v)
      BY <1>1, <1>4, <2>11, <3>1 DEF Pending
    <3>3. \A x \in Windows : Pending(r, x)' => Pending(r, x)
      BY <2>5, <3>2
    <3> QED BY <1>0, <1>4, <3>3, QuietStep
  <2> QED BY <2>3, <2>8, <2>9, <2>10, <2>11
<1> QED BY <1>7, <1>8

\* A request that has just come to hold the window it was admitted to.
LEMMA ReserveCovers ==
  ASSUME LargestCharge, TypeOK, TypeOK', LedgerInv, OvershootInv, NEW r \in Reqs, Reserve(r)
  PROVE  WindowsCovered'
<1>0. RequestStep(r) /\ WindowsCovered /\ HoldingAtProvider
  BY DEF RequestStep, OvershootInv, LedgerInv
<1>1. /\ pc[r] = "reserving" /\ pc'[r] = "provider" /\ billed' = billed /\ win' = win
      /\ today' = today /\ res'[r].row = RowOf(win[r])
  BY DEF Reserve, Goto, TypeOK
<1>2. ~ Holding(r)
  BY <1>0, <1>1, NotHolding
<1>3. RowOf(win[r])' = RowOf(win[r])
  BY <1>1 DEF RowOf
<1>4. ASSUME NEW w \in Windows, Pending(r, w)' PROVE RowOf(win[r]) = w
  <2>1. CASE Holding(r)'
    BY <1>1, <1>4, <2>1 DEF Pending
  <2>2. CASE ~ Holding(r)'
    BY <1>1, <1>3, <1>4, <2>2 DEF Pending
  <2> QED BY <2>1, <2>2
<1>5. \A w \in Windows : Pending(r, w)' => Pending(r, w)
  BY <1>1, <1>2, <1>4 DEF Pending
<1> QED BY <1>0, <1>1, <1>5, QuietStep

\* A request that holds nothing and stands where nothing is charged has no
\* charge pending.
LEMMA NothingPending ==
  ASSUME TypeOK, TypeOK', HoldingAtProvider, NEW r \in Reqs, NEW label, Goto(r, label),
         label \notin {"reading", "reserving", "provider"},
         res' = [res EXCEPT ![r] = NoReservation] \/ (res' = res /\ ~ Holding(r)), NEW w
  PROVE  ~ Pending(r, w)'
<1>1. pc'[r] = label
  BY DEF Goto, TypeOK
<1>2. ~ Holding(r)'
  BY Dropped DEF Holding
<1> QED BY <1>1, <1>2 DEF Pending

\* Steps that bill nothing and leave the request with nothing pending, or where
\* it was.
LEMMA IdleStepsCover ==
  ASSUME LargestCharge, TypeOK, TypeOK', LedgerInv, OvershootInv, NEW r \in Reqs,
         \/ ReserveDenied(r) \/ ReserveBlocked(r) \/ FailedUnreserved(r)
         \/ (\E actual \in Actuals : Unmetered(r, actual))
         \/ MirrorFails(r) \/ Continue(r) \/ Finish(r)
  PROVE  WindowsCovered'
<1>0. RequestStep(r) /\ WindowsCovered /\ HoldingAtProvider
  BY DEF RequestStep, OvershootInv, LedgerInv, ProviderFailed, ProviderAnswered
<1>1. pc[r] # "provider" => ~ Holding(r)
  BY <1>0 DEF HoldingAtProvider
<1>2. ASSUME NEW label, Goto(r, label), label \notin {"reading", "reserving", "provider"},
             res' = res, billed' = billed, ~ Holding(r)
      PROVE  WindowsCovered'
  <2>1. \A w \in Windows : ~ Pending(r, w)'
    BY <1>0, <1>2, NothingPending
  <2> QED BY <1>0, <1>2, <2>1, QuietStep
<1>3. CASE ReserveDenied(r)
  <2>1. /\ pc[r] = "reserving" /\ pc'[r] \in {"refused", "provider"} /\ billed' = billed
        /\ win' = win /\ res' = res /\ today' = today /\ ~ Holding(r)
    BY <1>1, <1>3 DEF ReserveDenied, Goto, TypeOK
  <2>2. RowOf(win[r])' = RowOf(win[r]) /\ ~ Holding(r)'
    BY <2>1 DEF RowOf, Holding
  <2>3. \A w \in Windows : Pending(r, w)' => Pending(r, w)
    BY <2>1, <2>2 DEF Pending
  <2> QED BY <1>0, <2>1, <2>3, QuietStep
<1>4. CASE ReserveBlocked(r)
  BY <1>1, <1>2, <1>4 DEF ReserveBlocked
<1>5. CASE FailedUnreserved(r)
  BY <1>2, <1>5 DEF FailedUnreserved
<1>6. CASE \E actual \in Actuals : Unmetered(r, actual)
  BY <1>2, <1>6 DEF Unmetered
<1>7. CASE MirrorFails(r)
  <2>1. \E label \in {"lastMirror", "ended"} : Goto(r, label)
    BY <1>7 DEF MirrorFails
  <2>2. ~ Holding(r) /\ res' = res /\ billed' = billed
    BY <1>1, <1>7 DEF MirrorFails
  <2> QED BY <1>2, <2>1, <2>2
<1>8. CASE Continue(r) \/ Finish(r)
  <2>1. \E label \in {"nextRound", "ended"} : Goto(r, label)
    BY <1>8 DEF Continue, Finish
  <2>2. ~ Holding(r) /\ res' = res /\ billed' = billed
    BY <1>1, <1>8 DEF Continue, Finish
  <2> QED BY <1>2, <2>1, <2>2
<1> QED BY <1>3, <1>4, <1>5, <1>6, <1>7, <1>8

\* The charge that replaces a reservation.
LEMMA ChargeBounded ==
  ASSUME LargestCharge, TypeOK, HoldsAreCharges, NEW r \in Reqs,
         NEW actual \in Actuals \cup {0, Null}
  PROVE  LET charge == IF actual = Null THEN res[r].tokens ELSE actual
         IN  charge \in Nat /\ charge <= MaxCharge
<1>1. res[r].tokens \in Nat /\ res[r].tokens <= MaxCharge /\ MaxCharge \in Nat
  BY ReserveType, MaxChargeBounds DEF HoldsAreCharges
<1>2. CASE actual = Null
  BY <1>1, <1>2
<1>3. CASE actual # Null
  <2>1. CASE actual = 0
    BY <1>1, <1>3, <2>1
  <2>2. CASE actual \in Actuals
    <3>1. actual \in Charges
      BY <1>3, <2>2 DEF Charges
    <3>2. actual \in Nat /\ actual <= MaxCharge
      BY <3>1, MaxChargeBounds
    <3> QED BY <1>3, <3>2
  <2> QED BY <1>3, <2>1, <2>2
<1> QED BY <1>2, <1>3

LEMMA SettleCovers ==
  ASSUME LargestCharge, TypeOK, TypeOK', LedgerInv, OvershootInv, NEW r \in Reqs,
         RequestStep(r), NEW actual \in Actuals \cup {0, Null},
         NEW next \in {"settled", "ended"}, Settle(r, actual, next)
  PROVE  WindowsCovered'
<1>0. WindowsCovered /\ HoldsAreCharges /\ HoldingAtProvider
  BY DEF OvershootInv, LedgerInv
<1>1. PICK charge : charge = IF actual = Null THEN res[r].tokens ELSE actual
  OBVIOUS
<1>2. charge \in Nat /\ charge <= MaxCharge
  BY <1>0, <1>1, ChargeBounded
<1>3. Holding(r) /\ res' = [res EXCEPT ![r] = NoReservation] /\ res[r].row \in Windows
  BY ReserveType DEF Settle
<1>4. \E label \in {"settled", "ended", "mirroring", "lastMirror"} : Goto(r, label)
  BY DEF Settle
<1>5. \A w \in Windows : ~ Pending(r, w)'
  BY <1>0, <1>3, <1>4, NothingPending
<1>6. Pending(r, res[r].row)
  BY <1>3 DEF Pending
<1>7. CASE Gone(res[r].row)
  <2>1. billed' = billed
    BY <1>7 DEF Settle
  <2> QED BY <1>0, <1>5, <2>1, QuietStep
<1>8. CASE ~ Gone(res[r].row)
  <2>1. SettleRow(r, charge)
    BY <1>1, <1>8 DEF Settle
  <2>2. billed' = [billed EXCEPT ![res[r].row] = @ + charge]
    BY <2>1 DEF SettleRow
  <2> QED BY <1>0, <1>2, <1>3, <1>5, <1>6, <2>2, ChargingStep
<1> QED BY <1>7, <1>8

LEMMA AddUsageCovers ==
  ASSUME LargestCharge, TypeOK, TypeOK', LedgerInv, OvershootInv, NEW r \in Reqs,
         NEW actual \in Actuals, RequestStep(r), AddUsage(r, actual)
  PROVE  WindowsCovered'
<1>0. WindowsCovered /\ HoldingAtProvider
  BY DEF OvershootInv, LedgerInv
<1>1. actual \in Nat /\ actual <= MaxCharge
  <2>1. actual \in Charges
    BY DEF AddUsage, Charges
  <2> QED BY <2>1, MaxChargeBounds
<1>2. ~ Holding(r) /\ pc[r] = "provider" /\ res' = res
      /\ \E label \in {"settled", "ended", "mirroring"} : Goto(r, label)
  BY DEF AddUsage
<1>3. \A w \in Windows : ~ Pending(r, w)'
  BY <1>0, <1>2, NothingPending
<1>4. CASE TriggersBlock
  <2>1. billed' = billed
    BY <1>4 DEF AddUsage
  <2> QED BY <1>0, <1>3, <2>1, QuietStep
<1>5. CASE ~ TriggersBlock
  <2>1. billed' = [billed EXCEPT ![RowOf(win[r])] = @ + actual]
    BY <1>5 DEF AddUsage
  <2>2. Pending(r, RowOf(win[r])) /\ RowOf(win[r]) \in Windows
    BY <1>2, ReserveType DEF Pending
  <2> QED BY <1>0, <1>1, <1>3, <2>1, <2>2, ChargingStep
<1> QED BY <1>4, <1>5

LEMMA StrandCovers ==
  ASSUME LargestCharge, TypeOK, TypeOK', LedgerInv, OvershootInv, NEW r \in Reqs, Strand(r)
  PROVE  WindowsCovered'
<1>0. RequestStep(r) /\ WindowsCovered /\ HoldsAreCharges /\ HoldingAtProvider
  BY DEF RequestStep, OvershootInv, LedgerInv
<1>1. /\ Holding(r) /\ res' = [res EXCEPT ![r] = NoReservation] /\ Goto(r, "ended")
      /\ res[r].row \in Windows /\ res[r].tokens \in Nat /\ res[r].tokens <= MaxCharge
  BY <1>0, ReserveType DEF Strand, HoldsAreCharges
<1>2. \A w \in Windows : ~ Pending(r, w)'
  BY <1>0, <1>1, NothingPending
<1>3. CASE Gone(res[r].row)
  <2>1. billed' = billed
    BY <1>3 DEF Strand
  <2> QED BY <1>0, <1>2, <2>1, QuietStep
<1>4. CASE ~ Gone(res[r].row)
  <2>1. billed' = [billed EXCEPT ![res[r].row] = @ + res[r].tokens]
    BY <1>4 DEF Strand
  <2>2. Pending(r, res[r].row)
    BY <1>1 DEF Pending
  <2> QED BY <1>0, <1>1, <1>2, <2>1, <2>2, ChargingStep
<1> QED BY <1>3, <1>4

\* A charge is mirrored on a daily row only where plans have months, and there
\* the daily rows are not what requests are admitted under.
LEMMA MirrorCovers ==
  ASSUME LargestCharge, TypeOK, TypeOK', LedgerInv, OvershootInv, NEW r \in Reqs, Mirror(r)
  PROVE  WindowsCovered'
<1> SUFFICES ASSUME NEW w \in Windows PROVE Covered(billed'[w], Clear(w)', w[1])
  BY DEF WindowsCovered, Covered, AdmissionLimits, AllowanceOf, MaxCharge
<1>0. RequestStep(r) /\ WindowsCovered /\ NoMonths /\ HoldingAtProvider
  BY DEF RequestStep, OvershootInv, LedgerInv
<1>1. /\ pc[r] \in {"mirroring", "lastMirror"} /\ res' = res
      /\ \E label \in {"ended", "settled"} : Goto(r, label)
      /\ billed' = [billed EXCEPT ![<<"day", today>>] = @ + spent[r]]
  BY DEF Mirror
<1>2. ~ Holding(r)
  BY <1>0, <1>1, NotHolding
<1>3. CASE w[1] = "day"
  <2>1. PICK p \in Plans : p.monthly # 0
    BY <1>0, <1>1 DEF NoMonths
  <2>2. p.monthly > 0
    BY <2>1, LimitsAssumption
  <2>3. AdmissionLimits(w[1]) = {}
    BY <1>3, <2>2, AdmissionLimitsOf
  <2> QED BY <2>3 DEF Covered
<1>4. CASE w[1] # "day"
  <2>1. w # <<"day", today>>
    BY <1>4
  <2>2. billed'[w] = billed[w] /\ billed[w] \in Nat /\ billed[w] <= billed[w]
    BY <1>1, <2>1 DEF TypeOK
  <2>3. ASSUME NEW q \in Reqs, Pending(q, w)' PROVE Pending(q, w)
    <3>1. CASE q = r
      BY <1>0, <1>1, <1>2, <2>3, <3>1, NothingPending
    <3>2. CASE q # r
      BY <1>0, <2>3, <3>2, OthersStay, PendingOfOthers
    <3> QED BY <3>1, <3>2
  <2>4. Clear(w) \subseteq Clear(w)' /\ Clear(w)' \subseteq Reqs
    BY <2>3 DEF Clear
  <2>5. Covered(billed[w], Clear(w), w[1])
    BY <1>0 DEF WindowsCovered
  <2> QED BY <2>2, <2>4, <2>5, CoveredStill
<1> QED BY <1>3, <1>4

LEMMA RequestStepCovers ==
  ASSUME LargestCharge, Enforcement, TypeOK, TypeOK', LedgerInv, OvershootInv,
         NEW r \in Reqs, RequestStep(r)
  PROVE  WindowsCovered'
<1>1. CASE ReadDaily(r)
  BY <1>1, ReadDailyCovers
<1>2. CASE ReadPeriods(r)
  BY <1>2, ReadPeriodsCovers
<1>3. CASE Reserve(r)
  BY <1>3, ReserveCovers
<1>4. CASE \/ ReserveDenied(r) \/ ReserveBlocked(r) \/ FailedUnreserved(r)
           \/ (\E actual \in Actuals : Unmetered(r, actual))
           \/ MirrorFails(r) \/ Continue(r) \/ Finish(r)
  BY <1>4, IdleStepsCover
<1>5. CASE Settle(r, 0, "ended") \/ Settle(r, Null, "ended")
  BY <1>5, SettleCovers
<1>6. ASSUME NEW actual \in Actuals, Settle(r, actual, "settled") PROVE WindowsCovered'
  BY <1>6, SettleCovers
<1>7. ASSUME NEW actual \in Actuals, AddUsage(r, actual) PROVE WindowsCovered'
  BY <1>7, AddUsageCovers
<1>8. CASE Strand(r)
  BY <1>8, StrandCovers
<1>9. CASE Mirror(r)
  BY <1>9, MirrorCovers
<1>10. CASE ProviderFailed(r)
  BY <1>4, <1>5, <1>10 DEF ProviderFailed, ChatFailed, SummaryFailed
<1>11. CASE ProviderAnswered(r)
  BY <1>4, <1>6, <1>7, <1>11 DEF ProviderAnswered
<1> QED BY <1>1, <1>2, <1>3, <1>4, <1>8, <1>9, <1>10, <1>11 DEF RequestStep

\* A crash strands what requests hold, and no more than each may charge.
LEMMA CrashCovers ==
  ASSUME LargestCharge, TypeOK, TypeOK', LedgerInv, OvershootInv, Crash
  PROVE  WindowsCovered'
<1> SUFFICES ASSUME NEW w \in Windows PROVE Covered(billed'[w], Clear(w)', w[1])
  BY DEF WindowsCovered, Covered, AdmissionLimits, AllowanceOf, MaxCharge
<1>0. HoldsAreCharges /\ HoldingAtProvider
  BY DEF OvershootInv, LedgerInv
<1>1. /\ res' = [r \in Reqs |-> NoReservation]
      /\ \A r \in Reqs : pc'[r] \in {"idle", "refused", "ended"}
      /\ billed' = [x \in Windows |-> IF Gone(x) THEN billed[x]
                                      ELSE billed[x] + Outstanding(x)]
  BY DEF Crash
<1>2. ASSUME NEW q \in Reqs PROVE ~ Pending(q, w)'
  <2>1. res'[q].tokens = 0
    BY <1>1 DEF NoReservation
  <2>2. ~ Holding(q)'
    BY <2>1 DEF Holding
  <2> QED BY <1>1, <2>2 DEF Pending
<1>3. Clear(w)' = Reqs
  BY <1>2 DEF Clear
<1>4. Covered(billed[w], Clear(w), w[1])
  BY DEF OvershootInv, WindowsCovered
<1> DEFINE P == {q \in Reqs : Pending(q, w)}
<1>5. Clear(w) \subseteq Reqs /\ P \subseteq Reqs /\ Clear(w) \cap P = {}
      /\ Clear(w) \cup P = Reqs
  BY DEF Clear
<1>6. Outstanding(w) \in Nat /\ Outstanding(w) <= AllowanceOf(P)
  <2>1. HeldUnits(w) \subseteq P \X (1..MaxCharge)
    <3> SUFFICES ASSUME NEW u \in HeldUnits(w) PROVE u \in P \X (1..MaxCharge)
      OBVIOUS
    <3>1. PICK q \in Reqs : res[q].row = w /\ u \in {q} \X (1..res[q].tokens)
      BY DEF HeldUnits
    <3>2. PICK k \in 1..res[q].tokens : u = <<q, k>>
      BY <3>1
    <3>3. res[q].tokens \in Nat /\ res[q].tokens <= MaxCharge /\ MaxCharge \in Nat
      BY <1>0, ReserveType, MaxChargeBounds DEF HoldsAreCharges
    <3>4. k \in 1..MaxCharge /\ Holding(q)
      BY <3>2, <3>3 DEF Holding
    <3>5. q \in P
      BY <3>1, <3>4 DEF Pending
    <3> QED BY <3>2, <3>4, <3>5
  <2>2. IsFiniteSet(P \X (1..MaxCharge))
    BY <1>5, AllowanceFacts
  <2> HIDE DEF P
  <2>3. Cardinality(HeldUnits(w)) <= Cardinality(P \X (1..MaxCharge))
    BY <2>1, <2>2, FS_Subset
  <2> QED BY <2>3, HeldFinite DEF Outstanding, AllowanceOf
<1>7. AllowanceOf(Reqs) = AllowanceOf(Clear(w)) + AllowanceOf(P)
  <2> HIDE DEF P
  <2> QED BY <1>5, AllowancesAdd
<1>8. AllowanceOf(Clear(w)) \in Nat /\ AllowanceOf(P) \in Nat
  <2> HIDE DEF P
  <2> QED BY <1>5, AllowanceFacts
<1>9. billed[w] \in Nat /\ billed'[w] <= billed[w] + Outstanding(w) /\ billed'[w] \in Nat
  BY <1>1, <1>6 DEF TypeOK
<1> HIDE DEF P
<1>10. ASSUME AdmissionLimits(w[1]) # {}
       PROVE  \E limit \in AdmissionLimits(w[1]) : billed'[w] <= limit - 1 + AllowanceOf(Reqs)
  <2>1. PICK limit \in AdmissionLimits(w[1]) : billed[w] <= limit - 1 + AllowanceOf(Clear(w))
    BY <1>4, <1>10 DEF Covered
  <2>2. limit \in Nat
    BY LimitsAreNumbers DEF Windows
  <2>3. billed'[w] <= limit - 1 + AllowanceOf(Reqs)
    BY <1>6, <1>7, <1>8, <1>9, <2>1, <2>2
  <2> QED BY <2>3
<1> QED BY <1>3, <1>10 DEF Covered

\* At midnight requests with a day window take aim at a row that is still empty.
LEMMA TickCovers ==
  ASSUME LargestCharge, TypeOK, TypeOK', OvershootInv, Tick
  PROVE  WindowsCovered'
<1> SUFFICES ASSUME NEW w \in Windows PROVE Covered(billed'[w], Clear(w)', w[1])
  BY DEF WindowsCovered, Covered, AdmissionLimits, AllowanceOf, MaxCharge
<1>1. /\ billed' = billed /\ today' = today + 1 /\ today' \in Days /\ today \in Nat
      /\ billed[w] \in Nat /\ billed[w] <= billed[w]
      /\ UNCHANGED <<pc, win, res, job, seen>>
  BY DaysFacts DEF Tick, TypeOK
<1>2. Clear(w)' \subseteq Reqs
  BY DEF Clear
<1>3. CASE w = <<"day", today'>>
  <2>1. billed[w] = 0
    BY <1>1, <1>3 DEF OvershootInv, NothingBilledYet
  <2>2. billed'[w] = 0
    BY <1>1, <2>1
  <2> QED BY <1>2, <2>2, CoveredEmpty
<1>4. CASE w # <<"day", today'>>
  <2>1. ASSUME NEW q \in Reqs, Pending(q, w)' PROVE Pending(q, w)
    <3>1. Holding(q)' <=> Holding(q)
      BY <1>1 DEF Holding
    <3>2. RowOf(win[q])' = w => RowOf(win[q]) = w
      BY <1>1, <1>4 DEF RowOf
    <3>3. w # <<"day", today>>' /\ res'[q] = res[q]
      BY <1>1, <1>4
    <3> QED BY <1>1, <2>1, <3>1, <3>2, <3>3 DEF Pending
  <2>2. Clear(w) \subseteq Clear(w)'
    BY <2>1 DEF Clear
  <2>3. Covered(billed[w], Clear(w), w[1])
    BY DEF OvershootInv, WindowsCovered
  <2>4. Covered(billed[w], Clear(w)', w[1])
    BY <1>1, <1>2, <2>2, <2>3, CoveredStill
  <2> QED BY <1>1, <2>4
<1> QED BY <1>3, <1>4

LEMMA DeletionCovers ==
  ASSUME LargestCharge, TypeOK, TypeOK', OvershootInv,
         Tombstone \/ Purge \/ UNCHANGED vars
  PROVE  WindowsCovered'
<1>1. ASSUME NEW q \in Reqs, NEW w \in Windows, Pending(q, w)' PROVE Pending(q, w)
  <2>1. UNCHANGED <<pc, win, res, seen, job, today>>
    BY DEF Tombstone, Purge, vars
  <2> QED BY <1>1, <2>1, PendingOfOthers
<1>2. ASSUME NEW w \in Windows PROVE billed'[w] <= billed[w]
  BY DEF Tombstone, Purge, vars, TypeOK
<1> QED BY <1>1, <1>2, CoveredQuietly DEF OvershootInv

-----------------------------------------------------------------------------
(* What the windows stay covered by                                        *)

\* A round reserves no more than it was estimated to need.
LEMMA ReservesACharge ==
  ASSUME LargestCharge, TypeOK, NEW r \in Reqs
  PROVE  ReserveTokens(r) <= MaxCharge
<1>1. job[r].size \in Sizes
  BY DEF TypeOK, Jobs
<1>2. Want(r) \in Charges
  BY <1>1 DEF Want, Charges
<1>3. Want(r) \in Nat /\ Want(r) <= MaxCharge /\ MaxCharge \in Nat
  BY <1>2, MaxChargeBounds
<1>4. Want(r) >= 1
  BY <1>1, RequestsAssumption DEF Want
<1>5. win[r].remaining \in Nat
  BY DEF TypeOK
<1>6. ReserveTokens(r) <= Want(r)
  BY <1>3, <1>4, <1>5 DEF ReserveTokens, ChatReserve, SummaryReserve, Smaller, Larger
<1>7. ReserveTokens(r) \in Nat
  BY ReserveType
<1> QED BY <1>3, <1>6, <1>7

LEMMA StepHoldsAreCharges ==
  ASSUME LargestCharge, TypeOK, TypeOK', OvershootInv, [Next]_vars
  PROVE  HoldsAreCharges'
<1> SUFFICES ASSUME NEW q \in Reqs
             PROVE  /\ res'[q].tokens <= MaxCharge
                    /\ res'[q].row[1] = "day" => res'[q].row[2] <= today'
  BY DEF HoldsAreCharges, MaxCharge
<1>1. res[q].tokens <= MaxCharge /\ (res[q].row[1] = "day" => res[q].row[2] <= today)
  BY DEF OvershootInv, HoldsAreCharges
<1>2. today \in Nat /\ today' \in Nat /\ MaxCharge \in Nat
  BY DaysFacts, MaxChargeBounds DEF TypeOK
<1>3. CASE res'[q] = res[q] /\ (today' = today \/ today' = today + 1)
  <2>1. res'[q].row \in Windows
    BY ReserveType DEF TypeOK
  <2>2. res'[q].row[2] \in Days
    BY <2>1 DEF Windows
  <2>3. res[q].row[2] \in Nat
    BY <1>3, <2>2, DaysFacts
  <2> QED BY <1>1, <1>2, <1>3, <2>3
<1>4. CASE res'[q] = NoReservation
  <2>1. res'[q].tokens = 0 /\ res'[q].row[2] = 0
    BY <1>4 DEF NoReservation
  <2> QED BY <1>2, <2>1
<1>5. CASE Crash
  <2>1. res'[q] = NoReservation
    BY <1>5 DEF Crash
  <2> QED BY <1>4, <2>1
<1>6. CASE Tick \/ Tombstone \/ Purge \/ UNCHANGED vars
  <2>1. res'[q] = res[q] /\ (today' = today \/ today' = today + 1)
    BY <1>6 DEF Tick, Tombstone, Purge, vars
  <2> QED BY <1>3, <2>1
<1>7. ASSUME NEW r \in Reqs, RequestStep(r)
      PROVE  res'[q] = res[q] \/ res'[q] = NoReservation
             \/ res'[q] = [tokens |-> ReserveTokens(q), row |-> RowOf(win[q])]
  <2>1. CASE q # r
    BY <1>7, <2>1, OthersStay
  <2>2. CASE q = r
    <3>1. res \in [Reqs -> Reservations]
      BY DEF TypeOK, Reservations
    <3>2. CASE res' = [res EXCEPT ![r] = NoReservation]
      BY <2>2, <3>1, <3>2
    <3>3. CASE Reserve(r)
      BY <2>2, <3>1, <3>3 DEF Reserve
    <3>4. CASE ~ Reserve(r)
      <4>1. res' = res \/ res' = [res EXCEPT ![r] = NoReservation]
        BY <1>7, <3>4 DEF RequestStep, ReadDaily, ReadPeriods, ReserveDenied,
               ReserveBlocked, ProviderFailed, ChatFailed, SummaryFailed,
               FailedUnreserved, ProviderAnswered, Settle, AddUsage,
               Unmetered, Mirror, MirrorFails, Continue, Finish, Strand
      <4> QED BY <2>2, <3>2, <4>1
    <3> QED BY <3>3, <3>4
  <2> QED BY <2>1, <2>2
<1>8. CASE \E r \in Reqs : RequestStep(r)
  <2>1. today' = today
    BY <1>8, OthersStay
  <2>2. CASE res'[q] = [tokens |-> ReserveTokens(q), row |-> RowOf(win[q])]
    <3>1. res'[q].tokens <= MaxCharge
      BY <2>2, ReservesACharge
    <3>2. res'[q].row = RowOf(win[q])
      BY <2>2
    <3>3. res'[q].row[1] = "day" => res'[q].row[2] = today
      BY <3>2 DEF RowOf
    <3> QED BY <1>2, <2>1, <3>1, <3>3
  <2> QED BY <1>3, <1>4, <1>7, <1>8, <2>1, <2>2
<1> QED BY <1>5, <1>6, <1>8 DEF Next

\* Nothing is billed on a row of the future or on one the purge deleted.
LEMMA RequestStepBills ==
  ASSUME TypeOK, HoldsAreCharges, NEW r \in Reqs, RequestStep(r)
  PROVE  \/ billed' = billed
         \/ \E v \in Windows, n \in Nat :
              /\ billed' = [billed EXCEPT ![v] = @ + n]
              /\ ~ Gone(v) /\ (v[1] = "day" => v[2] <= today)
<1>1. /\ res[r].row \in Windows /\ res[r].tokens \in Nat /\ RowOf(win[r]) \in Windows
      /\ res[r].row[1] = "day" => res[r].row[2] <= today
  BY ReserveType DEF HoldsAreCharges
<1>2. today \in Nat
  BY DaysFacts DEF TypeOK
<1>3. ASSUME NEW n \in Nat, ~ Gone(res[r].row),
             billed' = [billed EXCEPT ![res[r].row] = @ + n]
      PROVE  \E v \in Windows, m \in Nat :
               /\ billed' = [billed EXCEPT ![v] = @ + m]
               /\ ~ Gone(v) /\ (v[1] = "day" => v[2] <= today)
  BY <1>1, <1>3
<1>4. ASSUME NEW v \in Windows, v[1] = "day" => v[2] = today, ~ TriggersBlock,
             NEW n \in Nat, billed' = [billed EXCEPT ![v] = @ + n]
      PROVE  \E u \in Windows, m \in Nat :
               /\ billed' = [billed EXCEPT ![u] = @ + m]
               /\ ~ Gone(u) /\ (u[1] = "day" => u[2] <= today)
  <2>1. ~ Gone(v) /\ (v[1] = "day" => v[2] <= today)
    BY <1>2, <1>4 DEF TriggersBlock, Gone
  <2> QED BY <1>4, <2>1
<1>5. ASSUME NEW actual \in Nat \cup {Null}, NEW next, Settle(r, actual, next)
      PROVE  \/ billed' = billed
             \/ \E v \in Windows, n \in Nat :
                  /\ billed' = [billed EXCEPT ![v] = @ + n]
                  /\ ~ Gone(v) /\ (v[1] = "day" => v[2] <= today)
  <2>1. PICK charge \in Nat : charge = IF actual = Null THEN res[r].tokens ELSE actual
    BY <1>1
  <2>2. CASE Gone(res[r].row)
    BY <1>5, <2>2 DEF Settle
  <2>3. CASE ~ Gone(res[r].row)
    <3>1. billed' = [billed EXCEPT ![res[r].row] = @ + charge]
      BY <1>5, <2>1, <2>3 DEF Settle, SettleRow
    <3> QED BY <1>3, <2>3, <3>1
  <2> QED BY <2>2, <2>3
<1>6. CASE ProviderFailed(r)
  <2>1. CASE FailedUnreserved(r)
    BY <2>1 DEF FailedUnreserved
  <2>2. CASE Settle(r, 0, "ended") \/ Settle(r, Null, "ended")
    BY <1>5, <2>2
  <2> QED BY <1>6, <2>1, <2>2 DEF ProviderFailed, ChatFailed, SummaryFailed
<1>7. CASE ProviderAnswered(r)
  <2>1. PICK actual \in Actuals : \/ Settle(r, actual, "settled")
                                  \/ AddUsage(r, actual) \/ Unmetered(r, actual)
    BY <1>7 DEF ProviderAnswered
  <2>2. actual \in Nat \cup {Null}
    BY RequestsAssumption
  <2>3. CASE Settle(r, actual, "settled")
    BY <1>5, <2>2, <2>3
  <2>4. CASE AddUsage(r, actual)
    <3>1. actual \in Nat
      BY <2>2, <2>4 DEF AddUsage
    <3>2. RowOf(win[r])[1] = "day" => RowOf(win[r])[2] = today
      BY DEF RowOf
    <3>3. CASE TriggersBlock
      BY <2>4, <3>3 DEF AddUsage
    <3>4. CASE ~ TriggersBlock
      <4>1. billed' = [billed EXCEPT ![RowOf(win[r])] = @ + actual]
        BY <2>4, <3>4 DEF AddUsage
      <4> QED BY <1>1, <1>4, <3>1, <3>2, <3>4, <4>1
    <3> QED BY <3>3, <3>4
  <2>5. CASE Unmetered(r, actual)
    BY <2>5 DEF Unmetered
  <2> QED BY <2>1, <2>3, <2>4, <2>5
<1>8. CASE Mirror(r)
  <2>1. PICK v : v = <<"day", today>>
    OBVIOUS
  <2>2. v \in Windows /\ (v[1] = "day" => v[2] = today) /\ spent[r] \in Nat
    BY <2>1, RowType DEF TypeOK, Kinds
  <2>3. ~ TriggersBlock /\ billed' = [billed EXCEPT ![v] = @ + spent[r]]
    BY <1>8, <2>1 DEF Mirror
  <2> QED BY <1>4, <2>2, <2>3
<1>9. CASE Strand(r)
  <2>1. CASE Gone(res[r].row)
    BY <1>9, <2>1 DEF Strand
  <2>2. CASE ~ Gone(res[r].row)
    <3>1. billed' = [billed EXCEPT ![res[r].row] = @ + res[r].tokens]
      BY <1>9, <2>2 DEF Strand
    <3> QED BY <1>1, <1>3, <2>2, <3>1
  <2> QED BY <2>1, <2>2
<1>10. CASE \/ ReadDaily(r) \/ ReadPeriods(r) \/ Reserve(r) \/ ReserveDenied(r)
            \/ ReserveBlocked(r) \/ MirrorFails(r) \/ Continue(r) \/ Finish(r)
  BY <1>10 DEF ReadDaily, ReadPeriods, Reserve, ReserveDenied, ReserveBlocked,
               MirrorFails, Continue, Finish
<1> QED BY <1>6, <1>7, <1>8, <1>9, <1>10 DEF RequestStep

LEMMA StepNothingBilledYet ==
  ASSUME LargestCharge, TypeOK, TypeOK', OvershootInv, [Next]_vars
  PROVE  NothingBilledYet'
<1>0. HoldsAreCharges
      /\ (\A d \in Days : d > today => billed[<<"day", d>>] = 0)
      /\ (\A w \in Windows : Gone(w) => billed[w] = 0)
  BY DEF OvershootInv, NothingBilledYet
<1>1. /\ \A d \in Days : <<"day", d>> \in Windows /\ d \in Nat
      /\ today \in Nat /\ today' \in Nat
      /\ billed \in [Windows -> Nat] /\ billed' \in [Windows -> Nat]
  BY RowType, DaysFacts DEF TypeOK, Kinds
<1>2. CASE \E r \in Reqs : RequestStep(r)
  <2>1. PICK r \in Reqs : RequestStep(r)
    BY <1>2
  <2>2. today' = today /\ account' = account
    BY <2>1, OthersStay
  <2>3. \A w : Gone(w)' <=> Gone(w)
    BY <2>2 DEF Gone
  <2>4. CASE billed' = billed
    BY <1>0, <2>2, <2>3, <2>4 DEF NothingBilledYet
  <2>5. CASE \E v \in Windows, n \in Nat :
               /\ billed' = [billed EXCEPT ![v] = @ + n]
               /\ ~ Gone(v) /\ (v[1] = "day" => v[2] <= today)
    <3>1. PICK v \in Windows, n \in Nat :
                 /\ billed' = [billed EXCEPT ![v] = @ + n]
                 /\ ~ Gone(v) /\ (v[1] = "day" => v[2] <= today)
      BY <2>5
    <3>2. \A w \in Windows : w # v => billed'[w] = billed[w]
      BY <1>1, <3>1
    <3>3. ASSUME NEW d \in Days, d > today' PROVE billed'[<<"day", d>>] = 0
      <4>1. <<"day", d>> # v
        BY <1>1, <2>2, <3>1, <3>3
      <4> QED BY <1>0, <1>1, <2>2, <3>2, <3>3, <4>1
    <3>4. ASSUME NEW w \in Windows, Gone(w)' PROVE billed'[w] = 0
      BY <1>0, <2>3, <3>1, <3>2, <3>4
    <3> QED BY <3>3, <3>4 DEF NothingBilledYet
  <2> QED BY <1>0, <2>1, <2>4, <2>5, RequestStepBills
<1>3. CASE Crash
  <2>1. /\ today' = today /\ account' = account
        /\ billed' = [w \in Windows |-> IF Gone(w) THEN billed[w]
                                        ELSE billed[w] + Outstanding(w)]
    BY <1>3 DEF Crash
  <2>2. \A w : Gone(w)' <=> Gone(w)
    BY <2>1 DEF Gone
  <2>3. ASSUME NEW d \in Days, d > today' PROVE billed'[<<"day", d>>] = 0
    <3>1. \A q \in Reqs : res[q].row # <<"day", d>>
      <4> SUFFICES ASSUME NEW q \in Reqs, res[q].row = <<"day", d>> PROVE FALSE
        OBVIOUS
      <4>1. res[q].row[1] = "day" /\ res[q].row[2] = d
        OBVIOUS
      <4>2. d <= today /\ d > today
        BY <1>0, <2>1, <2>3, <4>1 DEF HoldsAreCharges
      <4>3. d \in Nat /\ today \in Nat
        BY <1>1
      <4> QED BY ONLY <4>2, <4>3
    <3>2. HeldUnits(<<"day", d>>) = {}
      BY <3>1 DEF HeldUnits
    <3>3. Outstanding(<<"day", d>>) = 0
      BY <3>2, FS_EmptySet DEF Outstanding
    <3>4. billed[<<"day", d>>] = 0
      BY <1>0, <2>1, <2>3
    <3> QED BY <1>1, <2>1, <3>3, <3>4
  <2>4. ASSUME NEW w \in Windows, Gone(w)' PROVE billed'[w] = 0
    BY <1>0, <2>1, <2>2, <2>4
  <2> QED BY <2>3, <2>4 DEF NothingBilledYet
<1>4. CASE Tick
  <2>1. today' = today + 1 /\ billed' = billed /\ account' = account
    BY <1>4 DEF Tick
  <2>2. \A w : Gone(w)' <=> Gone(w)
    BY <2>1 DEF Gone
  <2>3. ASSUME NEW d \in Days, d > today' PROVE d > today
    <3>1. d \in Nat /\ today \in Nat /\ today' = today + 1
      BY <1>1, <2>1
    <3> QED BY ONLY <2>3, <3>1
  <2> QED BY <1>0, <2>1, <2>2, <2>3 DEF NothingBilledYet
<1>5. CASE Tombstone \/ UNCHANGED vars
  <2>1. today' = today /\ billed' = billed
    BY <1>5 DEF Tombstone, vars
  <2>2. \A w : Gone(w)' => Gone(w)
    BY <1>5 DEF Tombstone, vars, Gone
  <2> QED BY <1>0, <2>1, <2>2 DEF NothingBilledYet
<1>6. CASE Purge
  <2>1. today' = today /\ \A w \in Windows : billed'[w] = 0 \/ billed'[w] = billed[w]
    BY <1>6 DEF Purge
  <2>2. \A d \in Days : d > today' => billed'[<<"day", d>>] = 0
    BY <1>0, <1>1, <2>1
  <2>3. ASSUME NEW w \in Windows, Gone(w)' PROVE billed'[w] = 0
    <3>1. CASE account = "tombstoned"
      <4>1. w[1] = "day"
        BY <1>6, <2>3, <3>1 DEF Purge, Gone
      <4> QED BY <1>6, <3>1, <4>1 DEF Purge
    <3>2. CASE account = "dailyPurged" /\ w[1] = "day"
      <4>1. billed[w] = 0
        BY <1>0, <3>2 DEF Gone
      <4> QED BY <2>1, <4>1
    <3>3. CASE account = "dailyPurged" /\ w[1] # "day"
      BY <1>6, <3>3 DEF Purge
    <3> QED BY <1>6, <3>1, <3>2, <3>3 DEF Purge
  <2> QED BY <2>2, <2>3 DEF NothingBilledYet
<1> QED BY <1>2, <1>3, <1>4, <1>5, <1>6 DEF Next

\* Without monthly plans no request comes to a monthly window.
LEMMA StepNoMonths ==
  ASSUME TypeOK, OvershootInv, [Next]_vars
  PROVE  NoMonths'
<1> SUFFICES ASSUME \A p \in Plans : p.monthly = 0, NEW q \in Reqs
             PROVE  /\ win'[q].kind # "month" /\ res'[q].row[1] # "month"
                    /\ pc'[q] \notin {"mirroring", "lastMirror"}
  BY DEF NoMonths
<1>1. /\ win[q].kind # "month" /\ res[q].row[1] # "month"
      /\ pc[q] \notin {"mirroring", "lastMirror"}
  BY DEF OvershootInv, NoMonths
<1>2. CASE Tick \/ Tombstone \/ Purge \/ UNCHANGED vars
  BY <1>1, <1>2 DEF Tick, Tombstone, Purge, vars
<1>3. NoReservation.row[1] # "month"
  BY DEF NoReservation
<1>4. CASE Crash
  BY <1>1, <1>3, <1>4 DEF Crash
<1>5. ASSUME NEW r \in Reqs, RequestStep(r), q # r
      PROVE  /\ win'[q].kind # "month" /\ res'[q].row[1] # "month"
             /\ pc'[q] \notin {"mirroring", "lastMirror"}
  BY <1>1, <1>5, OthersStay
<1>6. ASSUME RequestStep(q)
      PROVE  /\ win'[q].kind # "month" /\ res'[q].row[1] # "month"
             /\ pc'[q] \notin {"mirroring", "lastMirror"}
  <2>1. /\ pc \in [Reqs -> Labels] /\ win \in [Reqs -> WindowRecords]
        /\ res \in [Reqs -> Reservations]
    BY DEF TypeOK, WindowRecords, Reservations
  <2>2. CASE ReadPeriods(q)
    <3>1. job[q].plan.monthly = 0 /\ job[q].plan \in Plans
      BY DEF TypeOK, Jobs
    <3>2. PICK w : /\ win' = [win EXCEPT ![q] = w]
                   /\ \/ w.kind = "week" \/ w.kind = "day"
      <4>1. PICK d, m, k : win' = [win EXCEPT ![q] =
                                     ResolveWindow(job[q].plan, seen[q].day, d, m, k)]
        BY <2>2 DEF ReadPeriods
      <4>2. PICK w : w = ResolveWindow(job[q].plan, seen[q].day, d, m, k)
        OBVIOUS
      <4>3. w.kind = "week" \/ w.kind = "day"
        BY <3>1, <4>2, LimitsAssumption DEF ResolveWindow, Window
      <4> QED BY <4>1, <4>2, <4>3
    <3>3. res' = res /\ pc'[q] \in {"refused", "reserving", "provider"}
      BY <2>1, <2>2 DEF ReadPeriods, Goto
    <3> QED BY <1>1, <2>1, <3>2, <3>3
  <2>3. CASE Reserve(q)
    <3>1. win' = win /\ pc'[q] = "provider" /\ res'[q].row = RowOf(win[q])
      BY <2>1, <2>3 DEF Reserve, Goto
    <3>2. RowOf(win[q])[1] # "month"
      BY <1>1 DEF RowOf
    <3> QED BY <1>1, <3>1, <3>2
  <2>4. ASSUME NEW label, Goto(q, label), label \notin {"mirroring", "lastMirror"},
               win' = win, res' = res \/ res' = [res EXCEPT ![q] = NoReservation]
        PROVE  /\ win'[q].kind # "month" /\ res'[q].row[1] # "month"
               /\ pc'[q] \notin {"mirroring", "lastMirror"}
    <3>1. pc'[q] = label
      BY <2>1, <2>4 DEF Goto
    <3>2. res'[q] = res[q] \/ res'[q] = NoReservation
      BY <2>1, <2>4
    <3> QED BY <1>1, <1>3, <2>4, <3>1, <3>2
  <2>5. ASSUME NEW actual, NEW next \in {"settled", "ended"}, Settle(q, actual, next)
        PROVE  /\ win'[q].kind # "month" /\ res'[q].row[1] # "month"
               /\ pc'[q] \notin {"mirroring", "lastMirror"}
    <3>1. \E label \in {"settled", "ended"} : Goto(q, label)
      BY <1>1, <2>5 DEF Settle
    <3> QED BY <2>4, <2>5, <3>1 DEF Settle
  <2>6. CASE ReadDaily(q)
    BY <2>4, <2>6 DEF ReadDaily
  <2>7. CASE ReserveDenied(q) \/ ReserveBlocked(q)
    <3>1. \E label \in {"refused", "provider", "ended"} : Goto(q, label)
      BY <2>7 DEF ReserveDenied, ReserveBlocked
    <3> QED BY <2>4, <2>7, <3>1 DEF ReserveDenied, ReserveBlocked
  <2>8. CASE ProviderFailed(q)
    BY <2>4, <2>5, <2>8 DEF ProviderFailed, ChatFailed, SummaryFailed, FailedUnreserved
  <2>9. CASE ProviderAnswered(q)
    <3>1. PICK actual \in Actuals : \/ Settle(q, actual, "settled")
                                    \/ AddUsage(q, actual) \/ Unmetered(q, actual)
      BY <2>9 DEF ProviderAnswered
    <3>2. CASE AddUsage(q, actual)
      <4>1. \E label \in {"settled", "ended"} : Goto(q, label)
        BY <1>1, <3>2 DEF AddUsage
      <4> QED BY <2>4, <3>2, <4>1 DEF AddUsage
    <3>3. CASE Unmetered(q, actual)
      BY <2>4, <3>3 DEF Unmetered
    <3> QED BY <2>5, <3>1, <3>2, <3>3
  <2>10. CASE Mirror(q) \/ MirrorFails(q)
    BY <1>1, <2>10 DEF Mirror, MirrorFails
  <2>11. CASE Continue(q) \/ Finish(q) \/ Strand(q)
    BY <2>4, <2>11 DEF Continue, Finish, Strand
  <2> QED BY <1>6, <2>2, <2>3, <2>6, <2>7, <2>8, <2>9, <2>10, <2>11 DEF RequestStep
<1> QED BY <1>2, <1>4, <1>5, <1>6 DEF Next

LEMMA OvershootInitially ==
  ASSUME LargestCharge, Init, TypeOK
  PROVE  OvershootInv
<1>1. WindowsCovered
  <2> SUFFICES ASSUME NEW w \in Windows PROVE Covered(billed[w], Clear(w), w[1])
    BY DEF WindowsCovered
  <2>1. billed[w] = 0 /\ Clear(w) \subseteq Reqs
    BY DEF Init, Clear
  <2> QED BY <2>1, CoveredEmpty
<1>2. HoldsAreCharges
  <2> SUFFICES ASSUME NEW r \in Reqs
               PROVE  /\ res[r].tokens <= MaxCharge
                      /\ res[r].row[1] = "day" => res[r].row[2] <= today
    BY DEF HoldsAreCharges
  <2>1. res[r].tokens = 0 /\ res[r].row = <<"day", 0>> /\ today = 0
    BY DEF Init, NoReservation
  <2> QED BY <2>1, MaxChargeBounds
<1>3. NothingBilledYet
  <2>1. \A d \in Days : <<"day", d>> \in Windows
    BY RowType DEF Kinds
  <2> QED BY <2>1 DEF Init, NothingBilledYet
<1>4. NoMonths
  <2>1. ASSUME NEW r \in Reqs
        PROVE  /\ win[r].kind = "day" /\ res[r].row[1] = "day" /\ pc[r] = "idle"
    BY DEF Init, Window, NoReservation
  <2> QED BY <2>1 DEF NoMonths
<1> QED BY <1>1, <1>2, <1>3, <1>4 DEF OvershootInv

LEMMA OvershootKept ==
  ASSUME LargestCharge, Enforcement, TypeOK, TypeOK', LedgerInv, OvershootInv, [Next]_vars
  PROVE  OvershootInv'
<1>1. WindowsCovered'
  <2>1. CASE \E r \in Reqs : RequestStep(r)
    BY <2>1, RequestStepCovers
  <2> QED BY <2>1, CrashCovers, TickCovers, DeletionCovers DEF Next
<1>2. HoldsAreCharges' /\ NothingBilledYet' /\ NoMonths'
  BY StepHoldsAreCharges, StepNothingBilledYet, StepNoMonths
<1> QED BY <1>1, <1>2 DEF OvershootInv

\* What covers every window stays within one charge of every request.
LEMMA OvershootFollows ==
  ASSUME LargestCharge, TypeOK, OvershootInv
  PROVE  OvershootBounded
<1> SUFFICES ASSUME NEW w \in Windows, AdmissionLimits(w[1]) # {}
             PROVE  \E limit \in AdmissionLimits(w[1]) :
                      billed[w] <= limit - 1 + Cardinality(Reqs) * MaxCharge
  BY DEF OvershootBounded
<1>1. Covered(billed[w], Clear(w), w[1])
  BY DEF OvershootInv, WindowsCovered
<1>2. PICK limit \in AdmissionLimits(w[1]) : billed[w] <= limit - 1 + AllowanceOf(Clear(w))
  BY <1>1 DEF Covered
<1>3. limit \in Nat /\ billed[w] \in Nat
  BY LimitsAreNumbers DEF Windows, TypeOK
<1>4. Clear(w) \subseteq Reqs
  BY DEF Clear
<1>5. AllowanceOf(Clear(w)) \in Nat /\ AllowanceOf(Clear(w)) <= AllowanceOf(Reqs)
  BY <1>4, AllowanceFacts, AllowanceGrows
<1>6. AllowanceOf(Reqs) \in Nat /\ AllowanceOf(Reqs) = Cardinality(Reqs) * MaxCharge
  BY AllowanceFacts
<1>7. billed[w] <= limit - 1 + AllowanceOf(Reqs)
  BY <1>2, <1>3, <1>5, <1>6
<1> QED BY <1>6, <1>7

\* With enforcement on, whatever requests, rounds, failures, crashes and
\* midnights come together, a window is charged beyond its limit by at most one
\* charge of every request: policy.js reads the window before each round, so
\* that "overshoot past the limit stays bounded".
THEOREM OvershootIsBounded ==
  ASSUME Enforcement, LargestCharge
  PROVE  Spec => []OvershootBounded
<1>1. Init => OvershootInv
  BY InitType, OvershootInitially
<1>2. TypeOK /\ TypeOK' /\ LedgerInv /\ OvershootInv /\ [Next]_vars => OvershootInv'
  BY OvershootKept
<1>3. TypeOK /\ OvershootInv => OvershootBounded
  BY OvershootFollows
<1>4. Spec => []LedgerInv
  BY LedgerStep, InitLedger, TypeCorrect, PTL DEF Spec
<1> QED BY <1>1, <1>2, <1>3, <1>4, TypeCorrect, PTL DEF Spec

=============================================================================
