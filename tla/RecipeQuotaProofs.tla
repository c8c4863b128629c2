-------------------------- MODULE RecipeQuotaProofs --------------------------
(***************************************************************************)
(* Machine-checked proofs about RecipeQuota, for any recommendations, any  *)
(* plans and any calendar.                                                 *)
(***************************************************************************)
EXTENDS RecipeQuota, FiniteSetTheorems, TLAPS

Labels == {"idle", "reading", "takeDay", "takeMonth", "running",
           "returning", "recovering", "refunding", "refused", "ended"}

\* What a recommendation holds follows from where it stands. The releases it
\* owes always include the day's unit it holds, and no day's unit it does not.
HoldsWhatItTook ==
  \A r \in Runs :
    /\ pc[r] \in {"idle", "reading", "takeDay", "refused", "ended"} => held[r] = {}
    /\ pc[r] \in {"takeMonth", "returning", "recovering"} => held[r] = {"day"}
    /\ "month" \in held[r] => "day" \in held[r] \/ pc[r] = "refunding"
    /\ pc[r] = "refunding" => /\ "day" \in owed[r] <=> "day" \in held[r]
                              /\ "month" \in held[r] => "month" \in owed[r]
                              /\ owed[r] # {}

\* No day's row exceeds the limit of the only plan there is.
DayWithinLimit ==
  Enforcement =>
    \A p \in Plans, d \in Days :
      Plans = {p} /\ p.perDay > 0 => count[<<"day", d>>] <= p.perDay

QuotaInv ==
  TypeOK /\ HoldsWhatItTook /\ CountsHonest /\ NoUnitsAfterPurge /\ DayWithinLimit

-----------------------------------------------------------------------------
(* Rows and the units held on them                                         *)

LEMMA DaysType == \A d \in Days : d \in Nat /\ MonthOf[d] \in Days
BY RunsAssumption DEF Days

LEMMA RowType ==
  ASSUME TypeOK, NEW r \in Runs, NEW kind \in Kinds
  PROVE  RowOf(r, kind) \in Rows /\ RowOf(r, kind)[1] = kind
BY DaysType DEF TypeOK, RowOf, Rows, Kinds

\* The units of the recommendation r on the row w.
On(r, w) == w[1] \in held[r] /\ RowOf(r, w[1]) = w
HoldersOf(w) == {r \in Runs : On(r, w)}

LEMMA HeldType ==
  ASSUME NEW w
  PROVE  /\ IsFiniteSet(HoldersOf(w)) /\ HeldOn(w) = Cardinality(HoldersOf(w))
         /\ HeldOn(w) \in Nat
<1>1. HoldersOf(w) \in SUBSET Runs
  BY DEF HoldersOf
<1>2. HeldOn(w) = Cardinality(HoldersOf(w))
  BY DEF HeldOn, HoldersOf, On
<1> QED BY <1>1, <1>2, RunsAssumption, FS_Subset, FS_CardinalityType

\* One recommendation changes what it holds, or its day.
LEMMA OneChanges ==
  ASSUME NEW w, NEW r \in Runs, \A q \in Runs \ {r} : On(q, w)' <=> On(q, w)
  PROVE  /\ (On(r, w)' <=> On(r, w)) => HeldOn(w)' = HeldOn(w)
         /\ On(r, w)' /\ ~ On(r, w) => HeldOn(w)' = HeldOn(w) + 1
         /\ ~ On(r, w)' /\ On(r, w) => HeldOn(w)' = HeldOn(w) - 1 /\ HeldOn(w) # 0
<1>0. HeldOn(w)' = Cardinality(HoldersOf(w)')
  BY DEF HeldOn, HoldersOf, On
<1>1. CASE On(r, w)' <=> On(r, w)
  <2>1. HoldersOf(w)' = HoldersOf(w)
    BY <1>1 DEF HoldersOf
  <2> QED BY <1>0, <1>1, <2>1, HeldType
<1>2. CASE On(r, w)' /\ ~ On(r, w)
  <2>1. HoldersOf(w)' = HoldersOf(w) \cup {r} /\ r \notin HoldersOf(w)
    BY <1>2 DEF HoldersOf
  <2> QED BY <1>0, <1>2, <2>1, HeldType, FS_AddElement
<1>3. CASE ~ On(r, w)' /\ On(r, w)
  <2>1. HoldersOf(w)' = HoldersOf(w) \ {r} /\ r \in HoldersOf(w)
    BY <1>3 DEF HoldersOf
  <2> QED BY <1>0, <1>3, <2>1, HeldType, FS_RemoveElement, FS_EmptySet
<1> QED BY <1>1, <1>2, <1>3

\* Its days unchanged, the others' units are where they were.
LEMMA OthersStay ==
  ASSUME TypeOK, NEW r \in Runs, NEW S, held' = [held EXCEPT ![r] = S],
         UNCHANGED day, NEW w
  PROVE  /\ \A q \in Runs \ {r} : On(q, w)' <=> On(q, w)
         /\ On(r, w)' <=> w[1] \in S /\ RowOf(r, w[1]) = w
BY DEF TypeOK, On, RowOf

\* A unit more of one kind counts on its row and nowhere else.
LEMMA UnitTaken ==
  ASSUME TypeOK, NEW r \in Runs, NEW kind \in Kinds, kind \notin held[r],
         held' = [held EXCEPT ![r] = @ \cup {kind}], UNCHANGED day, NEW w \in Rows
  PROVE  HeldOn(w)' = IF w = RowOf(r, kind) THEN HeldOn(w) + 1 ELSE HeldOn(w)
<1>1. /\ \A q \in Runs \ {r} : On(q, w)' <=> On(q, w)
      /\ On(r, w)' <=> w[1] \in held[r] \cup {kind} /\ RowOf(r, w[1]) = w
  BY OthersStay
<1>2. RowOf(r, kind)[1] = kind
  BY RowType
<1>3. CASE w = RowOf(r, kind)
  <2>1. On(r, w)' /\ ~ On(r, w)
    BY <1>1, <1>2, <1>3 DEF On
  <2> QED BY <1>1, <1>3, <2>1, OneChanges
<1>4. CASE w # RowOf(r, kind)
  <2>1. On(r, w)' <=> On(r, w)
    BY <1>1, <1>4 DEF On
  <2> QED BY <1>1, <1>4, <2>1, OneChanges
<1> QED BY <1>3, <1>4

LEMMA UnitReturned ==
  ASSUME TypeOK, NEW r \in Runs, NEW kind \in Kinds,
         held' = [held EXCEPT ![r] = @ \ {kind}], UNCHANGED day, NEW w \in Rows
  PROVE  /\ w = RowOf(r, kind) /\ kind \in held[r] =>
               HeldOn(w)' = HeldOn(w) - 1 /\ HeldOn(w) # 0
         /\ ~ (w = RowOf(r, kind) /\ kind \in held[r]) => HeldOn(w)' = HeldOn(w)
<1>1. /\ \A q \in Runs \ {r} : On(q, w)' <=> On(q, w)
      /\ On(r, w)' <=> w[1] \in held[r] \ {kind} /\ RowOf(r, w[1]) = w
  BY OthersStay
<1>2. RowOf(r, kind)[1] = kind
  BY RowType
<1>3. CASE w = RowOf(r, kind) /\ kind \in held[r]
  <2>1. ~ On(r, w)' /\ On(r, w)
    BY <1>1, <1>2, <1>3 DEF On
  <2> QED BY <1>1, <1>3, <2>1, OneChanges
<1>4. CASE ~ (w = RowOf(r, kind) /\ kind \in held[r])
  <2>1. On(r, w)' <=> On(r, w)
    BY <1>1, <1>4 DEF On
  <2> QED BY <1>1, <1>4, <2>1, OneChanges
<1> QED BY <1>3, <1>4

LEMMA NothingMoves ==
  ASSUME UNCHANGED <<held, day>>, NEW w
  PROVE  HeldOn(w)' = HeldOn(w)
BY DEF HeldOn, RowOf

-----------------------------------------------------------------------------
(* Types                                                                   *)

LEMMA LargerType == ASSUME NEW a \in Int PROVE Larger(0, a) \in Nat
BY DEF Larger

LEMMA ReleaseType ==
  ASSUME TypeOK, NEW r \in Runs, NEW kind \in Kinds, Release(r, kind)
  PROVE  /\ count' \in [Rows -> Nat] /\ kept' \in [Rows -> Nat]
         /\ held' \in [Runs -> SUBSET Kinds]
<1>1. RowOf(r, kind) \in Rows
  BY RowType
<1>2. \A n \in Nat : Larger(0, n - 1) \in Nat
  BY LargerType
<1>3. held' \in [Runs -> SUBSET Kinds]
  BY DEF Release, TypeOK
<1>4. count' \in [Rows -> Nat] /\ kept' \in [Rows -> Nat]
  BY <1>1, <1>2 DEF Release, TypeOK
<1> QED BY <1>3, <1>4

LEMMA RunStepType ==
  ASSUME TypeOK, NEW r \in Runs, RunStep(r)
  PROVE  TypeOK'
<1>1. CASE Start(r)
  BY <1>1 DEF Start, Goto, TypeOK
<1>2. CASE ReadMonth(r)
  BY <1>2 DEF ReadMonth, Goto, TypeOK
<1>3. CASE TakeDay(r) \/ TakeMonth(r)
  <2>1. /\ "day" \in Kinds /\ "month" \in Kinds
        /\ RowOf(r, "day") \in Rows /\ RowOf(r, "month") \in Rows
    BY RowType DEF Kinds
  <2>2. count' \in [Rows -> Nat] /\ held' \in [Runs -> SUBSET Kinds]
    BY <1>3, <2>1 DEF TakeDay, TakeMonth, Take, TypeOK
  <2> QED BY <1>3, <2>2 DEF TakeDay, TakeMonth, Take, Goto, TypeOK
<1>4. CASE Exceeded(r) \/ MeteringFails(r)
  BY <1>4 DEF Exceeded, MeteringFails, Goto, TypeOK
<1>5. CASE GiveDayBack(r)
  <2>1. "day" \in Kinds
    BY DEF Kinds
  <2> QED BY <1>5, <2>1, ReleaseType DEF GiveDayBack, Goto, TypeOK
<1>6. CASE EngineReturns(r)
  <2>1. kept' \in [Rows -> Nat]
    BY <1>6 DEF EngineReturns, TypeOK
  <2> QED BY <1>6, <2>1 DEF EngineReturns, Goto, TypeOK
<1>7. CASE EngineThrows(r)
  BY <1>7 DEF EngineThrows, Goto, TypeOK
<1>8. CASE Refund(r)
  <2>1. PICK kind \in owed[r] : /\ Release(r, kind)
                                /\ owed' = [owed EXCEPT ![r] = @ \ {kind}]
                                /\ Goto(r, IF owed[r] = {kind} THEN "ended" ELSE "refunding")
    BY <1>8 DEF Refund
  <2>2. kind \in Kinds
    BY DEF TypeOK
  <2> QED BY <1>8, <2>1, <2>2, ReleaseType DEF Refund, Goto, TypeOK
<1> QED BY <1>1, <1>2, <1>3, <1>4, <1>5, <1>6, <1>7, <1>8 DEF RunStep

LEMMA OtherStepType ==
  ASSUME TypeOK, Crash \/ Tick \/ Tombstone \/ Purge
  PROVE  TypeOK'
<1>1. CASE Crash
  <2>1. kept' \in [Rows -> Nat]
    BY <1>1, HeldType DEF Crash, TypeOK
  <2> QED BY <1>1, <2>1 DEF Crash, TypeOK
<1>2. CASE Tick
  BY <1>2, RunsAssumption DEF Tick, TypeOK, Days
<1>3. CASE Tombstone \/ Purge
  BY <1>3 DEF Tombstone, Purge, TypeOK
<1> QED BY <1>1, <1>2, <1>3

-----------------------------------------------------------------------------
(* What a recommendation holds                                             *)

LEMMA HoldsStep ==
  ASSUME TypeOK, HoldsWhatItTook, NEW r \in Runs, RunStep(r)
  PROVE  HoldsWhatItTook'
<1>1. CASE Start(r) \/ ReadMonth(r) \/ Exceeded(r) \/ MeteringFails(r)
  BY <1>1 DEF Start, ReadMonth, Exceeded, MeteringFails, Goto, TypeOK, HoldsWhatItTook
<1>2. CASE TakeDay(r) \/ TakeMonth(r)
  BY <1>2 DEF TakeDay, TakeMonth, Take, Goto, TypeOK, HoldsWhatItTook
<1>3. CASE GiveDayBack(r)
  BY <1>3 DEF GiveDayBack, Release, Goto, TypeOK, HoldsWhatItTook
<1>4. CASE EngineReturns(r)
  BY <1>4 DEF EngineReturns, Goto, TypeOK, HoldsWhatItTook
<1>5. CASE EngineThrows(r)
  <2>1. held[r] \subseteq {"day", "month"} /\ ("month" \in held[r] => "day" \in held[r])
    BY <1>5 DEF EngineThrows, TypeOK, HoldsWhatItTook, Kinds
  <2> QED BY <1>5, <2>1 DEF EngineThrows, Goto, TypeOK, HoldsWhatItTook, Kinds
<1>6. CASE Refund(r)
  <2>1. PICK kind \in owed[r] : /\ held' = [held EXCEPT ![r] = @ \ {kind}]
                                /\ owed' = [owed EXCEPT ![r] = @ \ {kind}]
                                /\ Goto(r, IF owed[r] = {kind} THEN "ended" ELSE "refunding")
    BY <1>6 DEF Refund, Release
  <2>2. pc[r] = "refunding" /\ held[r] \subseteq {"day", "month"} /\ held[r] \subseteq owed[r]
    BY <1>6 DEF Refund, TypeOK, HoldsWhatItTook, Kinds
  <2> QED BY <2>1, <2>2 DEF Goto, TypeOK, HoldsWhatItTook, Kinds
<1> QED BY <1>1, <1>2, <1>3, <1>4, <1>5, <1>6 DEF RunStep

-----------------------------------------------------------------------------
(* Counts                                                                  *)

\* What CountsHonest says of one row, and that is kept by a step that moves the
\* three numbers together.
Honest(w) ==
  /\ count[w] <= kept[w] + HeldOn(w)
  /\ w[1] = "day" => count[w] = kept[w] + HeldOn(w)

LEMMA SameSums ==
  ASSUME TypeOK, CountsHonest, ~ Gone, NEW w \in Rows,
         kept'[w] \in Nat, count'[w] \in Nat,
         count'[w] - count[w] = kept'[w] - kept[w] + HeldOn(w)' - HeldOn(w)
  PROVE  Honest(w)'
<1>1. HeldOn(w) \in Nat /\ HeldOn(w)' \in Nat /\ count[w] \in Nat /\ kept[w] \in Nat
  <2>1. HeldOn(w)' = Cardinality(HoldersOf(w)')
    BY DEF HeldOn, HoldersOf, On
  <2>2. HoldersOf(w)' \in SUBSET Runs
    BY DEF HoldersOf
  <2> QED BY <2>1, <2>2, HeldType, RunsAssumption, FS_Subset, FS_CardinalityType DEF TypeOK
<1>2. Honest(w)
  BY DEF CountsHonest, Honest
<1> QED BY <1>1, <1>2 DEF Honest

LEMMA TakeHonest ==
  ASSUME QuotaInv, NEW r \in Runs, NEW kind \in Kinds, kind \notin held[r], Take(r, kind),
         UNCHANGED <<kept, day, account>>, TypeOK'
  PROVE  CountsHonest'
<1> USE DEF QuotaInv
<1> SUFFICES ASSUME NEW w \in Rows PROVE Honest(w)'
  BY DEF CountsHonest, Honest
<1>1. ~ Gone
  BY DEF Take, TriggersBlock, Gone
<1>2. HeldOn(w)' = IF w = RowOf(r, kind) THEN HeldOn(w) + 1 ELSE HeldOn(w)
  BY UnitTaken DEF Take
<1>3. count'[w] = IF w = RowOf(r, kind) THEN count[w] + 1 ELSE count[w]
  BY DEF Take, TypeOK
<1>4. /\ count[w] \in Nat /\ kept[w] \in Nat /\ HeldOn(w) \in Nat
      /\ count'[w] \in Nat /\ kept'[w] \in Nat /\ kept'[w] = kept[w]
  BY HeldType DEF TypeOK
<1> QED BY <1>1, <1>2, <1>3, <1>4, SameSums

LEMMA ReleaseHonest ==
  ASSUME QuotaInv, NEW r \in Runs, NEW kind \in Kinds, kind = "day" => "day" \in held[r],
         Release(r, kind), UNCHANGED <<day, account>>, TypeOK'
  PROVE  CountsHonest'
<1> USE DEF QuotaInv
<1> SUFFICES ASSUME NEW w \in Rows, ~ Gone PROVE Honest(w)'
  BY DEF CountsHonest, Honest, Gone
<1> DEFINE row == RowOf(r, kind)
<1>1. row \in Rows /\ row[1] = kind
  BY RowType
<1>2. /\ w = row /\ kind \in held[r] => HeldOn(w)' = HeldOn(w) - 1 /\ HeldOn(w) # 0
      /\ ~ (w = row /\ kind \in held[r]) => HeldOn(w)' = HeldOn(w)
  BY UnitReturned DEF Release
<1>3. /\ count[w] \in Nat /\ kept[w] \in Nat /\ HeldOn(w) \in Nat
      /\ count'[w] \in Nat /\ kept'[w] \in Nat
  BY HeldType DEF TypeOK
<1>4. Honest(w)
  BY DEF CountsHonest, Honest
<1>5. \/ count' = [count EXCEPT ![row] = Larger(0, @ - 1)] /\ kept' = kept
      \/ /\ kept' = IF kind \in held[r] THEN [kept EXCEPT ![row] = @ + 1] ELSE kept
         /\ count' = count
  BY DEF Release
<1> HIDE DEF row
<1>6. CASE count' = [count EXCEPT ![row] = Larger(0, @ - 1)] /\ kept' = kept
  <2>1. CASE w # row
    BY <1>2, <1>3, <1>6, <2>1, SameSums DEF TypeOK
  <2>2. CASE w = row
    <3>1. count'[w] = Larger(0, count[w] - 1) /\ kept'[w] = kept[w]
      BY <1>6, <2>2 DEF TypeOK
    <3>2. CASE kind \in held[r]
      BY <1>2, <1>3, <1>4, <2>2, <3>1, <3>2 DEF Honest, Larger
    <3>3. CASE kind \notin held[r]
      <4>1. w[1] # "day"
        BY <1>1, <2>2, <3>3
      <4> QED BY <1>2, <1>3, <1>4, <3>1, <3>3, <4>1 DEF Honest, Larger
    <3> QED BY <3>2, <3>3
  <2> QED BY <2>1, <2>2
<1>7. CASE /\ kept' = IF kind \in held[r] THEN [kept EXCEPT ![row] = @ + 1] ELSE kept
           /\ count' = count
  <2>1. kept'[w] = IF w = row /\ kind \in held[r] THEN kept[w] + 1 ELSE kept[w]
    BY <1>7 DEF TypeOK
  <2>2. count'[w] = count[w]
    BY <1>7
  <2> QED BY <1>2, <1>3, <2>1, <2>2, SameSums
<1> QED BY <1>5, <1>6, <1>7

\* Steps that change neither a count nor who holds what.
LEMMA QuietHonest ==
  ASSUME QuotaInv, UNCHANGED <<count, kept>>, \A w \in Rows : HeldOn(w)' = HeldOn(w),
         Gone => Gone'
  PROVE  CountsHonest'
BY DEF QuotaInv, CountsHonest, Gone

LEMMA ReturnHonest ==
  ASSUME QuotaInv, NEW r \in Runs, EngineReturns(r), TypeOK'
  PROVE  CountsHonest'
<1> USE DEF QuotaInv
<1> SUFFICES ASSUME NEW w \in Rows, ~ Gone PROVE Honest(w)'
  BY DEF CountsHonest, Honest, Gone, EngineReturns
<1>1. /\ count' = count /\ day' = day /\ held' = [held EXCEPT ![r] = {}]
      /\ kept'[w] = IF On(r, w) THEN kept[w] + 1 ELSE kept[w]
  BY DEF EngineReturns, On
<1>2. \A q \in Runs \ {r} : On(q, w)' <=> On(q, w)
  <2> HIDE DEF QuotaInv
  <2>1. TypeOK
    BY DEF QuotaInv
  <2> QED BY <1>1, <2>1 DEF TypeOK, On, RowOf
<1>3. ~ On(r, w)'
  BY <1>1 DEF TypeOK, On
<1>4. HeldOn(w)' = IF On(r, w) THEN HeldOn(w) - 1 ELSE HeldOn(w)
  BY <1>2, <1>3, OneChanges
<1>5. /\ count[w] \in Nat /\ kept[w] \in Nat /\ HeldOn(w) \in Nat
      /\ count'[w] \in Nat /\ kept'[w] \in Nat
  BY HeldType DEF TypeOK
<1> QED BY <1>1, <1>4, <1>5, SameSums

LEMMA CrashHonest ==
  ASSUME QuotaInv, Crash, TypeOK'
  PROVE  CountsHonest'
<1> USE DEF QuotaInv
<1> SUFFICES ASSUME NEW w \in Rows, ~ Gone PROVE Honest(w)'
  BY DEF CountsHonest, Honest, Gone, Crash
<1>1. count'[w] = count[w] /\ kept'[w] = kept[w] + HeldOn(w)
  BY DEF Crash
<1>2. HeldOn(w)' = 0
  <2>1. HoldersOf(w)' = {}
    BY DEF Crash, HoldersOf, On
  <2>2. HeldOn(w)' = Cardinality(HoldersOf(w)')
    BY DEF HeldOn, HoldersOf, On
  <2> QED BY <2>1, <2>2, FS_EmptySet
<1>3. /\ count[w] \in Nat /\ kept[w] \in Nat /\ HeldOn(w) \in Nat
      /\ count'[w] \in Nat /\ kept'[w] \in Nat
  BY HeldType DEF TypeOK
<1> QED BY <1>1, <1>2, <1>3, SameSums

LEMMA StartHonest ==
  ASSUME QuotaInv, NEW r \in Runs, Start(r)
  PROVE  CountsHonest'
<1> USE DEF QuotaInv
<1>1. held[r] = {} /\ held' = held /\ \A q \in Runs \ {r} : day'[q] = day[q]
  BY DEF Start, HoldsWhatItTook, TypeOK
<1>2. \A w \in Rows : HeldOn(w)' = HeldOn(w)
  <2> SUFFICES ASSUME NEW w \in Rows PROVE HeldOn(w)' = HeldOn(w)
    OBVIOUS
  <2>1. \A q \in Runs \ {r} : On(q, w)' <=> On(q, w)
    BY <1>1 DEF On, RowOf
  <2>2. ~ On(r, w) /\ ~ On(r, w)'
    BY <1>1 DEF On
  <2> QED BY <2>1, <2>2, OneChanges
<1>3. UNCHANGED <<count, kept, account>>
  BY DEF Start
<1> QED BY <1>2, <1>3, QuietHonest DEF Gone

LEMMA StepHonest ==
  ASSUME QuotaInv, Next, TypeOK'
  PROVE  CountsHonest'
<1> USE DEF QuotaInv
<1>0. "day" \in Kinds /\ "month" \in Kinds
  BY DEF Kinds
<1>1. ASSUME NEW r \in Runs, RunStep(r) PROVE CountsHonest'
  <2>1. CASE Start(r)
    BY <2>1, StartHonest
  <2>2. CASE ReadMonth(r) \/ Exceeded(r) \/ MeteringFails(r) \/ EngineThrows(r)
    <3>1. UNCHANGED <<count, kept, held, day, account>>
      BY <2>2 DEF ReadMonth, Exceeded, MeteringFails, EngineThrows
    <3> QED BY <3>1, NothingMoves, QuietHonest DEF Gone
  <2>3. CASE TakeDay(r)
    <3>1. "day" \notin held[r]
      BY <2>3 DEF TakeDay, HoldsWhatItTook
    <3> QED BY <1>0, <2>3, <3>1, TakeHonest DEF TakeDay
  <2>4. CASE TakeMonth(r)
    <3>1. "month" \notin held[r]
      BY <2>4 DEF TakeMonth, HoldsWhatItTook
    <3> QED BY <1>0, <2>4, <3>1, TakeHonest DEF TakeMonth
  <2>5. CASE GiveDayBack(r)
    <3>1. "day" \in held[r]
      BY <2>5 DEF GiveDayBack, HoldsWhatItTook
    <3> QED BY <1>0, <2>5, <3>1, ReleaseHonest DEF GiveDayBack
  <2>6. CASE EngineReturns(r)
    BY <2>6, ReturnHonest
  <2>7. CASE Refund(r)
    <3>1. PICK kind \in owed[r] : Release(r, kind)
      BY <2>7 DEF Refund
    <3>2. kind \in Kinds /\ (kind = "day" => "day" \in held[r])
      BY <2>7 DEF Refund, HoldsWhatItTook, TypeOK
    <3> QED BY <2>7, <3>1, <3>2, ReleaseHonest DEF Refund
  <2> QED BY <1>1, <2>1, <2>2, <2>3, <2>4, <2>5, <2>6, <2>7 DEF RunStep
<1>2. CASE Crash
  BY <1>2, CrashHonest
<1>3. CASE Tick \/ Tombstone
  <2>1. UNCHANGED <<count, kept, held, day>> /\ (Gone => Gone')
    BY <1>3 DEF Tick, Tombstone, Gone
  <2> QED BY <2>1, NothingMoves, QuietHonest
<1>4. CASE Purge
  BY <1>4 DEF Purge, CountsHonest, Gone
<1> QED BY <1>1, <1>2, <1>3, <1>4 DEF Next

-----------------------------------------------------------------------------
(* The purge and the limit                                                 *)

\* A count only grows by a unit that was taken.
LEMMA GrowthIsTaking ==
  ASSUME TypeOK, Next, TypeOK', NEW w \in Rows, count'[w] > count[w]
  PROVE  \E r \in Runs, kind \in Kinds : Take(r, kind) /\ w = RowOf(r, kind)
                                         /\ count'[w] = count[w] + 1
<1>0. count[w] \in Nat /\ count'[w] \in Nat
  BY DEF TypeOK
<1>1. ASSUME NEW r \in Runs, NEW kind \in Kinds, Release(r, kind) PROVE FALSE
  <2>1. Larger(0, count[w] - 1) <= count[w]
    BY <1>0 DEF Larger
  <2> QED BY <1>0, <1>1, <2>1 DEF Release, TypeOK
<1>2. ASSUME NEW r \in Runs, NEW kind \in Kinds, Take(r, kind)
      PROVE  w = RowOf(r, kind) /\ count'[w] = count[w] + 1
  <2>1. count'[w] = IF w = RowOf(r, kind) THEN count[w] + 1 ELSE count[w]
    BY <1>2 DEF Take, TypeOK
  <2> QED BY <1>0, <2>1
<1>3. "day" \in Kinds /\ "month" \in Kinds
  BY DEF Kinds
<1>4. ASSUME NEW r \in Runs, RunStep(r)
      PROVE  \E kind \in Kinds : Take(r, kind)
  <2>1. CASE TakeDay(r) \/ TakeMonth(r)
    BY <1>3, <2>1 DEF TakeDay, TakeMonth
  <2>2. CASE GiveDayBack(r)
    BY <1>1, <1>3, <2>2 DEF GiveDayBack
  <2>3. CASE Refund(r)
    <3>1. PICK kind \in owed[r] : Release(r, kind)
      BY <2>3 DEF Refund
    <3> QED BY <1>1, <3>1 DEF TypeOK
  <2>4. CASE \/ Start(r) \/ ReadMonth(r) \/ Exceeded(r) \/ MeteringFails(r)
             \/ EngineReturns(r) \/ EngineThrows(r)
    <3>1. count' = count
      BY <2>4 DEF Start, ReadMonth, Exceeded, MeteringFails, EngineReturns, EngineThrows
    <3> QED BY <1>0, <3>1
  <2> QED BY <1>4, <2>1, <2>2, <2>3, <2>4 DEF RunStep
<1>5. CASE Crash \/ Tick \/ Tombstone \/ Purge
  <2>1. count'[w] = count[w] \/ count'[w] = 0
    BY <1>5 DEF Crash, Tick, Tombstone, Purge
  <2> QED BY <1>0, <2>1
<1> QED BY <1>2, <1>4, <1>5 DEF Next

LEMMA StepPurged ==
  ASSUME QuotaInv, Next, TypeOK'
  PROVE  NoUnitsAfterPurge'
<1> USE DEF QuotaInv
<1> SUFFICES ASSUME Gone', NEW w \in Rows PROVE count'[w] = 0
  BY DEF NoUnitsAfterPurge
<1>1. CASE Purge
  BY <1>1 DEF Purge
<1>2. CASE ~ Purge
  <2>1. account' = account \/ Tombstone
    BY <1>2 DEF Next, RunStep, Start, ReadMonth, TakeDay, TakeMonth, Exceeded, MeteringFails,
                GiveDayBack, EngineReturns, EngineThrows, Refund, Crash, Tick
  <2>2. Gone
    BY <2>1 DEF Tombstone, Gone
  <2>3. count[w] = 0
    BY <2>2 DEF NoUnitsAfterPurge
  <2>4. ~ (count'[w] > count[w])
    BY <2>2, GrowthIsTaking DEF Take, TriggersBlock, Gone
  <2> QED BY <2>3, <2>4 DEF TypeOK
<1> QED BY <1>1, <1>2

LEMMA StepWithin ==
  ASSUME QuotaInv, Next, TypeOK'
  PROVE  DayWithinLimit'
<1> USE DEF QuotaInv
<1> SUFFICES ASSUME Enforcement, NEW p \in Plans, NEW d \in Days, Plans = {p}, p.perDay > 0
             PROVE  count'[<<"day", d>>] <= p.perDay
  BY DEF DayWithinLimit
<1> DEFINE w == <<"day", d>>
<1>1. w \in Rows /\ count[w] \in Nat /\ count'[w] \in Nat /\ w[1] = "day"
  BY DEF Rows, Kinds, TypeOK
<1>2. count[w] <= p.perDay
  BY DEF DayWithinLimit
<1>3. p.perDay \in Nat /\ FreePerDay \in Nat \ {0}
  BY PlansAssumption
<1> HIDE DEF w
<1>4. ASSUME count'[w] > count[w] PROVE count'[w] <= p.perDay
  <2>1. PICK r \in Runs, kind \in Kinds : Take(r, kind) /\ w = RowOf(r, kind)
                                          /\ count'[w] = count[w] + 1
    BY <1>1, <1>4, GrowthIsTaking
  <2>2. kind = "day"
    BY <1>1, <2>1, RowType
  <2>3. plan[r] = p
    BY DEF TypeOK
  <2>4. LimitOf(r, "day") \in Nat \ {0} /\ LimitOf(r, "day") <= p.perDay
    BY <1>3, <2>3 DEF LimitOf, Floor, Smaller
  <2>5. count[w] + 1 <= LimitOf(r, "day")
    BY <2>1, <2>2, <2>4 DEF Take, Fits
  <2> QED BY <1>1, <1>3, <2>1, <2>4, <2>5
<1>5. ASSUME ~ (count'[w] > count[w]) PROVE count'[w] <= p.perDay
  BY <1>1, <1>2, <1>3, <1>5
<1> QED BY <1>4, <1>5 DEF w

-----------------------------------------------------------------------------
(* Theorems                                                                *)

LEMMA QuotaInitially == Init => QuotaInv
<1> SUFFICES ASSUME Init PROVE QuotaInv
  OBVIOUS
<1>1. TypeOK
  BY RunsAssumption DEF Init, TypeOK, Days
<1>2. \A w \in Rows : HeldOn(w) = 0
  <2> SUFFICES ASSUME NEW w \in Rows PROVE HeldOn(w) = 0
    OBVIOUS
  <2>1. HoldersOf(w) = {}
    BY DEF Init, HoldersOf, On
  <2> QED BY <2>1, HeldType, FS_EmptySet
<1>3. CountsHonest /\ NoUnitsAfterPurge
  BY <1>2 DEF Init, CountsHonest, NoUnitsAfterPurge, Gone
<1>4. HoldsWhatItTook
  BY DEF Init, HoldsWhatItTook
<1>5. DayWithinLimit
  BY PlansAssumption DEF Init, DayWithinLimit, Rows, Kinds
<1> QED BY <1>1, <1>3, <1>4, <1>5 DEF QuotaInv

LEMMA QuotaStep == QuotaInv /\ [Next]_vars => QuotaInv'
<1> SUFFICES ASSUME QuotaInv, [Next]_vars PROVE QuotaInv'
  OBVIOUS
<1>1. CASE Next
  <2>1. TypeOK'
    BY <1>1, RunStepType, OtherStepType DEF QuotaInv, Next
  <2>2. HoldsWhatItTook'
    <3>1. CASE Crash
      BY <3>1 DEF Crash, QuotaInv, TypeOK, HoldsWhatItTook
    <3>2. CASE Tick \/ Tombstone \/ Purge
      BY <3>2 DEF Tick, Tombstone, Purge, QuotaInv, HoldsWhatItTook
    <3> QED BY <1>1, <3>1, <3>2, HoldsStep DEF QuotaInv, Next
  <2>3. CountsHonest' /\ NoUnitsAfterPurge' /\ DayWithinLimit'
    BY <1>1, <2>1, StepHonest, StepPurged, StepWithin
  <2> QED BY <2>1, <2>2, <2>3 DEF QuotaInv
<1>2. CASE UNCHANGED vars
  BY <1>2 DEF vars, QuotaInv, TypeOK, HoldsWhatItTook, CountsHonest, NoUnitsAfterPurge,
              DayWithinLimit, Gone, HeldOn, RowOf
<1> QED BY <1>1, <1>2

\* The state of recipeQuota.js keeps its shape; no counter is ever negative.
THEOREM QuotaTypeCorrect == Spec => []TypeOK
<1>1. QuotaInv => TypeOK
  BY DEF QuotaInv
<1> QED BY <1>1, QuotaInitially, QuotaStep, PTL DEF Spec

\* Every unit counted on a day was taken and is kept or held, whatever falls
\* between taking and returning it in withRecipeQuota.
THEOREM CountsAreHonest == Spec => []CountsHonest
<1>1. QuotaInv => CountsHonest
  BY DEF QuotaInv
<1> QED BY <1>1, QuotaInitially, QuotaStep, PTL DEF Spec

\* Recommendations in flight never recreate rows of usage_actions.
THEOREM PurgedRowsStayGone == Spec => []NoUnitsAfterPurge
<1>1. QuotaInv => NoUnitsAfterPurge
  BY DEF QuotaInv
<1> QED BY <1>1, QuotaInitially, QuotaStep, PTL DEF Spec

\* However many recommendations run at once, the units kept and held on a day
\* stay within the daily allowance.
THEOREM AllowanceIsRespected == Spec => []AllowanceRespected
<1>1. QuotaInv => AllowanceRespected
  <2> SUFFICES ASSUME QuotaInv, Enforcement, NEW p \in Plans, NEW d \in Days,
                      Plans = {p}, p.perDay > 0, ~ Gone
               PROVE  kept[<<"day", d>>] + HeldOn(<<"day", d>>) <= p.perDay
    BY DEF AllowanceRespected
  <2> DEFINE w == <<"day", d>>
  <2>1. w \in Rows /\ w[1] = "day"
    BY DEF Rows, Kinds
  <2>2. count[w] = kept[w] + HeldOn(w)
    BY <2>1 DEF QuotaInv, CountsHonest
  <2>3. count[w] <= p.perDay
    BY DEF QuotaInv, DayWithinLimit
  <2> QED BY <2>2, <2>3
<1> QED BY <1>1, QuotaInitially, QuotaStep, PTL DEF Spec
=============================================================================
