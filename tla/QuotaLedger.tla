----------------------------- MODULE QuotaLedger -----------------------------
(***************************************************************************)
(* What the token quota promises, without counters, windows or rounds: a   *)
(* ledger of settled charges and open holds per row. A hold is granted     *)
(* only when everything settled and everything held on the row still fits  *)
(* a limit with it, so concurrent requests always see each other; a hold   *)
(* ends exactly once, settled for what was really spent or lost with its   *)
(* row.                                                                    *)
(***************************************************************************)
EXTENDS Integers, FiniteSets

CONSTANTS
  Reqs,     \* requests that may hold tokens
  Windows,  \* rows of the ledger
  Limits    \* Limits[w]: the set of limits a hold on row w may be granted under

VARIABLES
  charged,  \* tokens settled per row
  hold      \* the open hold of each request, tokens = 0 when there is none

Units(w) == UNION {{r} \X (1..hold[r].tokens) : r \in {q \in Reqs : hold[q].row = w}}
Held(w) == Cardinality(Units(w))

Open(r) == hold[r].tokens > 0

OnlyHoldOf(r) == \A q \in Reqs \ {r} : hold'[q] = hold[q]

Init ==
  /\ charged = [w \in Windows |-> 0]
  /\ hold \in [Reqs -> [tokens : {0}, row : Windows]]

\* A hold is granted against everything committed on its row.
Grant(r) ==
  /\ ~ Open(r)
  /\ hold'[r].tokens > 0
  /\ \E limit \in Limits[hold'[r].row] :
       charged[hold'[r].row] + Held(hold'[r].row) + hold'[r].tokens <= limit
  /\ OnlyHoldOf(r)
  /\ UNCHANGED charged

\* A hold is replaced by what was really spent, or vanishes with its row.
Release(r) ==
  /\ Open(r)
  /\ hold'[r].tokens = 0
  /\ OnlyHoldOf(r)
  /\ charged'[hold[r].row] >= charged[hold[r].row]
  /\ \A w \in Windows \ {hold[r].row} : charged'[w] = charged[w]

\* Spending nothing was held for is charged afterwards.
Charge(w) ==
  /\ charged'[w] >= charged[w]
  /\ \A v \in Windows \ {w} : charged'[v] = charged[v]
  /\ UNCHANGED hold

\* A crash turns every hold into a charge, on the rows that still exist.
Abandon ==
  /\ \A r \in Reqs : hold'[r].tokens = 0
  /\ \A w \in Windows : charged'[w] \in {charged[w], charged[w] + Held(w)}

\* Rows are deleted.
Wipe ==
  /\ \A w \in Windows : charged'[w] \in {0, charged[w]}
  /\ UNCHANGED hold

Next ==
  \/ \E r \in Reqs : Grant(r) \/ Release(r)
  \/ \E w \in Windows : Charge(w)
  \/ Abandon \/ Wipe

Spec ==
  /\ Init
  /\ [][/\ Next
        /\ charged' \in [Windows -> Nat]
        /\ hold' \in [Reqs -> [tokens : Nat, row : Windows]]]_<<charged, hold>>
=============================================================================
