---------------------------- MODULE MCRecipeQuota ----------------------------
(***************************************************************************)
(* Small instances of RecipeQuota: three recommendations of one owner over *)
(* two days of one month, with limits they can exhaust.                    *)
(***************************************************************************)
EXTENDS RecipeQuota, TLC

CONSTANTS r1, r2, r3

Allowance(d, m) == [perDay |-> d, perMonth |-> m]

\* Plans as planCatalog.js builds them for a custom catalog: a monthly
\* allowance and a daily limit.
CappedPlan == {Allowance(2, 1)}
DailyPlan == {Allowance(1, 1)}

OneMonth == [d \in Days |-> 0]
Symmetric == Permutations({r1, r2, r3})
=============================================================================
