--------------------------- MODULE MCRecipeSearch ---------------------------
(***************************************************************************)
(* Small instances of RecipeSearch: pages of two titles, safe and unsafe.  *)
(***************************************************************************)
EXTENDS RecipeSearch

Recipe(verdict, clash, dish, score, fits) ==
  [verdict |-> verdict, clash |-> clash, dish |-> dish, score |-> score,
   mealOk |-> fits, inLimits |-> TRUE, target |-> FALSE, idea |-> FALSE]

ThreePages == 1..3
ThirdDenied == {3}

\* A real match that meets the preferences, one that does not, one with an
\* excluded ingredient that only its other spellings show, and a better scored
\* near match that seems to hold one.
MixedKinds ==
  {Recipe("real", "no", "a", 1, TRUE), Recipe("real", "no", "b", 2, FALSE),
   Recipe("real", "expanded", "a", 2, TRUE), Recipe("near", "excused", "a", 2, TRUE)}

Stocked(clash, dish, meal, target, idea) ==
  [Recipe("none", clash, dish, 1, meal) EXCEPT !.target = target, !.idea = idea]

\* A recipe with the required ingredient but of the wrong meal type, an unsafe
\* one, and two without it, of which one backs an idea.
PantryKinds ==
  {Stocked("no", "b", FALSE, TRUE, FALSE), Stocked("plain", "b", TRUE, TRUE, TRUE),
   Stocked("no", "a", TRUE, FALSE, TRUE), Stocked("no", "a", TRUE, FALSE, FALSE)}

Asked ==
  {[target |-> t, meal |-> m, ideate |-> t \/ m] : t \in BOOLEAN, m \in BOOLEAN}
=============================================================================
