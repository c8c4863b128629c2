------------------------- MODULE MCRecipeTranslation -------------------------
(* Two recipes of three strings, one of them shared, in chunks of one      *)
(* string; the code's bounds allow six chunks and more for four workers.   *)
EXTENDS RecipeTranslation

MCSlots == << [recipe |-> 1, value |-> "title 1"], [recipe |-> 2, value |-> "title 2"],
              [recipe |-> 1, value |-> "salt"], [recipe |-> 2, value |-> "salt"],
              [recipe |-> 2, value |-> "fish"] >>
MCSize == [v \in {"title 1", "title 2", "salt", "fish"} |-> 1]
=============================================================================
