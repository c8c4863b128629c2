-------------------------- MODULE RecipeTranslation --------------------------
(***************************************************************************)
(* Translating the chosen recipes (createRecipeTranslator of               *)
(* src/src/chat/recipeDishSearch.js): the strings that need it are listed, *)
(* deduplicated, cut to a budget and to chunks, and a few workers send the *)
(* chunks to the model and apply what comes back.                          *)
(***************************************************************************)
EXTENDS Naturals, Sequences, SequencesExt, FiniteSets

CONSTANTS
  Slots,         \* strings that need translation, field by field over the
                 \* recipes: records [recipe, value]
  Size,          \* Size[v]: the length of the value v
  MaxStrings,    \* MAX_TRANSLATION_STRINGS
  MaxChars,      \* MAX_TRANSLATION_CHARS
  ChunkStrings,  \* TRANSLATION_CHUNK_STRINGS
  ChunkChars,    \* TRANSLATION_CHUNK_CHARS
  Concurrency    \* TRANSLATION_CONCURRENCY

VARIABLES
  cursor,    \* chunks handed out
  worker,    \* where each worker is: "next", "asking", "again" or "done"
  chunk,     \* the chunk each worker is on
  failures,  \* answers of no use per chunk
  results,   \* the chunks that were translated
  aborted    \* the search's signal

vars == <<cursor, worker, chunk, failures, results, aborted>>

Taken == SubSeq(Slots, 1, IF Len(Slots) < MaxStrings THEN Len(Slots) ELSE MaxStrings)

\* Identical strings are translated once.
Unique ==
  FoldLeft(LAMBDA seen, slot : IF Contains(seen, slot.value) THEN seen
                               ELSE Append(seen, slot.value), <<>>, Taken)

Chars(values) == FoldLeft(LAMBDA sum, v : sum + Size[v], 0, values)

\* The strings up to the first that exceeds the budget.
Budgeted ==
  LET fits == {n \in 0..Len(Unique) : Chars(SubSeq(Unique, 1, n)) <= MaxChars}
  IN SubSeq(Unique, 1, CHOOSE n \in fits : \A m \in fits : m <= n)

\* Chunks are bounded by characters and by strings; a longer string is a chunk
\* of its own.
Chunks ==
  LET full(part, v) == part # <<>> /\ (Chars(part) + Size[v] > ChunkChars
                                       \/ Len(part) >= ChunkStrings)
      add(parts, v) == IF full(Last(parts), v) THEN Append(parts, <<v>>)
                       ELSE Append(Front(parts), Append(Last(parts), v))
  IN IF Budgeted = <<>> THEN <<>> ELSE FoldLeft(add, <<(<<>>)>>, Budgeted)

Workers == 1..(IF Len(Chunks) < Concurrency THEN Len(Chunks) ELSE Concurrency)

Init ==
  /\ cursor = 0
  /\ worker = [w \in Workers |-> "next"]
  /\ chunk = [w \in Workers |-> 0]
  /\ failures = [c \in DOMAIN Chunks |-> 0]
  /\ results = {}
  /\ aborted = FALSE

Goes(w, from, to) == worker[w] = from /\ worker' = [worker EXCEPT ![w] = to]

\* A worker takes the next chunk, or stops when there is none or the search has
\* been cut.
Takes(w) ==
  /\ cursor' = cursor + 1
  /\ IF cursor >= Len(Chunks) \/ aborted
     THEN Goes(w, "next", "done") /\ UNCHANGED chunk
     ELSE Goes(w, "next", "asking") /\ chunk' = [chunk EXCEPT ![w] = cursor + 1]
  /\ UNCHANGED <<failures, results, aborted>>

\* A list of the chunk's length: the worker returns.
Translated(w) ==
  /\ worker[w] \in {"asking", "again"} /\ ~ aborted
  /\ worker' = [worker EXCEPT ![w] = "done"]
  /\ results' = results \cup {chunk[w]}
  /\ UNCHANGED <<cursor, chunk, failures, aborted>>

\* Anything else, or no answer: once more, then the next chunk.
Fails(w) ==
  /\ \/ aborted /\ worker[w] \in {"asking", "again"} /\ worker' = [worker EXCEPT ![w] = "done"]
     \/ ~ aborted /\ Goes(w, "asking", "again")
     \/ ~ aborted /\ Goes(w, "again", "next")
  /\ failures' = [failures EXCEPT ![chunk[w]] = @ + 1]
  /\ UNCHANGED <<cursor, chunk, results, aborted>>

Aborts ==
  /\ ~ aborted /\ aborted' = TRUE
  /\ UNCHANGED <<cursor, worker, chunk, failures, results>>

Finished == \A w \in Workers : worker[w] = "done"

Next == Aborts \/ \E w \in Workers : Takes(w) \/ Translated(w) \/ Fails(w)

Spec == Init /\ [][Next]_vars

\* What the recipe shows in the end: translation.fields and .partial, or nothing.
Applied(recipe) ==
  LET got == UNION {ToSet(Chunks[c]) : c \in results}
      own == {i \in DOMAIN Slots : Slots[i].recipe = recipe}
      fields == {i \in own : i <= Len(Taken) /\ Slots[i].value \in got}
  IN [fields |-> Cardinality(fields), partial |-> fields # own]

\* The comments of the translator: "a chunk that still fails simply keeps its
\* original text" and "a failed chunk degrades only its own slice". When the
\* workers are done and nothing was cut, a recipe none of whose strings exceeds
\* the budget is partial only if a chunk failed twice.
EveryChunkTried ==
  /\ Finished /\ ~ aborted
  /\ Budgeted = Unique /\ Taken = Slots
  /\ \A c \in DOMAIN Chunks : failures[c] < 2
  => \A i \in DOMAIN Slots : ~ Applied(Slots[i].recipe).partial
=============================================================================
