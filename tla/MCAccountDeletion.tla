--------------------------- MODULE MCAccountDeletion ---------------------------
(***************************************************************************)
(* Small instances of AccountDeletion. Two of the six tables stand for the *)
(* purge, both guarded by triggers: any of the first five and, last,       *)
(* users, whose row takes the Apple credential with it. The seventh table  *)
(* keyed by the account is neither guarded nor purged.                     *)
(***************************************************************************)
EXTENDS AccountDeletion, TLC

CONSTANTS d1, d2, s1, l1

\* A deletion with a status request and a link, or two deletions; the recovery
\* worker, a second caller that advances the deletion, is always there.
TwoCasts == {{d1, s1, l1}, {d1, d2}}

TwoTables == <<"recipe_history", "users">>
Metered == {"serper_usage_daily"}
=============================================================================
