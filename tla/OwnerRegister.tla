--------------------------- MODULE OwnerRegister ---------------------------
(***************************************************************************)
(* What the Apple claim rules promise about one purchase chain, without    *)
(* calls, locks or tables: it has an origin, set once for good, and at     *)
(* most one owner, bound only while there is none.                         *)
(***************************************************************************)
CONSTANTS Users, None  \* None is not one of the Users

VARIABLES
  owner,  \* the account entitled by the chain, or None
  origin  \* the account token that first claimed it, or None

Init == owner = None /\ origin = None

Originate(u) ==
  /\ origin = None
  /\ origin' = u
  /\ UNCHANGED owner

Bind(u) ==
  /\ owner = None
  /\ origin # None
  /\ owner' = u
  /\ UNCHANGED origin

Release ==
  /\ owner # None
  /\ owner' = None
  /\ UNCHANGED origin

Next == (\E u \in Users : Originate(u) \/ Bind(u)) \/ Release

Spec == Init /\ [][Next]_<<owner, origin>>
=============================================================================
