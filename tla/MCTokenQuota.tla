---------------------------- MODULE MCTokenQuota ----------------------------
(***************************************************************************)
(* A small instance of TokenQuota. The limits are a few tokens so that two *)
(* requests compete for the last one, and the calendar puts a week         *)
(* boundary between day 0 and day 1 of one month.                          *)
(***************************************************************************)
EXTENDS TokenQuota, TLC

CONSTANTS c1, s1   \* a chat request and a summary

Plan(m, w, d) == [monthly |-> m, weekly |-> w, daily |-> d]

\* An owner whose subscription starts or lapses between two requests: a paid
\* plan with a burst guard, as custom catalogs may carry one, and a weekly plan.
ChangingPlans == {Plan(3, 0, 2), Plan(0, 3, 0)}

Size(p, c) == [prompt |-> p, completion |-> c]
OneSize == {Size(1, 1)}

Reported == {0, 4, Null}

MCWeekOf == [d \in Days |-> d]
SameMonth == [d \in Days |-> 0]
=============================================================================
