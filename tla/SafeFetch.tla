------------------------------ MODULE SafeFetch ------------------------------
(***************************************************************************)
(* Pages read from the web (src/src/chat/safeWebFetch.js): every hop of a  *)
(* redirect chain is validated, asked for by the publisher's robots.txt    *)
(* through a cache the concurrent fetches share, and requested with an     *)
(* agent of its own, under one deadline.                                   *)
(*                                                                         *)
(* A definition whose comment starts with "Wrong:" is a faulty variant of  *)
(* the next one; no specification uses it.                                 *)
(***************************************************************************)
EXTENDS Naturals, Sequences

CONSTANTS
  Fetches,       \* concurrent calls of fetchPublicTextPage
  Hosts,         \* publishers; a page is named by its host
  MaxRedirects,  \* normalizedMaxRedirects
  CacheMax,      \* ROBOTS_CACHE_MAX
  RobotsTtl,     \* ROBOTS_CACHE_MS
  MaxClock       \* bound on the clock

\* What the constants must satisfy; ServerParts assumes it.
FetchAssumption ==
  CacheMax \in Nat \ {0} /\ MaxRedirects \in Nat /\ RobotsTtl \in Nat /\ MaxClock \in Nat

VARIABLES
  clock,    \* Date.now()
  cache,    \* robotsCache, oldest entry first
  at,       \* where each fetch is
  target,   \* the host of its target.url
  hops,     \* its redirectCount
  valid,    \* the host it validated last
  rules,    \* what the last robots check of the fetch went by
  asked,    \* the now of that check
  agents,   \* its agents that are not destroyed
  aborted   \* its linked controller is aborted

fetchVars == <<at, target, hops, valid, rules, asked, agents, aborted>>
vars == <<clock, cache, fetchVars>>

Ends == {"returned", "refused", "failed"}
NoRules == [host |-> "none", allows |-> FALSE]

Init ==
  /\ clock = 0 /\ cache = <<>>
  /\ at = [f \in Fetches |-> "validate"]
  /\ target \in [Fetches -> Hosts]
  /\ hops = [f \in Fetches |-> 0]
  /\ valid = [f \in Fetches |-> "none"]
  /\ rules = [f \in Fetches |-> NoRules]
  /\ asked = [f \in Fetches |-> 0]
  /\ agents = [f \in Fetches |-> 0]
  /\ aborted = [f \in Fetches |-> FALSE]

Goes(f, from, to) == at[f] = from /\ at' = [at EXCEPT ![f] = to]

\* validatePublicUrl, with its look-up, which no signal interrupts: the hop is a
\* public page, or the fetch is refused.
Validates(f) ==
  /\ \/ Goes(f, "validate", "robots") /\ valid' = [valid EXCEPT ![f] = target[f]]
     \/ Goes(f, "validate", "refused") /\ UNCHANGED valid
  /\ UNCHANGED <<clock, cache, target, hops, rules, asked, agents, aborted>>

-----------------------------------------------------------------------------
(* assertRobotsAllows                                                      *)

\* createPinnedAgent and the request of the page, when the rules of the entry
\* allow it.
Obeys(f, entry) ==
  /\ rules' = [rules EXCEPT ![f] = [host |-> entry.host, allows |-> entry.allows]]
  /\ at' = [at EXCEPT ![f] = IF entry.allows THEN "request" ELSE "refused"]
  /\ agents' = [agents EXCEPT ![f] = IF entry.allows THEN @ + 1 ELSE @]

\* Wrong: the rules of any publisher the chain has come by will do.
AnyEntry(host) == {i \in DOMAIN cache : clock - cache[i].at < RobotsTtl}

\* The entry of the host, while it is fresh: rules are asked for per hop, a
\* redirect can land on another publisher's host.
Cached(host) == {i \in DOMAIN cache : cache[i].host = host /\ clock - cache[i].at < RobotsTtl}

Remembers(f) ==
  /\ at[f] = "robots"
  /\ \E i \in Cached(target[f]) : Obeys(f, cache[i])
  /\ UNCHANGED <<clock, cache, target, hops, valid, asked, aborted>>

AsksRobots(f) ==
  /\ at[f] = "robots"
  /\ Cached(target[f]) = {}
  /\ Goes(f, "robots", "asking")
  /\ asked' = [asked EXCEPT ![f] = clock]
  /\ UNCHANGED <<clock, cache, target, hops, valid, rules, agents, aborted>>

\* The oldest entry makes room, also for a host that has an entry.
Room == IF Len(cache) >= CacheMax THEN Tail(cache) ELSE cache

\* Map.set: an entry that is there keeps its place.
Stored(entry) ==
  IF \E i \in DOMAIN Room : Room[i].host = entry.host
  THEN [i \in DOMAIN Room |-> IF Room[i].host = entry.host THEN entry ELSE Room[i]]
  ELSE Append(Room, entry)

\* The answer is cached with the time of the question. A fetch that fails, or is
\* aborted, is cached as "allowed".
RobotsAnswer(f) ==
  /\ at[f] = "asking"
  /\ \E allows \in IF aborted[f] THEN {TRUE} ELSE BOOLEAN :
       LET entry == [host |-> target[f], allows |-> allows, at |-> asked[f]] IN
       Obeys(f, entry) /\ cache' = Stored(entry)
  /\ UNCHANGED <<clock, target, hops, valid, asked, aborted>>

-----------------------------------------------------------------------------
(* The page                                                                *)

\* agent.destroy
Destroyed(f) == agents[f] - 1

\* The request fails, is aborted, is one redirect too many or has no location, or
\* its response is of no use: not ok, no text, too large.
PageFails(f) ==
  /\ Goes(f, "request", "failed")
  /\ agents' = [agents EXCEPT ![f] = Destroyed(f)]
  /\ UNCHANGED <<clock, cache, target, hops, valid, rules, asked, aborted>>

Redirects(f) ==
  /\ ~ aborted[f] /\ hops[f] < MaxRedirects
  /\ Goes(f, "request", "validate")
  /\ agents' = [agents EXCEPT ![f] = Destroyed(f)]
  /\ hops' = [hops EXCEPT ![f] = @ + 1]
  /\ \E host \in Hosts : target' = [target EXCEPT ![f] = host]
  /\ UNCHANGED <<clock, cache, valid, rules, asked, aborted>>

PageAnswers(f) ==
  /\ ~ aborted[f]
  /\ Goes(f, "request", "reading")
  /\ UNCHANGED <<clock, cache, target, hops, valid, rules, asked, agents, aborted>>

\* readBodyWithLimit: the text, cut when it is too long, or an error.
Reads(f) ==
  /\ \/ ~ aborted[f] /\ Goes(f, "reading", "returned")
     \/ Goes(f, "reading", "failed")
  /\ agents' = [agents EXCEPT ![f] = Destroyed(f)]
  /\ UNCHANGED <<clock, cache, target, hops, valid, rules, asked, aborted>>

\* The deadline, or the caller's signal; afterwards the listener is removed.
Aborts(f) ==
  /\ at[f] \notin Ends /\ ~ aborted[f]
  /\ aborted' = [aborted EXCEPT ![f] = TRUE]
  /\ UNCHANGED <<clock, cache, at, target, hops, valid, rules, asked, agents>>

Ticks ==
  /\ clock < MaxClock
  /\ clock' = clock + 1
  /\ UNCHANGED <<cache, fetchVars>>

Next ==
  \/ Ticks
  \/ \E f \in Fetches :
       \/ Validates(f) \/ Remembers(f) \/ AsksRobots(f) \/ RobotsAnswer(f)
       \/ PageFails(f) \/ Redirects(f) \/ PageAnswers(f) \/ Reads(f) \/ Aborts(f)

Spec == Init /\ [][Next]_vars

-----------------------------------------------------------------------------
(* Properties                                                              *)

\* A page is requested only from a host that this hop has validated and whose
\* rules the check of this hop found to allow it; each agent lives as long as its
\* request, on every way out; and the shared cache stays bounded with one entry
\* per publisher. It speaks of page requests: the one for robots.txt is made before
\* the agent exists, with the process's own resolver.
FetchesOrderly ==
  /\ \A f \in Fetches :
       LET requests == at[f] \in {"request", "reading"} IN
       /\ requests => valid[f] = target[f]
                      /\ rules[f] = [host |-> target[f], allows |-> TRUE]
       /\ agents[f] = IF requests THEN 1 ELSE 0
  /\ Len(cache) <= CacheMax
  /\ \A i, j \in DOMAIN cache : cache[i].host = cache[j].host => i = j
=============================================================================
