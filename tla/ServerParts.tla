----------------------------- MODULE ServerParts -----------------------------
(***************************************************************************)
(* Parts of the server that share no state, so that a behaviour needs only *)
(* one of them: the life of the process and its database file              *)
(* (ServerLife), the limits of its routes and tasks (Limits), the pages it *)
(* reads from the web (SafeFetch), an account's row and what is answered   *)
(* from it (UserProfile) and the streams of the providers (StreamReader).  *)
(***************************************************************************)
EXTENDS Limits

CONSTANTS Releases, MaxStarts, Fetches, Hosts, MaxRedirects, CacheMax, RobotsTtl,
          WebClock, \* MaxClock of SafeFetch
          Callers, Tokens, Reports, Asks, MaxAge, Skew, MaxHour, Scripts

VARIABLES
  subject,  \* the part the behaviour is about
  pc, release, file, tx, starts, db, terminal, stopping, announced, client,
  orphan, socket, chat, recovery, drained, exit,
  clock, cache, at, target, hops, valid, rules, asked, agents, aborted,
  account, tombstone, apple, caller, told, hour,
  script, arrived, buffer, deltas, parts, finish, completed, failure, abort, outcome

Life == INSTANCE ServerLife
Web == INSTANCE SafeFetch WITH MaxClock <- WebClock
Profile == INSTANCE UserProfile
Stream == INSTANCE StreamReader

ASSUME PartsAssumption ==
  /\ Life!LifeAssumption /\ Web!FetchAssumption
  /\ Profile!ProfileAssumption /\ Stream!ScriptsAssumption

lifeVars == <<pc, release, file, tx, starts, db, terminal, stopping, announced, client,
              orphan, socket, chat, recovery, drained, exit>>
webVars == <<clock, cache, at, target, hops, valid, rules, asked, agents, aborted>>

profileVars == <<account, tombstone, apple, caller, told, hour>>
streamVars == <<script, arrived, buffer, deltas, parts, finish, completed, failure, abort,
                outcome>>

\* Of the parts a behaviour is not about, one initial state is enough.
PartsInit ==
  /\ subject \in {"life", "routes", "tasks", "web", "profile", "stream"}
  /\ Init /\ Life!Init /\ Web!Init /\ Profile!Init /\ Stream!Init
  /\ subject # "web" => target = [f \in Fetches |-> CHOOSE host \in Hosts : TRUE]
  /\ subject # "profile" => ~ account.exists
  /\ subject # "stream" => script = CHOOSE s \in Scripts : TRUE

PartsNext ==
  /\ UNCHANGED subject
  /\ \/ subject = "life" /\ Life!Next
        /\ UNCHANGED <<vars, webVars, profileVars, streamVars>>
     \/ subject = "routes" /\ RouteNext
        /\ UNCHANGED <<lifeVars, webVars, profileVars, streamVars>>
     \/ subject = "tasks" /\ TaskNext
        /\ UNCHANGED <<lifeVars, webVars, profileVars, streamVars>>
     \/ subject = "web" /\ Web!Next
        /\ UNCHANGED <<vars, lifeVars, profileVars, streamVars>>
     \/ subject = "profile" /\ Profile!Next
        /\ UNCHANGED <<vars, lifeVars, webVars, streamVars>>
     \/ subject = "stream" /\ Stream!Next
        /\ UNCHANGED <<vars, lifeVars, webVars, profileVars>>

partsVars == <<subject, vars, lifeVars, webVars, profileVars, streamVars>>

\* Of the process, what ServerLife!FairSpec assumes.
LifeAlone(A) ==
  subject = "life" /\ A /\ UNCHANGED <<subject, vars, webVars, profileVars, streamVars>>

PartsSpec ==
  /\ PartsInit /\ [][PartsNext]_partsVars
  /\ WF_partsVars(LifeAlone(Life!Migration))
  /\ WF_partsVars(LifeAlone(Life!Listen))
  /\ WF_partsVars(LifeAlone(Life!Shutdown))
  /\ WF_partsVars(LifeAlone(Life!HardDeadline))

-----------------------------------------------------------------------------
(* Properties, beside LimitsHold                                           *)

\* Migration: see ServerLife. The committed schema never goes back to an older
\* version and never loses the usage rows.
SchemaOnlyGrows == Life!SchemaOnlyGrows

\* Shutdown: see ServerLife. The database is closed only when the work the
\* shutdown waits for has ended, and nobody who asks for it opens it again; a
\* handler whose client left is not waited for, and may hold the handle.
NoWorkOnClosedDatabase == Life!NoWorkOnClosedDatabase

\* Shutdown: see ServerLife. A signal ends the process.
SignalsStop == Life!SignalsStop

\* Web pages: see SafeFetch. The hops of page requests are validated and allowed,
\* their agents are destroyed, the cache is bounded; the request for robots.txt
\* has no agent and is not part of it.
FetchesOrderly == Web!FetchesOrderly

\* Accounts: see UserProfile. Rows come with accepted terms and keep one account
\* token, and no answer is made of a purged row.
ProfilesConsistent == Profile!ProfilesConsistent

\* Accounts: see UserProfile. The newest subscription report wins, and Apple's
\* verified state over all of them.
ReportsOrdered == Profile!ReportsOrdered

\* Model streams: see StreamReader. Wherever chunks end or the stream is cut,
\* text arrives in order and no call is returned with a part of its arguments.
StreamFaithful == Stream!StreamFaithful
=============================================================================
