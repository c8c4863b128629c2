------------------------------- MODULE Limits -------------------------------
(***************************************************************************)
(* The in-memory limits of the process: requests started per key and       *)
(* window (src/src/utils/rateLimit.js), responses open at once on a route  *)
(* (utils/concurrencyGuard.js, behind the former in routes.js) and tasks   *)
(* running at once (utils/asyncConcurrencyLimit.js).                       *)
(*                                                                         *)
(* A definition whose comment starts with "Wrong:" is a faulty variant of  *)
(* the next one; no specification uses it.                                 *)
(***************************************************************************)
EXTENDS Naturals, Sequences, FiniteSets

CONSTANTS
  Requests,       \* HTTP requests to the guarded route
  KeyOf,          \* KeyOf[r]: the rate limit's key of the request r
  Tasks,          \* calls of runWithLimit
  StartsMax,      \* limit.max
  Window,         \* limit.windowMs
  PruneEvery,     \* calls between two prunes (100 in the code)
  MaxConcurrent,  \* of the guard and of the task limit
  MaxClock        \* bound on the clock

Keys == {KeyOf[r] : r \in Requests}

ASSUME LimitsAssumption ==
  /\ StartsMax \in Nat \ {0} /\ MaxConcurrent \in Nat \ {0}
  /\ PruneEvery \in Nat \ {0} /\ Window \in Nat /\ MaxClock \in Nat
  /\ IsFiniteSet(Requests) /\ IsFiniteSet(Tasks)

VARIABLES
  now,       \* Date.now()
  buckets,   \* startBuckets: the key's bucket, or NoBucket
  unpruned,  \* what the buckets would be if none was ever pruned
  ops,       \* operationsSincePrune
  request,   \* where each request is: "new", "limited", "busy", or the state of
             \* its response, "open", "finished" or "closed"
  released,  \* released, per request
  active,    \* active of the guard
  task,      \* where each task is: "new", "waiting", "granted", "running", "done"
  waiters,   \* waiters of the task limit
  running    \* active of the task limit

rateVars == <<now, buckets, unpruned, ops>>
guardVars == <<request, released, active>>
taskVars == <<task, waiters, running>>
vars == <<rateVars, guardVars, taskVars>>

NoBucket == [count |-> 0, resetAt |-> 0]

Init ==
  /\ now = 1 /\ ops = 0
  /\ buckets = [k \in Keys |-> NoBucket] /\ unpruned = buckets
  /\ request = [r \in Requests |-> "new"]
  /\ released = [r \in Requests |-> FALSE]
  /\ active = 0
  /\ task = [t \in Tasks |-> "new"]
  /\ waiters = <<>> /\ running = 0

-----------------------------------------------------------------------------
(* rateLimitStart, then the guard                                          *)

Expired(bucket) == now > bucket.resetAt

Prunes(bucket) == Expired(bucket)

Pruned ==
  IF ops + 1 < PruneEvery THEN buckets
  ELSE [k \in Keys |-> IF Prunes(buckets[k]) THEN NoBucket ELSE buckets[k]]

Allows(bucket) == Expired(bucket) \/ bucket.count < StartsMax

Counted(bucket) ==
  IF Expired(bucket) THEN [count |-> 1, resetAt |-> now + Window]
  ELSE IF bucket.count < StartsMax THEN [bucket EXCEPT !.count = @ + 1]
  ELSE bucket

\* A request passes the rate limit, then the guard, in one turn: the handler
\* starts, or the request is refused by one of them.
Arrives(r) ==
  LET key == KeyOf[r] IN
  /\ request[r] = "new"
  /\ ops' = (ops + 1) % PruneEvery
  /\ buckets' = [Pruned EXCEPT ![key] = Counted(Pruned[key])]
  /\ unpruned' = [unpruned EXCEPT ![key] = Counted(@)]
  /\ \/ /\ ~ Allows(Pruned[key])
        /\ request' = [request EXCEPT ![r] = "limited"]
        /\ UNCHANGED active
     \/ /\ Allows(Pruned[key]) /\ active >= MaxConcurrent
        /\ request' = [request EXCEPT ![r] = "busy"]
        /\ UNCHANGED active
     \/ /\ Allows(Pruned[key]) /\ active < MaxConcurrent
        /\ request' = [request EXCEPT ![r] = "open"]
        /\ active' = active + 1
  /\ UNCHANGED <<now, released, taskVars>>

\* release: the first of "finish" and "close" frees the slot.
Frees(r) ==
  /\ released' = [released EXCEPT ![r] = TRUE]
  /\ active' = IF released[r] \/ active = 0 THEN active ELSE active - 1

\* The events of the response: "finish" when it was sent, "close" after that or
\* when the client has gone first. The handler may go on all the same.
Finishes(r) ==
  /\ request[r] = "open"
  /\ request' = [request EXCEPT ![r] = "finished"]
  /\ Frees(r)
  /\ UNCHANGED <<rateVars, taskVars>>

Closes(r) ==
  /\ request[r] \in {"open", "finished"}
  /\ request' = [request EXCEPT ![r] = "closed"]
  /\ Frees(r)
  /\ UNCHANGED <<rateVars, taskVars>>

\* A request that was answered is forgotten: its place is another request's.
Forgotten(r) ==
  /\ request[r] \in {"limited", "busy", "closed"}
  /\ request' = [request EXCEPT ![r] = "new"]
  /\ released' = [released EXCEPT ![r] = FALSE]
  /\ UNCHANGED <<active, rateVars, taskVars>>

Ticks ==
  /\ now < MaxClock
  /\ now' = now + 1
  /\ UNCHANGED <<buckets, unpruned, ops, guardVars, taskVars>>

-----------------------------------------------------------------------------
(* runWithLimit                                                            *)

\* A call takes a free slot, or waits.
Calls(t) ==
  /\ task[t] = "new"
  /\ \/ /\ running >= MaxConcurrent
        /\ task' = [task EXCEPT ![t] = "waiting"]
        /\ waiters' = Append(waiters, t)
        /\ UNCHANGED running
     \/ /\ running < MaxConcurrent
        /\ task' = [task EXCEPT ![t] = "running"]
        /\ running' = running + 1
        /\ UNCHANGED waiters
  /\ UNCHANGED <<rateVars, guardVars>>

\* Wrong: the slot is freed although a waiter is woken to use it.
FreesSlot == running - 1

\* The slot is handed to the oldest waiter: active is unchanged.
HandsOver == running

\* The task returns or throws: the slot goes to the oldest waiter, or is freed.
TaskEnds(t) ==
  /\ task[t] = "running"
  /\ \/ /\ waiters # <<>>
        /\ task' = [task EXCEPT ![t] = "done", ![Head(waiters)] = "granted"]
        /\ waiters' = Tail(waiters)
        /\ running' = HandsOver
     \/ /\ waiters = <<>>
        /\ task' = [task EXCEPT ![t] = "done"]
        /\ running' = IF running > 0 THEN running - 1 ELSE 0
        /\ UNCHANGED waiters
  /\ UNCHANGED <<rateVars, guardVars>>

\* The waiter's microtask resumes and runs its task.
Resumes(t) ==
  /\ task[t] = "granted"
  /\ task' = [task EXCEPT ![t] = "running"]
  /\ UNCHANGED <<waiters, running, rateVars, guardVars>>

\* Another call takes the place of one that is done.
Again(t) ==
  /\ task[t] = "done"
  /\ task' = [task EXCEPT ![t] = "new"]
  /\ UNCHANGED <<waiters, running, rateVars, guardVars>>

RouteNext ==
  Ticks \/ \E r \in Requests : Arrives(r) \/ Finishes(r) \/ Closes(r) \/ Forgotten(r)

TaskNext == \E t \in Tasks : Calls(t) \/ TaskEnds(t) \/ Resumes(t) \/ Again(t)

Next == RouteNext \/ TaskNext

Spec == Init /\ [][Next]_vars

-----------------------------------------------------------------------------
(* Properties                                                              *)

Unfinished == {r \in Requests : request[r] = "open"}
Holders == {t \in Tasks : task[t] \in {"granted", "running"}}

\* The limits count what they limit. Pruning changes no answer of the rate
\* limit; the guard's counter is the number of responses that are open, whatever
\* the order of their two events; the task limit's counter is the number of tasks
\* that hold a slot, and no slot is free while a call waits.
LimitsHold ==
  /\ \A k \in Keys : ~ Expired(unpruned[k]) => buckets[k] = unpruned[k]
  /\ active = Cardinality(Unfinished) /\ active <= MaxConcurrent
  /\ running = Cardinality(Holders) /\ running <= MaxConcurrent
  /\ waiters # <<>> => running = MaxConcurrent
=============================================================================
