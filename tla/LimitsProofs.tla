---------------------------- MODULE LimitsProofs ----------------------------
(***************************************************************************)
(* Machine-checked proofs about Limits, for any requests, keys and tasks   *)
(* and any limits.                                                         *)
(***************************************************************************)
EXTENDS Limits, FiniteSetTheorems, TLAPS

Bucket == [count : Nat, resetAt : Nat]
RequestStates == {"new", "limited", "busy", "open", "finished", "closed"}
TaskStates == {"new", "waiting", "granted", "running", "done"}

\* The shape of the state.
LimitsType ==
  /\ now \in Nat \ {0} /\ ops \in Nat
  /\ buckets \in [Keys -> Bucket] /\ unpruned \in [Keys -> Bucket]
  /\ request \in [Requests -> RequestStates]
  /\ released \in [Requests -> BOOLEAN]
  /\ active \in Nat
  /\ task \in [Tasks -> TaskStates]
  /\ waiters \in Seq(Tasks)
  /\ running \in Nat

\* A bucket is missing only when it has expired.
BucketsInv ==
  \A k \in Keys :
    buckets[k] = unpruned[k] \/ (buckets[k] = NoBucket /\ Expired(unpruned[k]))

\* The guard counts open responses; the flag says which ones have been freed.
GuardInv ==
  /\ \A r \in Requests : released[r] <=> request[r] \in {"finished", "closed"}
  /\ active = Cardinality(Unfinished) /\ active <= MaxConcurrent

\* The queue lists waiting tasks, each once, and only while all slots are held.
TasksInv ==
  /\ running = Cardinality(Holders) /\ running <= MaxConcurrent
  /\ waiters # <<>> => running = MaxConcurrent
  /\ \A i \in 1..Len(waiters) : task[waiters[i]] = "waiting"
  /\ \A i, j \in 1..Len(waiters) : waiters[i] = waiters[j] => i = j

LimitsInv == LimitsType /\ BucketsInv /\ GuardInv /\ TasksInv

-----------------------------------------------------------------------------
(* Sets of requests and tasks                                              *)

LEMMA UnfinishedFinite ==
  IsFiniteSet(Unfinished) /\ Cardinality(Unfinished) \in Nat
<1>1. Unfinished \in SUBSET Requests
  BY DEF Unfinished
<1> QED BY <1>1, LimitsAssumption, FS_Subset, FS_CardinalityType

LEMMA HoldersFinite ==
  IsFiniteSet(Holders) /\ Cardinality(Holders) \in Nat
<1>1. Holders \in SUBSET Tasks
  BY DEF Holders
<1> QED BY <1>1, LimitsAssumption, FS_Subset, FS_CardinalityType

\* A response that opens counts once more, one that ends once less.
LEMMA ResponseOpens ==
  ASSUME LimitsType, NEW r \in Requests, request[r] # "open",
         request' = [request EXCEPT ![r] = "open"]
  PROVE  Cardinality(Unfinished)' = Cardinality(Unfinished) + 1
<1>1. Unfinished' = Unfinished \cup {r} /\ r \notin Unfinished
  BY DEF Unfinished, LimitsType
<1> QED BY <1>1, UnfinishedFinite, FS_AddElement

LEMMA ResponseEnds ==
  ASSUME LimitsType, NEW r \in Requests, request[r] = "open",
         NEW end \in RequestStates \ {"open"}, request' = [request EXCEPT ![r] = end]
  PROVE  /\ Cardinality(Unfinished)' = Cardinality(Unfinished) - 1
         /\ Cardinality(Unfinished) # 0
<1>1. Unfinished' = Unfinished \ {r} /\ r \in Unfinished
  BY DEF Unfinished, LimitsType
<1>2. Cardinality(Unfinished) # 0
  BY <1>1, UnfinishedFinite, FS_EmptySet
<1> QED BY <1>1, <1>2, UnfinishedFinite, FS_RemoveElement

LEMMA SameResponses ==
  ASSUME LimitsType, NEW r \in Requests, NEW state \in RequestStates \ {"open"},
         request[r] # "open", request' = [request EXCEPT ![r] = state]
  PROVE  Cardinality(Unfinished)' = Cardinality(Unfinished)
<1>1. Unfinished' = Unfinished
  BY DEF Unfinished, LimitsType
<1> QED BY <1>1

-----------------------------------------------------------------------------
(* The rate limit                                                          *)

LEMMA KeyType == \A r \in Requests : KeyOf[r] \in Keys
BY DEF Keys

LEMMA CountedType ==
  ASSUME LimitsType, NEW bucket \in Bucket
  PROVE  Counted(bucket) \in Bucket
<1>1. [count |-> 1, resetAt |-> now + Window] \in Bucket
  BY LimitsAssumption DEF Bucket, LimitsType
<1>2. [bucket EXCEPT !.count = @ + 1] \in Bucket
  BY DEF Bucket
<1> QED BY <1>1, <1>2 DEF Counted

LEMMA PrunedType ==
  ASSUME LimitsType
  PROVE  /\ Pruned \in [Keys -> Bucket]
         /\ \A k \in Keys : Pruned[k] = buckets[k] \/
                            (Expired(buckets[k]) /\ Pruned[k] = NoBucket)
BY DEF Pruned, Prunes, LimitsType, Bucket, NoBucket

\* What a request finds is counted as if nothing had been pruned.
LEMMA ArrivesBuckets ==
  ASSUME LimitsType, BucketsInv, NEW r \in Requests, Arrives(r)
  PROVE  BucketsInv'
<1> DEFINE key == KeyOf[r]
<1>1. /\ buckets' = [Pruned EXCEPT ![key] = Counted(Pruned[key])]
      /\ unpruned' = [unpruned EXCEPT ![key] = Counted(unpruned[key])]
      /\ now' = now
  BY DEF Arrives
<1>2. key \in Keys
  BY KeyType
<1>3. Expired(NoBucket)
  BY DEF Expired, NoBucket, LimitsType
<1> HIDE DEF key
<1>4. \A k \in Keys : \/ Pruned[k] = unpruned[k]
                      \/ Pruned[k] = NoBucket /\ Expired(unpruned[k])
  BY <1>3, PrunedType DEF BucketsInv
<1>5. Counted(Pruned[key]) = Counted(unpruned[key])
  <2>1. CASE Pruned[key] = unpruned[key]
    BY <2>1
  <2>2. CASE Pruned[key] = NoBucket /\ Expired(unpruned[key])
    BY <2>2, <1>3 DEF Counted
  <2> QED BY <2>1, <2>2, <1>2, <1>4
<1> SUFFICES ASSUME NEW k \in Keys
             PROVE  \/ buckets'[k] = unpruned'[k]
                    \/ buckets'[k] = NoBucket /\ Expired(unpruned[k])'
  BY DEF BucketsInv, NoBucket
<1>6. CASE k = key
  BY <1>1, <1>2, <1>5, <1>6, PrunedType DEF LimitsType
<1>7. CASE k # key
  <2>1. buckets'[k] = Pruned[k] /\ unpruned'[k] = unpruned[k]
    BY <1>1, <1>7, PrunedType DEF LimitsType
  <2> QED BY <1>1, <1>4, <2>1 DEF Expired
<1> QED BY <1>6, <1>7

-----------------------------------------------------------------------------
(* Steps                                                                   *)

LEMMA LimitsInitially == Init => LimitsInv
<1> SUFFICES ASSUME Init PROVE LimitsInv
  OBVIOUS
<1>1. LimitsType
  BY DEF Init, LimitsType, Bucket, NoBucket, RequestStates, TaskStates
<1>2. BucketsInv
  BY DEF Init, BucketsInv
<1>3. Unfinished = {} /\ Holders = {}
  BY DEF Init, Unfinished, Holders
<1>4. GuardInv
  BY <1>3, FS_EmptySet, LimitsAssumption DEF Init, GuardInv
<1>5. TasksInv
  BY <1>3, FS_EmptySet, LimitsAssumption DEF Init, TasksInv
<1> QED BY <1>1, <1>2, <1>4, <1>5 DEF LimitsInv

LEMMA ArrivesStep ==
  ASSUME LimitsInv, NEW r \in Requests, Arrives(r)
  PROVE  LimitsInv'
<1> USE DEF LimitsInv
<1>1. UNCHANGED <<now, released, taskVars>> /\ request[r] = "new"
  BY DEF Arrives
<1>2. LimitsType'
  <2>1. ops' \in Nat
    BY LimitsAssumption DEF Arrives, LimitsType
  <2>2. buckets' \in [Keys -> Bucket] /\ unpruned' \in [Keys -> Bucket]
    BY KeyType, CountedType, PrunedType DEF Arrives, LimitsType
  <2>3. request' \in [Requests -> RequestStates] /\ active' \in Nat
    BY DEF Arrives, LimitsType, RequestStates
  <2> QED BY <1>1, <2>1, <2>2, <2>3 DEF LimitsType, taskVars
<1>3. BucketsInv'
  BY ArrivesBuckets
<1>4. GuardInv'
  <2>1. CASE active < MaxConcurrent /\ request' = [request EXCEPT ![r] = "open"]
             /\ active' = active + 1
    <3>1. Cardinality(Unfinished)' = Cardinality(Unfinished) + 1
      BY <1>1, <2>1, ResponseOpens
    <3>2. \A q \in Requests : released'[q] <=> request'[q] \in {"finished", "closed"}
      BY <1>1, <2>1 DEF GuardInv, LimitsType
    <3> QED BY <2>1, <3>1, <3>2, LimitsAssumption DEF GuardInv, LimitsType
  <2>2. ASSUME NEW state \in {"limited", "busy"}, request' = [request EXCEPT ![r] = state],
               active' = active
        PROVE  GuardInv'
    <3>1. Cardinality(Unfinished)' = Cardinality(Unfinished)
      BY <1>1, <2>2, SameResponses DEF RequestStates
    <3>2. \A q \in Requests : released'[q] <=> request'[q] \in {"finished", "closed"}
      BY <1>1, <2>2 DEF GuardInv, LimitsType
    <3> QED BY <2>2, <3>1, <3>2 DEF GuardInv
  <2> QED BY <2>1, <2>2 DEF Arrives
<1>5. TasksInv'
  BY <1>1 DEF TasksInv, taskVars, Holders
<1> QED BY <1>2, <1>3, <1>4, <1>5

\* The events of a response, in whatever order they come.
LEMMA ResponseStep ==
  ASSUME LimitsInv, NEW r \in Requests, Finishes(r) \/ Closes(r) \/ Forgotten(r)
  PROVE  LimitsInv'
<1> USE DEF LimitsInv
<1>1. UNCHANGED <<rateVars, taskVars>>
  BY DEF Finishes, Closes, Forgotten
<1>2. LimitsType'
  <2>1. request' \in [Requests -> RequestStates]
    BY DEF LimitsType, Finishes, Closes, Forgotten, RequestStates
  <2>2. released' \in [Requests -> BOOLEAN]
    BY DEF LimitsType, Finishes, Closes, Forgotten, Frees
  <2>3. active' \in Nat
    BY DEF LimitsType, Finishes, Closes, Forgotten, Frees
  <2> QED BY <1>1, <2>1, <2>2, <2>3 DEF LimitsType, rateVars, taskVars
<1>3. BucketsInv'
  BY <1>1 DEF BucketsInv, rateVars, Expired
<1>4. TasksInv'
  BY <1>1 DEF TasksInv, taskVars, Holders
<1>5. GuardInv'
  <2>1. ASSUME NEW end \in {"finished", "closed"}, request[r] = "open",
               request' = [request EXCEPT ![r] = end], Frees(r)
        PROVE  GuardInv'
    <3>1. /\ Cardinality(Unfinished)' = Cardinality(Unfinished) - 1
          /\ Cardinality(Unfinished) # 0
      BY <2>1, ResponseEnds DEF RequestStates
    <3>2. ~ released[r]
      BY <2>1 DEF GuardInv
    <3>3. \A q \in Requests : released'[q] <=> request'[q] \in {"finished", "closed"}
      BY <2>1 DEF GuardInv, LimitsType, Frees
    <3> QED BY <2>1, <3>1, <3>2, <3>3, LimitsAssumption DEF GuardInv, Frees, LimitsType
  <2>2. ASSUME NEW state \in {"closed", "new"}, request[r] # "open",
               request' = [request EXCEPT ![r] = state], active' = active,
               released' = [released EXCEPT ![r] = (state = "closed")]
        PROVE  GuardInv'
    <3>1. Cardinality(Unfinished)' = Cardinality(Unfinished)
      BY <2>2, SameResponses DEF RequestStates
    <3>2. \A q \in Requests : released'[q] <=> request'[q] \in {"finished", "closed"}
      BY <2>2 DEF GuardInv, LimitsType
    <3> QED BY <2>2, <3>1, <3>2 DEF GuardInv
  <2>3. CASE Finishes(r)
    BY <2>1, <2>3 DEF Finishes
  <2>4. CASE Closes(r) /\ request[r] = "open"
    BY <2>1, <2>4 DEF Closes
  <2>5. CASE Closes(r) /\ request[r] = "finished"
    <3>1. released[r]
      BY <2>5 DEF GuardInv
    <3> QED BY <2>2, <2>5, <3>1 DEF Closes, Frees
  <2>6. CASE Forgotten(r)
    BY <2>2, <2>6 DEF Forgotten
  <2> QED BY <2>3, <2>4, <2>5, <2>6 DEF Closes
<1> QED BY <1>2, <1>3, <1>4, <1>5

LEMMA TickStep ==
  ASSUME LimitsInv, Ticks
  PROVE  LimitsInv'
<1> USE DEF LimitsInv
<1>1. LimitsType'
  BY DEF LimitsType, Ticks, guardVars, taskVars
<1>2. BucketsInv'
  <2>1. \A k \in Keys : unpruned[k].resetAt \in Nat
    BY DEF LimitsType, Bucket
  <2> QED BY <2>1 DEF BucketsInv, Ticks, Expired, LimitsType
<1>3. GuardInv' /\ TasksInv'
  BY DEF GuardInv, TasksInv, Ticks, guardVars, taskVars, Unfinished, Holders
<1> QED BY <1>1, <1>2, <1>3

LEMMA TaskStep ==
  ASSUME LimitsInv, NEW t \in Tasks, Calls(t) \/ TaskEnds(t) \/ Resumes(t) \/ Again(t)
  PROVE  LimitsInv'
<1> USE DEF LimitsInv
<1>1. UNCHANGED <<rateVars, guardVars>>
  BY DEF Calls, TaskEnds, Resumes, Again
<1>2. BucketsInv' /\ GuardInv'
  BY <1>1 DEF BucketsInv, GuardInv, rateVars, guardVars, Expired, Unfinished
<1>3. waiters # <<>> => /\ Head(waiters) \in Tasks /\ task[Head(waiters)] = "waiting"
                        /\ Tail(waiters) \in Seq(Tasks)
  BY DEF LimitsType, TasksInv
<1>4. LimitsType'
  <2>1. task' \in [Tasks -> TaskStates]
    <3>1. CASE TaskEnds(t) /\ waiters # <<>>
      BY <1>3, <3>1 DEF LimitsType, TaskEnds, TaskStates
    <3>2. CASE ~ (TaskEnds(t) /\ waiters # <<>>)
      BY <3>2 DEF LimitsType, Calls, TaskEnds, Resumes, Again, TaskStates
    <3> QED BY <3>1, <3>2
  <2>2. waiters' \in Seq(Tasks)
    <3>1. waiters \in Seq(Tasks) /\ Append(waiters, t) \in Seq(Tasks)
      BY DEF LimitsType
    <3>2. \/ waiters' = waiters \/ waiters' = Append(waiters, t)
          \/ waiters # <<>> /\ waiters' = Tail(waiters)
      BY DEF Calls, TaskEnds, Resumes, Again
    <3> QED BY <1>3, <3>1, <3>2
  <2>3. running' \in Nat
    BY DEF LimitsType, Calls, TaskEnds, Resumes, Again, HandsOver
  <2> QED BY <1>1, <2>1, <2>2, <2>3 DEF LimitsType, rateVars, guardVars
<1>5. TasksInv'
  <2>1. CASE Calls(t) /\ running >= MaxConcurrent
    <3>1. /\ task[t] = "new" /\ task' = [task EXCEPT ![t] = "waiting"]
          /\ waiters' = Append(waiters, t) /\ running' = running
      BY <2>1, LimitsAssumption DEF Calls, LimitsType
    <3>2. Holders' = Holders
      BY <3>1 DEF Holders, LimitsType
    <3>3. running = MaxConcurrent
      BY <2>1, LimitsAssumption DEF TasksInv, LimitsType
    <3>4. /\ Len(waiters') = Len(waiters) + 1 /\ waiters'[Len(waiters) + 1] = t
          /\ \A i \in 1..Len(waiters) : waiters'[i] = waiters[i] /\ waiters[i] # t
          /\ Len(waiters) \in Nat
      BY <3>1 DEF LimitsType, TasksInv
    <3>5. \A i \in 1..Len(waiters') : task'[waiters'[i]] = "waiting"
      BY <3>1, <3>4 DEF TasksInv, LimitsType
    <3>6. \A i, j \in 1..Len(waiters') : waiters'[i] = waiters'[j] => i = j
      BY <3>4 DEF TasksInv
    <3> QED BY <3>1, <3>2, <3>3, <3>5, <3>6 DEF TasksInv
  <2>2. CASE Calls(t) /\ running < MaxConcurrent
    <3>1. /\ task[t] = "new" /\ task' = [task EXCEPT ![t] = "running"]
          /\ waiters' = waiters /\ running' = running + 1 /\ waiters = <<>>
      BY <2>2, LimitsAssumption DEF Calls, LimitsType, TasksInv
    <3>2. Holders' = Holders \cup {t} /\ t \notin Holders
      BY <3>1 DEF Holders, LimitsType
    <3>3. Cardinality(Holders)' = Cardinality(Holders) + 1
      BY <3>2, HoldersFinite, FS_AddElement
    <3> QED BY <2>2, <3>1, <3>3, LimitsAssumption DEF TasksInv, LimitsType
  <2>3. CASE TaskEnds(t) /\ waiters # <<>>
    <3> DEFINE h == Head(waiters)
    <3>1. /\ task[t] = "running" /\ task' = [task EXCEPT ![t] = "done", ![h] = "granted"]
          /\ waiters' = Tail(waiters) /\ running' = running
      BY <2>3 DEF TaskEnds, HandsOver
    <3>2. h \in Tasks /\ task[h] = "waiting" /\ h # t
      BY <2>3, <1>3, <3>1
    <3> HIDE DEF h
    <3>3. Holders' = (Holders \ {t}) \cup {h} /\ t \in Holders /\ h \notin Holders
      BY <3>1, <3>2 DEF Holders, LimitsType
    <3>4. Cardinality(Holders)' = Cardinality(Holders)
      <4>1. IsFiniteSet(Holders \ {t}) /\ Cardinality(Holders \ {t}) = Cardinality(Holders) - 1
        BY <3>3, HoldersFinite, FS_RemoveElement
      <4>2. Cardinality(Holders)' = Cardinality(Holders \ {t}) + 1
        BY <3>3, <4>1, FS_AddElement
      <4> QED BY <4>1, <4>2, HoldersFinite
    <3>5. /\ Len(waiters) \in Nat \ {0} /\ h = waiters[1]
          /\ Len(waiters') = Len(waiters) - 1
          /\ \A i \in 1..Len(waiters') : waiters'[i] = waiters[i + 1] /\ i + 1 \in 1..Len(waiters)
      BY <2>3, <3>1 DEF LimitsType, h
    <3>6. \A i \in 1..Len(waiters') : task'[waiters'[i]] = "waiting"
      <4> SUFFICES ASSUME NEW i \in 1..Len(waiters') PROVE task'[waiters'[i]] = "waiting"
        OBVIOUS
      <4>1. i + 1 \in 1..Len(waiters) /\ 1 \in 1..Len(waiters) /\ i + 1 # 1
        BY <3>5
      <4>2. waiters'[i] = waiters[i + 1] /\ waiters[i + 1] # h /\ waiters[i + 1] \in Tasks
        BY <3>5, <4>1 DEF TasksInv, LimitsType
      <4>3. task[waiters[i + 1]] = "waiting"
        BY <4>1 DEF TasksInv
      <4> QED BY <3>1, <4>2, <4>3 DEF LimitsType
    <3>7. \A i, j \in 1..Len(waiters') : waiters'[i] = waiters'[j] => i = j
      <4> SUFFICES ASSUME NEW i \in 1..Len(waiters'), NEW j \in 1..Len(waiters'),
                          waiters'[i] = waiters'[j]
                   PROVE  i = j
        OBVIOUS
      <4>1. waiters[i + 1] = waiters[j + 1] /\ i + 1 \in 1..Len(waiters) /\ j + 1 \in 1..Len(waiters)
        BY <3>5
      <4>2. i + 1 = j + 1
        BY <4>1 DEF TasksInv
      <4> QED BY <3>5, <4>2
    <3> QED BY <2>3, <3>1, <3>4, <3>6, <3>7 DEF TasksInv
  <2>4. CASE TaskEnds(t) /\ waiters = <<>>
    <3>1. /\ task[t] = "running" /\ task' = [task EXCEPT ![t] = "done"]
          /\ waiters' = waiters /\ running' = IF running > 0 THEN running - 1 ELSE 0
      BY <2>4 DEF TaskEnds
    <3>2. Holders' = Holders \ {t} /\ t \in Holders
      BY <3>1 DEF Holders, LimitsType
    <3>3. Cardinality(Holders)' = Cardinality(Holders) - 1 /\ Cardinality(Holders) # 0
      BY <3>2, HoldersFinite, FS_RemoveElement, FS_EmptySet
    <3>4. running' = Cardinality(Holders)' /\ running' <= MaxConcurrent
      BY <3>1, <3>3, LimitsAssumption DEF TasksInv, LimitsType
    <3> QED BY <2>4, <3>1, <3>4 DEF TasksInv
  <2>5. CASE Resumes(t) \/ Again(t)
    <3>1. /\ waiters' = waiters /\ running' = running /\ task[t] # "waiting"
          /\ \A q \in Tasks : task'[q] = "waiting" <=> task[q] = "waiting"
          /\ Holders' = Holders
      BY <2>5 DEF Resumes, Again, LimitsType, Holders
    <3>2. \A i \in 1..Len(waiters) : waiters[i] \in Tasks
      BY DEF LimitsType
    <3> QED BY <3>1, <3>2 DEF TasksInv
  <2> QED BY <2>1, <2>2, <2>3, <2>4, <2>5, LimitsAssumption DEF Calls, LimitsType
<1> QED BY <1>2, <1>4, <1>5

LEMMA LimitsStep == LimitsInv /\ [Next]_vars => LimitsInv'
<1> SUFFICES ASSUME LimitsInv, [Next]_vars PROVE LimitsInv'
  OBVIOUS
<1>1. CASE Next
  BY <1>1, ArrivesStep, ResponseStep, TickStep, TaskStep DEF Next, RouteNext, TaskNext
<1>2. CASE UNCHANGED vars
  BY <1>2 DEF vars, rateVars, guardVars, taskVars, LimitsInv, LimitsType, BucketsInv, GuardInv,
              TasksInv, Expired, Unfinished, Holders
<1> QED BY <1>1, <1>2

LEMMA LimitsFollow == LimitsInv => LimitsHold
<1> SUFFICES ASSUME LimitsInv PROVE LimitsHold
  OBVIOUS
<1>1. \A k \in Keys : ~ Expired(unpruned[k]) => buckets[k] = unpruned[k]
  BY DEF LimitsInv, BucketsInv
<1> QED BY <1>1 DEF LimitsInv, GuardInv, TasksInv, LimitsHold

\* The in-memory limits of rateLimit.js, concurrencyGuard.js and
\* asyncConcurrencyLimit.js count what they limit, for any keys and limits.
THEOREM LimitsAlwaysHold == Spec => []LimitsHold
<1>1. Init => LimitsInv
  BY LimitsInitially
<1>2. LimitsInv /\ [Next]_vars => LimitsInv'
  BY LimitsStep
<1>3. LimitsInv => LimitsHold
  BY LimitsFollow
<1> QED BY <1>1, <1>2, <1>3, PTL DEF Spec
=============================================================================
