------------------------- MODULE AppleClaimsProofs -------------------------
(***************************************************************************)
(* Machine-checked proofs about AppleClaims, for any accounts, any calls,  *)
(* any history of the chain and any number of faults.                      *)
(***************************************************************************)
EXTENDS AppleClaims, TLAPS

\* Between asking for the chain's lock and giving it back, and while holding it.
Waiting == {"lock", "ownership", "subscription", "transaction", "recheck"}
Inside == Waiting \ {"lock"}

Bought(u) == \E v \in 1..Len(store) : store[v].token = u

\* The lock: its callers queue once each, and one that has it is the first.
LockInv ==
  /\ \A i, j \in 1..Len(queue) : queue[i] = queue[j] => i = j
  /\ \A i \in 1..Len(queue) : call[queue[i]].pc \in Waiting
  /\ \A c \in Calls : call[c].pc \in Waiting => \E i \in 1..Len(queue) : queue[i] = c
  /\ \A c \in Calls : call[c].pc \in Inside => queue[1] = c

\* The account of a row is not deleted.
RowsAlive ==
  /\ sub.uid \in alive \cup {None}
  /\ \A t \in Versions : txRow[t].uid \in alive \cup {None}

\* What a call may rely on at each of its statements.
CallOK(c) ==
  /\ call[c].pc \notin {"idle", "done"} => call[c].version \in 1..Len(store)
  /\ call[c].pc \in {"classify", "fetch", "verify"} \cup Waiting => call[c].uid \in Users
  /\ call[c].pc \in {"duplicate", "byChain", "byToken"} => call[c].uid = None
  /\ call[c].pc \in Waiting => released \/ Bought(call[c].uid)
  /\ call[c].pc \in {"ownership", "subscription"} => sub.uid \in {None, call[c].uid}
  /\ call[c].pc \in {"subscription", "transaction", "recheck"} => owned # None
  /\ /\ call[c].pc \in {"transaction", "recheck", "record"}
     /\ call[c].uid \in alive
     => sub.uid = call[c].uid /\ sub.date >= call[c].version

ClaimsInv ==
  /\ TypeOK /\ LockInv /\ RowsAlive /\ (\A c \in Calls : CallOK(c))
  /\ RowsAgree /\ OwnersBought /\ RecordedMeansApplied

-----------------------------------------------------------------------------
(* The lock of the chain                                                   *)

OthersStay(c) == \A d \in Calls \ {c} : call'[d] = call[d]

LEMMA WithoutType ==
  ASSUME NEW q \in Seq(Calls), NEW c
  PROVE  Without(q, c) \in Seq(Calls)
BY DEF Without

\* A call that moves on without asking for the lock or giving it back.
LEMMA LockStays ==
  ASSUME TypeOK, LockInv, NEW c \in Calls, OthersStay(c), queue' = queue,
         call'[c].pc \in Waiting <=> call[c].pc \in Waiting,
         call'[c].pc \in Inside => queue[1] = c
  PROVE  LockInv'
<1>1. \A i \in 1..Len(queue) : queue[i] \in Calls
  BY DEF TypeOK
<1>2. \A d \in Calls : call'[d].pc \in Waiting <=> call[d].pc \in Waiting
  BY DEF OthersStay
<1>3. \A d \in Calls : call'[d].pc \in Inside => queue[1] = d
  BY DEF OthersStay, LockInv
<1> QED BY <1>1, <1>2, <1>3 DEF LockInv

LEMMA LockJoined ==
  ASSUME TypeOK, LockInv, NEW c \in Calls, OthersStay(c), queue' = Append(queue, c),
         call[c].pc \notin Waiting, call'[c].pc = "lock"
  PROVE  LockInv'
<1> DEFINE n == Len(queue)
<1>1. n \in Nat /\ \A i \in 1..n : queue[i] \in Calls /\ queue[i] # c
  BY DEF TypeOK, LockInv
<1>2. /\ Len(queue') = n + 1 /\ queue'[n + 1] = c
      /\ \A i \in 1..n : queue'[i] = queue[i]
  BY DEF TypeOK
<1>3. "lock" \in Waiting /\ "lock" \notin Inside /\ Inside \subseteq Waiting
  BY DEF Waiting, Inside
<1> HIDE DEF n
<1>4. \A i \in 1..(n + 1) : i \in 1..n \/ i = n + 1
  BY <1>1
<1>5. \A i, j \in 1..Len(queue') : queue'[i] = queue'[j] => i = j
  <2>1. \A i, j \in 1..n : queue[i] = queue[j] => i = j
    BY DEF LockInv, n
  <2> QED BY <1>1, <1>2, <1>4, <2>1
<1>6. \A i \in 1..Len(queue') : call'[queue'[i]].pc \in Waiting
  <2>1. \A i \in 1..n : call[queue[i]].pc \in Waiting
    BY DEF LockInv, n
  <2> QED BY <1>1, <1>2, <1>3, <1>4, <2>1 DEF OthersStay
<1>7. ASSUME NEW d \in Calls, call'[d].pc \in Waiting
      PROVE  \E i \in 1..Len(queue') : queue'[i] = d
  <2>1. CASE d = c
    BY <1>1, <1>2, <2>1
  <2>2. CASE d # c
    <3>1. PICK i \in 1..n : queue[i] = d
      BY <1>7, <2>2 DEF OthersStay, LockInv, n
    <3> QED BY <1>1, <1>2, <3>1
  <2> QED BY <2>1, <2>2
<1>8. ASSUME NEW d \in Calls, call'[d].pc \in Inside PROVE queue'[1] = d
  <2>1. d # c /\ call[d].pc \in Inside
    BY <1>3, <1>8 DEF OthersStay
  <2>2. queue[1] = d /\ \E i \in 1..n : queue[i] = d
    BY <1>3, <2>1 DEF LockInv, n
  <2> QED BY <1>1, <1>2, <2>2
<1> QED BY <1>5, <1>6, <1>7, <1>8 DEF LockInv

LEMMA LockLeft ==
  ASSUME TypeOK, LockInv, NEW c \in Calls, OthersStay(c), queue' = Without(queue, c),
         call[c].pc = "lock" => HoldsChain(c), call'[c].pc \notin Waiting
  PROVE  LockInv'
<1> DEFINE n == Len(queue)
<1>1. n \in Nat /\ \A i \in 1..n : queue[i] \in Calls
  BY DEF TypeOK
<1>2. queue # <<>> => n # 0 /\ Head(queue) = queue[1]
  BY DEF TypeOK
<1>3. Inside \subseteq Waiting /\ (\A p \in Waiting : p = "lock" \/ p \in Inside)
  BY DEF Waiting, Inside
<1>4. CASE queue # <<>> /\ Head(queue) = c
  <2>1. Len(queue') = n - 1 /\ \A i \in 1..(n - 1) : queue'[i] = queue[i + 1]
    BY <1>4 DEF Without, TypeOK
  <2>2. \A i \in 1..(n - 1) : queue[i + 1] # c /\ queue[i + 1] \in Calls
    BY <1>1, <1>2, <1>4 DEF LockInv
  <2>3. \A i, j \in 1..Len(queue') : queue'[i] = queue'[j] => i = j
    <3>1. \A i, j \in 1..n : queue[i] = queue[j] => i = j
      BY DEF LockInv
    <3> HIDE DEF n
    <3> QED BY <1>1, <2>1, <3>1
  <2>4. \A i \in 1..Len(queue') : call'[queue'[i]].pc \in Waiting
    <3>1. \A i \in 1..n : call[queue[i]].pc \in Waiting
      BY DEF LockInv
    <3> HIDE DEF n
    <3> QED BY <1>1, <2>1, <2>2, <3>1 DEF OthersStay
  <2>5. ASSUME NEW d \in Calls, call'[d].pc \in Waiting
        PROVE  \E i \in 1..Len(queue') : queue'[i] = d
    <3>1. d # c /\ call[d].pc \in Waiting
      BY <2>5 DEF OthersStay
    <3>2. PICK i \in 1..n : queue[i] = d
      BY <3>1 DEF LockInv
    <3>3. i # 1
      BY <1>2, <1>4, <3>1, <3>2
    <3>4. i - 1 \in 1..(n - 1) /\ queue'[i - 1] = d
      BY <1>1, <2>1, <3>2, <3>3
    <3> QED BY <2>1, <3>4
  <2>6. ASSUME NEW d \in Calls, call'[d].pc \in Inside PROVE FALSE
    <3>1. d # c /\ call[d].pc \in Inside
      BY <1>3, <2>6 DEF OthersStay
    <3> QED BY <1>2, <1>4, <3>1 DEF LockInv
  <2> QED BY <2>3, <2>4, <2>5, <2>6 DEF LockInv
<1>5. CASE ~ (queue # <<>> /\ Head(queue) = c)
  <2>1. queue' = queue
    BY <1>5 DEF Without
  <2>2. call[c].pc \notin Waiting
    <3> SUFFICES ASSUME call[c].pc \in Waiting PROVE FALSE
      OBVIOUS
    <3>1. queue # <<>>
      BY DEF LockInv, TypeOK
    <3> QED BY <1>2, <1>3, <1>5, <3>1 DEF LockInv, HoldsChain
  <2> QED BY <1>3, <2>1, <2>2, LockStays
<1> QED BY <1>4, <1>5

-----------------------------------------------------------------------------
(* Moves of one call                                                       *)

\* What every call step shares: its statements are of one call, and Apple and
\* the accounts do not move.
LEMMA EndsEffect ==
  ASSUME TypeOK, NEW c \in Calls, NEW o \in Outcomes, Ends(c, o)
  PROVE  /\ call' \in [Calls -> CallRecord] /\ OthersStay(c) /\ call'[c].pc = "done"
         /\ queue' = Without(queue, c) /\ queue' \in Seq(Calls)
         /\ uuidQueue' \in [Versions -> Seq(Calls)]
<1>1. "done" \in Labels
  BY DEF Labels
<1>2. call' \in [Calls -> CallRecord] /\ OthersStay(c) /\ call'[c].pc = "done"
  <2> DEFINE record == [call[c] EXCEPT !.pc = "done", !.outcome = o]
  <2>1. call \in [Calls -> CallRecord] /\ call' = [call EXCEPT ![c] = record]
    BY DEF Ends, TypeOK
  <2>2. record \in CallRecord /\ record.pc = "done"
    BY <1>1, <2>1 DEF CallRecord
  <2> HIDE DEF record
  <2> QED BY <2>1, <2>2 DEF OthersStay
<1>3. queue' = Without(queue, c) /\ queue' \in Seq(Calls)
  BY WithoutType DEF Ends, TypeOK
<1>4. uuidQueue' \in [Versions -> Seq(Calls)]
  BY WithoutType DEF Ends, TypeOK
<1> QED BY <1>2, <1>3, <1>4

LEMMA GotoEffect ==
  ASSUME TypeOK, NEW c \in Calls, NEW l \in Labels, Goto(c, l)
  PROVE  /\ call' \in [Calls -> CallRecord] /\ OthersStay(c) /\ call'[c].pc = l
         /\ call'[c].uid = call[c].uid /\ call'[c].version = call[c].version
BY DEF Goto, TypeOK, CallRecord, OthersStay

LEMMA StartedEffect ==
  ASSUME TypeOK, NEW c \in Calls, NEW kind \in {"verify", "refresh", "notification"},
         NEW u \in Users \cup {None}, NEW v \in 1..Len(store), NEW l \in Labels,
         call' = [call EXCEPT ![c] = Started(kind, u, v, l)]
  PROVE  /\ call' \in [Calls -> CallRecord] /\ OthersStay(c) /\ call'[c].pc = l
         /\ call'[c].uid = u /\ call'[c].version = v
<1>1. v \in 0..MaxVersion
  BY ClaimsAssumption DEF TypeOK, Versions
<1>2. Started(kind, u, v, l) \in CallRecord
  BY <1>1 DEF Started, CallRecord, Outcomes
<1> QED BY <1>2 DEF TypeOK, OthersStay, Started

LEMMA VersionType ==
  ASSUME TypeOK, NEW c \in Calls, call[c].version \in 1..Len(store)
  PROVE  call[c].version \in Versions /\ Token(c) \in Users /\ Txn(c) \in Versions
<1>1. store[call[c].version] \in [token : Users, txn : Versions]
  <2> DEFINE Version == [token : Users, txn : Versions]
             v == call[c].version
  <2>1. store \in Seq(Version) /\ v \in 1..Len(store)
    BY DEF TypeOK
  <2> HIDE DEF Version, v
  <2>2. store[v] \in Version
    BY <2>1
  <2> QED BY <2>2 DEF Version, v
<1>2. call[c].version \in Versions
  BY ClaimsAssumption DEF TypeOK, Versions
<1> QED BY <1>1, <1>2 DEF Token, Txn

\* What a call relies on survives the steps of the others.
LEMMA Bystander ==
  ASSUME ClaimsInv, NEW d \in Calls, call'[d] = call[d],
         Len(store) <= Len(store'), Len(store') \in Nat,
         \A v \in 1..Len(store) : store'[v] = store[v],
         released => released', alive' \subseteq alive, owned # None => owned' # None,
         \/ sub' = sub
         \/ sub.uid \notin alive' /\ sub' = Absent
         \/ /\ sub.uid # None /\ sub'.uid = sub.uid
            /\ sub'.date \in Nat /\ sub'.date >= sub.date
         \/ sub.uid = None /\ call[d].pc \notin Inside
  PROVE  CallOK(d)'
<1>1. /\ TypeOK /\ CallOK(d) /\ alive \subseteq Users /\ None \notin Users
      /\ Len(store) \in Nat /\ sub.date \in Nat /\ call[d].version \in Nat
  <2>1. TypeOK /\ CallOK(d) /\ alive \subseteq Users /\ None \notin Users
    BY ClaimsAssumption DEF ClaimsInv, TypeOK
  <2>2. Len(store) \in Nat /\ sub.date \in Nat
    BY <2>1, ClaimsAssumption DEF TypeOK, Row, Absent, Versions
  <2>3. call[d] \in CallRecord
    BY <2>1 DEF TypeOK
  <2>4. call[d].version \in Nat
    BY <2>3, ClaimsAssumption DEF CallRecord
  <2> QED BY <2>1, <2>2, <2>4
<1>2. Bought(call[d].uid) => Bought(call[d].uid)'
  BY <1>1 DEF Bought
<1>3. call'[d].pc \notin {"idle", "done"} => call'[d].version \in 1..Len(store')
  BY <1>1 DEF CallOK
<1>4. /\ call'[d].pc \in {"classify", "fetch", "verify"} \cup Waiting => call'[d].uid \in Users
      /\ call'[d].pc \in {"duplicate", "byChain", "byToken"} => call'[d].uid = None
      /\ call'[d].pc \in Waiting => released' \/ Bought(call[d].uid)'
      /\ call'[d].pc \in {"subscription", "transaction", "recheck"} => owned' # None
  BY <1>1, <1>2 DEF CallOK
<1>5. call'[d].pc \in {"ownership", "subscription"} => sub'.uid \in {None, call'[d].uid}
  BY <1>1 DEF CallOK, Inside, Waiting, Absent
<1>6. /\ call'[d].pc \in {"transaction", "recheck", "record"}
      /\ call'[d].uid \in alive'
      => sub'.uid = call'[d].uid /\ sub'.date >= call'[d].version
  <2> SUFFICES ASSUME call[d].pc \in {"transaction", "recheck", "record"}, call[d].uid \in alive'
               PROVE  sub'.uid = call[d].uid /\ sub'.date >= call[d].version
    OBVIOUS
  <2>1. sub.uid = call[d].uid /\ sub.date >= call[d].version /\ sub.uid # None
    BY <1>1 DEF CallOK
  <2> QED BY <1>1, <2>1
<1> QED BY <1>3, <1>4, <1>5, <1>6 DEF CallOK

\* A step of a call that leaves the tables alone.
LEMMA TablesStay ==
  ASSUME ClaimsInv, NEW c \in Calls, UNCHANGED <<store, alive, db, released>>,
         faults' \in 0..MaxFaults, call' \in [Calls -> CallRecord], OthersStay(c),
         queue' \in Seq(Calls), uuidQueue' \in [Versions -> Seq(Calls)],
         LockInv', CallOK(c)'
  PROVE  ClaimsInv'
<1>1. TypeOK'
  BY DEF ClaimsInv, TypeOK, db
<1>2. RowsAlive' /\ RowsAgree' /\ OwnersBought' /\ RecordedMeansApplied'
  BY DEF ClaimsInv, RowsAlive, RowsAgree, OwnersBought, RecordedMeansApplied, db
<1>3. ASSUME NEW d \in Calls PROVE CallOK(d)'
  <2>1. CASE d = c
    BY <2>1
  <2>2. CASE d # c
    <3>1. call'[d] = call[d] /\ sub' = sub /\ Len(store) \in Nat
      BY <2>2 DEF OthersStay, db, ClaimsInv, TypeOK, Versions
    <3> QED BY <3>1, Bystander DEF db
  <2> QED BY <2>1, <2>2
<1> QED BY <1>1, <1>2, <1>3 DEF ClaimsInv

\* A call that returns or throws here.
LEMMA EndsKeeps ==
  ASSUME ClaimsInv, NEW c \in Calls, NEW o \in Outcomes, Ends(c, o),
         call[c].pc = "lock" => HoldsChain(c),
         UNCHANGED <<store, alive, db, released>>, faults' \in 0..MaxFaults
  PROVE  ClaimsInv'
<1>1. /\ call' \in [Calls -> CallRecord] /\ OthersStay(c) /\ call'[c].pc = "done"
      /\ queue' = Without(queue, c) /\ queue' \in Seq(Calls)
      /\ uuidQueue' \in [Versions -> Seq(Calls)]
  BY EndsEffect DEF ClaimsInv
<1>2. LockInv'
  BY <1>1, LockLeft DEF ClaimsInv, Waiting
<1>3. CallOK(c)'
  BY <1>1 DEF CallOK, Waiting
<1> QED BY <1>1, <1>2, <1>3, TablesStay

\* A call that goes on without the lock, or with it.
LEMMA GoesOn ==
  ASSUME ClaimsInv, NEW c \in Calls, UNCHANGED <<store, alive, db, queue, released, faults>>,
         call' \in [Calls -> CallRecord], OthersStay(c), uuidQueue' \in [Versions -> Seq(Calls)],
         call'[c].pc \in Waiting <=> call[c].pc \in Waiting,
         call'[c].pc \in Inside => queue[1] = c, CallOK(c)'
  PROVE  ClaimsInv'
<1>1. LockInv'
  BY LockStays DEF ClaimsInv
<1> QED BY <1>1, TablesStay DEF ClaimsInv, TypeOK

-----------------------------------------------------------------------------
(* Steps that leave the tables alone                                       *)

\* A call that asks for the lock on behalf of an account entitled to it.
LEMMA Joins ==
  ASSUME ClaimsInv, NEW c \in Calls, UNCHANGED <<store, alive, db, released, faults, uuidQueue>>,
         call' \in [Calls -> CallRecord], OthersStay(c), queue' = Append(queue, c),
         call[c].pc \notin Waiting, call'[c].pc = "lock", call'[c].version \in 1..Len(store),
         call'[c].uid \in Users, released \/ Bought(call'[c].uid)
  PROVE  ClaimsInv'
<1>1. LockInv'
  BY LockJoined DEF ClaimsInv
<1>2. queue' \in Seq(Calls)
  BY DEF ClaimsInv, TypeOK
<1>3. CallOK(c)'
  <2>1. call'[c].pc = "lock" /\ Len(store') = Len(store)
    OBVIOUS
  <2>2. released' \/ \E v \in 1..Len(store') : store'[v].token = call'[c].uid
    BY DEF Bought
  <2> QED BY <2>1, <2>2 DEF CallOK, Bought
<1> QED BY <1>1, <1>2, <1>3, TablesStay DEF ClaimsInv, TypeOK

LEMMA StartStep ==
  ASSUME ClaimsInv, NEW c \in Calls, StartVerify(c) \/ StartRefresh(c) \/ Deliver(c)
  PROVE  ClaimsInv'
<1>1. TypeOK /\ alive \subseteq Users /\ 1 \in 1..Len(store) /\ call[c].pc = "idle"
  BY ClaimsAssumption DEF ClaimsInv, TypeOK, Versions, StartVerify, StartRefresh, Deliver
<1>2. CASE StartVerify(c)
  <2>1. PICK u \in Users, v \in 1..Len(store) :
          call' = [call EXCEPT ![c] = Started("verify", u, v, "classify")]
    BY <1>1, <1>2 DEF StartVerify
  <2>2. /\ call' \in [Calls -> CallRecord] /\ OthersStay(c) /\ call'[c].pc = "classify"
        /\ call'[c].uid = u /\ call'[c].version = v
    BY <1>1, <2>1, StartedEffect DEF Labels
  <2>3. UNCHANGED <<store, alive, db, queue, released, faults, uuidQueue>>
    BY <1>2 DEF StartVerify, locks
  <2>4. CallOK(c)'
    BY <2>2, <2>3 DEF CallOK, Waiting
  <2> QED BY <1>1, <2>2, <2>3, <2>4, GoesOn DEF Waiting, Inside, TypeOK
<1>3. CASE StartRefresh(c)
  <2>1. PICK u \in Users, v \in 1..Len(store), l \in Labels :
          /\ call' = [call EXCEPT ![c] = Started("refresh", u, v, l)]
          /\ l \in {"fetch", "done"}
    <3>1. "fetch" \in Labels /\ "done" \in Labels
      BY DEF Labels
    <3>2. PICK u \in Users :
            call' = [call EXCEPT ![c] = Started("refresh", u, 1,
                       IF sub.uid = u THEN "fetch" ELSE "done")]
      BY <1>1, <1>3 DEF StartRefresh
    <3> QED BY <1>1, <3>1, <3>2
  <2>2. /\ call' \in [Calls -> CallRecord] /\ OthersStay(c) /\ call'[c].pc = l
        /\ call'[c].uid = u /\ call'[c].version = v
    <3>1. call' = [call EXCEPT ![c] = Started("refresh", u, v, l)]
      BY <2>1
    <3> QED BY <1>1, <3>1, StartedEffect
  <2>3. UNCHANGED <<store, alive, db, queue, released, faults, uuidQueue>>
    BY <1>3 DEF StartRefresh, locks
  <2>4. CallOK(c)'
    BY <1>1, <2>1, <2>2, <2>3 DEF CallOK, Waiting
  <2> QED BY <1>1, <2>1, <2>2, <2>3, <2>4, GoesOn DEF Waiting, Inside, TypeOK
<1>4. CASE Deliver(c)
  <2>1. PICK v \in 1..Len(store) :
          /\ call' = [call EXCEPT ![c] = Started("notification", None, v, "duplicate")]
          /\ uuidQueue' = [uuidQueue EXCEPT ![v] = Append(@, c)]
    BY <1>4 DEF Deliver
  <2>2. /\ call' \in [Calls -> CallRecord] /\ OthersStay(c) /\ call'[c].pc = "duplicate"
        /\ call'[c].uid = None /\ call'[c].version = v
    BY <1>1, <2>1, StartedEffect DEF Labels
  <2>3. UNCHANGED <<store, alive, db, queue, released, faults>>
    BY <1>4 DEF Deliver
  <2>4. uuidQueue' \in [Versions -> Seq(Calls)]
    <3>1. v \in Versions
      BY <1>1, ClaimsAssumption DEF TypeOK, Versions
    <3>2. Append(uuidQueue[v], c) \in Seq(Calls)
      BY <1>1, <3>1 DEF TypeOK
    <3> QED BY <1>1, <2>1, <3>2 DEF TypeOK
  <2>5. CallOK(c)'
    BY <2>2, <2>3 DEF CallOK, Waiting
  <2> QED BY <1>1, <2>2, <2>3, <2>4, <2>5, GoesOn DEF Waiting, Inside
<1> QED BY <1>2, <1>3, <1>4

\* Before the lock: the claim, Apple's answer, who a notification is for.
LEMMA BeforeLock ==
  ASSUME ClaimsInv, NEW c \in Calls,
         \/ EvidenceRejected(c) \/ Classify(c) \/ Fetch(c) \/ VerifyStatus(c)
         \/ CheckDuplicate(c) \/ NotificationRejected(c) \/ FindByChain(c) \/ FindByToken(c)
  PROVE  ClaimsInv'
<1> DEFINE Before == {"classify", "fetch", "verify", "duplicate", "byChain", "byToken"}
<1>1. call[c].pc \in Before
  BY DEF EvidenceRejected, Classify, Fetch, VerifyStatus, CheckDuplicate, NotificationRejected,
         FindByChain, FindByToken
<1>2. UNCHANGED <<store, alive, db, released, faults>>
  BY DEF EvidenceRejected, Classify, Fetch, VerifyStatus, CheckDuplicate, NotificationRejected,
         FindByChain, FindByToken
<1>3. /\ TypeOK /\ faults' \in 0..MaxFaults /\ call[c].pc \notin Waiting /\ CallOK(c)
      /\ call[c].version \in 1..Len(store) /\ Before \cap Waiting = {}
      /\ Len(store) \in Nat \ {0} /\ call \in [Calls -> CallRecord] /\ alive \subseteq Users
  <2>1. TypeOK /\ CallOK(c) /\ call[c].pc \notin Waiting /\ Before \cap Waiting = {}
    BY <1>1 DEF ClaimsInv, Waiting
  <2>2. faults' \in 0..MaxFaults /\ Len(store) \in Nat \ {0} /\ alive \subseteq Users
        /\ call \in [Calls -> CallRecord]
    BY <1>2, <2>1, ClaimsAssumption DEF TypeOK, Versions
  <2> QED BY <1>1, <2>1, <2>2 DEF CallOK
<1>4. {"fetch", "verify", "lock", "byChain"} \subseteq Labels
  BY DEF Labels
<1>5. ASSUME NEW o \in Outcomes, Ends(c, o) PROVE ClaimsInv'
  BY <1>1, <1>2, <1>3, <1>5, EndsKeeps
<1>6. CASE EvidenceRejected(c) \/ NotificationRejected(c)
  BY <1>5, <1>6 DEF EvidenceRejected, NotificationRejected, Outcomes
<1>7. CASE Classify(c)
  <2>1. CASE Claim(c) \in {"conflict", "mismatch"}
    BY <1>5, <1>7, <2>1 DEF Classify, Outcomes
  <2>2. CASE Claim(c) \notin {"conflict", "mismatch"}
    <3>1. /\ call' = [call EXCEPT ![c].pc = "fetch", ![c].claim = Claim(c)]
          /\ UNCHANGED <<queue, uuidQueue>>
      BY <1>7, <2>2 DEF Classify, locks
    <3>2. Claim(c) \in {"owner", "adopt", "first_claim", "conflict", "mismatch"}
      BY DEF Claim
    <3>3. /\ call' \in [Calls -> CallRecord] /\ OthersStay(c) /\ call'[c].pc = "fetch"
          /\ call'[c].uid = call[c].uid /\ call'[c].version = call[c].version
      BY <1>3, <1>4, <3>1, <3>2 DEF CallRecord, OthersStay
    <3>4. CallOK(c)'
      BY <1>2, <1>3, <1>7, <3>3 DEF CallOK, Waiting, Classify
    <3> QED BY <1>2, <1>3, <3>1, <3>3, <3>4, GoesOn DEF Waiting, Inside, TypeOK
  <2> QED BY <2>1, <2>2
<1>8. CASE Fetch(c)
  <2>1. /\ call' = [call EXCEPT ![c].pc = "verify", ![c].version = Len(store)]
        /\ UNCHANGED <<queue, uuidQueue>>
    BY <1>8 DEF Fetch, locks
  <2>2. Len(store) \in 0..MaxVersion
    BY <1>3, ClaimsAssumption DEF TypeOK, Versions
  <2>3. /\ call' \in [Calls -> CallRecord] /\ OthersStay(c) /\ call'[c].pc = "verify"
        /\ call'[c].uid = call[c].uid /\ call'[c].version = Len(store)
    BY <1>3, <1>4, <2>1, <2>2 DEF CallRecord, OthersStay
  <2>4. CallOK(c)'
    BY <1>2, <1>3, <1>8, <2>3 DEF CallOK, Waiting, Fetch
  <2> QED BY <1>2, <1>3, <2>1, <2>3, <2>4, GoesOn DEF Waiting, Inside, TypeOK
<1>9. CASE VerifyStatus(c)
  <2>1. CASE ~ TokenMatches(c)
    BY <1>5, <1>9, <2>1 DEF VerifyStatus, Outcomes
  <2>2. CASE TokenMatches(c)
    <3>1. Goto(c, "lock") /\ queue' = Append(queue, c) /\ uuidQueue' = uuidQueue
      BY <1>9, <2>2 DEF VerifyStatus
    <3>2. /\ call' \in [Calls -> CallRecord] /\ OthersStay(c) /\ call'[c].pc = "lock"
          /\ call'[c].uid = call[c].uid /\ call'[c].version = call[c].version
      BY <1>3, <1>4, <3>1 DEF CallRecord, OthersStay, Goto
    <3>3. call[c].uid \in Users
      BY <1>3, <1>9 DEF CallOK, VerifyStatus
    <3>4. Bought(call'[c].uid)
      BY <1>3, <2>2, <3>2 DEF Bought, TokenMatches, Token
    <3> QED BY <1>2, <1>3, <3>1, <3>2, <3>3, <3>4, Joins
  <2> QED BY <2>1, <2>2
<1>10. CASE CheckDuplicate(c)
  <2>1. CASE recorded[call[c].version] # None
    BY <1>5, <1>10, <2>1 DEF CheckDuplicate, Outcomes
  <2>2. CASE recorded[call[c].version] = None
    <3>1. Goto(c, "byChain") /\ UNCHANGED <<queue, uuidQueue>>
      BY <1>10, <2>2 DEF CheckDuplicate, locks
    <3>2. /\ call' \in [Calls -> CallRecord] /\ OthersStay(c) /\ call'[c].pc = "byChain"
          /\ call'[c].uid = call[c].uid /\ call'[c].version = call[c].version
      BY <1>3, <3>1, GotoEffect DEF Labels
    <3>3. CallOK(c)'
      BY <1>2, <1>3, <1>10, <3>2 DEF CallOK, Waiting, CheckDuplicate
    <3> QED BY <1>2, <1>3, <3>1, <3>2, <3>3, GoesOn DEF Waiting, Inside, TypeOK
  <2> QED BY <2>1, <2>2
<1>11. ASSUME NEW u \in Users, Matched(c, u), released \/ Bought(u) PROVE ClaimsInv'
  <2>1. /\ call' = [call EXCEPT ![c].pc = "lock", ![c].uid = u]
        /\ queue' = Append(queue, c) /\ uuidQueue' = uuidQueue
    BY <1>11 DEF Matched
  <2>2. /\ call' \in [Calls -> CallRecord] /\ OthersStay(c) /\ call'[c].pc = "lock"
        /\ call'[c].uid = u /\ call'[c].version = call[c].version
    BY <1>3, <1>4, <2>1 DEF CallRecord, OthersStay
  <2> QED BY <1>2, <1>3, <1>11, <2>1, <2>2, Joins
<1>12. ASSUME NEW l \in {"byToken", "record"}, Goto(c, l), UNCHANGED <<queue, uuidQueue>>,
              call[c].pc \in {"byChain", "byToken"}
       PROVE  ClaimsInv'
  <2>1. /\ call' \in [Calls -> CallRecord] /\ OthersStay(c) /\ call'[c].pc = l
        /\ call'[c].uid = call[c].uid /\ call'[c].version = call[c].version
    BY <1>3, <1>12, GotoEffect DEF Labels
  <2>2. call[c].uid = None /\ None \notin alive
    BY <1>3, <1>12, ClaimsAssumption DEF CallOK
  <2>3. CallOK(c)'
    BY <1>2, <1>3, <1>12, <2>1, <2>2 DEF CallOK, Waiting
  <2> QED BY <1>2, <1>3, <1>12, <2>1, <2>3, GoesOn DEF Waiting, Inside, TypeOK
<1>13. CASE FindByChain(c)
  <2>1. sub.uid # None => sub.uid \in Users /\ (released \/ Bought(sub.uid))
    BY <1>3 DEF TypeOK, Row, Absent, ClaimsInv, OwnersBought, Bought
  <2> QED BY <1>11, <1>12, <1>13, <2>1 DEF FindByChain, locks
<1>14. CASE FindByToken(c)
  <2>1. Token(c) \in alive => Token(c) \in Users /\ Bought(Token(c))
    BY <1>3 DEF Bought, Token
  <2> QED BY <1>11, <1>12, <1>14, <2>1 DEF FindByToken, locks
<1> QED BY <1>6, <1>7, <1>8, <1>9, <1>10, <1>13, <1>14

-----------------------------------------------------------------------------
(* Steps under the lock                                                    *)

\* Nobody else is inside.
LEMMA OneInside ==
  ASSUME ClaimsInv, NEW c \in Calls, NEW d \in Calls,
         call[c].pc \in Inside, call[d].pc \in Inside
  PROVE  c = d
BY DEF ClaimsInv, LockInv

LEMMA InsideIsFirst ==
  ASSUME ClaimsInv, NEW c \in Calls, call[c].pc \in Inside
  PROVE  queue[1] = c /\ call[c].pc \in Waiting
BY DEF ClaimsInv, LockInv, Inside

\* A call that goes on to its next statement, holding the lock.
LEMMA Proceeds ==
  ASSUME ClaimsInv, NEW c \in Calls, NEW l \in Inside, Goto(c, l), UNCHANGED queue,
         call[c].pc \in Waiting, queue[1] = c
  PROVE  /\ call' \in [Calls -> CallRecord] /\ OthersStay(c) /\ call'[c].pc = l
         /\ call'[c].uid = call[c].uid /\ call'[c].version = call[c].version
         /\ LockInv'
<1>1. l \in Labels /\ l \in Waiting
  BY DEF Inside, Waiting, Labels
<1>2. /\ call' \in [Calls -> CallRecord] /\ OthersStay(c) /\ call'[c].pc = l
      /\ call'[c].uid = call[c].uid /\ call'[c].version = call[c].version
  BY <1>1, GotoEffect DEF ClaimsInv
<1>3. LockInv'
  BY <1>1, <1>2, LockStays DEF ClaimsInv
<1> QED BY <1>2, <1>3

LEMMA AssertStep ==
  ASSUME ClaimsInv, NEW c \in Calls, AssertOwnership(c)
  PROVE  ClaimsInv'
<1>1. /\ TypeOK /\ CallOK(c) /\ call[c].pc = "lock" /\ HoldsChain(c)
      /\ UNCHANGED <<store, alive, db, released, faults>> /\ faults' \in 0..MaxFaults
  BY DEF AssertOwnership, ClaimsInv, TypeOK
<1>2. CASE OwnedByAnother(c)
  <2>1. "conflict" \in Outcomes /\ Ends(c, "conflict")
    BY <1>2 DEF AssertOwnership, Outcomes
  <2> QED BY <1>1, <2>1, EndsKeeps
<1>3. CASE ~ OwnedByAnother(c)
  <2>1. Goto(c, "ownership") /\ UNCHANGED <<queue, uuidQueue>> /\ "ownership" \in Inside
    BY <1>3 DEF AssertOwnership, locks, Inside, Waiting
  <2>2. /\ call' \in [Calls -> CallRecord] /\ OthersStay(c) /\ call'[c].pc = "ownership"
        /\ call'[c].uid = call[c].uid /\ call'[c].version = call[c].version
        /\ LockInv'
    <3>1. call[c].pc \in Waiting /\ queue # <<>>
      BY <1>1 DEF ClaimsInv, LockInv, Waiting, TypeOK
    <3>2. queue[1] = c
      BY <1>1, <3>1 DEF HoldsChain, TypeOK
    <3> QED BY <2>1, <3>1, <3>2, Proceeds
  <2>3. sub'.uid \in {None, call'[c].uid}
    BY <1>1, <1>3, <2>2 DEF OwnedByAnother, db
  <2>4. CallOK(c)'
    BY <1>1, <2>2, <2>3 DEF CallOK, Bought, Waiting
  <2> QED BY <1>1, <2>1, <2>2, <2>4, TablesStay DEF TypeOK
<1> QED BY <1>2, <1>3

LEMMA OwnershipStep ==
  ASSUME ClaimsInv, NEW c \in Calls, UpsertOwnership(c)
  PROVE  ClaimsInv' /\ (owned' = owned \/ (owned = None /\ owned' \in Users))
<1>1. /\ TypeOK /\ CallOK(c) /\ call[c].pc = "ownership"
      /\ UNCHANGED <<store, alive, sub, txRow, recorded, released, faults>>
      /\ faults' \in 0..MaxFaults
  BY DEF UpsertOwnership, ClaimsInv, TypeOK
<1>2. CASE Ends(c, "conflict") /\ UNCHANGED owned
  <2>1. "conflict" \in Outcomes
    BY DEF Outcomes
  <2> QED BY <1>1, <1>2, <2>1, EndsKeeps DEF db
<1>3. CASE owned' = Provenance(c) /\ Goto(c, "subscription") /\ UNCHANGED locks
  <2>1. "subscription" \in Inside /\ "ownership" \in Inside /\ UNCHANGED <<queue, uuidQueue>>
    BY <1>3 DEF locks, Inside, Waiting
  <2>2. /\ call' \in [Calls -> CallRecord] /\ OthersStay(c) /\ call'[c].pc = "subscription"
        /\ call'[c].uid = call[c].uid /\ call'[c].version = call[c].version
        /\ LockInv'
    <3>1. queue[1] = c /\ call[c].pc \in Waiting
      BY <1>1, <2>1, InsideIsFirst
    <3> QED BY <1>3, <2>1, <3>1, Proceeds
  <2>3. Token(c) \in Users /\ None \notin Users
    BY <1>1, VersionType, ClaimsAssumption DEF CallOK
  <2>4. (owned' = owned \/ (owned = None /\ owned' \in Users)) /\ owned' # None
    BY <1>1, <1>3, <2>3 DEF Provenance, TypeOK
  <2>5. TypeOK'
    BY <1>1, <2>1, <2>2, <2>4 DEF TypeOK
  <2>6. RowsAlive' /\ RowsAgree' /\ OwnersBought' /\ RecordedMeansApplied'
    BY <1>1 DEF ClaimsInv, RowsAlive, RowsAgree, OwnersBought, RecordedMeansApplied
  <2>7. ASSUME NEW d \in Calls PROVE CallOK(d)'
    <3>1. CASE d = c
      BY <1>1, <2>2, <2>4, <3>1 DEF CallOK, Bought, Waiting
    <3>2. CASE d # c
      <4>1. call'[d] = call[d] /\ Len(store') \in Nat
        BY <1>1, <2>2, <3>2 DEF OthersStay, TypeOK, Versions
      <4> QED BY <1>1, <2>4, <4>1, Bystander
    <3> QED BY <3>1, <3>2
  <2> QED BY <2>2, <2>4, <2>5, <2>6, <2>7 DEF ClaimsInv
<1> QED BY <1>2, <1>3 DEF UpsertOwnership

\* What an upsert makes of a row.
LEMMA UpsertedRow ==
  ASSUME TypeOK, NEW c \in Calls, NEW row \in Row,
         call[c].uid \in Users, call[c].version \in Versions
  PROVE  /\ Upserted(row, c) \in Row
         /\ row = Absent => Upserted(row, c) = [uid |-> call[c].uid, date |-> call[c].version]
         /\ row # Absent => /\ Upserted(row, c).uid = row.uid
                            /\ Upserted(row, c).date >= row.date
                            /\ row.uid = call[c].uid =>
                                 Upserted(row, c).date >= call[c].version
         /\ (row = Absent) <=> (row.uid = None)
<1>1. row = Absent \/ row \in [uid : Users, date : Versions]
  BY DEF Row
<1>2. (row = Absent) <=> (row.uid = None)
  BY <1>1, ClaimsAssumption DEF Absent
<1>3. row.date \in Nat /\ call[c].version \in Nat
  BY <1>1, ClaimsAssumption DEF Absent, Versions
<1> QED BY <1>1, <1>2, <1>3 DEF Upserted, Row

LEMMA SubscriptionStep ==
  ASSUME ClaimsInv, NEW c \in Calls, UpsertSubscription(c)
  PROVE  /\ ClaimsInv'
         /\ sub'.uid = sub.uid \/ (sub.uid = None /\ owned # None /\ sub'.uid \in Users)
<1>1. /\ TypeOK /\ CallOK(c) /\ call[c].pc = "subscription"
      /\ UNCHANGED <<store, alive, owned, txRow, recorded, released, faults>>
      /\ faults' \in 0..MaxFaults
  BY DEF UpsertSubscription, ClaimsInv, TypeOK
<1>2. CASE RefersToNobody(sub, c)
  <2>1. "error" \in Outcomes /\ Ends(c, "error") /\ UNCHANGED sub
    BY <1>2 DEF UpsertSubscription, Outcomes
  <2> QED BY <1>1, <2>1, EndsKeeps DEF db
<1>3. CASE ~ RefersToNobody(sub, c)
  <2>1. /\ sub' = Upserted(sub, c) /\ Goto(c, "transaction") /\ UNCHANGED <<queue, uuidQueue>>
        /\ "subscription" \in Inside /\ "transaction" \in Inside
    BY <1>3 DEF UpsertSubscription, locks, Inside, Waiting
  <2>2. /\ call' \in [Calls -> CallRecord] /\ OthersStay(c) /\ call'[c].pc = "transaction"
        /\ call'[c].uid = call[c].uid /\ call'[c].version = call[c].version
        /\ LockInv'
    <3>1. queue[1] = c /\ call[c].pc \in Waiting
      BY <1>1, <2>1, InsideIsFirst
    <3> QED BY <2>1, <3>1, Proceeds
  <2>3. /\ call[c].uid \in Users /\ None \notin Users /\ owned # None
        /\ sub.uid \in {None, call[c].uid} /\ (released \/ Bought(call[c].uid))
        /\ call[c].version \in Versions /\ sub \in Row
    BY <1>1, VersionType, ClaimsAssumption DEF CallOK, Waiting, TypeOK
  <2>4. /\ sub' \in Row /\ sub'.uid = call[c].uid /\ sub'.date >= call[c].version
        /\ sub.uid = None => call[c].uid \in alive
        /\ sub.uid # None => sub'.date >= sub.date
        /\ call[c].version \in Nat /\ sub.date \in Nat /\ sub'.date \in Nat
    <3>1. call[c].version \in Nat /\ \A row \in Row : row.date \in Nat
      BY <2>3, ClaimsAssumption DEF Versions, Row, Absent
    <3>2. sub' \in Row
      BY <2>1, <2>3, UpsertedRow, <1>1
    <3>3. CASE sub.uid = None
      BY <1>1, <1>3, <2>1, <2>3, <3>1, <3>2, <3>3, UpsertedRow DEF RefersToNobody
    <3>4. CASE sub.uid # None
      BY <1>1, <2>1, <2>3, <3>1, <3>2, <3>4, UpsertedRow
    <3> QED BY <3>3, <3>4
  <2>5. TypeOK'
    BY <1>1, <2>1, <2>2, <2>4 DEF TypeOK
  <2>6. RowsAlive'
    BY <1>1, <2>3, <2>4 DEF ClaimsInv, RowsAlive
  <2>7. RowsAgree'
    <3> SUFFICES ASSUME NEW t \in Versions, txRow[t] # Absent PROVE sub'.uid = txRow[t].uid
      BY <1>1 DEF RowsAgree
    <3>1. sub.uid = txRow[t].uid /\ txRow[t] \in Row
      BY <1>1 DEF ClaimsInv, RowsAgree, TypeOK
    <3>2. txRow[t].uid # None
      BY <1>1, <2>3, <3>1, UpsertedRow
    <3> QED BY <2>3, <2>4, <3>1, <3>2
  <2>8. OwnersBought'
    BY <1>1, <2>3, <2>4 DEF OwnersBought, Bought
  <2>9. RecordedMeansApplied'
    <3> SUFFICES ASSUME NEW v \in Versions, recorded[v] \in Users
                 PROVE  sub'.uid = recorded[v] /\ sub'.date >= v
      BY <1>1 DEF RecordedMeansApplied
    <3>1. sub.uid = recorded[v] /\ sub.date >= v /\ v \in Nat
      BY ClaimsAssumption DEF ClaimsInv, RecordedMeansApplied, Versions
    <3> QED BY <2>3, <2>4, <3>1
  <2>10. ASSUME NEW d \in Calls PROVE CallOK(d)'
    <3>1. CASE d = c
      BY <1>1, <2>2, <2>3, <2>4, <3>1 DEF CallOK, Bought, Waiting
    <3>2. CASE d # c
      <4>1. call'[d] = call[d] /\ Len(store') \in Nat
        BY <1>1, <2>2, <3>2 DEF OthersStay, TypeOK, Versions
      <4>2. call[d].pc \notin Inside
        BY <1>1, <2>1, <3>2, OneInside
      <4> QED BY <1>1, <2>3, <2>4, <4>1, <4>2, Bystander
    <3> QED BY <3>1, <3>2
  <2> QED BY <2>2, <2>3, <2>4, <2>5, <2>6, <2>7, <2>8, <2>9, <2>10 DEF ClaimsInv
<1> QED BY <1>2, <1>3

LEMMA TransactionStep ==
  ASSUME ClaimsInv, NEW c \in Calls, UpsertTransaction(c)
  PROVE  ClaimsInv'
<1> DEFINE t == Txn(c)
<1>1. /\ TypeOK /\ CallOK(c) /\ call[c].pc = "transaction"
      /\ UNCHANGED <<store, alive, owned, sub, recorded, released, faults>>
      /\ faults' \in 0..MaxFaults
  BY DEF UpsertTransaction, ClaimsInv, TypeOK
<1>2. /\ call[c].uid \in Users /\ None \notin Users /\ call[c].version \in Versions
      /\ t \in Versions /\ txRow[t] \in Row
  BY <1>1, VersionType, ClaimsAssumption DEF CallOK, Waiting, TypeOK
<1>3. CASE RefersToNobody(txRow[t], c)
  <2>1. "error" \in Outcomes /\ Ends(c, "error") /\ UNCHANGED txRow
    BY <1>3 DEF UpsertTransaction, Outcomes
  <2> QED BY <1>1, <2>1, EndsKeeps DEF db
<1>4. CASE ~ RefersToNobody(txRow[t], c)
  <2>1. /\ txRow' = [txRow EXCEPT ![t] = Upserted(txRow[t], c)]
        /\ Goto(c, "recheck") /\ UNCHANGED <<queue, uuidQueue>>
        /\ "transaction" \in Inside /\ "recheck" \in Inside
    BY <1>4 DEF UpsertTransaction, locks, Inside, Waiting
  <2> HIDE DEF t
  <2>2. /\ call' \in [Calls -> CallRecord] /\ OthersStay(c) /\ call'[c].pc = "recheck"
        /\ call'[c].uid = call[c].uid /\ call'[c].version = call[c].version
        /\ LockInv'
    <3>1. queue[1] = c /\ call[c].pc \in Waiting
      BY <1>1, <2>1, InsideIsFirst
    <3> QED BY <2>1, <3>1, Proceeds
  <2>3. txRow'[t] = Upserted(txRow[t], c) /\ txRow'[t] \in Row
    BY <1>1, <1>2, <2>1, UpsertedRow DEF TypeOK
  <2>4. \/ txRow[t] = Absent /\ txRow'[t].uid = call[c].uid /\ call[c].uid \in alive
        \/ txRow[t] # Absent /\ txRow'[t].uid = txRow[t].uid
    <3>1. CASE txRow[t] = Absent
      BY <1>1, <1>2, <1>4, <2>3, <3>1, UpsertedRow DEF RefersToNobody, t
    <3>2. CASE txRow[t] # Absent
      BY <1>1, <1>2, <2>3, <3>2, UpsertedRow
    <3> QED BY <3>1, <3>2
  <2>5. TypeOK'
    BY <1>1, <2>1, <2>2, <2>3 DEF TypeOK
  <2>6. RowsAlive'
    BY <1>1, <1>2, <2>1, <2>4 DEF ClaimsInv, RowsAlive, TypeOK
  <2>7. RowsAgree'
    <3> SUFFICES ASSUME NEW s \in Versions, txRow'[s] # Absent PROVE sub.uid = txRow'[s].uid
      BY <1>1 DEF RowsAgree
    <3>1. CASE s = t
      BY <1>1, <1>2, <2>4, <3>1 DEF CallOK, ClaimsInv, RowsAgree
    <3>2. CASE s # t
      BY <1>1, <2>1, <3>2 DEF ClaimsInv, RowsAgree, TypeOK
    <3> QED BY <3>1, <3>2
  <2>8. OwnersBought' /\ RecordedMeansApplied'
    BY <1>1 DEF ClaimsInv, OwnersBought, RecordedMeansApplied
  <2>9. ASSUME NEW d \in Calls PROVE CallOK(d)'
    <3>1. CASE d = c
      BY <1>1, <2>2, <3>1 DEF CallOK, Bought, Waiting
    <3>2. CASE d # c
      <4>1. call'[d] = call[d] /\ Len(store') \in Nat
        BY <1>1, <2>2, <3>2 DEF OthersStay, TypeOK, Versions
      <4> QED BY <1>1, <4>1, Bystander
    <3> QED BY <3>1, <3>2
  <2> QED BY <2>2, <2>5, <2>6, <2>7, <2>8, <2>9 DEF ClaimsInv
<1> QED BY <1>3, <1>4

LEMMA RecheckStep ==
  ASSUME ClaimsInv, NEW c \in Calls, Recheck(c)
  PROVE  ClaimsInv'
<1>1. /\ TypeOK /\ CallOK(c) /\ call[c].pc = "recheck"
      /\ UNCHANGED <<store, alive, db, released, faults>> /\ faults' \in 0..MaxFaults
  BY DEF Recheck, ClaimsInv, TypeOK
<1>2. ASSUME NEW o \in Outcomes, Ends(c, o) PROVE ClaimsInv'
  BY <1>1, <1>2, EndsKeeps
<1>3. CASE OwnedByAnother(c) \/ call[c].kind # "notification"
  BY <1>2, <1>3 DEF Recheck, Saved, Outcomes
<1>4. CASE ~ OwnedByAnother(c) /\ call[c].kind = "notification"
  <2>1. Goto(c, "record") /\ queue' = Without(queue, c) /\ uuidQueue' = uuidQueue
    BY <1>4 DEF Recheck, Saved
  <2>2. /\ call' \in [Calls -> CallRecord] /\ OthersStay(c) /\ call'[c].pc = "record"
        /\ call'[c].uid = call[c].uid /\ call'[c].version = call[c].version
    <3>1. "record" \in Labels
      BY DEF Labels
    <3> QED BY <1>1, <2>1, <3>1, GotoEffect
  <2>3. queue' \in Seq(Calls)
    BY <1>1, <2>1, WithoutType DEF TypeOK
  <2>4. LockInv'
    BY <1>1, <2>1, <2>2, LockLeft DEF ClaimsInv, Waiting
  <2>5. CallOK(c)'
    BY <1>1, <2>2 DEF CallOK, Waiting, db
  <2> QED BY <1>1, <2>1, <2>2, <2>3, <2>4, <2>5, TablesStay DEF TypeOK
<1> QED BY <1>3, <1>4

LEMMA RecordStep ==
  ASSUME ClaimsInv, NEW c \in Calls, Record(c)
  PROVE  ClaimsInv'
<1> DEFINE v == call[c].version
           u == call[c].uid
<1>1. /\ TypeOK /\ CallOK(c) /\ call[c].pc = "record"
      /\ UNCHANGED <<store, alive, owned, sub, txRow, released, faults>>
      /\ faults' \in 0..MaxFaults
  BY DEF Record, ClaimsInv, TypeOK
<1>2. "error" \in Outcomes /\ "recorded" \in Outcomes
  BY DEF Outcomes
<1>3. CASE Ends(c, "error") /\ UNCHANGED recorded
  BY <1>1, <1>2, <1>3, EndsKeeps DEF db
<1>4. CASE /\ u = None \/ u \in alive
           /\ recorded' = [recorded EXCEPT ![v] =
                IF @ # None THEN @ ELSE IF u = None THEN "nobody" ELSE u]
           /\ Ends(c, "recorded")
  <2>1. /\ call' \in [Calls -> CallRecord] /\ OthersStay(c) /\ call'[c].pc = "done"
        /\ queue' = Without(queue, c) /\ queue' \in Seq(Calls)
        /\ uuidQueue' \in [Versions -> Seq(Calls)]
    BY <1>1, <1>2, <1>4, EndsEffect
  <2>2. LockInv'
    BY <1>1, <2>1, LockLeft DEF ClaimsInv, Waiting
  <2>3. recorded' \in [Versions -> Users \cup {None, "nobody"}]
    BY <1>1, <1>4 DEF TypeOK
  <2>4. TypeOK'
    BY <1>1, <2>1, <2>3 DEF TypeOK
  <2>5. RowsAlive' /\ RowsAgree' /\ OwnersBought'
    BY <1>1 DEF ClaimsInv, RowsAlive, RowsAgree, OwnersBought
  <2>6. RecordedMeansApplied'
    <3> SUFFICES ASSUME NEW w \in Versions, recorded'[w] \in Users
                 PROVE  sub.uid = recorded'[w] /\ sub.date >= w
      BY <1>1 DEF RecordedMeansApplied
    <3>1. CASE recorded'[w] = recorded[w]
      BY <3>1 DEF ClaimsInv, RecordedMeansApplied
    <3>2. CASE recorded'[w] # recorded[w]
      <4>1. w = v /\ recorded'[w] = IF u = None THEN "nobody" ELSE u
        BY <1>1, <1>4, <3>2 DEF TypeOK
      <4>2. u \in alive /\ recorded'[w] = u
        BY <1>4, <4>1, ClaimsAssumption
      <4> QED BY <1>1, <4>1, <4>2 DEF CallOK
    <3> QED BY <3>1, <3>2
  <2>7. ASSUME NEW d \in Calls PROVE CallOK(d)'
    <3>1. CASE d = c
      BY <2>1, <3>1 DEF CallOK, Waiting
    <3>2. CASE d # c
      <4>1. call'[d] = call[d] /\ Len(store') \in Nat
        BY <1>1, <2>1, <3>2 DEF OthersStay, TypeOK, Versions
      <4> QED BY <1>1, <4>1, Bystander
    <3> QED BY <3>1, <3>2
  <2> QED BY <2>2, <2>4, <2>5, <2>6, <2>7 DEF ClaimsInv
<1> QED BY <1>3, <1>4 DEF Record

LEMMA FailsStep ==
  ASSUME ClaimsInv, NEW c \in Calls, Fails(c)
  PROVE  ClaimsInv'
<1>1. "error" \in Outcomes
  BY DEF Outcomes
<1>2. faults' \in 0..MaxFaults
  BY ClaimsAssumption DEF Fails, ClaimsInv, TypeOK
<1> QED BY <1>1, <1>2, EndsKeeps DEF Fails

-----------------------------------------------------------------------------
(* Apple, the accounts and a crash                                         *)

LEMMA StoreStep == ASSUME ClaimsInv, StoreChanges PROVE ClaimsInv'
<1> DEFINE Version == [token : Users, txn : Versions]
<1>1. /\ TypeOK /\ Len(store) < MaxVersion /\ UNCHANGED <<alive, db, locks, call, released, faults>>
      /\ Len(store) \in Nat \ {0} /\ store \in Seq(Version)
  BY ClaimsAssumption DEF ClaimsInv, TypeOK, StoreChanges, Versions
<1>2. PICK x \in Version : store' = Append(store, x)
  <2>1. store[Len(store)] \in Version
    <3> HIDE DEF Version
    <3> QED BY <1>1
  <2>2. \A u \in Users : [token |-> u, txn |-> Len(store) + 1] \in Version
    BY <1>1, ClaimsAssumption DEF Versions
  <2> QED BY <2>1, <2>2 DEF StoreChanges
<1>3. /\ store' \in Seq(Version) /\ Len(store') = Len(store) + 1
      /\ \A v \in 1..Len(store) : store'[v] = store[v]
  <2> HIDE DEF Version
  <2> QED BY <1>1, <1>2
<1>4. TypeOK'
  <2>1. Len(store') \in Versions
    BY <1>1, <1>3, ClaimsAssumption DEF Versions
  <2> QED BY <1>1, <1>3, <2>1 DEF TypeOK, db, locks
<1>5. LockInv' /\ RowsAlive' /\ RowsAgree' /\ RecordedMeansApplied'
  BY <1>1 DEF ClaimsInv, LockInv, RowsAlive, RowsAgree, RecordedMeansApplied, db, locks
<1>6. OwnersBought'
  BY <1>1, <1>3 DEF ClaimsInv, OwnersBought, db
<1>7. \A d \in Calls : CallOK(d)'
  BY <1>1, <1>3, Bystander DEF db
<1> QED BY <1>4, <1>5, <1>6, <1>7 DEF ClaimsInv

LEMMA DeleteStep ==
  ASSUME ClaimsInv, NEW u \in Users, DeleteAccount(u)
  PROVE  ClaimsInv' /\ sub'.uid \in {sub.uid, None}
<1>1. /\ TypeOK /\ alive' = alive \ {u} /\ UNCHANGED <<store, owned, locks, call, faults>>
      /\ sub' = IF sub.uid = u THEN Absent ELSE sub
      /\ \A t \in Versions : txRow'[t] = IF txRow[t].uid = u THEN Absent ELSE txRow[t]
      /\ \A v \in Versions : recorded'[v] = IF recorded[v] = u THEN "nobody" ELSE recorded[v]
      /\ released' = (released \/ sub.uid = u)
  BY DEF ClaimsInv, DeleteAccount
<1>2. TypeOK'
  BY <1>1 DEF TypeOK, DeleteAccount, Row, Absent, locks
<1>3. LockInv'
  BY <1>1 DEF ClaimsInv, LockInv, locks
<1>4. RowsAlive'
  BY <1>1 DEF ClaimsInv, RowsAlive, Absent
<1>5. RowsAgree'
  BY <1>1 DEF ClaimsInv, RowsAgree
<1>6. OwnersBought'
  BY <1>1 DEF ClaimsInv, OwnersBought
<1>7. RecordedMeansApplied'
  BY <1>1, ClaimsAssumption DEF ClaimsInv, RecordedMeansApplied
<1>8. \A d \in Calls : CallOK(d)'
  <2>1. Len(store) \in Nat
    BY <1>1, ClaimsAssumption DEF TypeOK, Versions
  <2>2. store' = store /\ owned' = owned /\ call' = call /\ alive' \subseteq alive
        /\ (released => released') /\ (sub' = sub \/ (sub.uid \notin alive' /\ sub' = Absent))
    BY <1>1
  <2> SUFFICES ASSUME NEW d \in Calls PROVE CallOK(d)'
    OBVIOUS
  <2> QED BY <2>1, <2>2, Bystander
<1> QED BY <1>1, <1>2, <1>3, <1>4, <1>5, <1>6, <1>7, <1>8 DEF ClaimsInv, Absent

LEMMA CrashStep == ASSUME ClaimsInv, Crash PROVE ClaimsInv'
<1>1. /\ TypeOK /\ UNCHANGED <<store, alive, db, released>> /\ queue' = <<>>
      /\ faults' \in 0..MaxFaults /\ uuidQueue' \in [Versions -> Seq(Calls)]
  <2>1. faults \in 0..MaxFaults /\ TypeOK
    BY DEF ClaimsInv, TypeOK
  <2>2. /\ UNCHANGED <<store, alive, db, released>> /\ queue' = <<>>
        /\ uuidQueue' = [v \in Versions |-> <<>>]
        /\ faults < MaxFaults /\ faults' = faults + 1
    BY DEF Crash
  <2>3. faults' \in 0..MaxFaults
    BY <2>1, <2>2, ClaimsAssumption
  <2>4. <<>> \in Seq(Calls)
    OBVIOUS
  <2> QED BY <2>1, <2>2, <2>3, <2>4
<1>2. \A d \in Calls : call'[d] \in CallRecord /\ call'[d].pc \in {"idle", "done"}
  <2> SUFFICES ASSUME NEW d \in Calls
               PROVE  call'[d] \in CallRecord /\ call'[d].pc \in {"idle", "done"}
    OBVIOUS
  <2>1. call[d] \in CallRecord /\ "done" \in Labels /\ "lost" \in Outcomes
    BY <1>1 DEF TypeOK, Labels, Outcomes
  <2>2. call'[d] = IF call[d].pc \in {"idle", "done"} THEN call[d]
                   ELSE [call[d] EXCEPT !.pc = "done", !.outcome = "lost"]
    BY DEF Crash
  <2> QED BY <2>1, <2>2 DEF CallRecord
<1>3. call' \in [Calls -> CallRecord]
  BY <1>2 DEF Crash
<1>4. TypeOK'
  BY <1>1, <1>3 DEF TypeOK, db
<1>5. LockInv'
  BY <1>1, <1>2 DEF LockInv, Waiting, Inside
<1>6. \A d \in Calls : CallOK(d)'
  BY <1>2 DEF CallOK, Waiting
<1>7. RowsAlive' /\ RowsAgree' /\ OwnersBought' /\ RecordedMeansApplied'
  BY <1>1 DEF ClaimsInv, RowsAlive, RowsAgree, OwnersBought, RecordedMeansApplied, db
<1> QED BY <1>4, <1>5, <1>6, <1>7 DEF ClaimsInv

-----------------------------------------------------------------------------
(* Theorems                                                                *)

LEMMA ClaimsInitially == Init => ClaimsInv
<1> SUFFICES ASSUME Init PROVE ClaimsInv
  OBVIOUS
<1>1. /\ sub = Absent /\ owned = None /\ queue = <<>> /\ alive = Users
      /\ \A t \in Versions : txRow[t] = Absent
      /\ \A v \in Versions : recorded[v] = None
      /\ \A c \in Calls : call[c].pc = "idle"
  BY DEF Init, Started
<1>2. TypeOK
  <2>1. call \in [Calls -> CallRecord]
    BY ClaimsAssumption DEF Init, Started, CallRecord, Labels, Outcomes
  <2>2. store \in Seq([token : Users, txn : Versions]) /\ Len(store) \in Versions
    BY ClaimsAssumption DEF Init, Versions
  <2>3. queue \in Seq(Calls) /\ uuidQueue \in [Versions -> Seq(Calls)]
    <3>1. <<>> \in Seq(Calls)
      OBVIOUS
    <3> QED BY <3>1 DEF Init
  <2>4. sub \in Row /\ txRow \in [Versions -> Row]
    BY DEF Init, Row
  <2>5. recorded \in [Versions -> Users \cup {None, "nobody"}] /\ faults \in 0..MaxFaults
    BY ClaimsAssumption DEF Init
  <2> QED BY <1>1, <2>1, <2>2, <2>3, <2>4, <2>5 DEF Init, TypeOK
<1>3. LockInv
  BY <1>1 DEF LockInv, Waiting, Inside
<1>4. RowsAlive /\ RowsAgree /\ OwnersBought /\ RecordedMeansApplied
  BY <1>1, ClaimsAssumption DEF RowsAlive, RowsAgree, OwnersBought, RecordedMeansApplied, Absent
<1>5. \A c \in Calls : CallOK(c)
  BY <1>1 DEF CallOK, Waiting
<1> QED BY <1>2, <1>3, <1>4, <1>5 DEF ClaimsInv

\* Every step keeps the invariant and is a step of the register, or none.
LEMMA ClaimsStep ==
  ClaimsInv /\ [Next]_vars => ClaimsInv' /\ [Register!Next]_<<sub.uid, owned>>
<1> SUFFICES ASSUME ClaimsInv, [Next]_vars
             PROVE  ClaimsInv' /\ [Register!Next]_<<sub.uid, owned>>
  OBVIOUS
<1> USE DEF Register!Next, Register!Originate, Register!Bind, Register!Release
<1>1. CASE StoreChanges
  BY <1>1, StoreStep DEF StoreChanges, db
<1>2. CASE Crash
  BY <1>2, CrashStep DEF Crash, db
<1>3. ASSUME NEW u \in Users, DeleteAccount(u)
      PROVE  ClaimsInv' /\ [Register!Next]_<<sub.uid, owned>>
  BY <1>3, DeleteStep DEF DeleteAccount
<1>4. ASSUME NEW c \in Calls, StartVerify(c) \/ StartRefresh(c) \/ Deliver(c)
      PROVE  ClaimsInv' /\ [Register!Next]_<<sub.uid, owned>>
  <2>1. UNCHANGED <<sub, owned>>
    BY <1>4 DEF StartVerify, StartRefresh, Deliver, db
  <2> QED BY <1>4, <2>1, StartStep
<1>5. ASSUME NEW c \in Calls, Fails(c)
      PROVE  ClaimsInv' /\ [Register!Next]_<<sub.uid, owned>>
  BY <1>5, FailsStep DEF Fails, db
<1>6. ASSUME NEW c \in Calls, CallStep(c)
      PROVE  ClaimsInv' /\ [Register!Next]_<<sub.uid, owned>>
  <2>1. CASE UpsertOwnership(c)
    <3>1. UNCHANGED sub
      BY <2>1 DEF UpsertOwnership
    <3> QED BY <2>1, <3>1, OwnershipStep
  <2>2. CASE UpsertSubscription(c)
    <3>1. UNCHANGED owned
      BY <2>2 DEF UpsertSubscription
    <3> QED BY <2>2, <3>1, SubscriptionStep
  <2>3. CASE UpsertTransaction(c)
    BY <2>3, TransactionStep DEF UpsertTransaction
  <2>4. CASE Record(c)
    BY <2>4, RecordStep DEF Record
  <2>5. CASE AssertOwnership(c)
    BY <2>5, AssertStep DEF AssertOwnership, db
  <2>6. CASE Recheck(c)
    BY <2>6, RecheckStep DEF Recheck, db
  <2>7. CASE \/ EvidenceRejected(c) \/ Classify(c) \/ Fetch(c) \/ VerifyStatus(c)
             \/ CheckDuplicate(c) \/ NotificationRejected(c) \/ FindByChain(c) \/ FindByToken(c)
    <3>1. UNCHANGED <<sub, owned>>
      BY <2>7 DEF EvidenceRejected, Classify, Fetch, VerifyStatus, CheckDuplicate,
                  NotificationRejected, FindByChain, FindByToken, db
    <3> QED BY <2>7, <3>1, BeforeLock
  <2> QED BY <1>6, <2>1, <2>2, <2>3, <2>4, <2>5, <2>6, <2>7 DEF CallStep
<1>7. CASE UNCHANGED vars
  <2>1. ClaimsInv'
    BY <1>7 DEF vars, db, locks, ClaimsInv, TypeOK, LockInv, RowsAlive, CallOK, Bought,
                RowsAgree, OwnersBought, RecordedMeansApplied
  <2> QED BY <1>7, <2>1 DEF vars, db
<1> QED BY <1>1, <1>2, <1>3, <1>4, <1>5, <1>6, <1>7 DEF Next

\* The rows of the four tables and the calls of appleSubscriptionService.js
\* keep their shape.
THEOREM ClaimsTypeCorrect == Spec => []TypeOK
<1>1. ClaimsInv => TypeOK
  BY DEF ClaimsInv
<1> QED BY <1>1, ClaimsInitially, ClaimsStep, PTL DEF Spec

\* A call of saveVerifiedAppleState that loses the race leaves no row of its
\* own behind.
THEOREM RowsAlwaysAgree == Spec => []RowsAgree
<1>1. ClaimsInv => RowsAgree
  BY DEF ClaimsInv
<1> QED BY <1>1, ClaimsInitially, ClaimsStep, PTL DEF Spec

\* No path through the claim rules of classifyAppleChainClaim and the webhook
\* gives a chain to an account that did not buy it while its owner lives.
THEOREM OwnersAlwaysBought == Spec => []OwnersBought
<1>1. ClaimsInv => OwnersBought
  BY DEF ClaimsInv
<1> QED BY <1>1, ClaimsInitially, ClaimsStep, PTL DEF Spec

\* A notification on record for an account is never undone, in whatever order
\* deliveries and client requests come.
THEOREM RecordedIsApplied == Spec => []RecordedMeansApplied
<1>1. ClaimsInv => RecordedMeansApplied
  BY DEF ClaimsInv
<1> QED BY <1>1, ClaimsInitially, ClaimsStep, PTL DEF Spec

\* The tables, the locks and the calls implement the abstract register.
THEOREM RegisterImplemented == Spec => ImplementsRegister
<1>1. Init => Register!Init
  BY DEF Init, Register!Init, Absent
<1> QED BY <1>1, ClaimsInitially, ClaimsStep, PTL DEF Spec, ImplementsRegister, Register!Spec
=============================================================================
