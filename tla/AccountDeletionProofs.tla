------------------------ MODULE AccountDeletionProofs ------------------------
(***************************************************************************)
(* Machine-checked proofs about AccountDeletion, for any requests, any     *)
(* tables, any number of faults and any order of events.                   *)
(***************************************************************************)
EXTENDS AccountDeletion, TLAPS

HoldingLabels == Advancing \cup {"creating", "exchanging", "saving"}
RequestLabels == {"locked", "checking", "flushing", "refusing"}
Labels == HoldingLabels \cup RequestLabels \cup
          {"idle", "verifying", "waiting", "resuming", "done"}

\* The shape of the state.
DeletionType ==
  /\ tomb \in TombRecord \cup {NoTomb}
  /\ rows \subseteq Tables \cup Unguarded
  /\ credential \in BOOLEAN
  /\ firebase \in BOOLEAN /\ provider \in BOOLEAN /\ authorized \in BOOLEAN
  /\ pc \in [Procs -> Labels]
  /\ table \in [Procs -> 1..Len(PurgeOrder)]
  /\ linked \in [Deletes -> BOOLEAN]
  /\ closed \in [Statuses -> BOOLEAN]
  /\ faults \in Nat

\* A request that has the lock, and one that has it or waits for it. The
\* response of a status request gives the lock up when its client leaves.
Holds(p) ==
  \/ pc[p] \in HoldingLabels
  \/ pc[p] \in RequestLabels /\ ~ (p \in Statuses /\ closed[p])
Holders == {p \in Procs : Holds(p)}
Wanting == {p \in Procs : Holds(p) \/ pc[p] \in {"waiting", "resuming"}}

\* A queue that lists the members of W once each, those of H at its head.
Line(q, W, H) ==
  /\ q \in Seq(Procs)
  /\ H \subseteq W /\ W \subseteq Procs
  /\ \A i, j \in 1..Len(q) : q[i] = q[j] => i = j
  /\ \A i \in 1..Len(q) : q[i] \in W
  /\ \A p \in W : \E i \in 1..Len(q) : q[i] = p
  /\ \A p \in H : q[1] = p

LockInv == Line(queue, Wanting, Holders)

\* What a request relies on where it stands.
RequestOK(p) ==
  /\ pc[p] \in Advancing => Processing
  /\ pc[p] \in {"creating", "exchanging", "saving"} => tomb = NoTomb
  /\ pc[p] \in {"appleRevoked", "appleRetry", "appleManual"} => tomb.apple = "pending"
  /\ pc[p] = "appleRevoked" => ~ authorized
  /\ pc[p] = "firebaseMark" => ~ firebase
  /\ pc[p] = "purging" => \A i \in 1..(table[p] - 1) : PurgeOrder[i] \notin rows
  /\ pc[p] = "localMark" => rows \cap Tables = {} /\ ~ credential
  /\ p \in Statuses /\ pc[p] \in {"checking", "flushing"} /\ ~ closed[p] => tomb = NoTomb

\* What the tombstone says is true.
TombTrue ==
  /\ tomb # NoTomb =>
       /\ tomb.apple = "pending" <=> tomb.cred
       /\ tomb.firebase = "deleted" => ~ firebase
       /\ tomb.apple \in {"revoked", "not_linked"} => ~ authorized
       /\ tomb.status = "complete" => Completable
  /\ tomb = NoTomb /\ authorized => credential

DeletionInv ==
  /\ DeletionType /\ LockInv /\ TombTrue /\ NothingComesBack
  /\ \A p \in Procs : RequestOK(p)

-----------------------------------------------------------------------------
(* The lock                                                                *)

LEMMA LineJoin ==
  ASSUME NEW q, NEW W, NEW H, Line(q, W, H), NEW p \in Procs \ W
  PROVE  Line(Append(q, p), W \cup {p}, H)
<1> DEFINE n == Len(q)
           r == Append(q, p)
<1>1. n \in Nat /\ r \in Seq(Procs) /\ Len(r) = n + 1 /\ r[n + 1] = p
      /\ \A i \in 1..n : r[i] = q[i] /\ q[i] # p
  BY DEF Line
<1>2. \A i \in 1..(n + 1) : i \in 1..n \/ i = n + 1
  BY <1>1
<1>3. /\ \A i, j \in 1..n : q[i] = q[j] => i = j
      /\ \A i \in 1..n : q[i] \in W
      /\ \A w \in W : \E i \in 1..n : q[i] = w
      /\ \A h \in H : q[1] = h
      /\ H \subseteq W /\ W \subseteq Procs
  BY DEF Line
<1> HIDE DEF n, r
<1>4. \A i, j \in 1..(n + 1) : r[i] = r[j] => i = j
  BY <1>1, <1>2, <1>3
<1>5. \A i \in 1..(n + 1) : r[i] \in W \cup {p}
  BY <1>1, <1>2, <1>3
<1>6. \A w \in W \cup {p} : \E i \in 1..(n + 1) : r[i] = w
  BY <1>1, <1>2, <1>3
<1>7. ASSUME NEW h \in H PROVE r[1] = h
  <2>1. 1 \in 1..n /\ q[1] = h
    BY <1>1, <1>3
  <2> QED BY <1>1, <2>1
<1>8. Line(r, W \cup {p}, H)
  BY <1>1, <1>3, <1>4, <1>5, <1>6, <1>7 DEF Line
<1> QED BY <1>8 DEF r

LEMMA LineLeave ==
  ASSUME NEW q, NEW W, NEW H, Line(q, W, H), NEW p \in Procs,
         p \in W => q # <<>> /\ Head(q) = p
  PROVE  Line(IF q # <<>> /\ Head(q) = p THEN Tail(q) ELSE q, W \ {p}, H \ {p})
<1> DEFINE n == Len(q)
<1>1. n \in Nat /\ q \in Seq(Procs)
      /\ (q # <<>> => n # 0 /\ Head(q) = q[1])
  BY DEF Line
<1>2. /\ \A i, j \in 1..n : q[i] = q[j] => i = j
      /\ \A i \in 1..n : q[i] \in W
      /\ \A w \in W : \E i \in 1..n : q[i] = w
      /\ \A h \in H : q[1] = h
      /\ H \subseteq W /\ W \subseteq Procs
  BY DEF Line
<1>3. CASE q # <<>> /\ Head(q) = p
  <2> DEFINE r == Tail(q)
  <2>1. r \in Seq(Procs) /\ Len(r) = n - 1 /\ \A i \in 1..(n - 1) : r[i] = q[i + 1]
    BY <1>1, <1>3
  <2> HIDE DEF n, r
  <2>2. q[1] = p /\ n - 1 \in Nat
    BY <1>1, <1>3
  <2>3. \A i \in 1..(n - 1) : q[i + 1] \in W \ {p}
    BY <1>1, <1>2, <2>2
  <2>4. \A i, j \in 1..(n - 1) : r[i] = r[j] => i = j
    BY <1>1, <1>2, <2>1
  <2>5. ASSUME NEW w \in W \ {p} PROVE \E i \in 1..(n - 1) : r[i] = w
    <3>1. PICK i \in 1..n : q[i] = w
      BY <1>2
    <3>2. i # 1
      BY <2>2, <3>1
    <3>3. i - 1 \in 1..(n - 1) /\ r[i - 1] = w
      BY <1>1, <2>1, <3>1, <3>2
    <3> QED BY <3>3
  <2>6. H \ {p} = {}
    BY <1>2, <2>2
  <2>7. Line(r, W \ {p}, H \ {p})
    <3>1. \A i \in 1..Len(r) : r[i] \in W \ {p}
      BY <2>1, <2>3
    <3>2. \A i, j \in 1..Len(r) : r[i] = r[j] => i = j
      BY <2>1, <2>4
    <3>3. \A w \in W \ {p} : \E i \in 1..Len(r) : r[i] = w
      BY <2>1, <2>5
    <3>4. W \ {p} \subseteq Procs
      BY <1>2
    <3> QED BY <2>1, <2>6, <3>1, <3>2, <3>3, <3>4 DEF Line
  <2> QED BY <1>3, <2>7 DEF r
<1>4. CASE ~ (q # <<>> /\ Head(q) = p)
  <2>1. p \notin W /\ p \notin H
    BY <1>2, <1>4
  <2>2. W \ {p} = W /\ H \ {p} = H
    BY <2>1
  <2> QED BY <1>4, <2>2
<1> QED BY <1>3, <1>4

OthersStay(p) ==
  /\ \A q \in Procs \ {p} : pc'[q] = pc[q]
  /\ \A q \in Statuses \ {p} : closed'[q] = closed[q]

LEMMA OthersHold ==
  ASSUME NEW p \in Procs, OthersStay(p)
  PROVE  Holders' \ {p} = Holders \ {p} /\ Wanting' \ {p} = Wanting \ {p}
<1>1. \A q \in Procs \ {p} : Holds(q)' <=> Holds(q)
  BY DEF OthersStay, Holds
<1> QED BY <1>1 DEF OthersStay, Holders, Wanting

\* The holder owns the lock, and is the only one.
LEMMA HolderOwns ==
  ASSUME LockInv, NEW p \in Holders
  PROVE  /\ Owns(p) /\ p \in Procs /\ p \in Wanting
         /\ \A q \in Holders : q = p
<1>1. queue \in Seq(Procs) /\ p \in Wanting /\ queue[1] = p /\ \A q \in Holders : queue[1] = q
  BY DEF LockInv, Line
<1>2. queue # <<>>
  BY <1>1 DEF LockInv, Line
<1> QED BY <1>1, <1>2 DEF Owns, Holders

LEMMA LockStays ==
  ASSUME LockInv, NEW p \in Procs, OthersStay(p), queue' = queue,
         p \in Wanting' <=> p \in Wanting,
         p \in Holders' => Owns(p)
  PROVE  LockInv'
<1>1. Wanting' = Wanting
  BY OthersHold
<1>2. \A h \in Holders' : h \in Holders \/ h = p
  BY OthersHold
<1>3. queue \in Seq(Procs)
  BY DEF LockInv, Line
<1>4. \A h \in Holders' : queue[1] = h
  BY <1>2, <1>3 DEF LockInv, Line, Owns
<1>5. Holders' \subseteq Wanting' /\ Wanting' \subseteq Procs
  BY DEF Holders, Wanting
<1> QED BY <1>1, <1>4, <1>5 DEF LockInv, Line

LEMMA LockJoined ==
  ASSUME LockInv, NEW p \in Procs, OthersStay(p), queue' = Append(queue, p),
         p \notin Wanting, p \in Wanting', p \notin Holders'
  PROVE  LockInv'
<1>1. p \notin Holders
  BY DEF Holders, Wanting
<1>2. Wanting' \ {p} = Wanting \ {p} /\ Holders' \ {p} = Holders \ {p}
  BY OthersHold
<1>3. Wanting' = Wanting \cup {p}
  BY <1>2
<1>4. Holders' = Holders
  <2>1. \A h : h \in Holders' \ {p} <=> h \in Holders \ {p}
    BY <1>2
  <2> QED BY <1>1, <2>1
<1> QED BY <1>3, <1>4, LineJoin DEF LockInv

LEMMA LockLeft ==
  ASSUME LockInv, NEW p \in Procs, OthersStay(p), queue' = Released(p),
         p \in Wanting => Owns(p), p \notin Wanting'
  PROVE  LockInv'
<1>1. p \notin Holders'
  BY DEF Holders, Wanting
<1>2. Wanting' = Wanting \ {p} /\ Holders' = Holders \ {p}
  BY <1>1, OthersHold
<1> QED BY <1>2, LineLeave DEF LockInv, Released, Owns

LEMMA LockRequeued ==
  ASSUME LockInv, NEW p \in Procs, OthersStay(p), queue' = Append(Released(p), p),
         p \in Wanting => Owns(p), p \in Wanting', p \notin Holders'
  PROVE  LockInv'
<1>1. Line(Released(p), Wanting \ {p}, Holders \ {p})
  BY LineLeave DEF LockInv, Released, Owns
<1>2. Line(queue', (Wanting \ {p}) \cup {p}, Holders \ {p})
  BY <1>1, LineJoin
<1>3. Wanting' = (Wanting \ {p}) \cup {p} /\ Holders' = Holders \ {p}
  BY OthersHold
<1> QED BY <1>2, <1>3 DEF LockInv

-----------------------------------------------------------------------------
(* What others rely on                                                     *)

\* Who does not have the lock relies on nothing.
LEMMA Vacuous ==
  ASSUME NEW q \in Procs
  PROVE  (q \notin Holders => RequestOK(q)) /\ (q \notin Holders' => RequestOK(q)')
<1>1. q \notin Holders => RequestOK(q)
  BY DEF RequestOK, Holders, Holds, HoldingLabels, RequestLabels, Advancing
<1>2. q \notin Holders' => RequestOK(q)'
  BY DEF RequestOK, Holders, Holds, HoldingLabels, RequestLabels, Advancing
<1> QED BY <1>1, <1>2

\* The holder changes what it likes.
LEMMA HolderActs ==
  ASSUME DeletionInv, NEW p \in Holders, OthersStay(p), LockInv', DeletionType', TombTrue',
         NothingComesBack', RequestOK(p)'
  PROVE  DeletionInv'
<1>1. p \in Procs /\ \A q \in Holders : q = p
  BY HolderOwns DEF DeletionInv
<1>2. ASSUME NEW q \in Procs PROVE RequestOK(q)'
  <2>1. CASE q = p
    BY <2>1
  <2>2. CASE q # p
    <3>1. q \notin Holders'
      BY <1>1, <2>2, OthersHold
    <3> QED BY <3>1, Vacuous
  <2> QED BY <2>1, <2>2
<1> QED BY <1>2 DEF DeletionInv

data == <<tomb, rows, credential, external, table>>

\* Anybody may move as long as the data stay.
LEMMA DataStay ==
  ASSUME DeletionInv, NEW p \in Procs, OthersStay(p), UNCHANGED data,
         pc' \in [Procs -> Labels], linked' \in [Deletes -> BOOLEAN],
         closed' \in [Statuses -> BOOLEAN], faults' \in Nat, LockInv', RequestOK(p)'
  PROVE  DeletionInv'
<1>1. UNCHANGED <<tomb, rows, credential, firebase, provider, authorized, table>>
  BY DEF data, external
<1>2. DeletionType'
  BY <1>1 DEF DeletionInv, DeletionType
<1>3. TombTrue' /\ NothingComesBack'
  BY <1>1 DEF DeletionInv, TombTrue, NothingComesBack, Completable
<1>4. ASSUME NEW q \in Procs PROVE RequestOK(q)'
  <2>1. CASE q = p
    BY <2>1
  <2>2. CASE q # p
    <3>1. pc'[q] = pc[q] /\ (q \in Statuses => closed'[q] = closed[q]) /\ RequestOK(q)
      BY <2>2 DEF OthersStay, DeletionInv
    <3> QED BY <1>1, <3>1 DEF RequestOK, Processing
  <2> QED BY <2>1, <2>2
<1> QED BY <1>2, <1>3, <1>4 DEF DeletionInv

-----------------------------------------------------------------------------
(* Steps that leave the account alone                                      *)

LEMMA GotoEffect ==
  ASSUME DeletionType, NEW p \in Procs, NEW l \in Labels, Goto(p, l)
  PROVE  /\ pc' \in [Procs -> Labels] /\ pc'[p] = l
         /\ \A q \in Procs \ {p} : pc'[q] = pc[q]
BY DEF Goto, DeletionType

LEMMA WantingOwns ==
  ASSUME LockInv, NEW p \in Procs, pc[p] \notin {"waiting", "resuming"}, p \in Wanting
  PROVE  p \in Holders /\ Owns(p)
<1>1. p \in Holders
  BY DEF Holders, Wanting
<1> QED BY <1>1, HolderOwns

\* The process types a label may have, where they matter.
LEMMA LabelSets ==
  /\ {"idle", "done"} \subseteq Labels
  /\ {"idle", "done", "verifying"} \cap (HoldingLabels \cup RequestLabels \cup {"waiting", "resuming"}) = {}
  /\ {"waiting", "resuming"} \cap (HoldingLabels \cup RequestLabels) = {}
  /\ HoldingLabels \cap RequestLabels = {}
BY DEF Labels, HoldingLabels, RequestLabels, Advancing

LEMMA FinishKeeps ==
  ASSUME DeletionInv, NEW p \in Procs, Finish(p), p \in Wanting => Owns(p),
         UNCHANGED <<data, linked, closed>>, faults' \in Nat
  PROVE  DeletionInv'
<1>1. PICK l \in {"idle", "done"} : Goto(p, l)
  BY DEF Finish
<1>2. /\ pc' \in [Procs -> Labels] /\ pc'[p] = l /\ l \in {"idle", "done"}
      /\ OthersStay(p)
  BY <1>1, GotoEffect, LabelSets DEF DeletionInv, OthersStay
<1>3. p \notin Wanting'
  BY <1>2, LabelSets DEF Wanting, Holds
<1>4. LockInv'
  BY <1>2, <1>3, LockLeft DEF DeletionInv, Finish
<1>5. RequestOK(p)'
  BY <1>3, Vacuous DEF Wanting, Holders
<1> QED BY <1>2, <1>4, <1>5, DataStay DEF DeletionInv, DeletionType

LEMMA MoveKeeps ==
  ASSUME DeletionInv, NEW p \in Procs, NEW l \in Labels, Goto(p, l), queue' = queue,
         p \in Wanting' <=> p \in Wanting, p \in Holders' => Owns(p),
         UNCHANGED <<data, linked, closed>>, faults' \in Nat, RequestOK(p)'
  PROVE  DeletionInv'
<1>1. pc' \in [Procs -> Labels] /\ OthersStay(p)
  BY GotoEffect DEF DeletionInv, OthersStay
<1>2. LockInv'
  BY <1>1, LockStays DEF DeletionInv
<1> QED BY <1>1, <1>2, DataStay DEF DeletionInv, DeletionType

LEMMA JoinKeeps ==
  ASSUME DeletionInv, NEW p \in Procs, NEW l \in {"waiting", "resuming"}, Goto(p, l),
         \/ p \notin Wanting /\ queue' = Append(queue, p)
         \/ (p \in Wanting => Owns(p)) /\ queue' = Append(Released(p), p),
         UNCHANGED <<data, closed>>, linked' \in [Deletes -> BOOLEAN], faults' \in Nat
  PROVE  DeletionInv'
<1>1. l \in Labels
  BY DEF Labels
<1>2. pc' \in [Procs -> Labels] /\ pc'[p] = l /\ OthersStay(p)
  BY <1>1, GotoEffect DEF DeletionInv, OthersStay
<1>3. p \in Wanting' /\ p \notin Holders'
  BY <1>2, LabelSets DEF Wanting, Holders, Holds
<1>4. LockInv'
  BY <1>2, <1>3, LockJoined, LockRequeued DEF DeletionInv
<1>5. RequestOK(p)'
  BY <1>3, Vacuous
<1> QED BY <1>2, <1>4, <1>5, DataStay DEF DeletionInv, DeletionType

LEMMA ArrivalStep ==
  ASSUME DeletionInv, NEW p \in Procs,
         \/ p \in Deletes /\ (DeleteArrives(p) \/ DeleteVerified(p))
         \/ StatusArrives(p) \/ LinkArrives(p) \/ WorkerLists(p)
  PROVE  DeletionInv'
<1>1. /\ DeletionType /\ UNCHANGED <<data, closed, faults>> /\ faults' \in Nat
      /\ pc[p] \in {"idle", "verifying"} /\ p \notin Wanting
  <2>1. UNCHANGED <<data, closed, faults>> /\ pc[p] \in {"idle", "verifying"}
    BY DEF DeleteArrives, DeleteVerified, StatusArrives, LinkArrives, WorkerLists, data
  <2>2. p \notin Wanting
    BY <2>1, LabelSets DEF Wanting, Holds
  <2> QED BY <2>1, <2>2 DEF DeletionInv, DeletionType
<1>2. ASSUME NEW l \in {"waiting", "resuming"}, Goto(p, l), Enqueue(p),
             linked' \in [Deletes -> BOOLEAN]
      PROVE  DeletionInv'
  BY <1>1, <1>2, JoinKeeps DEF Enqueue
<1>3. ASSUME NEW l \in {"verifying", "done"}, Goto(p, l), UNCHANGED <<queue, linked>>
      PROVE  DeletionInv'
  <2>1. l \in Labels
    BY DEF Labels
  <2>2. pc'[p] = l
    BY <1>1, <1>3, <2>1, GotoEffect
  <2>3. p \notin Wanting' /\ p \notin Holders'
    BY <2>2, LabelSets DEF Wanting, Holders, Holds
  <2> QED BY <1>1, <1>3, <2>1, <2>3, Vacuous, MoveKeeps
<1>4. CASE p \in Deletes /\ DeleteArrives(p)
  <2>1. CASE tomb = NoTomb
    BY <1>3, <1>4, <2>1 DEF DeleteArrives
  <2>2. CASE tomb # NoTomb
    <3>1. linked' \in [Deletes -> BOOLEAN]
      BY <1>1, <1>4, <2>2 DEF DeleteArrives, DeletionType, TombRecord
    <3> QED BY <1>2, <1>4, <2>2, <3>1 DEF DeleteArrives
  <2> QED BY <2>1, <2>2
<1>5. CASE p \in Deletes /\ DeleteVerified(p)
  <2>1. CASE Goto(p, "done") /\ UNCHANGED <<queue, linked>>
    BY <1>3, <2>1
  <2>2. CASE /\ firebase \/ tomb # NoTomb
             /\ linked' = [linked EXCEPT ![p] = IF firebase THEN provider ELSE tomb.linked]
             /\ Enqueue(p)
             /\ Goto(p, "waiting")
    <3>1. linked' \in [Deletes -> BOOLEAN]
      BY <1>1, <2>2 DEF DeletionType, TombRecord
    <3> QED BY <1>2, <2>2, <3>1
  <2> QED BY <1>5, <2>1, <2>2 DEF DeleteVerified
<1>6. CASE StatusArrives(p) \/ LinkArrives(p) \/ WorkerLists(p)
  <2>1. linked' \in [Deletes -> BOOLEAN]
    BY <1>1, <1>6 DEF StatusArrives, LinkArrives, WorkerLists, DeletionType
  <2> QED BY <1>2, <1>6, <2>1 DEF StatusArrives, LinkArrives, WorkerLists
<1> QED BY <1>4, <1>5, <1>6

\* The lock is granted.
LEMMA GrantStep ==
  ASSUME DeletionInv, NEW p \in Procs, Acquire(p) \/ Resume(p)
  PROVE  DeletionInv'
<1>1. /\ DeletionType /\ UNCHANGED <<data, linked, closed, faults>> /\ faults' \in Nat
      /\ pc[p] \in {"waiting", "resuming"} /\ Owns(p) /\ p \in Wanting
  <2>1. UNCHANGED <<data, linked, closed, faults>> /\ pc[p] \in {"waiting", "resuming"} /\ Owns(p)
    BY DEF Acquire, Resume, data
  <2> QED BY <2>1 DEF DeletionInv, DeletionType, Wanting
<1>2. CASE Finish(p)
  BY <1>1, <1>2, FinishKeeps
<1>3. ASSUME NEW l \in Labels, Goto(p, l), UNCHANGED queue,
             \/ l = "locked" /\ ~ (p \in Statuses /\ closed[p])
             \/ l = "apple" /\ Processing
      PROVE  DeletionInv'
  <2>1. pc'[p] = l /\ UNCHANGED <<closed, tomb>>
    BY <1>1, <1>3, GotoEffect DEF data
  <2>2. p \in Wanting'
    BY <1>3, <2>1 DEF Wanting, Holds, HoldingLabels, RequestLabels, Advancing
  <2>3. RequestOK(p)'
    BY <1>3, <2>1 DEF RequestOK, Advancing, Processing
  <2> QED BY <1>1, <1>3, <2>2, <2>3, MoveKeeps
<1>4. "locked" \in Labels /\ "apple" \in Labels
  BY DEF Labels, RequestLabels, HoldingLabels, Advancing
<1> QED BY <1>2, <1>3, <1>4 DEF Acquire, Resume

\* A request that has the lock, as long as its response does, goes on.
LEMMA GoesOn ==
  ASSUME DeletionInv, NEW p \in Procs, NEW l \in HoldingLabels \cup RequestLabels,
         Goto(p, l), UNCHANGED queue, UNCHANGED <<data, linked, closed>>, faults' \in Nat,
         pc[p] \in HoldingLabels \cup RequestLabels,
         \/ pc[p] \in RequestLabels /\ (l \in RequestLabels \/ p \notin Statuses)
         \/ pc[p] \in HoldingLabels /\ l \in HoldingLabels,
         RequestOK(p)'
  PROVE  DeletionInv'
<1>1. l \in Labels /\ pc'[p] = l /\ closed' = closed
  <2>1. l \in Labels
    BY DEF Labels
  <2> QED BY <2>1, GotoEffect DEF DeletionInv
<1>2. Holds(p)' <=> Holds(p)
  BY <1>1, LabelSets DEF Holds
<1>3. p \in Wanting' <=> p \in Wanting
  BY <1>1, <1>2, LabelSets DEF Wanting
<1>4. p \in Holders' => Owns(p)
  BY <1>2, HolderOwns DEF Holders, DeletionInv
<1> QED BY <1>1, <1>3, <1>4, MoveKeeps

LEMMA RequestStep ==
  ASSUME DeletionInv, NEW p \in Procs,
         \/ p \notin Statuses /\ (DeleteReads(p) \/ LinkReads(p) \/ LinkExchanges(p))
         \/ p \in Statuses /\ (StatusReads(p) \/ StatusAnswers(p) \/ StatusRaced(p) \/ Flush(p))
         \/ PurgeEnds(p) \/ Throws(p)
         \/ p \in Statuses /\ StatusThrows(p)
  PROVE  DeletionInv'
<1>1. /\ UNCHANGED <<data, linked, closed>>
      /\ pc[p] \in HoldingLabels \cup RequestLabels \/ (pc[p] = "resuming" /\ Owns(p))
      /\ faults' = faults \/ faults' = faults + 1
  <2>1. UNCHANGED <<data, linked, closed>>
    BY DEF DeleteReads, LinkReads, LinkExchanges, StatusReads, StatusAnswers, StatusRaced, Flush,
           PurgeEnds, Throws, StatusThrows, data
  <2>2. pc[p] \in HoldingLabels \cup RequestLabels \/ (pc[p] = "resuming" /\ Owns(p))
    <3>1. \/ pc[p] \in {"locked", "checking", "flushing", "refusing", "exchanging", "purging"}
          \/ Throws(p)
      BY DEF DeleteReads, LinkReads, LinkExchanges, StatusReads, StatusAnswers, StatusRaced,
             Flush, PurgeEnds, StatusThrows
    <3>2. CASE Throws(p)
      BY <3>2 DEF Throws, HoldingLabels, RequestLabels, Advancing
    <3> QED BY <3>1, <3>2 DEF HoldingLabels, RequestLabels, Advancing
  <2>3. faults' = faults \/ faults' = faults + 1
    BY DEF DeleteReads, LinkReads, LinkExchanges, StatusReads, StatusAnswers, StatusRaced, Flush,
           PurgeEnds, Throws, StatusThrows, Fault
  <2> QED BY <2>1, <2>2, <2>3
<1>2. /\ DeletionType /\ LockInv /\ RequestOK(p) /\ faults' \in Nat
      /\ tomb' = tomb /\ rows' = rows /\ credential' = credential /\ firebase' = firebase
      /\ authorized' = authorized /\ table' = table /\ closed' = closed
  BY <1>1 DEF DeletionInv, DeletionType, data, external
<1>3. p \in Wanting => Owns(p)
  BY <1>1, <1>2, WantingOwns, LabelSets
<1>4. CASE Finish(p)
  BY <1>1, <1>2, <1>3, <1>4, FinishKeeps
<1>5. CASE ReleaseAndResume(p)
  <2>1. linked' \in [Deletes -> BOOLEAN]
    BY <1>1, <1>2 DEF DeletionType
  <2> QED BY <1>1, <1>2, <1>3, <1>5, <2>1, JoinKeeps DEF ReleaseAndResume
<1>6. ASSUME NEW l \in HoldingLabels \cup RequestLabels, Goto(p, l), UNCHANGED queue,
             pc[p] \in HoldingLabels \cup RequestLabels,
             \/ pc[p] \in RequestLabels /\ (l \in RequestLabels \/ p \notin Statuses)
             \/ pc[p] \in HoldingLabels /\ l \in HoldingLabels,
             \/ l \in {"creating", "exchanging", "saving", "checking"} /\ tomb = NoTomb
             \/ l \in {"apple", "finalize"} /\ Processing
             \/ l = "refusing"
             \/ l = "flushing" /\ (closed[p] \/ tomb = NoTomb)
      PROVE  DeletionInv'
  <2>1. pc'[p] = l
    <3>1. l \in Labels
      BY DEF Labels
    <3> QED BY <1>2, <1>6, <3>1, GotoEffect
  <2>2. RequestOK(p)'
    BY <1>2, <1>6, <2>1 DEF RequestOK, Advancing, Processing
  <2> QED BY <1>1, <1>2, <1>6, <2>2, GoesOn
<1>7. /\ {"creating", "exchanging", "saving", "apple", "finalize", "purging"} \subseteq HoldingLabels
      /\ {"checking", "flushing", "refusing", "locked"} \subseteq RequestLabels
  BY DEF HoldingLabels, RequestLabels, Advancing
<1>8. CASE p \notin Statuses /\ DeleteReads(p)
  BY <1>4, <1>6, <1>7, <1>8 DEF DeleteReads, Processing
<1>9. CASE p \notin Statuses /\ LinkReads(p)
  BY <1>4, <1>6, <1>7, <1>9 DEF LinkReads
<1>10. CASE LinkExchanges(p)
  <2>1. pc[p] = "exchanging" /\ tomb = NoTomb
    BY <1>2, <1>10 DEF LinkExchanges, RequestOK
  <2> QED BY <1>4, <1>6, <1>7, <1>10, <2>1 DEF LinkExchanges
<1>11. CASE p \in Statuses /\ StatusReads(p)
  BY <1>5, <1>6, <1>7, <1>11 DEF StatusReads
<1>12. CASE p \in Statuses /\ StatusAnswers(p)
  <2>1. pc[p] = "checking" /\ (closed[p] \/ tomb = NoTomb)
    BY <1>2, <1>12 DEF StatusAnswers, RequestOK
  <2> QED BY <1>6, <1>7, <1>12, <2>1 DEF StatusAnswers
<1>13. CASE StatusRaced(p)
  BY <1>5, <1>13 DEF StatusRaced
<1>14. CASE Flush(p) \/ Throws(p)
  BY <1>4, <1>14 DEF Flush, Throws
<1>15. CASE PurgeEnds(p)
  <2>1. pc[p] = "purging" /\ Processing
    BY <1>2, <1>15 DEF PurgeEnds, RequestOK, Advancing
  <2> QED BY <1>6, <1>7, <1>15, <2>1 DEF PurgeEnds
<1>16. CASE StatusThrows(p)
  BY <1>6, <1>7, <1>16 DEF StatusThrows
<1> QED BY <1>8, <1>9, <1>10, <1>11, <1>12, <1>13, <1>14, <1>15, <1>16

LEMMA CloseStep ==
  ASSUME DeletionInv, NEW p \in Statuses, Close(p)
  PROVE  DeletionInv'
<1>1. /\ DeletionType /\ LockInv /\ RequestOK(p) /\ p \in Procs
      /\ UNCHANGED <<tomb, rows, credential, external, pc, table, linked, faults>>
      /\ closed' = [closed EXCEPT ![p] = TRUE]
  BY DEF DeletionInv, Close, Procs
<1>2. /\ closed'[p] /\ closed' \in [Statuses -> BOOLEAN] /\ OthersStay(p)
  BY <1>1 DEF DeletionType, OthersStay
<1>3. LockInv'
  <2>1. CASE pc[p] \in RequestLabels
    <3>1. p \notin Wanting'
      BY <1>1, <1>2, <2>1, LabelSets DEF Wanting, Holds
    <3>2. queue' = Released(p)
      BY <2>1 DEF Close, RequestLabels
    <3>3. p \in Wanting => Owns(p)
      BY <1>1, <2>1, LabelSets, WantingOwns
    <3> QED BY <1>1, <1>2, <3>1, <3>2, <3>3, LockLeft
  <2>2. CASE pc[p] \notin RequestLabels
    <3>1. queue' = queue
      BY <2>2 DEF Close, RequestLabels
    <3>2. Holds(p)' <=> Holds(p)
      BY <1>1, <2>2 DEF Holds
    <3>3. (p \in Wanting' <=> p \in Wanting) /\ (p \in Holders' => Owns(p))
      BY <1>1, <3>2, HolderOwns DEF Wanting, Holders
    <3> QED BY <1>1, <1>2, <3>1, <3>3, LockStays
  <2> QED BY <2>1, <2>2
<1>4. RequestOK(p)'
  BY <1>1, <1>2 DEF RequestOK, Processing, external
<1> QED BY <1>1, <1>2, <1>3, <1>4, DataStay DEF data, DeletionType

-----------------------------------------------------------------------------
(* Steps of the holder that change the account or its tombstone            *)

\* The holder moves on to another statement under the lock.
LEMMA HolderMoves ==
  ASSUME DeletionInv, NEW p \in Procs, pc[p] \in HoldingLabels, NEW l \in HoldingLabels,
         Goto(p, l), UNCHANGED <<queue, closed>>
  PROVE  /\ pc' \in [Procs -> Labels] /\ pc'[p] = l /\ OthersStay(p)
         /\ p \in Holders /\ LockInv'
<1>1. l \in Labels
  BY DEF Labels
<1>2. pc' \in [Procs -> Labels] /\ pc'[p] = l /\ OthersStay(p)
  BY <1>1, GotoEffect DEF DeletionInv, OthersStay
<1>3. p \in Holders /\ p \in Wanting /\ p \in Holders' /\ p \in Wanting'
  BY <1>2 DEF Holders, Wanting, Holds
<1>4. LockInv'
  BY <1>2, <1>3, HolderOwns, LockStays DEF DeletionInv
<1> QED BY <1>2, <1>3, <1>4

\* The holder gives the lock back.
LEMMA HolderLeaves ==
  ASSUME DeletionInv, NEW p \in Procs, pc[p] \in HoldingLabels, Finish(p), UNCHANGED closed
  PROVE  /\ pc' \in [Procs -> Labels] /\ OthersStay(p)
         /\ p \in Holders /\ LockInv' /\ RequestOK(p)'
<1>1. PICK l \in {"idle", "done"} : Goto(p, l)
  BY DEF Finish
<1>2. /\ pc' \in [Procs -> Labels] /\ pc'[p] = l /\ l \in {"idle", "done"}
      /\ OthersStay(p)
  BY <1>1, GotoEffect, LabelSets DEF DeletionInv, OthersStay
<1>3. p \in Holders /\ p \notin Wanting' /\ p \notin Holders'
  BY <1>2, LabelSets DEF Wanting, Holders, Holds
<1>4. LockInv'
  BY <1>2, <1>3, HolderOwns, LockLeft DEF DeletionInv, Finish
<1> QED BY <1>2, <1>3, <1>4, Vacuous

Statements == {"apple", "appleRevoked", "appleRetry", "appleManual", "firebase", "firebaseMark",
               "firebaseRetry", "purging", "localMark", "finalize", "creating", "saving"}

LEMMA StatementsHold == Statements \subseteq HoldingLabels
BY DEF Statements, HoldingLabels, Advancing

\* What the tombstone records stays (see OutcomesAreFinal).
Final ==
  tomb # NoTomb =>
    /\ tomb' # NoTomb
    /\ tomb.status = "complete" => tomb'.status = "complete"
    /\ tomb.local = "deleted" => tomb'.local = "deleted"
    /\ tomb.firebase = "deleted" => tomb'.firebase = "deleted"
    /\ tomb.apple # "pending" => tomb'.apple = tomb.apple

LEMMA CreateStep ==
  ASSUME DeletionInv, NEW p \in Deletes, Create(p)
  PROVE  DeletionInv' /\ Final
<1>1. /\ DeletionType /\ TombTrue /\ tomb = NoTomb /\ p \in Procs
      /\ pc[p] = "creating" /\ linked[p] \in BOOLEAN
      /\ UNCHANGED <<rows, credential, external, queue, table, linked, closed, faults>>
  BY DEF DeletionInv, DeletionType, Create, RequestOK, Procs
<1>2. tomb' = NewTomb(linked[p]) /\ Goto(p, "apple")
  BY <1>1 DEF Create
<1>3. tomb' \in TombRecord /\ tomb' # NoTomb
  <2> DEFINE a == IF credential THEN "pending"
                  ELSE IF linked[p] THEN "manual_required" ELSE "not_linked"
  <2>1. a \in {"pending", "manual_required", "not_linked"} /\ credential \in BOOLEAN
    BY <1>1 DEF DeletionType
  <2>2. tomb' = [status |-> "processing", firebase |-> "pending", local |-> "pending",
                 linked |-> linked[p], cred |-> credential, apple |-> a,
                 attempts |-> 0, appleDue |-> TRUE, firebaseDue |-> TRUE]
    BY <1>2 DEF NewTomb
  <2> HIDE DEF a
  <2>3. tomb' \in TombRecord
    BY <1>1, <2>1, <2>2 DEF TombRecord
  <2> QED BY <2>3, TombAssumption
<1>4. /\ tomb'.status = "processing" /\ tomb'.firebase = "pending" /\ tomb'.local = "pending"
      /\ tomb'.cred = credential
      /\ tomb'.apple = IF credential THEN "pending"
                       ELSE IF linked[p] THEN "manual_required" ELSE "not_linked"
  BY <1>2 DEF NewTomb
<1>5. "creating" \in Statements /\ "apple" \in Statements
  BY DEF Statements
<1>6. /\ pc' \in [Procs -> Labels] /\ pc'[p] = "apple" /\ OthersStay(p)
      /\ p \in Holders /\ LockInv'
  BY <1>1, <1>2, <1>5, StatementsHold, HolderMoves
<1>7. DeletionType'
  BY <1>1, <1>3, <1>6 DEF DeletionType, external
<1>8. TombTrue'
  BY <1>1, <1>3, <1>4 DEF TombTrue, external, DeletionType
<1>9. NothingComesBack'
  BY <1>4 DEF NothingComesBack
<1>10. RequestOK(p)'
  BY <1>3, <1>4, <1>6 DEF RequestOK, Processing, Advancing
<1> QED BY <1>1, <1>6, <1>7, <1>8, <1>9, <1>10, HolderActs DEF Final

\* What the holder of a deletion knows before each of its statements.
LEMMA AdvancingFacts ==
  ASSUME DeletionInv, NEW p \in Procs, pc[p] \in Advancing
  PROVE  /\ DeletionType /\ TombTrue /\ NothingComesBack /\ RequestOK(p)
         /\ tomb \in TombRecord /\ tomb # NoTomb /\ tomb.status = "processing"
BY DEF DeletionInv, DeletionType, RequestOK, Processing

\* A statement that sets parts of the tombstone without finishing.
LEMMA RecordKept ==
  ASSUME DeletionInv, NEW p \in Procs, pc[p] \in Advancing, NEW l \in Advancing, Goto(p, l),
         tomb' \in TombRecord, tomb'.status = "processing",
         tomb'.apple = "pending" <=> tomb'.cred,
         tomb'.firebase = "deleted" => ~ firebase',
         tomb'.apple \in {"revoked", "not_linked"} => ~ authorized',
         tomb'.local = "deleted" => rows' \cap Tables = {} /\ ~ credential',
         rows' \subseteq rows, credential' \in BOOLEAN, firebase' \in BOOLEAN,
         authorized' \in BOOLEAN, table' \in [Procs -> 1..Len(PurgeOrder)], faults' \in Nat,
         UNCHANGED <<provider, queue, linked, closed>>,
         l \in {"appleRevoked", "appleRetry", "appleManual"} => tomb'.apple = "pending",
         l = "appleRevoked" => ~ authorized',
         l = "firebaseMark" => ~ firebase',
         l = "purging" => \A i \in 1..(table'[p] - 1) : PurgeOrder[i] \notin rows',
         l = "localMark" => rows' \cap Tables = {} /\ ~ credential'
  PROVE  DeletionInv'
<1>1. tomb' # NoTomb
  BY TombAssumption
<1>2. pc[p] \in HoldingLabels /\ l \in HoldingLabels
  BY DEF HoldingLabels
<1>3. /\ pc' \in [Procs -> Labels] /\ pc'[p] = l /\ OthersStay(p)
      /\ p \in Holders /\ LockInv'
  BY <1>2, HolderMoves
<1>4. DeletionType'
  BY <1>3 DEF DeletionInv, DeletionType
<1>5. TombTrue' /\ NothingComesBack'
  BY <1>1 DEF TombTrue, NothingComesBack
<1>6. RequestOK(p)'
  <2>1. Processing'
    BY <1>1 DEF Processing
  <2>2. l \notin {"creating", "exchanging", "saving", "checking", "flushing"}
    BY DEF Advancing
  <2> QED BY <1>3, <2>1, <2>2 DEF RequestOK
<1> QED BY <1>3, <1>4, <1>5, <1>6, HolderActs

LEMMA AppleStep ==
  ASSUME DeletionInv, NEW p \in Procs,
         AppleSettled(p) \/ AppleRevokes(p) \/ AppleMark(p) \/ AppleFailed(p)
  PROVE  DeletionInv' /\ Final
<1>1. pc[p] \in Advancing /\ {"firebase", "appleRevoked", "appleRetry", "appleManual"} \subseteq Advancing
  BY DEF AppleSettled, AppleRevokes, AppleMark, AppleFailed, Advancing
<1>2. /\ DeletionType /\ TombTrue /\ NothingComesBack /\ RequestOK(p)
      /\ tomb \in TombRecord /\ tomb # NoTomb /\ tomb.status = "processing"
  BY <1>1, AdvancingFacts
<1>3. /\ rows' = rows /\ credential' = credential /\ firebase' = firebase
      /\ table' = table /\ UNCHANGED <<provider, queue, linked, closed>>
      /\ faults' = faults \/ faults' = faults + 1
  BY DEF AppleSettled, AppleRevokes, AppleMark, AppleFailed, Fault, external
<1>4. faults' \in Nat
  BY <1>2, <1>3 DEF DeletionType
\* The outcome of the revocation is recorded, or another attempt is.
<1>5. ASSUME NEW l \in {"firebase", "appleRevoked", "appleRetry", "appleManual"}, Goto(p, l),
             tomb' \in TombRecord, tomb'.status = "processing",
             tomb'.local = tomb.local, tomb'.firebase = tomb.firebase,
             tomb'.apple = "pending" <=> tomb'.cred,
             tomb'.apple \in {"revoked", "not_linked"} => ~ authorized',
             tomb.apple # "pending" => tomb'.apple = tomb.apple,
             authorized' \in BOOLEAN,
             l # "firebase" => tomb'.apple = "pending",
             l = "appleRevoked" => ~ authorized'
      PROVE  DeletionInv' /\ Final
  <2>1. /\ tomb'.firebase = "deleted" => ~ firebase'
        /\ tomb'.local = "deleted" => rows' \cap Tables = {} /\ ~ credential'
    BY <1>2, <1>3, <1>5 DEF TombTrue, NothingComesBack
  <2>2. DeletionInv'
    BY <1>1, <1>2, <1>3, <1>4, <1>5, <2>1, RecordKept DEF DeletionType
  <2>3. tomb' # NoTomb
    BY <1>5, TombAssumption
  <2> QED BY <1>2, <1>5, <2>2, <2>3 DEF Final
<1>6. CASE UNCHANGED <<tomb, authorized>> /\ Goto(p, "firebase")
  BY <1>2, <1>5, <1>6 DEF TombTrue, DeletionType
\* tomb' of the statement that records an outcome.
<1>7. ASSUME NEW o \in {"revoked", "manual_required", "not_linked"}, NEW n \in {0, 1},
             AppleOutcome(o, n), tomb.apple = "pending", Goto(p, "firebase"),
             authorized' = authorized, o \in {"revoked", "not_linked"} => ~ authorized
      PROVE  DeletionInv' /\ Final
  <2>1. tomb' = [tomb EXCEPT !.apple = o, !.cred = FALSE, !.appleDue = TRUE,
                             !.attempts = @ + n]
    BY <1>7 DEF AppleOutcome
  <2>2. /\ tomb' \in TombRecord /\ tomb'.status = tomb.status /\ tomb'.local = tomb.local
        /\ tomb'.firebase = tomb.firebase /\ tomb'.apple = o /\ ~ tomb'.cred
    <3>1. PICK k \in Nat : k = tomb.attempts + n
      BY <1>2 DEF TombRecord
    <3>2. tomb' = [tomb EXCEPT !.apple = o, !.cred = FALSE, !.appleDue = TRUE,
                               !.attempts = k]
      BY <2>1, <3>1
    <3> QED BY <1>2, <3>2 DEF TombRecord
  <2> QED BY <1>2, <1>5, <1>7, <2>2 DEF DeletionType
<1>8. CASE AppleSettled(p)
  <2>1. ~ (tomb.apple = "pending" /\ ~ tomb.cred)
    BY <1>2 DEF TombTrue
  <2> QED BY <1>6, <1>8, <2>1 DEF AppleSettled, external
<1>9. CASE AppleRevokes(p)
  <2>1. /\ tomb' = tomb /\ tomb.apple = "pending" /\ tomb.cred
        /\ authorized' \in BOOLEAN
    BY <1>2, <1>9 DEF AppleRevokes, DeletionType
  <2>2. PICK l \in {"appleRevoked", "appleRetry", "appleManual"} :
          Goto(p, l) /\ (l = "appleRevoked" => ~ authorized')
    BY <1>9 DEF AppleRevokes
  <2> QED BY <1>2, <1>5, <2>1, <2>2
<1>10. CASE AppleMark(p)
  <2>1. /\ tomb.apple = "pending" /\ ~ authorized /\ authorized' = authorized
        /\ authorized \in BOOLEAN
    BY <1>2, <1>10 DEF AppleMark, RequestOK, external, DeletionType
  <2>2. CASE AppleOutcome("revoked", 1) /\ Goto(p, "firebase")
    BY <1>7, <2>1, <2>2
  <2>3. CASE Goto(p, "appleManual") /\ UNCHANGED tomb
    BY <1>2, <1>5, <2>1, <2>3 DEF TombTrue
  <2> QED BY <1>10, <2>2, <2>3 DEF AppleMark
<1>11. CASE AppleFailed(p)
  <2>1. /\ tomb.apple = "pending" /\ authorized' = authorized /\ Goto(p, "firebase")
        /\ authorized \in BOOLEAN
    BY <1>2, <1>11 DEF AppleFailed, RequestOK, external, DeletionType
  <2>2. CASE AppleOutcome("manual_required", 1)
    BY <1>7, <2>1, <2>2
  <2>3. CASE tomb' = [tomb EXCEPT !.attempts = @ + 1, !.appleDue = FALSE]
    <3>1. /\ tomb' \in TombRecord /\ tomb'.status = tomb.status /\ tomb'.local = tomb.local
          /\ tomb'.firebase = tomb.firebase /\ tomb'.apple = tomb.apple
          /\ tomb'.cred = tomb.cred
      <4>1. PICK k \in Nat : k = tomb.attempts + 1
        BY <1>2 DEF TombRecord
      <4>2. tomb' = [tomb EXCEPT !.attempts = k, !.appleDue = FALSE]
        BY <2>3, <4>1
      <4> QED BY <1>2, <4>2 DEF TombRecord
    <3> QED BY <1>2, <1>5, <2>1, <3>1 DEF TombTrue
  <2> QED BY <1>11, <2>2, <2>3 DEF AppleFailed
<1> QED BY <1>8, <1>9, <1>10, <1>11

LEMMA FirebaseStep ==
  ASSUME DeletionInv, NEW p \in Procs, FirebaseDeletes(p) \/ FirebaseMark(p)
  PROVE  DeletionInv' /\ Final
<1>1. pc[p] \in Advancing /\ {"purging", "firebaseMark", "firebaseRetry"} \subseteq Advancing
  BY DEF FirebaseDeletes, FirebaseMark, Advancing
<1>2. /\ DeletionType /\ TombTrue /\ NothingComesBack /\ RequestOK(p)
      /\ tomb \in TombRecord /\ tomb # NoTomb /\ tomb.status = "processing"
  BY <1>1, AdvancingFacts
<1>3. /\ rows' = rows /\ credential' = credential /\ authorized' = authorized
      /\ UNCHANGED <<provider, queue, linked, closed>>
      /\ faults' = faults \/ faults' = faults + 1
  BY DEF FirebaseDeletes, FirebaseMark, Fault, external
<1>4. faults' \in Nat /\ credential' \in BOOLEAN /\ authorized' \in BOOLEAN
  BY <1>2, <1>3 DEF DeletionType
<1>5. ASSUME NEW l \in {"purging", "firebaseMark", "firebaseRetry"}, Goto(p, l),
             tomb' \in TombRecord, tomb'.status = "processing", tomb'.local = tomb.local,
             tomb'.apple = tomb.apple, tomb'.cred = tomb.cred,
             firebase' \in {firebase, FALSE},
             tomb.firebase = "deleted" => tomb'.firebase = "deleted",
             tomb'.firebase = "deleted" => ~ firebase',
             l = "firebaseMark" => ~ firebase',
             IF l = "purging" THEN table' = [table EXCEPT ![p] = 1] ELSE table' = table
      PROVE  DeletionInv' /\ Final
  <2>1. table' \in [Procs -> 1..Len(PurgeOrder)] /\ (l = "purging" => table'[p] = 1)
    <3>1. 1 \in 1..Len(PurgeOrder)
      BY PurgeAssumption
    <3> QED BY <1>2, <1>5, <3>1 DEF DeletionType
  <2>2. l = "purging" => \A i \in 1..(table'[p] - 1) : PurgeOrder[i] \notin rows'
    BY <2>1
  <2>3. firebase' \in BOOLEAN
    BY <1>2, <1>5 DEF DeletionType
  <2>4. /\ tomb'.apple = "pending" <=> tomb'.cred
        /\ tomb'.apple \in {"revoked", "not_linked"} => ~ authorized'
        /\ tomb'.local = "deleted" => rows' \cap Tables = {} /\ ~ credential'
    BY <1>2, <1>3, <1>5 DEF TombTrue, NothingComesBack
  <2>5. l \in Advancing /\ l \notin {"appleRevoked", "appleRetry", "appleManual", "localMark"}
    BY <1>1
  <2>6. DeletionInv'
    BY <1>1, <1>3, <1>4, <1>5, <2>1, <2>2, <2>3, <2>4, <2>5, RecordKept
  <2>7. tomb' # NoTomb
    BY <1>5, TombAssumption
  <2> QED BY <1>2, <1>5, <2>6, <2>7 DEF Final
<1>6. CASE FirebaseDeletes(p)
  <2>1. tomb' = tomb /\ (tomb.firebase = "deleted" => ~ firebase)
    BY <1>2, <1>6 DEF FirebaseDeletes, TombTrue
  <2>2. CASE /\ Goto(p, "purging")
             /\ table' = [table EXCEPT ![p] = 1]
             /\ UNCHANGED firebase
    BY <1>2, <1>5, <2>1, <2>2
  <2>3. CASE /\ tomb.firebase = "pending" /\ UNCHANGED table
             /\ firebase' = FALSE /\ Goto(p, "firebaseMark")
    BY <1>2, <1>5, <2>1, <2>3
  <2>4. CASE /\ tomb.firebase = "pending" /\ UNCHANGED table
             /\ firebase' \in {firebase, FALSE} /\ Goto(p, "firebaseRetry")
    BY <1>2, <1>5, <2>1, <2>4
  <2> QED BY <1>6, <2>2, <2>3, <2>4 DEF FirebaseDeletes
<1>7. CASE FirebaseMark(p)
  <2>1. /\ firebase' = firebase /\ Goto(p, "purging") /\ table' = [table EXCEPT ![p] = 1]
        /\ pc[p] \in {"firebaseMark", "firebaseRetry"}
        /\ pc[p] = "firebaseMark" => ~ firebase
        /\ tomb.firebase = "deleted" => ~ firebase
    BY <1>2, <1>7 DEF FirebaseMark, external, RequestOK, TombTrue
  <2>2. CASE pc[p] = "firebaseMark"
    <3>1. tomb' = [tomb EXCEPT !.firebase = "deleted", !.firebaseDue = TRUE]
      BY <1>7, <2>2 DEF FirebaseMark
    <3>2. /\ tomb' \in TombRecord /\ tomb'.status = tomb.status /\ tomb'.local = tomb.local
          /\ tomb'.firebase = "deleted" /\ tomb'.apple = tomb.apple
          /\ tomb'.cred = tomb.cred
      BY <1>2, <3>1 DEF TombRecord
    <3> QED BY <1>2, <1>5, <2>1, <2>2, <3>2
  <2>3. CASE pc[p] = "firebaseRetry"
    <3>1. tomb' = [tomb EXCEPT !.firebaseDue = FALSE]
      BY <1>7, <2>3 DEF FirebaseMark
    <3>2. /\ tomb' \in TombRecord /\ tomb'.status = tomb.status /\ tomb'.local = tomb.local
          /\ tomb'.firebase = tomb.firebase /\ tomb'.apple = tomb.apple
          /\ tomb'.cred = tomb.cred
      BY <1>2, <3>1 DEF TombRecord
    <3> QED BY <1>2, <1>5, <2>1, <3>2
  <2> QED BY <2>1, <2>2, <2>3
<1> QED BY <1>6, <1>7

\* The tables the purge has passed, in its order, are all there are.
LEMMA AllPurged ==
  ASSUME NEW left \in SUBSET Tables, \A i \in 1..Len(PurgeOrder) : PurgeOrder[i] \notin left
  PROVE  left = {}
<1>1. DOMAIN PurgeOrder = 1..Len(PurgeOrder)
  BY PurgeAssumption
<1> QED BY <1>1 DEF Tables

LEMMA PurgeStep ==
  ASSUME DeletionInv, NEW p \in Procs, PurgeTable(p) \/ LocalMark(p)
  PROVE  DeletionInv' /\ Final
<1>1. pc[p] \in Advancing /\ {"purging", "localMark", "finalize"} \subseteq Advancing
  BY DEF PurgeTable, LocalMark, Advancing
<1>2. /\ DeletionType /\ TombTrue /\ NothingComesBack /\ RequestOK(p)
      /\ tomb \in TombRecord /\ tomb # NoTomb /\ tomb.status = "processing"
  BY <1>1, AdvancingFacts
<1>3. CASE PurgeTable(p)
  <2> DEFINE n == Len(PurgeOrder)
             t == table[p]
             l == IF t = n THEN "localMark" ELSE "purging"
  <2>1. /\ pc[p] = "purging" /\ tomb' = tomb /\ tomb.local = "pending"
        /\ rows' = rows \ {PurgeOrder[t]}
        /\ credential' = (credential /\ PurgeOrder[t] # "users")
        /\ table' = [table EXCEPT ![p] = IF t = n THEN 1 ELSE t + 1]
        /\ Goto(p, l)
        /\ UNCHANGED <<provider, queue, linked, closed, firebase, authorized, faults>>
    BY <1>3 DEF PurgeTable, external
  <2>2. n \in Nat /\ t \in 1..n /\ n > 0 /\ PurgeOrder[n] = "users"
    BY <1>2, PurgeAssumption DEF DeletionType
  <2>3. \A i \in 1..(t - 1) : PurgeOrder[i] \notin rows
    BY <1>2, <2>1 DEF RequestOK
  <2>4. rows' \subseteq rows
    BY <1>2, <2>1 DEF DeletionType
  <2> HIDE DEF n, t
  <2>5. \A i \in 1..t : PurgeOrder[i] \notin rows'
    BY <2>1, <2>2, <2>3
  <2>6. table' \in [Procs -> 1..n] /\ (l = "purging" => table'[p] = t + 1)
    <3>1. (IF t = n THEN 1 ELSE t + 1) \in 1..n
      BY <2>2
    <3> QED BY <1>2, <2>1, <3>1 DEF DeletionType, n
  <2>7. l = "purging" => \A i \in 1..(table'[p] - 1) : PurgeOrder[i] \notin rows'
    BY <2>2, <2>5, <2>6
  <2>8. l = "localMark" => rows' \cap Tables = {} /\ ~ credential'
    <3>1. ASSUME t = n PROVE rows' \cap Tables = {} /\ ~ credential'
      <4>1. rows' \cap Tables = {}
        BY <2>5, <3>1, AllPurged DEF n
      <4> QED BY <2>1, <2>2, <3>1, <4>1
    <3> QED BY <3>1
  <2>9. l \in {"purging", "localMark"}
    OBVIOUS
  <2>10. /\ credential' \in BOOLEAN /\ firebase' \in BOOLEAN /\ authorized' \in BOOLEAN
         /\ faults' \in Nat
    BY <1>2, <2>1 DEF DeletionType
  <2>11. /\ tomb.apple = "pending" <=> tomb.cred
         /\ tomb.firebase = "deleted" => ~ firebase'
         /\ tomb.apple \in {"revoked", "not_linked"} => ~ authorized'
    BY <1>2, <2>1 DEF TombTrue
  <2> HIDE DEF l
  <2>12. l \in Advancing /\ l \notin {"appleRevoked", "appleRetry", "appleManual", "firebaseMark"}
    BY <1>1, <2>9
  <2>13. DeletionInv'
    BY <1>1, <1>2, <2>1, <2>4, <2>6, <2>7, <2>8, <2>10, <2>11, <2>12, RecordKept DEF n
  <2> QED BY <2>1, <2>13 DEF Final
<1>4. CASE LocalMark(p)
  <2>1. /\ tomb' = [tomb EXCEPT !.local = "deleted"] /\ Goto(p, "finalize")
        /\ rows \cap Tables = {} /\ ~ credential
        /\ UNCHANGED <<rows, credential, firebase, provider, authorized, queue, table, linked,
                       closed, faults>>
    BY <1>2, <1>4 DEF LocalMark, RequestOK, external
  <2>2. /\ tomb' \in TombRecord /\ tomb'.status = tomb.status /\ tomb'.local = "deleted"
        /\ tomb'.firebase = tomb.firebase /\ tomb'.apple = tomb.apple
        /\ tomb'.cred = tomb.cred
    BY <1>2, <2>1 DEF TombRecord
  <2>3. /\ tomb'.apple = "pending" <=> tomb'.cred
        /\ tomb'.firebase = "deleted" => ~ firebase'
        /\ tomb'.apple \in {"revoked", "not_linked"} => ~ authorized'
    BY <1>2, <2>1, <2>2 DEF TombTrue
  <2>4. /\ credential' \in BOOLEAN /\ firebase' \in BOOLEAN /\ authorized' \in BOOLEAN
        /\ faults' \in Nat /\ table' \in [Procs -> 1..Len(PurgeOrder)]
    BY <1>2, <2>1 DEF DeletionType
  <2>5. DeletionInv'
    BY <1>1, <1>2, <2>1, <2>2, <2>3, <2>4, RecordKept
  <2>6. tomb' # NoTomb
    BY <2>2, TombAssumption
  <2> QED BY <1>2, <2>2, <2>5, <2>6 DEF Final
<1> QED BY <1>3, <1>4

LEMMA LeavingStep ==
  ASSUME DeletionInv, NEW p \in Procs, Finalize(p) \/ LinkSaves(p)
  PROVE  DeletionInv' /\ Final
<1>1. pc[p] \in HoldingLabels /\ Finish(p)
  BY DEF Finalize, LinkSaves, HoldingLabels, Advancing
<1>2. /\ DeletionType /\ TombTrue /\ NothingComesBack /\ RequestOK(p)
      /\ UNCHANGED <<rows, firebase, provider, table, linked, closed, faults>>
  BY DEF DeletionInv, Finalize, LinkSaves, external
<1>3. /\ pc' \in [Procs -> Labels] /\ OthersStay(p)
      /\ p \in Holders /\ LockInv' /\ RequestOK(p)'
  BY <1>1, <1>2, HolderLeaves
<1>4. CASE Finalize(p)
  <2>1. /\ tomb \in TombRecord /\ tomb # NoTomb /\ tomb.status = "processing"
        /\ credential' = credential /\ authorized' = authorized
        /\ tomb' = IF Completable THEN [tomb EXCEPT !.status = "complete"] ELSE tomb
    BY <1>4, AdvancingFacts DEF Finalize, external, Advancing
  <2>2. /\ tomb' \in TombRecord /\ tomb'.local = tomb.local
        /\ tomb'.firebase = tomb.firebase /\ tomb'.apple = tomb.apple
        /\ tomb'.cred = tomb.cred
        /\ tomb'.status = "complete" => Completable
    <3>1. CASE Completable
      <4>1. tomb' = [tomb EXCEPT !.status = "complete"]
        BY <2>1, <3>1
      <4> QED BY <2>1, <3>1, <4>1 DEF TombRecord
    <3>2. CASE ~ Completable
      BY <2>1, <3>2
    <3> QED BY <3>1, <3>2
  <2>3. tomb' # NoTomb
    BY <2>2, TombAssumption
  <2>4. DeletionType'
    BY <1>2, <1>3, <2>1, <2>2 DEF DeletionType
  <2>5. TombTrue' /\ NothingComesBack'
    BY <1>2, <2>1, <2>2, <2>3 DEF TombTrue, NothingComesBack, Completable
  <2> QED BY <1>3, <2>1, <2>2, <2>3, <2>4, <2>5, HolderActs DEF Final
<1>5. CASE LinkSaves(p)
  <2>1. tomb' = tomb /\ tomb = NoTomb
    BY <1>2, <1>5 DEF LinkSaves, RequestOK
  <2>2. \/ credential' = TRUE /\ authorized' = TRUE
        \/ credential' = credential /\ authorized' = authorized
    BY <1>5 DEF LinkSaves
  <2>3. DeletionType'
    BY <1>2, <1>3, <2>1, <2>2 DEF DeletionType
  <2>4. TombTrue' /\ NothingComesBack'
    BY <1>2, <2>1, <2>2 DEF TombTrue, NothingComesBack
  <2> QED BY <1>3, <2>1, <2>3, <2>4, HolderActs DEF Final
<1> QED BY <1>4, <1>5

-----------------------------------------------------------------------------
(* Everything that does not take the lock                                  *)

\* Nobody moves, but the account or its tombstone may change.
LEMMA NobodyMoves ==
  ASSUME DeletionInv, UNCHANGED <<queue, pc, table, linked, closed, faults>>,
         tomb' \in TombRecord \cup {NoTomb}, rows' \subseteq Tables \cup Unguarded,
         credential' = credential, firebase' = firebase, authorized' = authorized,
         provider' \in BOOLEAN,
         tomb' = NoTomb <=> tomb = NoTomb,
         tomb # NoTomb =>
           /\ rows' \cap Tables = rows \cap Tables
           /\ tomb'.status = tomb.status /\ tomb'.local = tomb.local
           /\ tomb'.firebase = tomb.firebase /\ tomb'.apple = tomb.apple
           /\ tomb'.cred = tomb.cred
  PROVE  DeletionInv' /\ Final
<1>1. DeletionType /\ LockInv /\ TombTrue /\ NothingComesBack /\ \A p \in Procs : RequestOK(p)
  BY DEF DeletionInv
<1>2. DeletionType'
  BY <1>1 DEF DeletionType
<1>3. LockInv'
  <2>1. Holders' = Holders /\ Wanting' = Wanting
    BY DEF Holders, Wanting, Holds
  <2> QED BY <1>1, <2>1 DEF LockInv
<1>4. TombTrue' /\ NothingComesBack'
  BY <1>1 DEF TombTrue, NothingComesBack, Completable
<1>5. ASSUME NEW p \in Procs PROVE RequestOK(p)'
  <2>1. Processing' <=> Processing
    BY DEF Processing
  <2>2. pc[p] \in {"purging", "localMark"} => Processing
    BY <1>1 DEF RequestOK, Advancing
  <2>3. pc[p] \in {"purging", "localMark"} => rows' \cap Tables = rows \cap Tables
    BY <2>2 DEF Processing
  <2>4. pc[p] = "purging" => \A i \in 1..(table'[p] - 1) : PurgeOrder[i] \notin rows'
    <3>1. \A i \in 1..(table[p] - 1) : PurgeOrder[i] \in Tables
      BY <1>1, PurgeAssumption DEF DeletionType, Tables
    <3> QED BY <1>1, <2>3, <3>1 DEF RequestOK
  <2>5. pc[p] \in {"appleRevoked", "appleRetry", "appleManual"} => tomb'.apple = "pending"
    <3>1. pc[p] \in {"appleRevoked", "appleRetry", "appleManual"} => Processing
      BY <1>1 DEF RequestOK, Advancing
    <3> QED BY <1>1, <3>1 DEF RequestOK, Processing
  <2> QED BY <1>1, <2>1, <2>3, <2>4, <2>5 DEF RequestOK
<1>6. Final
  BY DEF Final
<1> QED BY <1>2, <1>3, <1>4, <1>5, <1>6 DEF DeletionInv

LEMMA EnvironmentStep ==
  ASSUME DeletionInv,
         \/ \E t \in Tables : Write(t)
         \/ \E t \in Unguarded : Meter(t)
         \/ ProviderLinked \/ RetryDue
  PROVE  DeletionInv' /\ Final
<1>1. DeletionType
  BY DEF DeletionInv
<1>2. CASE \E t \in Tables : Write(t)
  BY <1>1, <1>2, NobodyMoves DEF Write, external, DeletionType
\* A table the purge leaves alone.
<1>3. CASE \E t \in Unguarded : Meter(t)
  <2>1. PICK t \in Unguarded : rows' = rows \cup {t}
    BY <1>3 DEF Meter
  <2>2. rows' \cap Tables = rows \cap Tables
    BY <2>1, PurgeAssumption
  <2>3. rows' \subseteq Tables \cup Unguarded
    BY <1>1, <2>1 DEF DeletionType
  <2>4. tomb' = tomb
    BY <1>3 DEF Meter
  <2> QED BY <1>1, <1>3, <2>2, <2>3, <2>4, NobodyMoves DEF Meter, external, DeletionType
<1>4. CASE ProviderLinked
  BY <1>1, <1>4, NobodyMoves DEF ProviderLinked, DeletionType
<1>5. CASE RetryDue
  <2>1. tomb \in TombRecord /\ tomb # NoTomb
    BY <1>1, <1>5 DEF RetryDue, DeletionType
  <2>2. /\ tomb' \in TombRecord /\ tomb'.status = tomb.status /\ tomb'.local = tomb.local
        /\ tomb'.firebase = tomb.firebase /\ tomb'.apple = tomb.apple
        /\ tomb'.cred = tomb.cred
    BY <1>5, <2>1 DEF RetryDue, TombRecord
  <2>3. tomb' # NoTomb
    BY <2>2, TombAssumption
  <2> QED BY <1>1, <1>5, <2>1, <2>2, <2>3, NobodyMoves DEF RetryDue, external, DeletionType
<1> QED BY <1>2, <1>3, <1>4, <1>5

\* Nobody has the lock or waits for it.
Nobody == queue = <<>> /\ \A p \in Procs : pc[p] \in {"idle", "done"}

LEMMA EmptyLine == Line(<<>>, {}, {})
BY DEF Line

LEMMA NobodyWants ==
  /\ Nobody => LockInv /\ \A p \in Procs : RequestOK(p)
  /\ Nobody' => LockInv' /\ \A p \in Procs : RequestOK(p)'
<1>1. ASSUME Nobody PROVE LockInv /\ \A p \in Procs : RequestOK(p)
  <2>1. Wanting = {} /\ Holders = {}
    BY <1>1, LabelSets DEF Nobody, Wanting, Holders, Holds
  <2> QED BY <1>1, <2>1, Vacuous, EmptyLine DEF LockInv, Nobody
<1>2. ASSUME Nobody' PROVE LockInv' /\ \A p \in Procs : RequestOK(p)'
  <2>1. Wanting' = {} /\ Holders' = {}
    BY <1>2, LabelSets DEF Nobody, Wanting, Holders, Holds
  <2> QED BY <1>2, <2>1, Vacuous, EmptyLine DEF LockInv, Nobody
<1> QED BY <1>1, <1>2

LEMMA CrashStep ==
  ASSUME DeletionInv, Crash
  PROVE  DeletionInv' /\ Final
<1>1. /\ DeletionType /\ TombTrue /\ NothingComesBack
      /\ queue' = <<>> /\ \A p \in Procs : pc'[p] \in {"idle", "done"}
      /\ pc' \in [Procs -> Labels] /\ faults' = faults + 1
      /\ UNCHANGED <<tomb, rows, credential, firebase, provider, authorized, table, linked,
                     closed>>
  BY LabelSets DEF DeletionInv, Crash, Fault, external
<1>2. LockInv' /\ \A p \in Procs : RequestOK(p)'
  BY <1>1, NobodyWants DEF Nobody
<1>3. DeletionType'
  BY <1>1 DEF DeletionType
<1>4. TombTrue' /\ NothingComesBack'
  BY <1>1 DEF TombTrue, NothingComesBack, Completable
<1> QED BY <1>1, <1>2, <1>3, <1>4 DEF DeletionInv, Final

-----------------------------------------------------------------------------
(* The specification                                                       *)

LEMMA DeletionInit == Init => DeletionInv
<1> SUFFICES ASSUME Init PROVE DeletionInv
  OBVIOUS
<1>1. pc \in [Procs -> {"idle", "done"}]
  BY DEF Init
<1>2. LockInv /\ \A p \in Procs : RequestOK(p)
  BY <1>1, NobodyWants DEF Init, Nobody
<1>3. DeletionType
  <2>1. 1 \in 1..Len(PurgeOrder)
    BY PurgeAssumption
  <2> QED BY <1>1, <2>1, LabelSets DEF Init, DeletionType
<1>4. TombTrue /\ NothingComesBack
  BY DEF Init, TombTrue, NothingComesBack
<1> QED BY <1>2, <1>3, <1>4 DEF DeletionInv

LEMMA DeletionStep == DeletionInv /\ [Next]_vars => DeletionInv' /\ [Final]_vars
<1> SUFFICES ASSUME DeletionInv, [Next]_vars PROVE DeletionInv' /\ (Final \/ UNCHANGED vars)
  OBVIOUS
<1>1. ASSUME UNCHANGED data, DeletionInv' PROVE DeletionInv' /\ Final
  BY <1>1 DEF Final, data
<1>2. ASSUME NEW p \in Procs, AdvanceStep(p) PROVE DeletionInv' /\ Final
  <2>1. PurgeEnds(p) => UNCHANGED data
    BY DEF PurgeEnds, data
  <2> QED BY <1>1, <1>2, <2>1, AppleStep, FirebaseStep, PurgeStep, LeavingStep, RequestStep
          DEF AdvanceStep
<1>3. ASSUME NEW p \in Procs, Acquire(p) \/ Resume(p) PROVE DeletionInv' /\ Final
  <2>1. UNCHANGED data
    BY <1>3 DEF Acquire, Resume, data
  <2> QED BY <1>1, <1>3, <2>1, GrantStep
<1>4. ASSUME NEW p \in Deletes, DeleteStep(p) \/ DeleteArrives(p) PROVE DeletionInv' /\ Final
  <2>1. p \in Procs /\ p \notin Statuses
    BY ProcsAssumption DEF Procs
  <2>2. CASE DeleteArrives(p) \/ DeleteVerified(p) \/ DeleteReads(p)
    <3>1. UNCHANGED data
      BY <2>2 DEF DeleteArrives, DeleteVerified, DeleteReads, data
    <3> QED BY <1>1, <2>1, <2>2, <3>1, ArrivalStep, RequestStep
  <2> QED BY <1>2, <1>3, <1>4, <2>1, <2>2, CreateStep DEF DeleteStep
<1>5. ASSUME NEW p \in Statuses, StatusStep(p) \/ StatusArrives(p) \/ StatusThrows(p) \/ Close(p)
      PROVE  DeletionInv' /\ Final
  <2>1. p \in Procs
    BY DEF Procs
  <2>2. CASE \/ StatusArrives(p) \/ StatusThrows(p) \/ Close(p)
             \/ StatusReads(p) \/ StatusAnswers(p) \/ StatusRaced(p) \/ Flush(p)
    <3>1. UNCHANGED data
      BY <2>2 DEF StatusArrives, StatusThrows, Close, StatusReads, StatusAnswers, StatusRaced,
                  Flush, data
    <3> QED BY <1>1, <2>1, <2>2, <3>1, ArrivalStep, RequestStep, CloseStep
  <2> QED BY <1>2, <1>3, <1>5, <2>1, <2>2 DEF StatusStep
<1>6. ASSUME NEW p \in Procs, p = Worker, WorkerStep(p) PROVE DeletionInv' /\ Final
  <2>1. WorkerLists(p) => UNCHANGED data
    BY DEF WorkerLists, data
  <2> QED BY <1>1, <1>2, <1>3, <1>6, <2>1, ArrivalStep DEF WorkerStep
<1>7. ASSUME NEW p \in Links, LinkStep(p) \/ LinkArrives(p) PROVE DeletionInv' /\ Final
  <2>1. p \in Procs /\ p \notin Statuses
    BY ProcsAssumption DEF Procs
  <2>2. CASE LinkArrives(p) \/ LinkReads(p) \/ LinkExchanges(p)
    <3>1. UNCHANGED data
      BY <2>2 DEF LinkArrives, LinkReads, LinkExchanges, data
    <3> QED BY <1>1, <2>1, <2>2, <3>1, ArrivalStep, RequestStep
  <2> QED BY <1>3, <1>7, <2>1, <2>2, LeavingStep DEF LinkStep
<1>8. ASSUME NEW p \in Procs, Throws(p) PROVE DeletionInv' /\ Final
  <2>1. UNCHANGED data
    BY <1>8 DEF Throws, data
  <2> QED BY <1>1, <1>8, <2>1, RequestStep
<1>9. CASE UNCHANGED vars
  <2>1. DeletionInv'
    BY <1>9, NobodyMoves DEF vars, external, DeletionInv, DeletionType
  <2> QED BY <1>9, <2>1
<1>10. CASE Next
  <2>1. ASSUME NEW p \in Procs, Running(p) PROVE DeletionInv' /\ Final
    BY <1>4, <1>5, <1>6, <1>7, <2>1 DEF Running
  <2> QED BY <1>4, <1>5, <1>7, <1>8, <1>10, <2>1, EnvironmentStep, CrashStep DEF Next
<1> QED BY <1>9, <1>10

LEMMA DeletionSafe == Spec => []DeletionInv
BY DeletionInit, DeletionStep, PTL DEF Spec

\* The tombstone, the tables, the locks' callers and every request keep their
\* shape, for any requests, tables and faults.
THEOREM DeletionTypeCorrect == Spec => []DeletionType
<1>1. DeletionInv => DeletionType
  BY DEF DeletionInv
<1> QED BY <1>1, DeletionSafe, PTL

\* Only the holder of the account's lock advances a deletion or links Apple
\* (keyedLock.js, accountDeletionRoutes.js), for any number of requests and
\* workers, clients that leave and faults.
THEOREM DeletionIsExclusive == Spec => []OneAtATime
<1>1. DeletionInv => OneAtATime
  <2> SUFFICES ASSUME DeletionInv PROVE OneAtATime
    OBVIOUS
  <2>1. \A p \in Procs : pc[p] \in HoldingLabels => p \in Holders
    BY DEF Holders, Holds
  <2> QED BY <2>1, HolderOwns DEF OneAtATime, DeletionInv, HoldingLabels
<1> QED BY <1>1, DeletionSafe, PTL

\* Once the local data is recorded as deleted, the tables purgeLocalAccountData
\* empties and the Apple credential stay empty, for any such tables, as long as
\* a trigger guards each of them. It says nothing of the tables in Unguarded.
THEOREM DeletedDataStaysGone == Spec => []NothingComesBack
<1>1. DeletionInv => NothingComesBack
  BY DEF DeletionInv
<1> QED BY <1>1, DeletionSafe, PTL

\* When a tombstone says complete, the Firebase user is gone, the tables of the
\* purge are empty and no Apple credential is left (finalizeAccountDeletion).
\* Rows of the tables in Unguarded may remain, and others may still come.
THEOREM CompletionIsTrue == Spec => []CompleteMeansDone
<1>1. DeletionInv => CompleteMeansDone
  <2> SUFFICES ASSUME DeletionInv PROVE CompleteMeansDone
    OBVIOUS
  <2>1. TombTrue /\ NothingComesBack
    BY DEF DeletionInv
  <2> QED BY <2>1 DEF TombTrue, NothingComesBack, CompleteMeansDone, Completable
<1> QED BY <1>1, DeletionSafe, PTL

\* When Apple still honours the stored token at completion, the tombstone tells
\* its owner to revoke it by hand (advanceAppleRevocation).
THEOREM AuthorizationIsReported == Spec => []NoSilentAuthorization
<1>1. DeletionInv => NoSilentAuthorization
  <2> SUFFICES ASSUME DeletionInv PROVE NoSilentAuthorization
    OBVIOUS
  <2>1. TombTrue /\ (tomb # NoTomb => tomb \in TombRecord)
    BY DEF DeletionInv, DeletionType
  <2> QED BY <2>1 DEF TombTrue, NoSilentAuthorization, Completable, TombRecord
<1> QED BY <1>1, DeletionSafe, PTL

\* An answer that says "not requested" is still true while its client waits
\* for it: the response keeps the lock (accountDeletionRoutes.js).
THEOREM NotRequestedStaysTrue == Spec => []NotRequestedIsTrue
<1>1. DeletionInv => NotRequestedIsTrue
  BY DEF DeletionInv, RequestOK, NotRequestedIsTrue, Procs
<1> QED BY <1>1, DeletionSafe, PTL

\* What a tombstone has recorded is never undone (accountDeletionStore.js).
THEOREM RecordedOutcomesStay == Spec => OutcomesAreFinal
<1>1. DeletionInv /\ [Next]_vars => [Final]_vars
  BY DeletionStep
<1> QED BY <1>1, DeletionSafe, PTL DEF Spec, OutcomesAreFinal, Final
=============================================================================
