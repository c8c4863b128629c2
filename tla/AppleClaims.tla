---------------------------- MODULE AppleClaims ----------------------------
(***************************************************************************)
(* Who owns an App Store subscription: the verify and refresh routes and   *)
(* the notification webhook (src/src/subscriptions/                        *)
(* appleSubscriptionService.js and appleSubscriptionStore.js) for one      *)
(* chain of transactions. Chains share nothing but the accounts.           *)
(*                                                                         *)
(* Apple's signed state of the chain is a sequence of versions; a version  *)
(* is numbered by its signed date. An account token is named by the        *)
(* account it was made for. An action is one statement, one call to Apple  *)
(* or the end of a wait for a lock.                                        *)
(*                                                                         *)
(* A definition whose comment starts with "Wrong:" is a faulty variant of  *)
(* the next one; no specification uses it.                                 *)
(***************************************************************************)
EXTENDS Naturals, Sequences

CONSTANTS
  Users,      \* accounts
  Calls,      \* requests and deliveries the server may get
  None,
  MaxVersion, \* bound on the signed versions of the chain
  MaxFaults   \* bound on failing statements, failing calls to Apple, crashes

ASSUME ClaimsAssumption ==
  /\ None \notin Users /\ "nobody" \notin Users
  /\ MaxVersion \in Nat \ {0} /\ MaxFaults \in Nat

VARIABLES
  store,    \* Apple: versions, each the token it carries and its transaction
  alive,    \* accounts with a row in users
  owned,    \* apple_subscription_ownership: the token, or None
  sub,      \* apple_subscriptions: account and signed date, or None
  txRow,    \* apple_transactions of each transaction: the same
  recorded, \* apple_notification_events of each version: its account,
            \* "nobody", or None when there is no row
  queue,    \* callers of acquireKeyedLock for the chain, the head holds it
  uuidQueue,\* the same for the notification of each version
  call,     \* the local state of each call
  released, \* history: an account that owned the chain was deleted
  faults

db == <<owned, sub, txRow, recorded>>
locks == <<queue, uuidQueue>>
vars == <<store, alive, db, locks, call, released, faults>>

Versions == 1..MaxVersion
Absent == [uid |-> None, date |-> 0]
Row == [uid : Users, date : Versions] \cup {Absent}

Started(kind, uid, version, pc) ==
  [kind |-> kind, pc |-> pc, uid |-> uid, version |-> version,
   claim |-> "none", outcome |-> "none"]

Init ==
  /\ \E u \in Users : store = <<[token |-> u, txn |-> 1]>>
  /\ alive = Users
  /\ owned = None
  /\ sub = Absent
  /\ txRow = [t \in Versions |-> Absent]
  /\ recorded = [v \in Versions |-> None]
  /\ queue = <<>>
  /\ uuidQueue = [v \in Versions |-> <<>>]
  /\ call = [c \in Calls |-> Started("none", None, 0, "idle")]
  /\ released = FALSE
  /\ faults = 0

Goto(c, pc) == call' = [call EXCEPT ![c].pc = pc]

\* Wrong: no finally block.
EndsLocked(c, outcome) ==
  /\ call' = [call EXCEPT ![c].pc = "done", ![c].outcome = outcome]
  /\ UNCHANGED locks

\* What a call leaves behind that returns or throws: its finally blocks ran.
Without(q, c) == IF q # <<>> /\ Head(q) = c THEN Tail(q) ELSE q
Ends(c, outcome) ==
  /\ call' = [call EXCEPT ![c].pc = "done", ![c].outcome = outcome]
  /\ queue' = Without(queue, c)
  /\ uuidQueue' = [v \in Versions |-> Without(uuidQueue[v], c)]

Token(c) == store[call[c].version].token
Txn(c) == store[call[c].version].txn

-----------------------------------------------------------------------------
(* Apple and the accounts                                                  *)

\* The subscription is bought again, by any account of the same Apple customer,
\* or renewed, or its last transaction changes (a refund, a new status).
StoreChanges ==
  /\ Len(store) < MaxVersion
  /\ LET last == store[Len(store)]
     IN \/ \E u \in Users : store' = Append(store, [token |-> u, txn |-> Len(store) + 1])
        \/ store' = Append(store, last)
  /\ UNCHANGED <<alive, db, locks, call, released, faults>>

\* The purge removes the users row; the rows that refer to it cascade.
DeleteAccount(u) ==
  /\ u \in alive
  /\ alive' = alive \ {u}
  /\ sub' = IF sub.uid = u THEN Absent ELSE sub
  /\ txRow' = [t \in Versions |-> IF txRow[t].uid = u THEN Absent ELSE txRow[t]]
  /\ recorded' = [v \in Versions |-> IF recorded[v] = u THEN "nobody" ELSE recorded[v]]
  /\ released' = (released \/ sub.uid = u)
  /\ UNCHANGED <<store, owned, locks, call, faults>>

-----------------------------------------------------------------------------
(* POST /verify and /refresh                                               *)

\* ensureUserProfile has found the account; the client sends signed evidence.
StartVerify(c) ==
  /\ call[c].pc = "idle"
  /\ \E u \in alive, v \in 1..Len(store) :
       call' = [call EXCEPT ![c] = Started("verify", u, v, "classify")]
  /\ UNCHANGED <<store, alive, db, locks, released, faults>>

\* The evidence is malformed, not signed by Apple, not a purchased subscription
\* to a product of the plan catalog, or Apple's keys cannot be checked now.
EvidenceRejected(c) ==
  /\ call[c].pc = "classify"
  /\ Ends(c, "rejected")
  /\ UNCHANGED <<store, alive, db, released, faults>>

\* classifyAppleChainClaim
Claim(c) ==
  CASE sub.uid = call[c].uid -> "owner"
    [] sub.uid \notin {None, call[c].uid} -> "conflict"
    [] sub.uid = None /\ owned # None -> "adopt"
    [] OTHER -> IF Token(c) = call[c].uid THEN "first_claim" ELSE "mismatch"

Classify(c) ==
  /\ call[c].pc = "classify"
  /\ IF Claim(c) \in {"conflict", "mismatch"}
       THEN Ends(c, Claim(c))
       ELSE /\ call' = [call EXCEPT ![c].pc = "fetch", ![c].claim = Claim(c)]
            /\ UNCHANGED locks
  /\ UNCHANGED <<store, alive, db, released, faults>>

\* getAppleSubscriptionRefreshTargets
StartRefresh(c) ==
  /\ call[c].pc = "idle"
  /\ \E u \in alive :
       call' = [call EXCEPT ![c] = Started("refresh", u, 1,
                  IF sub.uid = u THEN "fetch" ELSE "done")]
  /\ UNCHANGED <<store, alive, db, locks, released, faults>>

\* getAllSubscriptionStatuses answers with the newest version.
Fetch(c) ==
  /\ call[c].pc = "fetch"
  /\ call' = [call EXCEPT ![c].pc = "verify", ![c].version = Len(store)]
  /\ UNCHANGED <<store, alive, db, locks, released, faults>>

\* Wrong: whatever token Apple's transaction carries is taken.
AnyToken(c) == TRUE

\* The comparison of fetchAndPersistCurrentStatus, the claim notwithstanding.
TokenMatches(c) == Token(c) = call[c].uid

\* The transaction and the renewal of the answer, which may be old by now, have
\* been verified; a match asks for the chain's lock.
VerifyStatus(c) ==
  /\ call[c].pc = "verify"
  /\ IF TokenMatches(c)
       THEN /\ Goto(c, "lock")
            /\ queue' = Append(queue, c)
            /\ UNCHANGED uuidQueue
       ELSE Ends(c, "not_found")
  /\ UNCHANGED <<store, alive, db, released, faults>>

-----------------------------------------------------------------------------
(* Notifications                                                           *)

\* A delivery, perhaps a repeated one, of the notification of a version.
Deliver(c) ==
  /\ call[c].pc = "idle"
  /\ \E v \in 1..Len(store) :
       /\ call' = [call EXCEPT ![c] = Started("notification", None, v, "duplicate")]
       /\ uuidQueue' = [uuidQueue EXCEPT ![v] = Append(@, c)]
  /\ UNCHANGED <<store, alive, db, queue, released, faults>>

\* hasProcessedAppleNotification
CheckDuplicate(c) ==
  /\ call[c].pc = "duplicate"
  /\ Head(uuidQueue[call[c].version]) = c
  /\ IF recorded[call[c].version] # None
       THEN Ends(c, "duplicate")
       ELSE Goto(c, "byChain") /\ UNCHANGED locks
  /\ UNCHANGED <<store, alive, db, released, faults>>

\* The nested transaction or its renewal does not verify, or they do not match.
NotificationRejected(c) ==
  /\ call[c].pc = "byChain"
  /\ Ends(c, "rejected")
  /\ UNCHANGED <<store, alive, db, released, faults>>

Matched(c, u) ==
  /\ call' = [call EXCEPT ![c].pc = "lock", ![c].uid = u]
  /\ queue' = Append(queue, c)
  /\ UNCHANGED uuidQueue

FindByChain(c) ==
  /\ call[c].pc = "byChain"
  /\ IF sub.uid # None THEN Matched(c, sub.uid)
                       ELSE Goto(c, "byToken") /\ UNCHANGED locks
  /\ UNCHANGED <<store, alive, db, released, faults>>

FindByToken(c) ==
  /\ call[c].pc = "byToken"
  /\ IF Token(c) \in alive THEN Matched(c, Token(c))
                           ELSE Goto(c, "record") /\ UNCHANGED locks
  /\ UNCHANGED <<store, alive, db, released, faults>>

\* recordProcessedAppleNotification: the row refers to the account.
Record(c) ==
  /\ call[c].pc = "record"
  /\ LET v == call[c].version
         u == call[c].uid
     IN IF u = None \/ u \in alive
          THEN /\ recorded' = [recorded EXCEPT ![v] =
                    IF @ # None THEN @ ELSE IF u = None THEN "nobody" ELSE u]
               /\ Ends(c, "recorded")
          ELSE Ends(c, "error") /\ UNCHANGED recorded
  /\ UNCHANGED <<store, alive, owned, sub, txRow, released, faults>>

-----------------------------------------------------------------------------
(* saveVerifiedAppleState                                                  *)

\* assertAppleOwnershipState
OwnedByAnother(c) ==
  \/ sub.uid \notin {None, call[c].uid}
  \/ txRow[Txn(c)].uid \notin {None, call[c].uid}

\* Wrong: the lock is asked for but not awaited.
HoldsAnyway(c) == TRUE

HoldsChain(c) == Head(queue) = c

AssertOwnership(c) ==
  /\ call[c].pc = "lock"
  /\ HoldsChain(c)
  /\ IF OwnedByAnother(c) THEN Ends(c, "conflict")
                          ELSE Goto(c, "ownership") /\ UNCHANGED locks
  /\ UNCHANGED <<store, alive, db, released, faults>>

\* Wrong: a new claim overwrites the provenance.
LastToken(c) == Token(c)

\* The upsert keeps a token that is there.
Provenance(c) == IF owned = None THEN Token(c) ELSE owned

UpsertOwnership(c) ==
  /\ call[c].pc = "ownership"
  /\ IF owned \in {None, Token(c)} \/ sub.uid \in {None, call[c].uid}
       THEN /\ owned' = Provenance(c)
            /\ Goto(c, "subscription")
            /\ UNCHANGED locks
       ELSE Ends(c, "conflict") /\ UNCHANGED owned
  /\ UNCHANGED <<store, alive, sub, txRow, recorded, released, faults>>

\* Wrong: the upsert looks at neither the account nor the date of the row.
Overwritten(row, c) == [uid |-> call[c].uid, date |-> call[c].version]

\* An upsert of a row: inserted when absent, replaced by a version that is not
\* older when it is the same account's, otherwise left alone.
Upserted(row, c) ==
  IF row = Absent \/ (row.uid = call[c].uid /\ call[c].version >= row.date)
    THEN [uid |-> call[c].uid, date |-> call[c].version] ELSE row

\* An insert for an account whose users row is gone fails: FOREIGN KEY.
RefersToNobody(row, c) == row = Absent /\ call[c].uid \notin alive

UpsertSubscription(c) ==
  /\ call[c].pc = "subscription"
  /\ IF RefersToNobody(sub, c)
       THEN Ends(c, "error") /\ UNCHANGED sub
       ELSE /\ sub' = Upserted(sub, c)
            /\ Goto(c, "transaction")
            /\ UNCHANGED locks
  /\ UNCHANGED <<store, alive, owned, txRow, recorded, released, faults>>

UpsertTransaction(c) ==
  /\ call[c].pc = "transaction"
  /\ IF RefersToNobody(txRow[Txn(c)], c)
       THEN Ends(c, "error") /\ UNCHANGED txRow
       ELSE /\ txRow' = [txRow EXCEPT ![Txn(c)] = Upserted(@, c)]
            /\ Goto(c, "recheck")
            /\ UNCHANGED locks
  /\ UNCHANGED <<store, alive, owned, sub, recorded, released, faults>>

\* The chain's lock is released; a notification is then recorded.
Saved(c) ==
  IF call[c].kind = "notification"
    THEN /\ Goto(c, "record")
         /\ queue' = Without(queue, c)
         /\ UNCHANGED uuidQueue
    ELSE Ends(c, "accepted")

\* The state is read again; no exchange of rows may have gone to another account.
Recheck(c) ==
  /\ call[c].pc = "recheck"
  /\ IF OwnedByAnother(c) THEN Ends(c, "conflict") ELSE Saved(c)
  /\ UNCHANGED <<store, alive, db, released, faults>>

-----------------------------------------------------------------------------
(* Failures                                                                *)

\* A statement or the call to Apple fails, and the call throws.
Fails(c) ==
  /\ faults < MaxFaults
  /\ call[c].pc \notin {"idle", "done"}
  /\ call[c].pc = "duplicate" => Head(uuidQueue[call[c].version]) = c
  /\ call[c].pc = "lock" => HoldsChain(c)
  /\ Ends(c, "error")
  /\ faults' = faults + 1
  /\ UNCHANGED <<store, alive, db, released>>

\* The process dies: calls and locks are gone, the tables stay.
Crash ==
  /\ faults < MaxFaults
  /\ call' = [c \in Calls |->
                IF call[c].pc \in {"idle", "done"} THEN call[c]
                ELSE [call[c] EXCEPT !.pc = "done", !.outcome = "lost"]]
  /\ queue' = <<>>
  /\ uuidQueue' = [v \in Versions |-> <<>>]
  /\ faults' = faults + 1
  /\ UNCHANGED <<store, alive, db, released>>

CallStep(c) ==
  \/ EvidenceRejected(c) \/ Classify(c) \/ Fetch(c) \/ VerifyStatus(c)
  \/ CheckDuplicate(c) \/ NotificationRejected(c) \/ FindByChain(c)
  \/ FindByToken(c) \/ Record(c)
  \/ AssertOwnership(c) \/ UpsertOwnership(c) \/ UpsertSubscription(c)
  \/ UpsertTransaction(c) \/ Recheck(c)

Next ==
  \/ StoreChanges \/ Crash
  \/ \E u \in Users : DeleteAccount(u)
  \/ \E c \in Calls : StartVerify(c) \/ StartRefresh(c) \/ Deliver(c) \/ CallStep(c) \/ Fails(c)

Spec == Init /\ [][Next]_vars

\* Statements and Apple's answers arrive; locks are first come, first served.
FairSpec == Spec /\ \A c \in Calls : WF_vars(CallStep(c))

-----------------------------------------------------------------------------
(* Properties                                                              *)

Labels == {"idle", "classify", "fetch", "verify", "duplicate", "byChain", "byToken",
           "record", "lock", "ownership", "subscription", "transaction", "recheck", "done"}

Outcomes == {"none", "rejected", "conflict", "mismatch", "not_found", "duplicate",
             "recorded", "accepted", "error", "lost"}

CallRecord ==
  [kind : {"none", "verify", "refresh", "notification"}, pc : Labels,
   uid : Users \cup {None}, version : 0..MaxVersion,
   claim : {"none", "owner", "conflict", "adopt", "first_claim", "mismatch"},
   outcome : Outcomes]

\* The shape of the state.
TypeOK ==
  /\ store \in Seq([token : Users, txn : Versions]) /\ Len(store) \in Versions
  /\ alive \subseteq Users
  /\ owned \in Users \cup {None}
  /\ sub \in Row /\ txRow \in [Versions -> Row]
  /\ recorded \in [Versions -> Users \cup {None, "nobody"}]
  /\ queue \in Seq(Calls) /\ uuidQueue \in [Versions -> Seq(Calls)]
  /\ call \in [Calls -> CallRecord]
  /\ released \in BOOLEAN /\ faults \in 0..MaxFaults

\* The entitlement and its audit rows never disagree about the account: a call
\* that loses the race for the chain leaves no row of its own behind, whichever
\* statements it got to, and a deleted owner's rows go together.
RowsAgree ==
  \A t \in Versions : txRow[t] # Absent => sub.uid = txRow[t].uid

\* An account has the chain because its own token bought it, or because the
\* account that had it was deleted. In particular a first claim that stopped
\* between its statements, which leaves an ownership record without an owner,
\* does not hand the chain to whoever asks next.
OwnersBought ==
  sub # Absent => released \/ \E v \in 1..Len(store) : store[v].token = sub.uid

\* A notification that is on record for an account has taken effect and still
\* has: deliveries are repeated, overtake each other and race with the client's
\* own requests, but the row is never older than what was recorded.
RecordedMeansApplied ==
  \A v \in Versions :
    recorded[v] \in Users => sub.uid = recorded[v] /\ sub.date >= v

Register == INSTANCE OwnerRegister WITH owner <- sub.uid, origin <- owned

\* The tables implement the abstract register: the origin is set once, before
\* the first owner, and the chain passes from one owner to another only by way
\* of a deletion.
ImplementsRegister == Register!Spec

\* Every call ends: the two locks cannot make calls wait for each other.
CallsEnd == \A c \in Calls : call[c].pc # "idle" ~> call[c].pc = "done"

\* src/README.md says of a chain without a subscription row that has an
\* ownership record: "Adopt - the previous owner's account was deleted". So a
\* call that was classified like this is not turned away afterwards.
AdoptersSucceed ==
  \A c \in Calls : call[c].claim = "adopt" => call[c].outcome # "not_found"
=============================================================================
