---------------------------- MODULE AccountDeletion ----------------------------
(***************************************************************************)
(* Deleting one account (src/src/accountDeletion/): the DELETE and         *)
(* deletion-status routes, the recovery worker of server.js and the Apple  *)
(* link route, which all take the account's keyed lock                     *)
(* (utils/keyedLock.js), against everything that does not take it: the     *)
(* other routes' writes, clients that disconnect, Firebase and Apple,      *)
(* database errors and a crash of the process.                             *)
(*                                                                         *)
(* Of the tables keyed by the account, six are emptied by the purge and    *)
(* guarded by triggers (Tables); serper_usage_daily is neither emptied nor *)
(* guarded (Unguarded). What hangs on a users row by a foreign key goes    *)
(* with it and is modelled for the Apple credential alone;                 *)
(* apple_subscription_ownership is kept on purpose and not modelled.       *)
(*                                                                         *)
(* The holder of the lock passes the tombstone row from statement to       *)
(* statement in a local variable; only the holder writes the row, so the   *)
(* model reads the row itself.                                             *)
(*                                                                         *)
(* A definition whose comment starts with "Wrong:" is a faulty variant of  *)
(* the next one; no specification uses it.                                 *)
(***************************************************************************)
EXTENDS Integers, Sequences

CONSTANTS
  Deletes,      \* DELETE /api/users/:uid requests, each sent once
  Statuses,     \* GET .../deletion-status requests
  Links,        \* POST /api/auth/apple/link requests
  Casts,        \* which of these requests may come together in one behaviour
  Worker,       \* runAccountDeletionRecovery
  PurgeOrder,   \* the tables purgeLocalAccountData empties, in its order
  Unguarded,    \* other tables keyed by the account, which no trigger guards
  MaxAttempts,  \* APPLE_REVOCATION_MAX_ATTEMPTS
  MaxFaults,    \* bound: database errors, Firebase failures and crashes
  NoTomb        \* no account_deletions row

Procs == Deletes \cup Statuses \cup Links \cup {Worker}
Tables == {PurgeOrder[i] : i \in DOMAIN PurgeOrder}

ASSUME ProcsAssumption ==
  /\ Deletes \cap Statuses = {}
  /\ Links \cap (Deletes \cup Statuses) = {}
  /\ Worker \notin Deletes \cup Statuses \cup Links
  /\ Casts \subseteq SUBSET (Deletes \cup Statuses \cup Links)
ASSUME PurgeAssumption ==
  /\ PurgeOrder \in Seq(Tables)
  /\ Len(PurgeOrder) > 0
  /\ PurgeOrder[Len(PurgeOrder)] = "users"
  /\ Unguarded \cap Tables = {}
ASSUME BoundsAssumption ==
  /\ MaxAttempts \in Nat \ {0}
  /\ MaxFaults \in Nat

\* A row of account_deletions; the three statuses of its parts, and what is due.
TombRecord ==
  [status : {"processing", "complete"}, firebase : {"pending", "deleted"},
   local : {"pending", "deleted"}, linked : BOOLEAN, cred : BOOLEAN,
   apple : {"pending", "revoked", "manual_required", "not_linked"},
   attempts : Nat, appleDue : BOOLEAN, firebaseDue : BOOLEAN]

ASSUME TombAssumption == NoTomb \notin TombRecord

VARIABLES
  tomb,        \* the account_deletions row
  rows,        \* tables that hold rows of the account
  credential,  \* apple_sign_in_credentials holds its refresh token
  firebase,    \* external: the Firebase user exists
  provider,    \* external: the Firebase user has the apple.com provider
  authorized,  \* external: Apple honours the token the server stored last
  queue,       \* callers of acquireKeyedLock, the first one holds the lock
  pc,
  table,       \* next table each purge empties
  linked,      \* appleIdentityLinked of each DELETE
  closed,      \* status requests whose client is gone
  faults       \* faults so far

external == <<firebase, provider, authorized>>
vars == <<tomb, rows, credential, firebase, provider, authorized, queue, pc,
          table, linked, closed, faults>>

NewTomb(isLinked) ==
  [status |-> "processing", firebase |-> "pending", local |-> "pending",
   linked |-> isLinked, cred |-> credential,
   apple |-> IF credential THEN "pending"
             ELSE IF isLinked THEN "manual_required" ELSE "not_linked",
   attempts |-> 0, appleDue |-> TRUE, firebaseDue |-> TRUE]

Processing == tomb # NoTomb /\ tomb.status = "processing"

-----------------------------------------------------------------------------
Init ==
  /\ tomb = NoTomb
  /\ rows = {}
  /\ credential = FALSE
  /\ firebase \in BOOLEAN
  /\ provider \in BOOLEAN
  /\ authorized = FALSE
  /\ queue = <<>>
  /\ \E cast \in Casts :
       pc = [p \in Procs |-> IF p \in cast \cup {Worker} THEN "idle" ELSE "done"]
  /\ table = [p \in Procs |-> 1]
  /\ linked = [p \in Deletes |-> FALSE]
  /\ closed = [p \in Statuses |-> FALSE]
  /\ faults = 0

Goto(p, label) == pc' = [pc EXCEPT ![p] = label]

\* acquireKeyedLock and its release, which a caller may call again in vain.
Enqueue(p) == queue' = Append(queue, p)
Owns(p) == queue # <<>> /\ Head(queue) = p
Released(p) == IF Owns(p) THEN Tail(queue) ELSE queue

\* The finally block of every holder.
Finish(p) ==
  /\ Goto(p, IF p = Worker THEN "idle" ELSE "done")
  /\ queue' = Released(p)

Fault == faults < MaxFaults /\ faults' = faults + 1

-----------------------------------------------------------------------------
(* DELETE /api/users/:uid                                                  *)

DeleteArrives(p) ==
  /\ pc[p] = "idle"
  /\ IF tomb = NoTomb
       THEN Goto(p, "verifying") /\ UNCHANGED <<queue, linked>>
       ELSE /\ linked' = [linked EXCEPT ![p] = tomb.linked]
            /\ Enqueue(p)
            /\ Goto(p, "waiting")
  /\ UNCHANGED <<tomb, rows, credential, external, table, closed, faults>>

\* Firebase is asked for the session and the user. When it knows neither, the
\* tombstone is read again; otherwise the request may be refused.
DeleteVerified(p) ==
  /\ pc[p] = "verifying"
  /\ \/ /\ firebase \/ tomb # NoTomb
        /\ linked' = [linked EXCEPT ![p] = IF firebase THEN provider ELSE tomb.linked]
        /\ Enqueue(p)
        /\ Goto(p, "waiting")
     \/ Goto(p, "done") /\ UNCHANGED <<queue, linked>>
  /\ UNCHANGED <<tomb, rows, credential, external, table, closed, faults>>

\* Wrong: a status request whose client left while it waited keeps the lock.
AcquireKept(p) ==
  /\ pc[p] = "waiting"
  /\ Owns(p)
  /\ Goto(p, IF p \in Statuses /\ closed[p] THEN "done" ELSE "locked")
  /\ UNCHANGED <<tomb, rows, credential, external, queue, table, linked, closed,
                 faults>>

\* A DELETE, status or link request gets the lock. A status request whose
\* client left while it waited gives it back.
Acquire(p) ==
  /\ pc[p] = "waiting"
  /\ Owns(p)
  /\ IF p \in Statuses /\ closed[p] THEN Finish(p)
                                    ELSE Goto(p, "locked") /\ UNCHANGED queue
  /\ UNCHANGED <<tomb, rows, credential, external, table, linked, closed, faults>>

\* The first read of requestAccountDeletion.
DeleteReads(p) ==
  /\ pc[p] = "locked"
  /\ \/ tomb = NoTomb /\ Goto(p, "creating") /\ UNCHANGED queue
     \/ Processing /\ Goto(p, "apple") /\ UNCHANGED queue
     \/ tomb # NoTomb /\ tomb.status = "complete" /\ Finish(p)
  /\ UNCHANGED <<tomb, rows, credential, external, table, linked, closed, faults>>

\* Wrong: the row is written without the account's Apple credential.
CreateWithoutCredential(p) ==
  /\ pc[p] = "creating"
  /\ tomb' = IF tomb # NoTomb THEN tomb
             ELSE [NewTomb(linked[p]) EXCEPT
                     !.cred = FALSE,
                     !.apple = IF linked[p] THEN "manual_required" ELSE "not_linked"]
  /\ Goto(p, "apple")
  /\ UNCHANGED <<rows, credential, external, queue, table, linked, closed, faults>>

\* createAccountDeletion: INSERT OR IGNORE with a snapshot of the credential.
Create(p) ==
  /\ pc[p] = "creating"
  /\ tomb' = IF tomb = NoTomb THEN NewTomb(linked[p]) ELSE tomb
  /\ Goto(p, "apple")
  /\ UNCHANGED <<rows, credential, external, queue, table, linked, closed, faults>>

-----------------------------------------------------------------------------
(* advanceAccountDeletionLocked: Apple, Firebase, local rows, completion   *)

AppleOutcome(outcome, attempts) ==
  tomb' = [tomb EXCEPT !.apple = outcome, !.cred = FALSE, !.appleDue = TRUE,
                       !.attempts = @ + attempts]

\* Wrong: a resumed deletion settles a row without a credential again, whatever
\* was recorded.
AppleSettledAgain(p) ==
  /\ pc[p] = "apple"
  /\ IF tomb.appleDue /\ ~ tomb.cred
       THEN AppleOutcome(IF tomb.linked THEN "manual_required" ELSE "not_linked", 0)
       ELSE (tomb.apple # "pending" \/ ~ tomb.appleDue) /\ UNCHANGED tomb
  /\ Goto(p, "firebase")
  /\ UNCHANGED <<rows, credential, external, queue, table, linked, closed, faults>>

\* Nothing to revoke, nothing due, or a pending row without a credential.
AppleSettled(p) ==
  /\ pc[p] = "apple"
  /\ \/ (tomb.apple # "pending" \/ ~ tomb.appleDue) /\ UNCHANGED tomb
     \/ /\ tomb.apple = "pending" /\ tomb.appleDue /\ ~ tomb.cred
        /\ AppleOutcome(IF tomb.linked THEN "manual_required" ELSE "not_linked", 0)
  /\ Goto(p, "firebase")
  /\ UNCHANGED <<rows, credential, external, queue, table, linked, closed, faults>>

\* revokeAppleCredentialFn: Apple may have revoked even when the call fails.
AppleRevokes(p) ==
  /\ pc[p] = "apple"
  /\ tomb.apple = "pending" /\ tomb.appleDue /\ tomb.cred
  /\ \/ authorized' = FALSE /\ Goto(p, "appleRevoked")
     \/ /\ authorized' \in {authorized, FALSE}
        /\ Goto(p, "appleRetry") \/ Goto(p, "appleManual")
  /\ UNCHANGED <<tomb, rows, credential, firebase, provider, queue, table, linked,
                 closed, faults>>

\* An error of this statement is caught as if the revocation had failed.
AppleMark(p) ==
  /\ pc[p] = "appleRevoked"
  /\ \/ AppleOutcome("revoked", 1) /\ Goto(p, "firebase") /\ UNCHANGED faults
     \/ Fault /\ Goto(p, "appleManual") /\ UNCHANGED tomb
  /\ UNCHANGED <<rows, credential, external, queue, table, linked, closed>>

\* A retryable failure is retried later, for a bounded number of attempts.
AppleFailed(p) ==
  /\ pc[p] \in {"appleRetry", "appleManual"}
  /\ IF pc[p] = "appleRetry" /\ tomb.attempts + 1 < MaxAttempts
       THEN tomb' = [tomb EXCEPT !.attempts = @ + 1, !.appleDue = FALSE]
       ELSE AppleOutcome("manual_required", 1)
  /\ Goto(p, "firebase")
  /\ UNCHANGED <<rows, credential, external, queue, table, linked, closed, faults>>

\* deleteFirebaseUserFn; a user Firebase does not know counts as deleted.
FirebaseDeletes(p) ==
  /\ pc[p] = "firebase"
  /\ \/ /\ tomb.firebase = "deleted" \/ ~ tomb.firebaseDue
        /\ Goto(p, "purging")
        /\ table' = [table EXCEPT ![p] = 1]
        /\ UNCHANGED <<firebase, faults>>
     \/ /\ tomb.firebase = "pending" /\ tomb.firebaseDue
        /\ UNCHANGED table
        /\ \/ firebase' = FALSE /\ Goto(p, "firebaseMark") /\ UNCHANGED faults
           \/ Fault /\ firebase' \in {firebase, FALSE} /\ Goto(p, "firebaseRetry")
  /\ UNCHANGED <<tomb, rows, credential, provider, authorized, queue, linked, closed>>

FirebaseMark(p) ==
  /\ pc[p] \in {"firebaseMark", "firebaseRetry"}
  /\ tomb' = IF pc[p] = "firebaseMark"
               THEN [tomb EXCEPT !.firebase = "deleted", !.firebaseDue = TRUE]
               ELSE [tomb EXCEPT !.firebaseDue = FALSE]
  /\ Goto(p, "purging")
  /\ table' = [table EXCEPT ![p] = 1]
  /\ UNCHANGED <<rows, credential, external, queue, linked, closed, faults>>

\* One DELETE of purgeLocalAccountData. The users row takes the Apple
\* credential with it (ON DELETE CASCADE).
PurgeTable(p) ==
  /\ pc[p] = "purging"
  /\ tomb.local = "pending"
  /\ rows' = rows \ {PurgeOrder[table[p]]}
  /\ credential' = (credential /\ PurgeOrder[table[p]] # "users")
  /\ table' = [table EXCEPT ![p] = IF @ = Len(PurgeOrder) THEN 1 ELSE @ + 1]
  /\ Goto(p, IF table[p] = Len(PurgeOrder) THEN "localMark" ELSE "purging")
  /\ UNCHANGED <<tomb, external, queue, linked, closed, faults>>

\* The rows are gone already, or a DELETE failed and the error is recorded.
PurgeEnds(p) ==
  /\ pc[p] = "purging"
  /\ \/ tomb.local = "deleted" /\ UNCHANGED faults
     \/ tomb.local = "pending" /\ Fault
  /\ Goto(p, "finalize")
  /\ UNCHANGED <<tomb, rows, credential, external, queue, table, linked, closed>>

LocalMark(p) ==
  /\ pc[p] = "localMark"
  /\ tomb' = [tomb EXCEPT !.local = "deleted"]
  /\ Goto(p, "finalize")
  /\ UNCHANGED <<rows, credential, external, queue, table, linked, closed, faults>>

\* Wrong: a Firebase user that is still there does not hold completion up.
CompletableWithoutFirebase ==
  tomb.local = "deleted" /\ tomb.apple # "pending"

Completable ==
  tomb.firebase = "deleted" /\ tomb.local = "deleted" /\ tomb.apple # "pending"

\* finalizeAccountDeletion, and the lock is released.
Finalize(p) ==
  /\ pc[p] = "finalize"
  /\ tomb' = IF Completable THEN [tomb EXCEPT !.status = "complete"] ELSE tomb
  /\ Finish(p)
  /\ UNCHANGED <<rows, credential, external, table, linked, closed, faults>>

AdvanceStep(p) ==
  \/ AppleSettled(p) \/ AppleRevokes(p) \/ AppleMark(p) \/ AppleFailed(p)
  \/ FirebaseDeletes(p) \/ FirebaseMark(p)
  \/ PurgeTable(p) \/ PurgeEnds(p) \/ LocalMark(p) \/ Finalize(p)

\* resumeAccountDeletion has the lock and reads the row.
Resume(p) ==
  /\ pc[p] = "resuming"
  /\ Owns(p)
  /\ IF Processing THEN Goto(p, "apple") /\ UNCHANGED queue ELSE Finish(p)
  /\ UNCHANGED <<tomb, rows, credential, external, table, linked, closed, faults>>

-----------------------------------------------------------------------------
(* GET /api/users/:uid/deletion-status and the recovery worker             *)

StatusArrives(p) ==
  /\ pc[p] = "idle"
  /\ Enqueue(p)
  /\ Goto(p, "waiting")
  /\ UNCHANGED <<tomb, rows, credential, external, table, linked, closed, faults>>

\* The response lock is given back and the caller queues up again to resume.
ReleaseAndResume(p) ==
  /\ queue' = Append(Released(p), p)
  /\ Goto(p, "resuming")

StatusReads(p) ==
  /\ pc[p] = "locked"
  /\ IF tomb # NoTomb THEN ReleaseAndResume(p)
                      ELSE Goto(p, "checking") /\ UNCHANGED queue
  /\ UNCHANGED <<tomb, rows, credential, external, table, linked, closed, faults>>

\* Wrong: the lock is released before the response has been flushed.
StatusAnswersUnlocked(p) ==
  /\ pc[p] = "checking"
  /\ firebase \/ tomb = NoTomb
  /\ Goto(p, IF firebase THEN "flushing" ELSE "done")
  /\ queue' = Released(p)
  /\ UNCHANGED <<tomb, rows, credential, external, table, linked, closed, faults>>

\* Firebase still knows the user, so no deletion was requested; or it does not
\* and there is no tombstone either; or the check failed. The response keeps
\* the lock until it is flushed.
StatusAnswers(p) ==
  /\ pc[p] = "checking"
  /\ \/ firebase /\ Goto(p, "flushing")
     \/ Goto(p, "refusing")
  /\ UNCHANGED <<tomb, rows, credential, external, queue, table, linked, closed,
                 faults>>

\* The check failed and the tombstone is found by now.
StatusRaced(p) ==
  /\ pc[p] = "checking"
  /\ tomb # NoTomb
  /\ ReleaseAndResume(p)
  /\ UNCHANGED <<tomb, rows, credential, external, table, linked, closed, faults>>

\* "finish" releases the response lock.
Flush(p) ==
  /\ pc[p] \in {"flushing", "refusing"}
  /\ Finish(p)
  /\ UNCHANGED <<tomb, rows, credential, external, table, linked, closed, faults>>

\* Wrong: "close" releases whatever lock is held.
CloseReleasesAgain(p) ==
  /\ ~ closed[p]
  /\ pc[p] \notin {"idle", "done"}
  /\ closed' = [closed EXCEPT ![p] = TRUE]
  /\ queue' = IF queue = <<>> THEN queue ELSE Tail(queue)
  /\ UNCHANGED <<tomb, rows, credential, external, pc, table, linked, faults>>

\* The client disconnects: "close" releases the response lock when the request
\* has it; the handler goes on.
Close(p) ==
  /\ ~ closed[p]
  /\ pc[p] \notin {"idle", "done"}
  /\ closed' = [closed EXCEPT ![p] = TRUE]
  /\ queue' = IF pc[p] \in {"locked", "checking", "flushing", "refusing"}
                THEN Released(p) ELSE queue
  /\ UNCHANGED <<tomb, rows, credential, external, pc, table, linked, faults>>

\* listProcessingAccountDeletions finds something to do.
WorkerLists(p) ==
  /\ pc[p] = "idle"
  /\ Processing
  /\ \/ tomb.firebase # "deleted" /\ tomb.firebaseDue
     \/ tomb.local # "deleted"
     \/ tomb.apple = "pending" /\ tomb.appleDue
     \/ Completable
  /\ Enqueue(p)
  /\ Goto(p, "resuming")
  /\ UNCHANGED <<tomb, rows, credential, external, table, linked, closed, faults>>

-----------------------------------------------------------------------------
(* POST /api/auth/apple/link                                               *)

LinkArrives(p) ==
  /\ pc[p] = "idle"
  /\ firebase
  /\ Enqueue(p)
  /\ Goto(p, "waiting")
  /\ UNCHANGED <<tomb, rows, credential, external, table, linked, closed, faults>>

\* getFirebaseUser, ensureUserProfile and the provider check.
LinkReads(p) ==
  /\ pc[p] = "locked"
  /\ IF firebase /\ tomb = NoTomb /\ "users" \in rows /\ provider
       THEN Goto(p, "exchanging") /\ UNCHANGED queue
       ELSE Finish(p)
  /\ UNCHANGED <<tomb, rows, credential, external, table, linked, closed, faults>>

\* exchangeAuthorizationCode and verifyAppleIdentityToken.
LinkExchanges(p) ==
  /\ pc[p] = "exchanging"
  /\ \/ Goto(p, "saving") /\ UNCHANGED queue
     \/ Finish(p)
  /\ UNCHANGED <<tomb, rows, credential, external, table, linked, closed, faults>>

\* saveAppleSignInCredential: the foreign key wants the users row.
LinkSaves(p) ==
  /\ pc[p] = "saving"
  /\ IF "users" \in rows
       THEN credential' = TRUE /\ authorized' = TRUE
       ELSE UNCHANGED <<credential, authorized>>
  /\ Finish(p)
  /\ UNCHANGED <<tomb, rows, firebase, provider, table, linked, closed, faults>>

-----------------------------------------------------------------------------
(* Everything that does not take the lock                                  *)

\* Wrong: no trigger guards the tables.
WriteUnguarded(t) ==
  /\ t \notin rows
  /\ rows' = rows \cup {t}
  /\ UNCHANGED <<tomb, credential, external, queue, pc, table, linked, closed,
                 faults>>

\* A request that authenticated earlier inserts a row into a table the purge
\* empties; that table's trigger aborts it once the tombstone exists.
Write(t) ==
  /\ t \notin rows
  /\ tomb = NoTomb
  /\ rows' = rows \cup {t}
  /\ UNCHANGED <<tomb, credential, external, queue, pc, table, linked, closed,
                 faults>>

\* recordSerperUsage counts a search of such a request. No trigger guards
\* serper_usage_daily, so the row may come at any time.
Meter(t) ==
  /\ t \notin rows
  /\ rows' = rows \cup {t}
  /\ UNCHANGED <<tomb, credential, external, queue, pc, table, linked, closed,
                 faults>>

\* The client adds the apple.com provider with the Firebase SDK.
ProviderLinked ==
  /\ firebase
  /\ ~ provider
  /\ provider' = TRUE
  /\ UNCHANGED <<tomb, rows, credential, firebase, authorized, queue, pc, table,
                 linked, closed, faults>>

\* apple_next_retry_at and firebase_next_retry_at pass.
RetryDue ==
  /\ tomb # NoTomb
  /\ ~ (tomb.appleDue /\ tomb.firebaseDue)
  /\ \/ tomb' = [tomb EXCEPT !.appleDue = TRUE]
     \/ tomb' = [tomb EXCEPT !.firebaseDue = TRUE]
  /\ tomb' # tomb
  /\ UNCHANGED <<rows, credential, external, queue, pc, table, linked, closed, faults>>

\* A statement fails: the error leaves the lock's try block, or is answered.
Throws(p) ==
  /\ \/ pc[p] \in {"creating", "appleRetry", "appleManual", "firebaseMark",
                   "firebaseRetry", "purging", "localMark", "finalize", "saving"}
     \/ pc[p] = "locked" /\ p \notin Statuses
     \/ pc[p] = "resuming" /\ Owns(p)
  /\ Fault
  /\ Finish(p)
  /\ UNCHANGED <<tomb, rows, credential, external, table, linked, closed>>

StatusThrows(p) ==
  /\ pc[p] = "locked"
  /\ Fault
  /\ Goto(p, "refusing")
  /\ UNCHANGED <<tomb, rows, credential, external, queue, table, linked, closed>>

\* The process dies and starts again: locks and requests are gone.
Crash ==
  /\ Fault
  /\ pc' = [p \in Procs |-> IF pc[p] = "idle" \/ p = Worker THEN "idle" ELSE "done"]
  /\ queue' = <<>>
  /\ UNCHANGED <<tomb, rows, credential, external, table, linked, closed>>

DeleteStep(p) ==
  DeleteVerified(p) \/ Acquire(p) \/ DeleteReads(p) \/ Create(p) \/ AdvanceStep(p)
StatusStep(p) ==
  \/ Acquire(p) \/ StatusReads(p) \/ StatusAnswers(p) \/ StatusRaced(p) \/ Flush(p)
  \/ Resume(p) \/ AdvanceStep(p)
WorkerStep(p) == WorkerLists(p) \/ Resume(p) \/ AdvanceStep(p)
LinkStep(p) == Acquire(p) \/ LinkReads(p) \/ LinkExchanges(p) \/ LinkSaves(p)

Running(p) ==
  \/ p \in Deletes /\ DeleteStep(p)
  \/ p \in Statuses /\ StatusStep(p)
  \/ p = Worker /\ WorkerStep(p)
  \/ p \in Links /\ LinkStep(p)

Next ==
  \/ \E p \in Procs : Running(p) \/ Throws(p)
  \/ \E p \in Deletes : DeleteArrives(p)
  \/ \E p \in Statuses : StatusArrives(p) \/ StatusThrows(p) \/ Close(p)
  \/ \E p \in Links : LinkArrives(p)
  \/ \E t \in Tables : Write(t)
  \/ \E t \in Unguarded : Meter(t)
  \/ ProviderLinked \/ RetryDue \/ Crash

Spec == Init /\ [][Next]_vars

\* Started work goes on: statements and calls return or fail, responses are
\* flushed or closed, the interval fires again and back-off times pass. No
\* client has to send a request, and nothing has to succeed at Apple.
FairSpec == Spec /\ (\A p \in Procs : WF_vars(Running(p))) /\ WF_vars(RetryDue)

-----------------------------------------------------------------------------
(* Properties                                                              *)

Advancing == {"apple", "appleRevoked", "appleRetry", "appleManual", "firebase",
              "firebaseMark", "firebaseRetry", "purging", "localMark", "finalize"}
\* Only the holder of the account's lock advances a deletion or links Apple,
\* whoever disconnects and whichever request releases its lock early.
OneAtATime ==
  \A p \in Procs :
    pc[p] \in Advancing \cup {"creating", "exchanging", "saving"} => Owns(p)

\* Once the local data is recorded as deleted, the six tables of the purge and
\* the Apple credential stay empty: no request that was in flight, no link and
\* no retry brings a row back. serper_usage_daily is not among these tables.
NothingComesBack ==
  tomb # NoTomb /\ tomb.local = "deleted" => rows \cap Tables = {} /\ ~ credential

\* A completed deletion has done what it set out to do: the Firebase user is
\* gone, the six tables of the purge are empty and the Apple credential is left
\* neither in its table nor in the tombstone. It says nothing of
\* serper_usage_daily, whose rows outlive the account (Meter).
CompleteMeansDone ==
  tomb # NoTomb /\ tomb.status = "complete" =>
    ~ firebase /\ rows \cap Tables = {} /\ ~ credential /\ ~ tomb.cred

\* README: whoever completes a deletion while Apple still honours the token
\* Pantrio stored is told to revoke it by hand.
NoSilentAuthorization ==
  tomb # NoTomb /\ tomb.status = "complete" /\ authorized =>
    tomb.apple = "manual_required"

\* accountDeletionRoutes.js: while a client waits for an answer that says "not
\* requested", a concurrent DELETE cannot create the tombstone.
NotRequestedIsTrue ==
  \A p \in Statuses : pc[p] = "flushing" /\ ~ closed[p] => tomb = NoTomb

\* What the tombstone has recorded stays: it is never removed, a part done is
\* never undone and the outcome told to the client never changes.
OutcomesAreFinal ==
  [][tomb # NoTomb =>
       /\ tomb' # NoTomb
       /\ tomb.status = "complete" => tomb'.status = "complete"
       /\ tomb.local = "deleted" => tomb'.local = "deleted"
       /\ tomb.firebase = "deleted" => tomb'.firebase = "deleted"
       /\ tomb.apple # "pending" => tomb'.apple = tomb.apple]_vars

\* A durably accepted deletion completes, whatever Apple answers, whoever
\* disconnects, and though some steps fail and the process may restart.
TombstoneCompletes ==
  tomb # NoTomb ~> (tomb # NoTomb /\ tomb.status = "complete")
=============================================================================
