----------------------------- MODULE UserProfile -----------------------------
(***************************************************************************)
(* The users row of one account and what is answered from it: POST         *)
(* /api/users, PATCH /api/users/me and GET /api/session of                 *)
(* src/src/http/routes.js with sessionService.js, subscriptionStore.js,    *)
(* subscriptionStatus.js and entitlementPolicy.js. The row holds the       *)
(* account token for the App Store, the acceptance of the terms and the    *)
(* newest subscription report of the client. An action is one statement.   *)
(*                                                                         *)
(* A definition whose comment starts with "Wrong:" is a faulty variant of  *)
(* the next one; no specification uses it.                                 *)
(***************************************************************************)
EXTENDS Naturals

CONSTANTS
  Callers,  \* connections a request may come on
  Tokens,   \* what randomUUID may return
  Reports,  \* client reports: [at, expires, state]; at is checkedAt
  Asks,     \* what each one asks for: requests [kind, terms, report]
  MaxAge,   \* SUBSCRIPTION_SNAPSHOT_MAX_AGE_MS
  Skew,     \* SUBSCRIPTION_CLOCK_SKEW_MS
  MaxHour   \* bound on the clock

None == [at |-> 0, expires |-> 0, state |-> "ended"]
NoToken == "no token"

ProfileAssumption ==
  /\ Reports \subseteq [at : Nat \ {0}, expires : Nat, state : {"active", "grace", "ended"}]
  /\ \A c \in Callers :
       Asks[c] \subseteq [kind : {"create", "sync", "session"}, terms : BOOLEAN,
                          report : Reports \cup {None}]
  /\ \A c \in Callers : \A ask \in Asks[c] : ask.kind = "session" => ask.report = None
  /\ NoToken \notin Tokens
  /\ {MaxAge, Skew, MaxHour} \subseteq Nat

VARIABLES
  account,   \* the row: [token, terms, report], or NoAccount
  tombstone, \* account_deletions has the account
  apple,     \* the account has a verified row in apple_subscriptions
  caller,    \* the request on each connection
  told,      \* history: account tokens that were answered
  hour       \* Date.now()

vars == <<account, tombstone, apple, caller, told, hour>>

NoAccount == [token |-> NoToken, terms |-> FALSE, report |-> None, exists |-> FALSE]
Fresh(token, terms) == [token |-> token, terms |-> terms, report |-> None, exists |-> TRUE]

Blank == [from |-> "nothing", at |-> 0, active |-> FALSE]
Nobody ==
  [pc |-> "idle", kind |-> "session", terms |-> FALSE, report |-> None, token |-> NoToken,
   stored |-> None, answer |-> Blank, newest |-> 0, verified |-> FALSE, hour |-> 0]

Init ==
  /\ account \in {NoAccount, Fresh(NoToken, TRUE)}
  /\ tombstone = FALSE /\ apple = FALSE
  /\ caller = [c \in Callers |-> Nobody]
  /\ told = {}
  /\ hour = 1

-----------------------------------------------------------------------------
(* Subscription state                                                      *)

\* normalizeSubscriptionSnapshot: the rest of the shape is taken for granted.
Valid(report) == report.at <= hour + Skew

\* deriveIsSubscribed; "ended" stands for all that is not an entitled, whole,
\* active report.
Subscribed(report) ==
  /\ report.state # "ended"
  /\ report.at <= hour + Skew /\ hour <= report.at + MaxAge
  /\ report.state = "grace" \/ report.expires > hour

\* subscriptionRowToPublic, with the access that resolveSubscriptionAccess gives
\* when unverified reports are allowed
FromReport(report) ==
  [from |-> "client", at |-> report.at, active |-> Subscribed(report)]

\* getVerifiedAppleSubscription; what access it gives is left to AppleClaims.
FromApple == [from |-> "apple", at |-> 0, active |-> FALSE]

-----------------------------------------------------------------------------
(* Requests                                                                *)

At(c, pc) == caller[c].pc = pc
Goes(c, pc) == caller' = [caller EXCEPT ![c].pc = pc]

\* A refusal, with 410 when the account has a tombstone.
Refused(c) == caller' = [caller EXCEPT ![c] = Nobody]

HasReport(c) == caller[c].report # None

\* The request arrives; newest, verified and hour note what it finds.
Arrives(c) ==
  /\ At(c, "idle")
  /\ \E ask \in Asks[c] :
       caller' = [caller EXCEPT ![c] =
         [Nobody EXCEPT !.pc = "token", !.kind = ask.kind, !.terms = ask.terms,
                        !.report = ask.report, !.newest = account.report.at,
                        !.verified = apple, !.hour = hour]]
  /\ UNCHANGED <<account, tombstone, apple, told, hour>>

\* requireAuthenticatedUser looks for a tombstone; then the body is checked.
Authenticates(c) ==
  /\ At(c, "token")
  /\ \/ Refused(c)
     \/ /\ ~ tombstone /\ Valid(caller[c].report)
        /\ Goes(c, IF caller[c].kind = "session" THEN "check" ELSE "find")
  /\ UNCHANGED <<account, tombstone, apple, told, hour>>

\* getAccountDeletion: before a session's profile is read, and before POST
\* creates a row, which needs the terms.
ChecksDeletion(c) ==
  /\ At(c, "check")
  /\ LET allowed == ~ tombstone /\ (caller[c].kind = "create" => caller[c].terms)
     IN IF allowed THEN Goes(c, IF caller[c].kind = "create" THEN "write" ELSE "find")
                   ELSE Refused(c)
  /\ UNCHANGED <<account, tombstone, apple, told, hour>>

\* The row is read. Only POST may go on without one.
Finds(c) ==
  /\ At(c, "find")
  /\ CASE caller[c].kind = "create" -> Goes(c, IF account.exists THEN "write" ELSE "check")
       [] caller[c].kind = "sync" /\ account.exists ->
            Goes(c, IF HasReport(c) THEN "save" ELSE "apple")
       [] caller[c].kind = "session" /\ account.exists ->
            caller' = [caller EXCEPT ![c].pc = IF account.token = NoToken THEN "write" ELSE "apple",
                                     ![c].token = account.token]
       [] OTHER -> Refused(c)
  /\ UNCHANGED <<account, tombstone, apple, told, hour>>

\* Wrong: the token of the last session is kept.
LastToken(old, new) == new

\* COALESCE(users.apple_app_account_token, excluded.apple_app_account_token)
KeptToken(old, new) == IF old # NoToken THEN old ELSE new

\* ensureUserProfile's upsert. The trigger aborts it when there is a tombstone.
SessionWrites(c) ==
  /\ At(c, "write") /\ caller[c].kind = "session"
  /\ IF tombstone THEN Refused(c) /\ UNCHANGED account
     ELSE /\ \E t \in Tokens :
               account' = IF account.exists
                            THEN [account EXCEPT !.token = KeptToken(@, t)] ELSE Fresh(t, FALSE)
          /\ caller' = [caller EXCEPT ![c].pc = "apple", ![c].token = account'.token]
  /\ UNCHANGED <<tombstone, apple, told, hour>>

\* POST's upsert: an existing row keeps its token, its terms and its report.
CreateWrites(c) ==
  /\ At(c, "write") /\ caller[c].kind = "create"
  /\ IF tombstone THEN Refused(c) /\ UNCHANGED account
     ELSE /\ account' = IF account.exists THEN account ELSE Fresh(NoToken, caller[c].terms)
          /\ Goes(c, IF HasReport(c) THEN "save" ELSE "apple")
  /\ UNCHANGED <<tombstone, apple, told, hour>>

\* Wrong: the last report that arrives is stored.
Any(report) == TRUE

\* subscription_checked_at IS NULL OR subscription_checked_at < ?
Newer(report) == account.report.at < report.at

\* saveUserSubscription: UPDATE .. RETURNING
Saves(c) ==
  /\ At(c, "save")
  /\ LET own == caller[c].report
         stores == account.exists /\ Newer(own)
     IN /\ account' = IF stores THEN [account EXCEPT !.report = own] ELSE account
        /\ caller' = [caller EXCEPT ![c].pc = "apple", ![c].stored = IF stores THEN own ELSE None]
  /\ UNCHANGED <<tombstone, apple, told, hour>>

\* Apple's verified state comes before any report; then the row that the update
\* returned.
ReadsApple(c) ==
  /\ At(c, "apple")
  /\ LET stored == caller[c].stored
     IN IF ~ apple /\ stored = None THEN Goes(c, "row")
        ELSE caller' = [caller EXCEPT ![c].pc = "last",
                          ![c].answer = IF apple THEN FromApple ELSE FromReport(stored)]
  /\ UNCHANGED <<account, tombstone, apple, told, hour>>

\* Otherwise the row is read.
ReadsRow(c) ==
  /\ At(c, "row")
  /\ caller' = [caller EXCEPT ![c].pc = "last",
                  ![c].answer = IF account.exists THEN FromReport(account.report) ELSE Blank]
  /\ UNCHANGED <<account, tombstone, apple, told, hour>>

\* The tombstone is looked for once more, and the response is sent.
Answers(c) ==
  /\ At(c, "last")
  /\ IF tombstone THEN Refused(c) /\ UNCHANGED told
     ELSE /\ Goes(c, "answered")
          /\ told' = IF caller[c].kind = "session" THEN told \cup {caller[c].token} ELSE told
  /\ UNCHANGED <<account, tombstone, apple, hour>>

Leaves(c) ==
  /\ At(c, "answered")
  /\ Refused(c)
  /\ UNCHANGED <<account, tombstone, apple, told, hour>>

-----------------------------------------------------------------------------
(* The rest of the server                                                  *)

\* AppleClaims: a verified row of the account appears.
AppleVerifies ==
  /\ account.exists /\ ~ apple
  /\ apple' = TRUE
  /\ UNCHANGED <<account, tombstone, caller, told, hour>>

\* AccountDeletion: the tombstone, later the purge.
Tombstoned ==
  /\ ~ tombstone
  /\ tombstone' = TRUE
  /\ UNCHANGED <<account, apple, caller, told, hour>>

Purged ==
  /\ tombstone /\ account.exists
  /\ account' = NoAccount /\ apple' = FALSE
  /\ UNCHANGED <<tombstone, caller, told, hour>>

Ticks ==
  /\ hour < MaxHour
  /\ hour' = hour + 1
  /\ UNCHANGED <<account, tombstone, apple, caller, told>>

Request(c) ==
  \/ Arrives(c) \/ Authenticates(c) \/ ChecksDeletion(c) \/ Finds(c) \/ SessionWrites(c)
  \/ CreateWrites(c) \/ Saves(c) \/ ReadsApple(c) \/ ReadsRow(c) \/ Answers(c) \/ Leaves(c)

Next == (\E c \in Callers : Request(c)) \/ AppleVerifies \/ Tombstoned \/ Purged \/ Ticks

Spec == Init /\ [][Next]_vars

-----------------------------------------------------------------------------
(* Properties                                                              *)

\* An account is created by a request that accepted the terms, although the
\* session and profile requests also insert rows and the row they read may be
\* purged before they write. Sessions that run at once, each with a token of its
\* own, all answer with the account's one token. No answer is made of a row that
\* a deletion has removed.
ProfilesConsistent ==
  /\ account.exists => account.terms
  /\ NoToken \notin told /\ \A s, t \in told : s = t
  /\ account.exists /\ told # {} => told = {account.token}
  /\ \A c \in Callers : At(c, "answered") => caller[c].answer # Blank

\* Reports arrive in any order, and the newest one wins: no answer is older
\* than the report that was stored when its request came, or than its own; a
\* report that had expired by then gives no access; and once Apple has vouched for
\* the account, reports no longer count.
ReportsOrdered ==
  \A c \in Callers : At(c, "answered") =>
    LET own == caller[c] IN
    \/ own.answer.from = "apple"
    \/ /\ ~ own.verified
       /\ own.answer.at >= own.newest /\ own.answer.at >= own.report.at
       /\ own.answer.active => own.hour <= own.answer.at + MaxAge
=============================================================================
