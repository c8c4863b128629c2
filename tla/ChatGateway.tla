------------------------------ MODULE ChatGateway ------------------------------
(***************************************************************************)
(* The WebSocket chat gateway (src/src/ws/chatGateway.js): the start,      *)
(* cancel and tool_results messages of its connections, the rounds of      *)
(* model and tool calls each request runs, timers, closing sockets and     *)
(* draining.                                                               *)
(*                                                                         *)
(* A connection finds its requests by requestId, in the Maps `active` and  *)
(* `starting`; a round keeps the state object it was launched for while it *)
(* awaits. A start message stands for the state object it creates, and a   *)
(* round in flight is a task that names its start. Clients may use a       *)
(* requestId again once it is free.                                        *)
(*                                                                         *)
(* A definition whose comment starts with "Wrong:" is a faulty variant of  *)
(* the next one; no specification uses it.                                 *)
(***************************************************************************)
EXTENDS Integers, Sequences, FiniteSets

CONSTANTS
  Starts,        \* start messages, each sent once
  Conns,         \* WebSocket connections
  Ids,           \* requestIds
  ConnOf,        \* the connection of each start
  UserOf,        \* the user of each start
  ServerNames,   \* tool calls the server runs
  ClientNames,   \* tool calls the client answers
  RefusedNames,  \* tool calls the round's policy refuses or skips
  MaxToolRounds, \* MAX_TOOL_ROUNDS
  MaxActive, MaxPerUser,    \* MAX_CONCURRENT_CHAT_REQUESTS[_PER_USER]
  MaxPending, MaxPerConn,   \* MAX_PENDING_CHAT_STARTS[_PER_CONNECTION]
  MaxEarly,      \* MAX_CHAT_MESSAGES, the bound on buffered early results
  Tasks,         \* bound: rounds in flight at once
  None

ASSUME StartsAssumption ==
  /\ ConnOf \in [Starts -> Conns]
  /\ DOMAIN UserOf = Starts
  /\ None \notin Starts
ASSUME LimitsAssumption ==
  /\ MaxToolRounds \in Nat
  /\ {MaxActive, MaxPerUser, MaxPending, MaxPerConn, MaxEarly} \subseteq Nat \ {0}

Names == ServerNames \cup ClientNames \cup RefusedNames

\* A round's calls are finite; each is refused, run by the server or sent to
\* the client, never two of these.
ASSUME NamesAssumption ==
  /\ IsFiniteSet(Names)
  /\ ServerNames \cap ClientNames = {}
  /\ RefusedNames \cap (ServerNames \cup ClientNames) = {}

Keys == Conns \X Ids

VARIABLES
  id,          \* requestId of each start
  stage,       \* progress of each start's message handler
  cancelled,   \* starts whose pendingStart is cancelled
  pending,     \* starts that hold a pending-start slot
  starting,    \* the Map `starting` of each connection
  active,      \* the Map `active` of each connection
  slots,       \* starts that hold a chat request slot
  req,         \* the state object of each start; `answered` is history: every
               \* tool round replayed to the model answers each call once
  task,        \* rounds in flight: the start, where it awaits, its tool calls
  closed,      \* connections that are closed
  draining

vars == <<id, stage, cancelled, pending, starting, active, slots, req, task,
          closed, draining>>

Key(s) == <<ConnOf[s], id[s]>>
IdleTask == [of |-> None, at |-> "idle", calls |-> {}]

FreshRequest ==
  [round |-> 0, calls |-> {}, got |-> <<>>, assigned |-> {}, received |-> {},
   early |-> {}, awaiting |-> FALSE, accepting |-> FALSE, timer |-> FALSE,
   aborted |-> FALSE, answered |-> TRUE]

IdsOf(msgs) == {msgs[i] : i \in DOMAIN msgs}

-----------------------------------------------------------------------------
(* What the handlers share: functions of the part of the state they change. *)

Now == [active |-> active, slots |-> slots, req |-> req, task |-> task,
        fits |-> TRUE]
Becomes(g) ==
  /\ g.fits
  /\ active' = g.active /\ slots' = g.slots /\ req' = g.req /\ task' = g.task

\* Its timer is cleared and, if asked for, its controller aborted.
Dropped(r, abort) == [r EXCEPT !.timer = FALSE, !.aborted = r.aborted \/ abort]

\* deleteActiveRequest: whatever request has this key now.
Deleted(g, k, abort) ==
  LET s == g.active[k]
  IN IF s = None THEN g
     ELSE [g EXCEPT !.active[k] = None,
                    !.slots = @ \ {s},
                    !.req[s] = Dropped(@, abort)]

\* launchRound, up to the first await of runOneRound.
Launched(g, s) ==
  LET free == {t \in Tasks : g.task[t].of = None}
  IN IF free = {} THEN [g EXCEPT !.fits = FALSE]
     ELSE [g EXCEPT !.task[CHOOSE t \in free : TRUE] =
                       [of |-> s, at |-> "admitting", calls |-> {}]]

\* The tool messages of a round answer each of its calls exactly once.
AnswersCalls(r) == IdsOf(r.got) = r.calls /\ Len(r.got) = Cardinality(r.calls)

\* Wrong: the timer keeps running when the round is complete.
ReplayedTimerKept(r) ==
  [r EXCEPT !.calls = {}, !.got = <<>>, !.assigned = {}, !.early = {},
            !.awaiting = FALSE, !.accepting = FALSE,
            !.answered = r.answered /\ AnswersCalls(r)]

\* The round's messages go to the model and its books are cleared.
Replayed(r) ==
  [r EXCEPT !.calls = {}, !.got = <<>>, !.assigned = {}, !.early = {},
            !.awaiting = FALSE, !.accepting = FALSE, !.timer = FALSE,
            !.answered = r.answered /\ AnswersCalls(r)]

\* maybeResumeAfterTools.
Resumed(g, k) ==
  LET s == g.active[k]
  IN IF s = None \/ ~ (g.req[s].calls \subseteq IdsOf(g.req[s].got)) THEN g
     ELSE Launched([g EXCEPT !.req[s] = Replayed(@)], s)

\* The tool messages of some calls, in any order.
MessagesFor(calls) ==
  CHOOSE m \in [1..Cardinality(calls) -> calls] : IdsOf(m) = calls

\* New results of the client.
Extended(r, new) ==
  [r EXCEPT !.received = @ \cup new, !.got = @ \o MessagesFor(new)]

\* Wrong: results are taken without asking whether the client owns the calls.
AcceptedUnchecked(g, k, s, results) ==
  Resumed([g EXCEPT !.req[s] = Extended(@, results \ @.received)], k)

\* acceptClientToolResults.
Accepted(g, k, s, results) ==
  IF ~ (results \subseteq g.req[s].assigned) THEN Deleted(g, k, TRUE)
  ELSE Resumed([g EXCEPT !.req[s] = Extended(@, results \ @.received)], k)

\* What follows the server's tools in runOneRound: the client's calls are
\* published, early results are taken, and the 30 s timer starts unless the
\* round is complete; a round without client calls resumes at once.
Published(g, k, s, client) ==
  LET g1 == [g EXCEPT !.req[s] = [@ EXCEPT !.assigned = client, !.accepting = TRUE,
                                            !.early = {}]]
      g2 == IF g.req[s].early = {} THEN g1 ELSE Accepted(g1, k, s, g.req[s].early)
  IN CASE client = {} -> Resumed(g, k)
       [] client # {} /\ g.req[s].early # {} /\
          (g2.active[k] # s \/ ~ g2.req[s].awaiting) -> g2
       [] OTHER ->
            IF client \subseteq g2.req[s].received THEN Resumed(g2, k)
            ELSE [g2 EXCEPT !.req[s].timer = TRUE]

Ended(g, t) == [g EXCEPT !.task[t] = IdleTask]

-----------------------------------------------------------------------------
Init ==
  /\ id \in [Starts -> Ids]
  /\ stage = [s \in Starts |-> "unsent"]
  /\ cancelled = {}
  /\ pending = {}
  /\ starting = [k \in Keys |-> None]
  /\ active = [k \in Keys |-> None]
  /\ slots = {}
  /\ req = [s \in Starts |-> FreshRequest]
  /\ task = [t \in Tasks |-> IdleTask]
  /\ closed = {}
  /\ draining = FALSE

\* Wrong: a draining gateway goes on handling messages.
HandlesUntilClosed(c) == c \notin closed

\* The message handler of a connection turns messages away while draining.
Handles(c) == c \notin closed /\ ~ draining

-----------------------------------------------------------------------------
(* start                                                                   *)

PendingOf(c) == {s \in pending : ConnOf[s] = c}
PendingStartFree(s) ==
  Cardinality(pending) < MaxPending /\ Cardinality(PendingOf(ConnOf[s])) < MaxPerConn

\* The duplicate check and the pending-start slot, before the first await.
StartArrives(s) ==
  /\ stage[s] = "unsent"
  /\ Handles(ConnOf[s])
  /\ IF active[Key(s)] # None \/ starting[Key(s)] # None \/ ~ PendingStartFree(s)
       THEN /\ stage' = [stage EXCEPT ![s] = "refused"]
            /\ UNCHANGED <<pending, starting>>
       ELSE /\ stage' = [stage EXCEPT ![s] = "preflight"]
            /\ pending' = pending \cup {s}
            /\ starting' = [starting EXCEPT ![Key(s)] = s]
  /\ UNCHANGED <<id, cancelled, active, slots, req, task, closed, draining>>

\* The finally block of the start handler.
PreflightEnds(s, result) ==
  /\ stage' = [stage EXCEPT ![s] = result]
  /\ pending' = pending \ {s}
  /\ starting' = [starting EXCEPT ![Key(s)] = None]

\* A token, deletion, subscription, rate or validation check fails or throws.
PreflightFails(s) ==
  /\ stage[s] = "preflight"
  /\ PreflightEnds(s, "refused")
  /\ UNCHANGED <<id, cancelled, active, slots, req, task, closed, draining>>

ChatSlotFree(s) ==
  /\ Cardinality(slots) < MaxActive
  /\ Cardinality({q \in slots : UserOf[q] = UserOf[s]}) < MaxPerUser

\* Wrong: a start whose client cancelled or left meanwhile is admitted.
AdmitUnchecked(s) ==
  /\ stage[s] = "preflight"
  /\ IF ChatSlotFree(s)
       THEN /\ Becomes(Launched([Now EXCEPT !.active[Key(s)] = s,
                                            !.slots = @ \cup {s}], s))
            /\ PreflightEnds(s, "accepted")
       ELSE /\ PreflightEnds(s, "refused")
            /\ UNCHANGED <<active, slots, req, task>>
  /\ UNCHANGED <<id, cancelled, closed, draining>>

\* All checks passed: the request gets a slot and its first round, unless it
\* was cancelled or every slot is taken.
Admit(s) ==
  /\ stage[s] = "preflight"
  /\ IF s \notin cancelled /\ ChatSlotFree(s)
       THEN /\ Becomes(Launched([Now EXCEPT !.active[Key(s)] = s,
                                            !.slots = @ \cup {s}], s))
            /\ PreflightEnds(s, "accepted")
       ELSE /\ PreflightEnds(s, "refused")
            /\ UNCHANGED <<active, slots, req, task>>
  /\ UNCHANGED <<id, cancelled, closed, draining>>

-----------------------------------------------------------------------------
(* cancel, tool_results, the tool-results timer, close and drain           *)

\* Wrong: the provider call of a cancelled request is not aborted.
CancelWithoutAbort(k) ==
  /\ Handles(k[1])
  /\ active[k] # None \/ starting[k] # None
  /\ Becomes(Deleted(Now, k, FALSE))
  /\ cancelled' = cancelled \cup ({starting[k]} \ {None})
  /\ UNCHANGED <<id, stage, pending, starting, closed, draining>>

\* An active request is aborted and forgotten, one in preflight is marked.
Cancel(k) ==
  /\ Handles(k[1])
  /\ active[k] # None \/ starting[k] # None
  /\ Becomes(Deleted(Now, k, TRUE))
  /\ cancelled' = cancelled \cup ({starting[k]} \ {None})
  /\ UNCHANGED <<id, stage, pending, starting, closed, draining>>

\* Results a client may send: of this round's calls or, twice or never asked
\* for, of the round before it.
Offered(s) == {req[s].round - 1, req[s].round} \X ClientNames

ToolResults(k, results) ==
  LET s == active[k]
      novel == results \ req[s].received
  IN /\ Handles(k[1])
     /\ s # None
     /\ results \subseteq Offered(s)
     /\ novel # {}
     /\ Becomes(IF req[s].accepting THEN Accepted(Now, k, s, novel)
                ELSE IF Cardinality(req[s].early \cup novel) > MaxEarly
                THEN Deleted(Now, k, TRUE)
                ELSE [Now EXCEPT !.req[s].early = @ \cup novel])
     /\ UNCHANGED <<id, stage, cancelled, pending, starting, closed, draining>>

\* Malformed results, or too many copies of early ones.
InvalidToolResults(k) ==
  /\ Handles(k[1])
  /\ active[k] # None
  /\ Becomes(Deleted(Now, k, TRUE))
  /\ UNCHANGED <<id, stage, cancelled, pending, starting, closed, draining>>

\* setTimeout of the state object s; it looks its requestId up again.
ToolResultsTimeout(s) ==
  LET fired == [Now EXCEPT !.req[s].timer = FALSE]
      q == active[Key(s)]
  IN /\ req[s].timer
     /\ Becomes(IF q # None /\ req[q].awaiting THEN Deleted(fired, Key(s), FALSE)
                ELSE fired)
     /\ UNCHANGED <<id, stage, cancelled, pending, starting, closed, draining>>

\* Every request of the connection is cancelled.
Close(c) ==
  /\ c \notin closed
  /\ closed' = closed \cup {c}
  /\ cancelled' = cancelled \cup {s \in Starts : starting[Key(s)] = s /\ ConnOf[s] = c}
  /\ starting' = [k \in Keys |-> IF k[1] = c THEN None ELSE starting[k]]
  /\ LET gone == {s \in Starts : ConnOf[s] = c /\ active[Key(s)] = s}
     IN /\ active' = [k \in Keys |-> IF k[1] = c THEN None ELSE active[k]]
        /\ slots' = slots \ gone
        /\ req' = [s \in Starts |->
                     IF s \in gone THEN [req[s] EXCEPT !.timer = FALSE, !.aborted = TRUE]
                                   ELSE req[s]]
  /\ UNCHANGED <<id, stage, pending, task, draining>>

BeginDrain ==
  /\ ~ draining
  /\ draining' = TRUE
  /\ UNCHANGED <<id, stage, cancelled, pending, starting, active, slots, req, task,
                 closed>>

-----------------------------------------------------------------------------
(* runOneRound                                                             *)

TaskAt(t, label) == task[t].at = label
KeyOf(t) == Key(task[t].of)
Moves(t, label) == task' = [task EXCEPT ![t].at = label]
ElsewhereUnchanged ==
  UNCHANGED <<id, stage, cancelled, pending, starting, closed, draining>>

\* The quota is read and reserved; the provider is called.
CallProvider(t) ==
  /\ TaskAt(t, "admitting")
  /\ Moves(t, "provider")
  /\ ElsewhereUnchanged /\ UNCHANGED <<active, slots, req>>

\* The provider's stream ends; an aborted one cannot succeed any more.
ProviderReturns(t) ==
  /\ TaskAt(t, "provider")
  /\ \/ ~ req[task[t].of].aborted /\ Moves(t, "settling")
     \/ Moves(t, "refunding")
  /\ ElsewhereUnchanged /\ UNCHANGED <<active, slots, req>>

\* The round ends its request: too large, no quota left, an error answer, the
\* final answer, or one tool round too many.
RoundEnds(t) ==
  /\ TaskAt(t, "admitting") \/ TaskAt(t, "settling")
  /\ Becomes(Deleted(Ended(Now, t), KeyOf(t), FALSE))
  /\ ElsewhereUnchanged

ToolRoundAllowed(r) == r.round < MaxToolRounds

\* The calls of these tools.
Those(calls, names) == {c \in calls : c[2] \in names}

\* The books of a new tool round. Refused calls are answered at once.
Called(r, calls) ==
  [r EXCEPT !.calls = calls, !.got = MessagesFor(Those(calls, RefusedNames)),
            !.assigned = {}, !.round = @ + 1, !.awaiting = TRUE, !.accepting = FALSE]

\* The answer calls tools.
RoundCallsTools(t, names) ==
  LET s == task[t].of
      calls == {req[s].round + 1} \X names
      called == [Now EXCEPT !.req[s] = Called(@, calls)]
  IN /\ TaskAt(t, "settling")
     /\ ToolRoundAllowed(req[s])
     /\ Becomes(IF names \cap ServerNames # {}
                  THEN [called EXCEPT !.task[t] = [@ EXCEPT !.at = "tools", !.calls = calls]]
                  ELSE Published(Ended(called, t), KeyOf(t), s, Those(calls, ClientNames)))
     /\ ElsewhereUnchanged

\* The server's tools are done. A round whose request is gone stops here.
ServerToolsReturn(t) ==
  LET s == task[t].of
      done == Those(task[t].calls, ServerNames)
  IN /\ TaskAt(t, "tools")
     /\ ~ req[s].aborted
     /\ Becomes(IF active[KeyOf(t)] # s THEN Ended(Now, t)
                ELSE Published([Ended(Now, t) EXCEPT !.req[s].got = @ \o MessagesFor(done)],
                               KeyOf(t), s,
                               Those(task[t].calls, ClientNames)))
     /\ ElsewhereUnchanged

\* They throw or time out: the request fails, or the error is rethrown when
\* the request is gone.
ServerToolsFail(t) ==
  /\ TaskAt(t, "tools")
  /\ active[KeyOf(t)] = task[t].of
  /\ Becomes(Deleted(Ended(Now, t), KeyOf(t), TRUE))
  /\ ElsewhereUnchanged

\* handleRoundFailure begins: nothing to report when no request has the key,
\* otherwise the deletion record is looked up.
RoundThrows(t) ==
  /\ \/ TaskAt(t, "admitting") \/ TaskAt(t, "settling") \/ TaskAt(t, "refunding")
     \/ TaskAt(t, "tools") /\ active[KeyOf(t)] # task[t].of
  /\ Becomes(IF active[KeyOf(t)] = None THEN Ended(Now, t)
             ELSE [Now EXCEPT !.task[t].at = "failing"])
  /\ ElsewhereUnchanged

\* handleRoundFailure ends.
FailureReported(t) ==
  /\ TaskAt(t, "failing")
  /\ Becomes(Deleted(Ended(Now, t), KeyOf(t), FALSE))
  /\ ElsewhereUnchanged

TaskStep(t) ==
  \/ CallProvider(t) \/ ProviderReturns(t) \/ RoundEnds(t)
  \/ \E names \in SUBSET Names \ {{}} : RoundCallsTools(t, names)
  \/ ServerToolsReturn(t) \/ ServerToolsFail(t)
  \/ RoundThrows(t) \/ FailureReported(t)

Preflight(s) == PreflightFails(s) \/ Admit(s)

ClientStep ==
  \/ \E s \in Starts : StartArrives(s)
  \/ \E k \in Keys : Cancel(k) \/ InvalidToolResults(k)
  \/ \E s \in Starts : \E results \in SUBSET Offered(s) :
       active[Key(s)] = s /\ ToolResults(Key(s), results)
  \/ \E c \in Conns : Close(c)

Next ==
  \/ ClientStep
  \/ \E s \in Starts : Preflight(s) \/ ToolResultsTimeout(s)
  \/ \E t \in Tasks : TaskStep(t)
  \/ BeginDrain

Spec == Init /\ [][Next]_vars

-----------------------------------------------------------------------------
(* Properties                                                              *)

\* A slot is held by exactly the requests their connections still know, so none
\* leaks and none is freed twice; the limits hold for all and per user; and a
\* closed connection holds nothing, even when it closed during a preflight.
SlotsAreLiveRequests ==
  /\ slots = {s \in Starts : active[Key(s)] = s}
  /\ \A s \in slots : ConnOf[s] \notin closed
  /\ Cardinality(slots) <= MaxActive
  /\ \A s \in slots : Cardinality({q \in slots : UserOf[q] = UserOf[s]}) <= MaxPerUser
  /\ pending = {s \in Starts : stage[s] = "preflight"}

\* The request's id is not used by another request of its connection.
Unique(s) == \A q \in Starts \ {s} : Key(q) # Key(s)

\* A request that holds a slot is driven by exactly one round in flight or by
\* the tool-results timer: two rounds never work on one request, and none waits
\* for a client for ever.
DrivenByOne ==
  \A s \in slots : Unique(s) =>
    LET rounds == {t \in Tasks : task[t].of = s}
    IN \/ Cardinality(rounds) = 1 /\ ~ req[s].timer
       \/ rounds = {} /\ req[s].timer /\ req[s].awaiting

\* A provider call that nobody aborted belongs to a request that holds a slot:
\* what the limits count is what really runs.
CallsHoldSlots ==
  \A t \in Tasks :
    /\ task[t].at = "provider"
    /\ Unique(task[t].of)
    /\ ~ req[task[t].of].aborted
    => task[t].of \in slots

\* The comment on makeAssistantToolCallMsg: "one tool message per tool_call_id",
\* whoever answered a call, early, late, twice or in parts.
AnsweredOnce == \A s \in Starts : Unique(s) => req[s].answered

\* The same comment, for every request the gateway accepts.
CallsAnsweredOnce == \A s \in Starts : req[s].answered

\* Once waitForIdle of a draining gateway returns, no handler or round starts
\* again before the database is closed.
Idle == pending = {} /\ \A t \in Tasks : task[t].of = None
DrainIsFinal == [][draining /\ Idle => Idle']_vars
=============================================================================
