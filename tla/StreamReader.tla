---------------------------- MODULE StreamReader ----------------------------
(***************************************************************************)
(* One streamed call of a provider: streamOpenAIOnce of                    *)
(* src/src/chat/openaiStream.js and streamResponsesOnce of                 *)
(* responsesStream.js, which differ in the events they understand. The     *)
(* provider's events arrive in chunks that end anywhere, the stream may be *)
(* cut, and a timer or the gateway may abort it.                           *)
(*                                                                         *)
(* Each event takes two units of the stream, so a chunk may end inside it. *)
(*                                                                         *)
(* A definition whose comment starts with "Wrong:" is a faulty variant of  *)
(* the next one; no specification uses it.                                 *)
(***************************************************************************)
EXTENDS Naturals, Sequences, FiniteSets

CONSTANTS
  Scripts  \* what a provider may send: [api, events]

\* "text": a piece of text. "part": a piece of the arguments of a call (chat).
\* "finish": finish_reason "tool_calls" (chat). "item": a whole call (responses).
\* "completed": the response with all its items. "failed": an error event.
Events == [type : {"text", "finish", "completed", "failed"}, call : {0}]
  \cup [type : {"part", "item"}, call : Nat \ {0}]

\* What the protocols promise. Chat: "finish" follows the last part of a call.
\* Responses: one item brings a call, and "completed" follows the last item.
ChatProtocol(events) ==
  /\ \A i \in DOMAIN events : events[i].type \in {"text", "part", "finish"}
  /\ \A i \in DOMAIN events : events[i].type = "part" =>
       \E f \in DOMAIN events : events[f].type = "finish"
  /\ \A i, f \in DOMAIN events : events[i].type = "part" /\ events[f].type = "finish" => i < f

ResponsesProtocol(events) ==
  /\ \A i \in DOMAIN events : events[i].type \in {"text", "item", "completed", "failed"}
  /\ \A i, j \in DOMAIN events :
       events[i].type = "item" /\ events[j].type = "item" /\ events[i].call = events[j].call
         => i = j
  /\ \A i, c \in DOMAIN events :
       events[i].type = "item" /\ events[c].type = "completed" => i < c

ScriptsAssumption ==
  \A s \in Scripts :
    /\ s.events \in Seq(Events)
    /\ \/ s.api = "chat" /\ ChatProtocol(s.events)
       \/ s.api = "responses" /\ ResponsesProtocol(s.events)

VARIABLES
  script,    \* what the provider sends
  arrived,   \* units that were read so far
  buffer,    \* units read after the last whole event: [event, half]
  deltas,    \* pieces of text sent to the client, by the event they came from
  parts,     \* per call, the events whose arguments were put together (chat),
             \* or the event that brought it (responses)
  finish,    \* finish_reason was seen (chat)
  completed, \* response.completed was seen (responses)
  failure,   \* an error event was seen (responses)
  abort,     \* "no", "timeout" or "cancelled": who aborted the controller
  outcome    \* "reading", "ok", "error", "timeout" or "cancelled"

content == <<deltas, parts, finish, completed, failure>>
vars == <<script, arrived, buffer, content, abort, outcome>>

Sent == script.events
CallsOf(s) == {s.events[i].call : i \in DOMAIN s.events} \ {0}
Of(types) == {i \in DOMAIN Sent : Sent[i].type \in types}
Piece(call) == {i \in Of({"part", "item"}) : Sent[i].call = call}

Unit(n) == [event |-> (n + 1) \div 2, half |-> (n + 1) % 2]

Init ==
  /\ script \in Scripts
  /\ arrived = 0 /\ buffer = <<>>
  /\ deltas = <<>> /\ parts = [c \in CallsOf(script) |-> {}]
  /\ finish = FALSE /\ completed = FALSE /\ failure = FALSE
  /\ abort = "no" /\ outcome = "reading"

-----------------------------------------------------------------------------
(* Parsing                                                                 *)

\* What stands at the positions K of a sequence, in its order.
At(seq, K) ==
  [n \in 1..Cardinality(K) |->
     seq[CHOOSE i \in K : Cardinality({j \in K : j < i}) = n - 1]]

\* The whole events of the buffer, in order: their data parses.
Whole(units) ==
  LET ends == {i \in DOMAIN units :
                 /\ units[i].half = 1
                 /\ \E j \in DOMAIN units : units[j] = [event |-> units[i].event, half |-> 0]}
      last == At(units, ends)
  IN [n \in DOMAIN last |-> last[n].event]

\* Wrong: what follows the last boundary is dropped.
RestDropped(units) == <<>>

\* buffer = events.pop(): what follows the last boundary
Rest(units) ==
  IF units # <<>> /\ units[Len(units)].half = 0 THEN <<units[Len(units)]>> ELSE <<>>

InEvents(events, type) ==
  At(events, {i \in DOMAIN events : Sent[events[i]].type = type})

Has(events, type) == \E i \in DOMAIN events : Sent[events[i]].type = type

\* upsertToolCalls: arguments are appended to the call with that index.
UpsertToolCalls(events) ==
  [c \in DOMAIN parts |->
     parts[c] \cup {events[i] : i \in {j \in DOMAIN events : events[j] \in Piece(c)}}]

\* The events of the chat stream.
ChatEvents(events) ==
  /\ deltas' = deltas \o InEvents(events, "text")
  /\ parts' = UpsertToolCalls(events)
  /\ finish' = (finish \/ Has(events, "finish"))
  /\ UNCHANGED <<completed, failure>>

\* The events of the responses stream.
ResponsesEvents(events) ==
  /\ deltas' = deltas \o InEvents(events, "text")
  /\ parts' = UpsertToolCalls(events)
  /\ completed' = (completed \/ Has(events, "completed"))
  /\ failure' = (failure \/ Has(events, "failed"))
  /\ UNCHANGED finish

-----------------------------------------------------------------------------
\* A chunk arrives: some units more.
ChunkArrives(n) ==
  /\ outcome = "reading" /\ abort = "no"
  /\ n > 0 /\ arrived + n <= 2 * Len(Sent)
  /\ arrived' = arrived + n
  /\ LET units == buffer \o [i \in 1..n |-> Unit(arrived + i)]
     IN /\ buffer' = Rest(units)
        /\ IF script.api = "chat" THEN ChatEvents(Whole(units)) ELSE ResponsesEvents(Whole(units))
  /\ UNCHANGED <<script, abort, outcome>>

\* The stream ends, after its last event or before.
StreamEnds ==
  /\ outcome = "reading" /\ abort = "no"
  /\ outcome' = IF failure THEN "error" ELSE "ok"
  /\ UNCHANGED <<script, arrived, buffer, content, abort>>

\* The provider answers with an error instead of a stream.
HttpFails ==
  /\ outcome = "reading" /\ abort = "no" /\ arrived = 0
  /\ outcome' = "error"
  /\ UNCHANGED <<script, arrived, buffer, content, abort>>

\* The timer of withAbortTimeout fires, or the gateway aborts the controller.
Aborts ==
  /\ outcome = "reading"
  /\ \/ abort = "no" /\ abort' \in {"timeout", "cancelled"}
     \/ abort = "cancelled" /\ abort' = "timeout"
  /\ UNCHANGED <<script, arrived, buffer, content, outcome>>

\* The read rejects; a timer that has fired by then turns it into a time-out.
Rejects ==
  /\ outcome = "reading" /\ abort # "no"
  /\ outcome' = abort
  /\ UNCHANGED <<script, arrived, buffer, content, abort>>

Next ==
  (\E n \in 1..(2 * Len(Sent)) : ChunkArrives(n)) \/ StreamEnds \/ HttpFails \/ Aborts \/ Rejects

Spec == Init /\ [][Next]_vars

\* The calls that are returned when needsTools is set. A completed response
\* lists its items again.
Returned ==
  IF outcome # "ok" \/ (script.api = "chat" /\ ~ finish) THEN {}
  ELSE IF completed THEN CallsOf(script) ELSE {c \in DOMAIN parts : parts[c] # {}}

-----------------------------------------------------------------------------
(* Properties                                                              *)

\* The text that reached the client is what the provider has sent, in order and
\* once; no call is returned with a part of its arguments missing, wherever the
\* stream was cut; and a stream that was read to its end yields all its text and,
\* unless it failed, all its calls, wherever its chunks ended.
StreamFaithful ==
  LET through == {i \in DOMAIN Sent : 2 * i <= arrived}
  IN /\ \A i, j \in DOMAIN deltas : i < j => deltas[i] < deltas[j]
     /\ {deltas[i] : i \in DOMAIN deltas} = Of({"text"}) \cap through
     /\ \A c \in Returned : parts[c] = Piece(c)
     /\ outcome = "ok" /\ arrived = 2 * Len(Sent) => Returned = CallsOf(script)
=============================================================================
