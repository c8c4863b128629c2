---------------------------- MODULE MCServerParts ----------------------------
(* Constants of the run of ServerParts.                                    *)
EXTENDS ServerParts, TLC

\* Two requests share a key.
MCKeyOf == [r \in Requests |-> IF r = "r3" THEN "other user" ELSE "user"]

\* An active report and a newer one that says the subscription has ended.
Older == [at |-> 1, expires |-> 3, state |-> "active"]
Later == [at |-> 2, expires |-> 2, state |-> "ended"]
MCReports == {Older, Later}

\* None of UserProfile
NoReport == [at |-> 0, expires |-> 0, state |-> "ended"]

Ask(kind, terms, report) == [kind |-> kind, terms |-> terms, report |-> report]
MCAsks ==
  ("c1" :> {Ask("session", FALSE, NoReport), Ask("create", TRUE, NoReport),
            Ask("create", FALSE, Older)}) @@
  ("c2" :> {Ask("session", FALSE, NoReport), Ask("sync", FALSE, Later)})

\* Chat: two calls whose arguments come in pieces. Responses: two calls, and a
\* response that fails after a call.
Event(type, call) == [type |-> type, call |-> call]
MCScripts ==
  {[api |-> "chat", events |-> <<Event("text", 0), Event("part", 1), Event("part", 1),
                                 Event("part", 2), Event("part", 2), Event("finish", 0)>>],
   [api |-> "chat", events |-> <<Event("text", 0), Event("text", 0)>>],
   [api |-> "responses", events |-> <<Event("text", 0), Event("item", 1), Event("text", 0),
                                      Event("item", 2), Event("completed", 0)>>],
   [api |-> "responses", events |-> <<Event("text", 0), Event("item", 1), Event("failed", 0)>>]}
=============================================================================
