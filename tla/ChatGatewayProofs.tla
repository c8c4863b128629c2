--------------------------- MODULE ChatGatewayProofs ---------------------------
(***************************************************************************)
(* Machine-checked proofs about ChatGateway, for any number of connections,*)
(* requests, tools and rounds in flight.                                   *)
(***************************************************************************)
EXTENDS ChatGateway, FiniteSetTheorems, SequenceTheorems, TLAPS

-----------------------------------------------------------------------------
(* Types                                                                   *)

Stages == {"unsent", "preflight", "refused", "accepted"}
RoundLabels ==
  {"idle", "admitting", "provider", "settling", "refunding", "tools", "failing"}

\* A tool call is a round and a name; a round makes finitely many.
Calls == Int \X Names
Bunches == {S \in SUBSET Calls : IsFiniteSet(S)}

Request ==
  [round : Nat, calls : Bunches, got : Seq(Calls), assigned : Bunches,
   received : Bunches, early : Bunches, awaiting : BOOLEAN, accepting : BOOLEAN,
   timer : BOOLEAN, aborted : BOOLEAN, answered : BOOLEAN]
Round == [of : Starts \cup {None}, at : RoundLabels, calls : Bunches]

Gateways ==
  [active : [Keys -> Starts \cup {None}], slots : SUBSET Starts,
   req : [Starts -> Request], task : [Tasks -> Round], fits : BOOLEAN]

TypeOK ==
  /\ id \in [Starts -> Ids]
  /\ stage \in [Starts -> Stages]
  /\ cancelled \subseteq Starts
  /\ pending \subseteq Starts
  /\ starting \in [Keys -> Starts \cup {None}]
  /\ active \in [Keys -> Starts \cup {None}]
  /\ slots \subseteq Starts
  /\ req \in [Starts -> Request]
  /\ task \in [Tasks -> Round]
  /\ closed \subseteq Conns
  /\ draining \in BOOLEAN

-----------------------------------------------------------------------------
(* The inductive invariant                                                 *)

\* The Maps of the connections, the stages of the starts and the slots agree.
SlotInv ==
  /\ \A k \in Keys : active[k] # None =>
       Key(active[k]) = k /\ stage[active[k]] = "accepted"
  /\ \A k \in Keys : starting[k] # None =>
       Key(starting[k]) = k /\ stage[starting[k]] = "preflight" /\ active[k] = None
  /\ \A s \in Starts : stage[s] = "preflight" =>
       IF ConnOf[s] \in closed THEN s \in cancelled ELSE starting[Key(s)] = s
  /\ IsFiniteSet(slots)
  /\ SlotsAreLiveRequests

RoundsOf(tasks, s) == {t \in Tasks : tasks[t].of = s}

\* The messages of the round answer exactly these calls, each once.
Lists(r, answers) == IdsOf(r.got) = answers /\ Len(r.got) = Cardinality(answers)

\* The model is being asked: the client's results are not wanted yet.
Asking(r) == ~ r.awaiting /\ ~ r.accepting /\ ~ r.timer

OfThisRound(r) == \A c \in r.calls : c[1] = r.round

\* The server's tools run: so far the refused calls are answered.
RunningTools(r, calls) ==
  /\ r.awaiting /\ ~ r.accepting /\ ~ r.timer
  /\ r.calls = calls /\ OfThisRound(r)
  /\ r.received \cap calls = {}
  /\ Lists(r, {c \in calls : c[2] \in RefusedNames})

\* The client's results are taken: what it has not sent is all that lacks.
Collecting(r) ==
  /\ r.awaiting /\ r.accepting
  /\ OfThisRound(r)
  /\ r.assigned = {c \in r.calls : c[2] \in ClientNames}
  /\ Lists(r, (r.calls \ r.assigned) \cup (r.assigned \cap r.received))

Complete(r) == r.calls \subseteq IdsOf(r.got)

\* Something lacks and the timer runs.
AwaitingClient(r) == Collecting(r) /\ ~ Complete(r) /\ r.timer

\* No result of a later round has been received.
ReceivedSoFar(r) == \A c \in r.received : c[1] <= r.round

Driven(reqs, tasks, s) ==
  /\ ReceivedSoFar(reqs[s])
  /\ \/ \E t \in Tasks :
          /\ RoundsOf(tasks, s) = {t}
          /\ \/ tasks[t].at = "tools" /\ RunningTools(reqs[s], tasks[t].calls)
             \/ tasks[t].at # "tools" /\ Asking(reqs[s])
     \/ RoundsOf(tasks, s) = {} /\ AwaitingClient(reqs[s])

\* What holds of a request whose requestId nobody else uses.
Orderly(held, reqs, tasks, s) ==
  /\ s \in held => Driven(reqs, tasks, s)
  /\ s \notin held /\ ~ reqs[s].aborted => RoundsOf(tasks, s) = {}
  /\ reqs[s].answered

RoundInv ==
  /\ \A t \in Tasks : task[t].of = None <=> task[t].at = "idle"
  /\ \A s \in Starts : stage[s] # "accepted" =>
       RoundsOf(task, s) = {} /\ req[s] = FreshRequest
  /\ \A s \in Starts : Unique(s) => Orderly(slots, req, task, s)
-----------------------------------------------------------------------------
(* Tool messages                                                           *)

\* MessagesFor lists a finite set, each element once.
LEMMA MessagesListed ==
  ASSUME NEW S \in Bunches
  PROVE  /\ MessagesFor(S) \in Seq(Calls)
         /\ IdsOf(MessagesFor(S)) = S
         /\ Len(MessagesFor(S)) = Cardinality(S)
<1> DEFINE n == Cardinality(S)
<1>0. IsFiniteSet(S) /\ S \subseteq Calls
  BY DEF Bunches
<1>1. n \in Nat
  BY <1>0, FS_CardinalityType
<1>2. PICK f : f \in Bijection(1..n, S)
  BY <1>0, FS_CardinalityType DEF ExistsBijection
<1>3. f \in [1..n -> S] /\ IdsOf(f) = S
  BY <1>2 DEF Bijection, Surjection, IdsOf
<1>4. MessagesFor(S) \in [1..n -> S] /\ IdsOf(MessagesFor(S)) = S
  BY <1>3 DEF MessagesFor
<1> QED BY <1>0, <1>1, <1>4

LEMMA Listed ==
  ASSUME NEW a, NEW b, NEW T, a \in Seq(T), b \in Seq(T)
  PROVE  /\ a \o b \in Seq(T)
         /\ IdsOf(a \o b) = IdsOf(a) \cup IdsOf(b)
         /\ Len(a \o b) = Len(a) + Len(b)
<1>1. /\ a \o b \in Seq(T) /\ Len(a \o b) = Len(a) + Len(b)
      /\ \A i \in 1..(Len(a) + Len(b)) :
           (a \o b)[i] = IF i <= Len(a) THEN a[i] ELSE b[i - Len(a)]
  BY ConcatProperties
<1>2. Len(a) \in Nat /\ Len(b) \in Nat /\ DOMAIN a = 1..Len(a) /\ DOMAIN b = 1..Len(b)
      /\ DOMAIN (a \o b) = 1..(Len(a) + Len(b))
  BY <1>1
<1>3. ASSUME NEW x \in IdsOf(a \o b) PROVE x \in IdsOf(a) \cup IdsOf(b)
  <2>1. PICK i \in 1..(Len(a) + Len(b)) : x = (a \o b)[i]
    BY <1>2 DEF IdsOf
  <2> QED BY <1>1, <1>2, <2>1 DEF IdsOf
<1>4. ASSUME NEW x \in IdsOf(a) PROVE x \in IdsOf(a \o b)
  <2>1. PICK i \in 1..Len(a) : x = a[i]
    BY <1>2 DEF IdsOf
  <2>2. i \in 1..(Len(a) + Len(b)) /\ (a \o b)[i] = x
    BY <1>1, <1>2, <2>1
  <2> QED BY <1>2, <2>2 DEF IdsOf
<1>5. ASSUME NEW x \in IdsOf(b) PROVE x \in IdsOf(a \o b)
  <2>1. PICK i \in 1..Len(b) : x = b[i]
    BY <1>2 DEF IdsOf
  <2>2. Len(a) + i \in 1..(Len(a) + Len(b)) /\ (a \o b)[Len(a) + i] = x
    BY <1>1, <1>2, <2>1
  <2> QED BY <1>2, <2>2 DEF IdsOf
<1> QED BY <1>1, <1>3, <1>4, <1>5

LEMMA BunchSubset ==
  ASSUME NEW S \in Bunches, NEW T \in SUBSET S
  PROVE  T \in Bunches
BY FS_Subset DEF Bunches

LEMMA BunchUnion ==
  ASSUME NEW S \in Bunches, NEW T \in Bunches
  PROVE  S \cup T \in Bunches
BY FS_Union DEF Bunches

LEMMA NoCalls == {} \in Bunches /\ <<>> \in Seq(Calls)
BY FS_EmptySet DEF Bunches

LEMMA MessagesAdded ==
  ASSUME NEW r \in Request, NEW A \in Bunches, NEW B \in Bunches, A \cap B = {},
         Lists(r, A), NEW r2, r2.got = r.got \o MessagesFor(B)
  PROVE  Lists(r2, A \cup B)
<1>1. r.got \in Seq(Calls) /\ IdsOf(r.got) = A /\ Len(r.got) = Cardinality(A)
  BY DEF Request, Lists
<1>2. IdsOf(r2.got) = A \cup B /\ Len(r2.got) = Cardinality(A) + Cardinality(B)
  <2>1. /\ MessagesFor(B) \in Seq(Calls) /\ IdsOf(MessagesFor(B)) = B
        /\ Len(MessagesFor(B)) = Cardinality(B)
    BY MessagesListed
  <2>2. /\ IdsOf(r.got \o MessagesFor(B)) = IdsOf(r.got) \cup IdsOf(MessagesFor(B))
        /\ Len(r.got \o MessagesFor(B)) = Len(r.got) + Len(MessagesFor(B))
    BY <1>1, <2>1, Listed
  <2> QED BY <1>1, <2>1, <2>2
<1>3. Cardinality(A \cup B) = Cardinality(A) + Cardinality(B) - Cardinality(A \cap B)
  BY FS_Union DEF Bunches
<1>4. Cardinality(A) \in Nat /\ Cardinality(B) \in Nat /\ Cardinality(A \cap B) = 0
  BY FS_CardinalityType, FS_EmptySet DEF Bunches
<1> QED BY <1>2, <1>3, <1>4 DEF Lists

-----------------------------------------------------------------------------
(* What the handlers' functions do                                         *)

\* The Map and the slots stay, or the request with this key leaves both.
Kept(g, h, k) ==
  \/ h.active = g.active /\ h.slots = g.slots
  \/ /\ g.active[k] # None
     /\ h.active[k] = None /\ \A l \in Keys : l # k => h.active[l] = g.active[l]
     /\ \A q \in Starts : q \in h.slots <=> q \in g.slots /\ q # g.active[k]

\* Nothing that concerns q differs.
Apart(g, h, q) ==
  /\ h.req[q] = g.req[q]
  /\ q \in h.slots <=> q \in g.slots
  /\ \A t \in Tasks :
       (g.task[t].of = q \/ h.task[t].of = q) => h.task[t] = g.task[t]

\* An idle task belongs to nobody.
IdleIsNobodys(g) == \A t \in Tasks : g.task[t].of = None <=> g.task[t].at = "idle"

LEMMA ApartTwice ==
  ASSUME NEW f, NEW g, NEW h, NEW q, Apart(f, g, q), Apart(g, h, q)
  PROVE  Apart(f, h, q)
BY DEF Apart

\* A request leaves the Map and gives its slot back.
Removed(g, k, s, x) == [g EXCEPT !.active[k] = None, !.slots = @ \ {s}, !.req[s] = x]

LEMMA RemovedEffect ==
  ASSUME NEW g \in Gateways, NEW k \in Keys, NEW s \in Starts, NEW x \in Request,
         NEW h, h = Removed(g, k, s, x)
  PROVE  /\ h \in Gateways /\ h.task = g.task /\ h.fits = g.fits
         /\ s \notin h.slots
         /\ h.active[k] = None /\ \A l \in Keys : l # k => h.active[l] = g.active[l]
         /\ h.req[s] = x
         /\ \A q \in Starts : q # s => Apart(g, h, q)
<1>1. /\ g.active \in [Keys -> Starts \cup {None}] /\ g.slots \subseteq Starts
      /\ g.req \in [Starts -> Request]
  BY DEF Gateways
<1>2. /\ [g.active EXCEPT ![k] = None] \in [Keys -> Starts \cup {None}]
      /\ [g.req EXCEPT ![s] = x] \in [Starts -> Request]
      /\ g.slots \ {s} \subseteq Starts
  BY <1>1
<1>3. h = [g EXCEPT !.active = [g.active EXCEPT ![k] = None],
                    !.slots = g.slots \ {s}, !.req = [g.req EXCEPT ![s] = x]]
  BY DEF Gateways, Removed
<1>4. /\ h.active = [g.active EXCEPT ![k] = None]
      /\ h.slots = g.slots \ {s} /\ s \notin h.slots
      /\ h.req = [g.req EXCEPT ![s] = x] /\ h.task = g.task /\ h.fits = g.fits
      /\ h \in Gateways
  BY <1>2, <1>3 DEF Gateways
<1>5. h.req[s] = x /\ \A q \in Starts : q # s => h.req[q] = g.req[q]
  BY <1>1, <1>4
<1>6. \A q \in Starts : q # s => Apart(g, h, q)
  BY <1>4, <1>5 DEF Apart
<1>7. h.active[k] = None /\ \A l \in Keys : l # k => h.active[l] = g.active[l]
  BY <1>1, <1>4
<1> QED BY <1>4, <1>5, <1>6, <1>7

\* deleteActiveRequest with an abort, and without one.
Aborted(g, k) == Deleted(g, k, TRUE)
Forgotten(g, k) == Deleted(g, k, FALSE)

LEMMA AbortedEffect ==
  ASSUME NEW g \in Gateways, NEW k \in Keys,
         NEW h, h = Aborted(g, k), NEW s, s = g.active[k]
  PROVE  /\ h \in Gateways /\ Kept(g, h, k) /\ h.task = g.task /\ h.fits = g.fits
         /\ s = None => h = g
         /\ s # None => /\ s \notin h.slots /\ s \in Starts
                        /\ h.active[k] = None
                        /\ \A l \in Keys : l # k => h.active[l] = g.active[l]
                        /\ h.req[s].aborted
                        /\ g.req[s].answered => h.req[s].answered
         /\ \A q \in Starts : q # s => Apart(g, h, q)
<1>1. s \in Starts \cup {None} /\ None \notin Starts
  BY StartsAssumption DEF Gateways
<1>2. CASE s = None
  <2>1. h = g
    BY <1>2 DEF Aborted, Deleted
  <2> QED BY <1>1, <1>2, <2>1 DEF Kept, Apart
<1>3. CASE s # None
  <2>1. s \in Starts
    BY <1>1, <1>3
  <2>2. g.req[s] \in Request
    BY <2>1 DEF Gateways
  <2> DEFINE x == Dropped(g.req[s], TRUE)
  <2>3. x \in Request
    BY <2>2 DEF Dropped, Request
  <2>4. (g.req[s].answered => x.answered) /\ x.aborted
    BY <2>2 DEF Dropped, Request
  <2>5. h = Removed(g, k, s, x)
    BY <1>3, <2>1 DEF Aborted, Deleted, Gateways, Removed
  <2> HIDE DEF x
  <2>6. /\ h \in Gateways /\ h.task = g.task /\ h.fits = g.fits
        /\ s \notin h.slots
        /\ h.active[k] = None /\ \A l \in Keys : l # k => h.active[l] = g.active[l]
        /\ h.req[s] = x
        /\ \A q \in Starts : q # s => Apart(g, h, q)
    BY <2>1, <2>3, <2>5, RemovedEffect
  <2> QED BY <1>3, <2>1, <2>4, <2>6 DEF Kept, Apart
<1> QED BY <1>2, <1>3

LEMMA ForgottenEffect ==
  ASSUME NEW g \in Gateways, NEW k \in Keys,
         NEW h, h = Forgotten(g, k), NEW s, s = g.active[k]
  PROVE  /\ h \in Gateways /\ Kept(g, h, k) /\ h.task = g.task /\ h.fits = g.fits
         /\ s = None => h = g
         /\ s # None => /\ s \notin h.slots /\ s \in Starts
                        /\ h.active[k] = None
                        /\ \A l \in Keys : l # k => h.active[l] = g.active[l]
                        /\ g.req[s].answered => h.req[s].answered
         /\ \A q \in Starts : q # s => Apart(g, h, q)
<1>1. s \in Starts \cup {None} /\ None \notin Starts
  BY StartsAssumption DEF Gateways
<1>2. CASE s = None
  <2>1. h = g
    BY <1>2 DEF Forgotten, Deleted
  <2> QED BY <1>1, <1>2, <2>1 DEF Kept, Apart
<1>3. CASE s # None
  <2>1. s \in Starts
    BY <1>1, <1>3
  <2>2. g.req[s] \in Request
    BY <2>1 DEF Gateways
  <2> DEFINE x == Dropped(g.req[s], FALSE)
  <2>3. x \in Request
    BY <2>2 DEF Dropped, Request
  <2>4. (g.req[s].answered => x.answered)
    BY <2>2 DEF Dropped, Request
  <2>5. h = Removed(g, k, s, x)
    BY <1>3, <2>1 DEF Forgotten, Deleted, Gateways, Removed
  <2> HIDE DEF x
  <2>6. /\ h \in Gateways /\ h.task = g.task /\ h.fits = g.fits
        /\ s \notin h.slots
        /\ h.active[k] = None /\ \A l \in Keys : l # k => h.active[l] = g.active[l]
        /\ h.req[s] = x
        /\ \A q \in Starts : q # s => Apart(g, h, q)
    BY <2>1, <2>3, <2>5, RemovedEffect
  <2> QED BY <1>3, <2>1, <2>4, <2>6 DEF Kept, Apart
<1> QED BY <1>2, <1>3

LEMMA LaunchedEffect ==
  ASSUME NEW g \in Gateways, NEW s \in Starts, NEW h, h = Launched(g, s),
         IdleIsNobodys(g)
  PROVE  /\ h \in Gateways
         /\ IdleIsNobodys(h)
         /\ h.active = g.active /\ h.slots = g.slots /\ h.req = g.req
         /\ h.fits => g.fits
         /\ h.fits => \E t \in Tasks : /\ g.task[t].of = None
                                       /\ h.task[t].of = s /\ h.task[t].at = "admitting"
                                       /\ \A u \in Tasks : u # t => h.task[u] = g.task[u]
         /\ \A q \in Starts : q # s => Apart(g, h, q)
<1> DEFINE free == {t \in Tasks : g.task[t].of = None}
<1>0. None \notin Starts
  BY StartsAssumption
<1>1. CASE free = {}
  <2>1. h = [g EXCEPT !.fits = FALSE]
    BY <1>1 DEF Launched
  <2>2. /\ h.active = g.active /\ h.slots = g.slots /\ h.req = g.req
        /\ h.task = g.task /\ h.fits = FALSE /\ h \in Gateways
    BY <2>1 DEF Gateways
  <2> QED BY <2>2 DEF Apart, IdleIsNobodys
<1>2. CASE free # {}
  <2> DEFINE t == CHOOSE u \in free : TRUE
             new == [of |-> s, at |-> "admitting", calls |-> {}]
  <2>1. t \in free
    BY <1>2
  <2>2. h = [g EXCEPT !.task[t] = new]
    BY <1>2 DEF Launched
  <2>3. new \in Round
    BY NoCalls DEF Round, RoundLabels
  <2> HIDE DEF t
  <2>4. new.of = s /\ new.at = "admitting"
    OBVIOUS
  <2> HIDE DEF new
  <2>5. h.task = [g.task EXCEPT ![t] = new] /\ h \in Gateways
    BY <2>1, <2>2, <2>3 DEF Gateways
  <2>6. h.active = g.active /\ h.slots = g.slots /\ h.req = g.req /\ h.fits = g.fits
    BY <2>2 DEF Gateways
  <2>7. /\ t \in Tasks /\ g.task[t].of = None
        /\ h.task[t].of = s /\ h.task[t].at = "admitting"
        /\ \A u \in Tasks : u # t => h.task[u] = g.task[u]
    BY <2>1, <2>4, <2>5 DEF Gateways
  <2>8. \A q \in Starts : q # s => Apart(g, h, q)
    BY <1>0, <2>6, <2>7 DEF Apart
  <2>9. IdleIsNobodys(h)
    BY <1>0, <2>7 DEF IdleIsNobodys
  <2> QED BY <2>5, <2>6, <2>7, <2>8, <2>9
<1> QED BY <1>1, <1>2

LEMMA ReplayedType ==
  ASSUME NEW r \in Request
  PROVE  /\ Replayed(r) \in Request
         /\ Asking(Replayed(r))
         /\ Replayed(r).round = r.round /\ Replayed(r).received = r.received
         /\ Replayed(r).aborted = r.aborted
         /\ r.answered /\ AnswersCalls(r) => Replayed(r).answered
<1> DEFINE b == r.answered /\ AnswersCalls(r)
<1>1. b \in BOOLEAN
  BY DEF Request, AnswersCalls
<1>2. Replayed(r) =
        [r EXCEPT !.calls = {}, !.got = <<>>, !.assigned = {}, !.early = {},
                  !.awaiting = FALSE, !.accepting = FALSE, !.timer = FALSE,
                  !.answered = b]
  BY DEF Replayed
<1> HIDE DEF b
<1>3. /\ Replayed(r) \in Request
      /\ Asking(Replayed(r))
      /\ Replayed(r).round = r.round /\ Replayed(r).received = r.received
      /\ Replayed(r).aborted = r.aborted /\ Replayed(r).answered = b
  BY <1>1, <1>2, NoCalls DEF Request, Asking
<1> QED BY <1>3 DEF b

LEMMA ResumedEffect ==
  ASSUME NEW g \in Gateways, NEW k \in Keys, NEW h, h = Resumed(g, k),
         NEW s, s = g.active[k], IdleIsNobodys(g)
  PROVE  /\ h \in Gateways
         /\ IdleIsNobodys(h)
         /\ h.active = g.active /\ h.slots = g.slots
         /\ h.fits => g.fits
         /\ s = None => h = g
         /\ s # None /\ ~ (g.req[s].calls \subseteq IdsOf(g.req[s].got)) => h = g
         /\ s # None /\ g.req[s].calls \subseteq IdsOf(g.req[s].got) =>
              /\ h.req[s] = Replayed(g.req[s])
              /\ h.fits => \E t \in Tasks :
                             /\ g.task[t].of = None
                             /\ h.task[t].of = s /\ h.task[t].at = "admitting"
                             /\ \A u \in Tasks : u # t => h.task[u] = g.task[u]
         /\ \A q \in Starts : q # s => Apart(g, h, q)
<1>1. s \in Starts \cup {None} /\ None \notin Starts
  BY StartsAssumption DEF Gateways
<1>2. CASE s = None \/ ~ (g.req[s].calls \subseteq IdsOf(g.req[s].got))
  <2>1. h = g
    BY <1>2 DEF Resumed
  <2>2. \A q \in Starts : Apart(g, h, q)
    BY <2>1 DEF Apart
  <2> QED BY <1>1, <1>2, <2>1, <2>2
<1>3. CASE s # None /\ g.req[s].calls \subseteq IdsOf(g.req[s].got)
  <2> DEFINE r == Replayed(g.req[s])
             f == [g EXCEPT !.req = [g.req EXCEPT ![s] = r]]
  <2>1. s \in Starts
    BY <1>1, <1>3
  <2>2. g.req[s] \in Request
    BY <2>1 DEF Gateways
  <2>3. [g EXCEPT !.req[s] = Replayed(@)] = f
    BY <2>1 DEF Gateways
  <2>4. h = Launched(f, s)
    BY <1>3, <2>3 DEF Resumed
  <2>5. r \in Request
    BY <2>2, ReplayedType
  <2> HIDE DEF r
  <2>6. /\ f \in Gateways /\ f.active = g.active /\ f.slots = g.slots
        /\ f.task = g.task /\ f.fits = g.fits /\ f.req = [g.req EXCEPT ![s] = r]
    BY <2>1, <2>5 DEF Gateways
  <2>7. f.req[s] = r /\ \A q \in Starts : q # s => f.req[q] = g.req[q]
    BY <2>1, <2>6 DEF Gateways
  <2>8. \A q \in Starts : q # s => Apart(g, f, q)
    BY <2>6, <2>7 DEF Apart
  <2>9. IdleIsNobodys(f)
    BY <2>6 DEF IdleIsNobodys
  <2> HIDE DEF f
  <2>10. /\ h \in Gateways /\ IdleIsNobodys(h)
         /\ h.active = f.active /\ h.slots = f.slots /\ h.req = f.req
         /\ h.fits => f.fits
         /\ h.fits => \E t \in Tasks : /\ f.task[t].of = None
                                       /\ h.task[t].of = s /\ h.task[t].at = "admitting"
                                       /\ \A u \in Tasks : u # t => h.task[u] = f.task[u]
         /\ \A q \in Starts : q # s => Apart(f, h, q)
    BY <2>1, <2>4, <2>6, <2>9, LaunchedEffect
  <2>11. \A q \in Starts : q # s => Apart(g, h, q)
    BY <2>8, <2>10, ApartTwice
  <2> QED BY <1>3, <2>6, <2>7, <2>10, <2>11 DEF r
<1> QED BY <1>2, <1>3

LEMMA ExtendedType ==
  ASSUME NEW r \in Request, NEW new \in Bunches
  PROVE  LET x == Extended(r, new)
         IN  /\ x \in Request
             /\ x.received = r.received \cup new /\ x.got = r.got \o MessagesFor(new)
             /\ x.calls = r.calls /\ x.round = r.round /\ x.assigned = r.assigned
             /\ (r.awaiting => x.awaiting) /\ (r.accepting => x.accepting)
             /\ (r.timer => x.timer) /\ (r.answered => x.answered)
             /\ (r.aborted => x.aborted)
<1> DEFINE more == r.received \cup new
           msgs == r.got \o MessagesFor(new)
<1>1. more \in Bunches
  BY BunchUnion DEF Request
<1>2. msgs \in Seq(Calls)
  <2>1. r.got \in Seq(Calls) /\ MessagesFor(new) \in Seq(Calls)
    BY MessagesListed DEF Request
  <2> QED BY <2>1, Listed
<1>3. Extended(r, new) = [r EXCEPT !.received = more, !.got = msgs]
  BY DEF Extended
<1> HIDE DEF more, msgs
<1>4. LET x == Extended(r, new)
      IN  /\ x \in Request
          /\ x.received = more /\ x.got = msgs
          /\ x.calls = r.calls /\ x.round = r.round /\ x.assigned = r.assigned
          /\ (r.awaiting => x.awaiting) /\ (r.accepting => x.accepting)
          /\ (r.timer => x.timer) /\ (r.answered => x.answered)
          /\ (r.aborted => x.aborted)
  BY <1>1, <1>2, <1>3 DEF Request
<1> QED BY <1>4 DEF more, msgs

\* A request's record alone is replaced.
WithRecord(g, s, x) == [g EXCEPT !.req[s] = x]

LEMMA RecordReplaced ==
  ASSUME NEW g \in Gateways, NEW s \in Starts, NEW x \in Request,
         NEW h, h = WithRecord(g, s, x)
  PROVE  /\ h \in Gateways
         /\ h.active = g.active /\ h.slots = g.slots /\ h.task = g.task /\ h.fits = g.fits
         /\ h.req[s] = x /\ \A q \in Starts : q # s => h.req[q] = g.req[q]
         /\ \A q \in Starts : q # s => Apart(g, h, q)
         /\ IdleIsNobodys(g) => IdleIsNobodys(h)
<1>1. h = [g EXCEPT !.req = [g.req EXCEPT ![s] = x]]
  BY DEF WithRecord
<1>2. g.req \in [Starts -> Request] /\ [g.req EXCEPT ![s] = x] \in [Starts -> Request]
  BY DEF Gateways
<1>3. /\ h.active = g.active /\ h.slots = g.slots /\ h.task = g.task /\ h.fits = g.fits
      /\ h.req = [g.req EXCEPT ![s] = x] /\ h \in Gateways
  BY <1>1, <1>2 DEF Gateways
<1>4. h.req[s] = x /\ \A q \in Starts : q # s => h.req[q] = g.req[q]
  BY <1>2, <1>3
<1>5. \A q \in Starts : q # s => Apart(g, h, q)
  BY <1>3, <1>4 DEF Apart
<1>6. IdleIsNobodys(g) => IdleIsNobodys(h)
  BY <1>3 DEF IdleIsNobodys
<1> QED BY <1>3, <1>4, <1>5, <1>6

\* Results that are taken.
Taken(g, s, results) == [g EXCEPT !.req[s] = Extended(@, results \ @.received)]

Novel(g, s, results) == results \ g.req[s].received

LEMMA TakenEffect ==
  ASSUME NEW g \in Gateways, NEW s \in Starts, NEW results \in Bunches,
         NEW f, f = Taken(g, s, results),
         IdleIsNobodys(g)
  PROVE  /\ f \in Gateways /\ IdleIsNobodys(f)
         /\ f.active = g.active /\ f.slots = g.slots /\ f.task = g.task /\ f.fits = g.fits
         /\ f.req[s] = Extended(g.req[s], Novel(g, s, results))
         /\ g.req[s] \in Request /\ Novel(g, s, results) \in Bunches
         /\ \A q \in Starts : q # s => Apart(g, f, q)
<1>1. g.req[s] \in Request
  BY DEF Gateways
<1>2. Novel(g, s, results) \in Bunches
  BY BunchSubset DEF Novel
<1>3. f = [g EXCEPT !.req[s] = Extended(g.req[s], Novel(g, s, results))]
  BY DEF Gateways, Taken, Novel
<1>4. Extended(g.req[s], Novel(g, s, results)) \in Request
  BY <1>1, <1>2, ExtendedType
<1> DEFINE x == Extended(g.req[s], Novel(g, s, results))
<1> HIDE DEF x
<1>5. f = WithRecord(g, s, x) /\ x \in Request
  BY <1>3, <1>4 DEF x, WithRecord
<1> QED BY <1>1, <1>2, <1>5, RecordReplaced DEF x

LEMMA AcceptedEffect ==
  ASSUME NEW g \in Gateways, NEW k \in Keys, NEW s \in Starts, NEW results \in Bunches,
         NEW h, h = Accepted(g, k, s, results), IdleIsNobodys(g)
  PROVE  /\ h \in Gateways /\ IdleIsNobodys(h)
         /\ Kept(g, h, k)
         /\ h.fits => g.fits
         /\ \A q \in Starts : q # s /\ q # g.active[k] => Apart(g, h, q)
<1>1. CASE ~ (results \subseteq g.req[s].assigned)
  <2>1. h = Aborted(g, k)
    BY <1>1 DEF Accepted, Aborted
  <2>2. /\ h \in Gateways /\ Kept(g, h, k) /\ h.task = g.task /\ h.fits = g.fits
        /\ \A q \in Starts : q # g.active[k] => Apart(g, h, q)
    BY <2>1, AbortedEffect
  <2> QED BY <2>2 DEF IdleIsNobodys
<1>2. CASE results \subseteq g.req[s].assigned
  <2>0. PICK f : f = Taken(g, s, results)
    OBVIOUS
  <2>1. h = Resumed(f, k)
    BY <1>2, <2>0 DEF Accepted, Taken
  <2>2. /\ f \in Gateways /\ IdleIsNobodys(f)
        /\ f.active = g.active /\ f.slots = g.slots /\ f.task = g.task /\ f.fits = g.fits
        /\ \A q \in Starts : q # s => Apart(g, f, q)
    BY <2>0, TakenEffect
  <2>3. /\ h \in Gateways /\ IdleIsNobodys(h)
        /\ h.active = f.active /\ h.slots = f.slots
        /\ h.fits => f.fits
        /\ \A q \in Starts : q # f.active[k] => Apart(f, h, q)
    BY <2>1, <2>2, ResumedEffect
  <2>4. Kept(g, h, k)
    BY <2>2, <2>3 DEF Kept
  <2> QED BY <2>2, <2>3, <2>4, ApartTwice
<1> QED BY <1>1, <1>2

LEMMA PublishedEffect ==
  ASSUME NEW g \in Gateways, NEW k \in Keys, NEW s \in Starts, NEW client \in Bunches,
         NEW h, h = Published(g, k, s, client), IdleIsNobodys(g)
  PROVE  /\ h \in Gateways /\ IdleIsNobodys(h)
         /\ Kept(g, h, k)
         /\ h.fits => g.fits
         /\ \A q \in Starts : q # s /\ q # g.active[k] => Apart(g, h, q)
<1> DEFINE x == [g.req[s] EXCEPT !.assigned = client, !.accepting = TRUE, !.early = {}]
           g1 == WithRecord(g, s, x)
           g2 == IF g.req[s].early = {} THEN g1 ELSE Accepted(g1, k, s, g.req[s].early)
           y == [g2.req[s] EXCEPT !.timer = TRUE]
           g3 == WithRecord(g2, s, y)
<1>1. g.req[s] \in Request /\ g.req[s].early \in Bunches /\ x \in Request
  BY NoCalls DEF Gateways, Request
<1>2. /\ g1 \in Gateways /\ IdleIsNobodys(g1)
      /\ g1.active = g.active /\ g1.slots = g.slots /\ g1.fits = g.fits
      /\ \A q \in Starts : q # s => Apart(g, g1, q)
  <2> HIDE DEF x
  <2> QED BY <1>1, RecordReplaced
<1>3. /\ g2 \in Gateways /\ IdleIsNobodys(g2)
      /\ Kept(g, g2, k)
      /\ g2.fits => g.fits
      /\ \A q \in Starts : q # s /\ q # g.active[k] => Apart(g, g2, q)
  <2> HIDE DEF g1
  <2>1. CASE g.req[s].early = {}
    <3>1. g2 = g1
      BY <2>1
    <3> QED BY <1>2, <3>1 DEF Kept
  <2>2. CASE g.req[s].early # {}
    <3> DEFINE e == g.req[s].early
    <3>1. g2 = Accepted(g1, k, s, e) /\ e \in Bunches
      BY <1>1, <2>2
    <3> HIDE DEF e, g2
    <3>2. /\ g2 \in Gateways /\ IdleIsNobodys(g2)
          /\ Kept(g1, g2, k)
          /\ g2.fits => g1.fits
          /\ \A q \in Starts : q # s /\ q # g1.active[k] => Apart(g1, g2, q)
      BY <1>2, <3>1, AcceptedEffect
    <3> QED BY <1>2, <3>2, ApartTwice DEF Kept
  <2> QED BY <2>1, <2>2
<1>4. /\ h = Resumed(g, k) \/ h = g2 \/ h = Resumed(g2, k) \/ h = g3
  <2>1. g1 = [g EXCEPT !.req[s] = [@ EXCEPT !.assigned = client, !.accepting = TRUE,
                                            !.early = {}]]
    BY DEF Gateways, WithRecord
  <2>2. g2 = IF g.req[s].early = {} THEN g1 ELSE Accepted(g1, k, s, g.req[s].early)
    OBVIOUS
  <2>3. g2.req \in [Starts -> Request]
    BY <1>3 DEF Gateways
  <2>4. g3 = [g2 EXCEPT !.req[s].timer = TRUE]
    BY <1>3, <2>3 DEF Gateways, WithRecord
  <2> HIDE DEF g1, g2, g3
  <2> QED BY <2>1, <2>2, <2>4 DEF Published
<1> HIDE DEF g2
<1>5. CASE h = Resumed(g, k)
  <2>1. /\ h \in Gateways /\ IdleIsNobodys(h) /\ h.active = g.active /\ h.slots = g.slots
        /\ h.fits => g.fits
        /\ \A q \in Starts : q # g.active[k] => Apart(g, h, q)
    BY <1>5, ResumedEffect
  <2> QED BY <2>1 DEF Kept
<1>6. CASE h = g2
  BY <1>3, <1>6
<1>7. CASE h = Resumed(g2, k)
  <2>1. /\ h \in Gateways /\ IdleIsNobodys(h) /\ h.active = g2.active /\ h.slots = g2.slots
        /\ h.fits => g2.fits
        /\ \A q \in Starts : q # g2.active[k] => Apart(g2, h, q)
    BY <1>3, <1>7, ResumedEffect
  <2>2. g2.active[k] = g.active[k] \/ g2.active[k] = None
    BY <1>3 DEF Kept, Gateways
  <2>3. None \notin Starts
    BY StartsAssumption
  <2>4. \A q \in Starts : q # s /\ q # g.active[k] => Apart(g, h, q)
    BY <1>3, <2>1, <2>2, <2>3, ApartTwice
  <2> QED BY <1>3, <2>1, <2>4 DEF Kept
<1>8. CASE h = g3
  <2>1. y \in Request
    <3>1. g2.req[s] \in Request
      BY <1>3 DEF Gateways
    <3> QED BY <3>1 DEF Request
  <2> HIDE DEF y
  <2>2. /\ h \in Gateways /\ IdleIsNobodys(h)
        /\ h.active = g2.active /\ h.slots = g2.slots /\ h.fits = g2.fits
        /\ \A q \in Starts : q # s => Apart(g2, h, q)
    BY <1>3, <1>8, <2>1, RecordReplaced
  <2>3. \A q \in Starts : q # s /\ q # g.active[k] => Apart(g, h, q)
    BY <1>3, <2>2, ApartTwice
  <2> QED BY <1>3, <2>2, <2>3 DEF Kept
<1> QED BY <1>4, <1>5, <1>6, <1>7, <1>8

-----------------------------------------------------------------------------
(* How a request is driven on                                              *)

LEMMA ResumedDrives ==
  ASSUME NEW g \in Gateways, NEW k \in Keys, NEW s \in Starts, g.active[k] = s,
         IdleIsNobodys(g), RoundsOf(g.task, s) = {},
         Complete(g.req[s]), AnswersCalls(g.req[s]), ReceivedSoFar(g.req[s]),
         g.req[s].answered, NEW h, h = Resumed(g, k), h.fits
  PROVE  /\ Driven(h.req, h.task, s)
         /\ h.req[s].answered /\ ~ h.req[s].awaiting
         /\ h.active = g.active /\ h.slots = g.slots
<1>0. g.req[s] \in Request /\ s # None
  BY StartsAssumption DEF Gateways
<1>1. /\ h.active = g.active /\ h.slots = g.slots
      /\ h.req[s] = Replayed(g.req[s])
      /\ \E t \in Tasks : /\ g.task[t].of = None
                          /\ h.task[t].of = s /\ h.task[t].at = "admitting"
                          /\ \A u \in Tasks : u # t => h.task[u] = g.task[u]
  BY <1>0, ResumedEffect DEF Complete
<1>2. PICK t \in Tasks : /\ h.task[t].of = s /\ h.task[t].at = "admitting"
                         /\ \A u \in Tasks : u # t => h.task[u] = g.task[u]
  BY <1>1
<1>3. RoundsOf(h.task, s) = {t}
  BY <1>2 DEF RoundsOf
<1>4. /\ Asking(h.req[s]) /\ ReceivedSoFar(h.req[s]) /\ h.req[s].answered
  BY <1>0, <1>1, ReplayedType DEF ReceivedSoFar
<1>5. Driven(h.req, h.task, s)
  BY <1>2, <1>3, <1>4 DEF Driven
<1> QED BY <1>1, <1>4, <1>5 DEF Asking

LEMMA CollectingAnswers ==
  ASSUME NEW r \in Request, Collecting(r), Complete(r)
  PROVE  AnswersCalls(r)
<1> DEFINE A == (r.calls \ r.assigned) \cup (r.assigned \cap r.received)
<1>1. IdsOf(r.got) = A /\ Len(r.got) = Cardinality(A)
  BY DEF Collecting, Lists
<1>2. A = r.calls
  BY <1>1 DEF Collecting, Complete
<1> HIDE DEF A
<1> QED BY <1>1, <1>2 DEF AnswersCalls

\* Each new result is listed once, so the books stay right.
LEMMA ExtendedCollects ==
  ASSUME NEW r \in Request, Collecting(r), ReceivedSoFar(r),
         NEW results \in Bunches, results \subseteq r.assigned,
         NEW new, new = results \ r.received,
         NEW x, x = Extended(r, new)
  PROVE  Collecting(x) /\ ReceivedSoFar(x) /\ x \in Request
<1> DEFINE A == (r.calls \ r.assigned) \cup (r.assigned \cap r.received)
<1>0. new \in Bunches
  BY BunchSubset
<1>1. /\ x \in Request
      /\ x.received = r.received \cup new /\ x.got = r.got \o MessagesFor(new)
      /\ x.calls = r.calls /\ x.round = r.round /\ x.assigned = r.assigned
      /\ (r.awaiting => x.awaiting) /\ (r.accepting => x.accepting)
  BY <1>0, ExtendedType
<1>2. /\ r.awaiting /\ r.accepting /\ OfThisRound(r) /\ Lists(r, A)
      /\ r.assigned = {c \in r.calls : c[2] \in ClientNames}
  BY DEF Collecting
<1>3. A \in Bunches
  <2>1. r.calls \in Bunches
    BY DEF Request
  <2> QED BY <1>2, <2>1, BunchSubset
<1>4. A \cap new = {}
  OBVIOUS
<1>5. Lists(x, A \cup new)
  <2> HIDE DEF A
  <2> QED BY <1>0, <1>1, <1>2, <1>3, <1>4, MessagesAdded
<1>6. A \cup new = (x.calls \ x.assigned) \cup (x.assigned \cap x.received)
  BY <1>1
<1>7. OfThisRound(x)
  BY <1>1, <1>2 DEF OfThisRound
<1>8. ReceivedSoFar(x)
  <2> SUFFICES ASSUME NEW c \in x.received PROVE c[1] <= x.round
    BY DEF ReceivedSoFar
  <2>1. CASE c \in r.received
    BY <1>1, <2>1 DEF ReceivedSoFar
  <2>2. CASE c \in new
    <3>1. c[1] = r.round /\ r.round \in Nat
      BY <1>2, <2>2 DEF OfThisRound, Request
    <3>2. x.round = r.round
      BY <1>1
    <3> QED BY ONLY <3>1, <3>2
  <2> QED BY <1>1, <2>1, <2>2
<1> HIDE DEF A
<1> QED BY <1>1, <1>2, <1>5, <1>6, <1>7, <1>8 DEF Collecting

LEMMA DrivenOrderly ==
  ASSUME NEW held, NEW reqs, NEW tasks, NEW s, s \in held,
         Driven(reqs, tasks, s), reqs[s].answered
  PROVE  Orderly(held, reqs, tasks, s)
BY DEF Orderly

LEMMA AbortedOrderly ==
  ASSUME NEW held, NEW reqs, NEW tasks, NEW s, s \notin held,
         reqs[s].aborted, reqs[s].answered
  PROVE  Orderly(held, reqs, tasks, s)
BY DEF Orderly

\* Results of a request that waits for them end it, complete its round, or
\* leave it waiting for the rest.
LEMMA AcceptedResult ==
  ASSUME NEW g \in Gateways, NEW k \in Keys, NEW s \in Starts, g.active[k] = s,
         s \in g.slots, IdleIsNobodys(g), RoundsOf(g.task, s) = {},
         Collecting(g.req[s]), ReceivedSoFar(g.req[s]), g.req[s].answered,
         NEW results \in Bunches,
         NEW h, h = Accepted(g, k, s, results), h.fits
  PROVE  \/ /\ Orderly(h.slots, h.req, h.task, s)
            /\ h.active[k] # s \/ ~ h.req[s].awaiting
         \/ /\ h.active = g.active /\ h.slots = g.slots /\ h.task = g.task
            /\ Collecting(h.req[s]) /\ ReceivedSoFar(h.req[s])
            /\ ~ Complete(h.req[s]) /\ h.req[s].assigned = g.req[s].assigned
            /\ (g.req[s].timer => h.req[s].timer) /\ h.req[s].answered
<1>0. g.req[s] \in Request /\ s # None
  BY StartsAssumption DEF Gateways
<1>1. CASE ~ (results \subseteq g.req[s].assigned)
  <2>1. h = Aborted(g, k)
    BY <1>1 DEF Accepted, Aborted
  <2>2. s \notin h.slots /\ h.active[k] = None /\ h.req[s].aborted
        /\ (g.req[s].answered => h.req[s].answered)
    BY <1>0, <2>1, AbortedEffect
  <2>3. h.req[s].answered
    BY <2>2
  <2> QED BY <1>0, <2>2, <2>3, AbortedOrderly
<1>2. CASE results \subseteq g.req[s].assigned
  <2> DEFINE new == Novel(g, s, results)
             r == g.req[s]
             x == Extended(r, new)
  <2>0. PICK f : f = Taken(g, s, results)
    OBVIOUS
  <2>1. h = Resumed(f, k)
    BY <1>2, <2>0 DEF Accepted, Taken
  <2>2. /\ f \in Gateways /\ IdleIsNobodys(f)
        /\ f.active = g.active /\ f.slots = g.slots /\ f.task = g.task
        /\ f.req[s] = x /\ new \in Bunches
    BY <2>0, TakenEffect
  <2>3. new = results \ r.received
    BY DEF Novel
  <2>4. /\ Collecting(x) /\ ReceivedSoFar(x) /\ x \in Request
    <3> HIDE DEF new, r
    <3> QED BY <1>0, <1>2, <2>3, ExtendedCollects DEF r
  <2>5. (r.answered => x.answered) /\ (r.timer => x.timer) /\ x.assigned = r.assigned
    <3> HIDE DEF new, r
    <3> QED BY <1>0, <2>2, ExtendedType DEF r
  <2> HIDE DEF new, x
  <2>6. f.req[s].answered
    BY <2>2, <2>5
  <2>7. CASE Complete(x)
    <3>1. AnswersCalls(x)
      BY <2>4, <2>7, CollectingAnswers
    <3>2. /\ Driven(h.req, h.task, s) /\ h.req[s].answered /\ ~ h.req[s].awaiting
          /\ h.slots = f.slots
      BY <2>1, <2>2, <2>4, <2>6, <2>7, <3>1, ResumedDrives
    <3> QED BY <2>2, <3>2, DrivenOrderly
  <2>8. CASE ~ Complete(x)
    <3>0. f.active[k] = s /\ ~ (f.req[s].calls \subseteq IdsOf(f.req[s].got))
      BY <2>2, <2>8 DEF Complete
    <3>1. h = f
      BY <1>0, <2>1, <3>0 DEF Resumed
    <3> QED BY <2>2, <2>4, <2>5, <2>6, <2>8, <3>1
  <2> QED BY <2>7, <2>8
<1> QED BY <1>1, <1>2


\* The client's calls are published; then the timer starts.
Opened(r, client) == [r EXCEPT !.assigned = client, !.accepting = TRUE, !.early = {}]
Waiting(r) == [r EXCEPT !.timer = TRUE]

LEMMA OpenedRecord ==
  ASSUME NEW r \in Request, NEW client \in Bunches, NEW x, x = Opened(r, client)
  PROVE  /\ x \in Request
         /\ x.calls = r.calls /\ x.got = r.got /\ x.round = r.round
         /\ x.received = r.received /\ x.assigned = client /\ x.accepting
         /\ (r.awaiting => x.awaiting) /\ (r.answered => x.answered)
         /\ (r.aborted => x.aborted)
BY NoCalls DEF Request, Opened

LEMMA WaitingRecord ==
  ASSUME NEW r \in Request, NEW y, y = Waiting(r)
  PROVE  /\ y \in Request /\ y.timer
         /\ y.calls = r.calls /\ y.got = r.got /\ y.round = r.round
         /\ y.received = r.received /\ y.assigned = r.assigned
         /\ (r.awaiting => y.awaiting) /\ (r.accepting => y.accepting)
         /\ (r.answered => y.answered) /\ (r.aborted => y.aborted)
BY DEF Request, Waiting

LEMMA PublishedCases ==
  ASSUME NEW g \in Gateways, NEW k \in Keys, NEW s \in Starts, NEW client \in Bunches,
         NEW h, h = Published(g, k, s, client), IdleIsNobodys(g),
         NEW g1, g1 = WithRecord(g, s, Opened(g.req[s], client)),
         NEW g2, g2 = IF g.req[s].early = {} THEN g1
                      ELSE Accepted(g1, k, s, g.req[s].early)
  PROVE  /\ client = {} => h = Resumed(g, k)
         /\ client # {} =>
              h = IF g.req[s].early # {} /\ (g2.active[k] # s \/ ~ g2.req[s].awaiting)
                    THEN g2
                  ELSE IF client \subseteq g2.req[s].received THEN Resumed(g2, k)
                  ELSE WithRecord(g2, s, Waiting(g2.req[s]))
<1>0. g.req[s] \in Request /\ g.req[s].early \in Bunches
  BY DEF Gateways, Request
<1> DEFINE x == Opened(g.req[s], client)
<1>1. x \in Request /\ g1 = WithRecord(g, s, x)
  BY <1>0, OpenedRecord
<1>2. g1 = [g EXCEPT !.req[s] = [@ EXCEPT !.assigned = client, !.accepting = TRUE,
                                          !.early = {}]]
  BY DEF WithRecord, Opened, Gateways
<1> HIDE DEF x
<1>3. g1 \in Gateways /\ IdleIsNobodys(g1)
  BY <1>1, RecordReplaced
<1>4. g2 \in Gateways
  <2>1. CASE g.req[s].early = {}
    BY <1>3, <2>1
  <2>2. CASE g.req[s].early # {}
    BY <1>0, <1>3, <2>2, AcceptedEffect
  <2> QED BY <2>1, <2>2
<1>5. WithRecord(g2, s, Waiting(g2.req[s])) = [g2 EXCEPT !.req[s].timer = TRUE]
  BY <1>4 DEF WithRecord, Waiting, Gateways
<1> QED BY <1>2, <1>5 DEF Published

\* Publishing a round whose server part is answered drives its request on.
LEMMA PublishedResult ==
  ASSUME NEW g \in Gateways, NEW k \in Keys, NEW s \in Starts, g.active[k] = s,
         s \in g.slots, IdleIsNobodys(g), RoundsOf(g.task, s) = {},
         NEW r, r = g.req[s], r.awaiting, ~ r.timer, r.answered,
         OfThisRound(r), ReceivedSoFar(r), r.received \cap r.calls = {},
         NEW client \in Bunches, client = {c \in r.calls : c[2] \in ClientNames},
         Lists(r, r.calls \ client),
         NEW h, h = Published(g, k, s, client), h.fits
  PROVE  Orderly(h.slots, h.req, h.task, s)
<1>0. r \in Request /\ s # None /\ r.early \in Bunches
  BY StartsAssumption DEF Gateways, Request
<1>a. g \in Gateways /\ s \in Starts /\ IdleIsNobodys(g) /\ r = g.req[s]
  OBVIOUS
<1>b. h = Published(g, k, s, client)
  OBVIOUS
<1>h. r.awaiting /\ r.answered
  OBVIOUS
<1>k. k \in Keys
  OBVIOUS
<1>c. client \in Bunches
  OBVIOUS
<1>x. PICK x : x = Opened(r, client)
  OBVIOUS
<1>g. PICK g1 : g1 = WithRecord(g, s, x)
  OBVIOUS
<1>e. PICK g2 : g2 = IF r.early = {} THEN g1 ELSE Accepted(g1, k, s, r.early)
  OBVIOUS
<1>t. x \in Request
  BY ONLY <1>0, <1>c, <1>x, OpenedRecord
<1>1. /\ x \in Request
      /\ x.calls = r.calls /\ x.got = r.got /\ x.round = r.round
      /\ x.received = r.received /\ x.assigned = client
      /\ x.awaiting /\ x.accepting /\ x.answered
  BY ONLY <1>0, <1>h, <1>c, <1>x, OpenedRecord
<1>2. Collecting(x) /\ ReceivedSoFar(x)
  <2>1. (x.calls \ x.assigned) \cup (x.assigned \cap x.received) = r.calls \ client
    BY <1>1
  <2>2. Lists(x, r.calls \ client) /\ OfThisRound(x) /\ ReceivedSoFar(x)
    BY <1>1 DEF Lists, OfThisRound, ReceivedSoFar
  <2> QED BY <1>1, <2>1, <2>2 DEF Collecting
<1>3. /\ g1 \in Gateways /\ g1.active = g.active /\ g1.slots = g.slots
      /\ g1.task = g.task /\ g1.req[s] = x /\ IdleIsNobodys(g1)
  BY ONLY <1>a, <1>t, <1>g, RecordReplaced
<1>4. CASE client = {}
  <2>1. h = Resumed(g, k)
    BY <1>4 DEF Published
  <2>2. Complete(r) /\ AnswersCalls(r)
    BY <1>4 DEF Complete, AnswersCalls, Lists
  <2>3. /\ Driven(h.req, h.task, s) /\ h.req[s].answered
        /\ h.slots = g.slots
    BY <2>1, <2>2, ResumedDrives
  <2> QED BY <2>3, DrivenOrderly
<1>5. CASE client # {}
  <2>e. PICK early : early = r.early
    OBVIOUS
  <2>1. h = IF early # {} /\ (g2.active[k] # s \/ ~ g2.req[s].awaiting) THEN g2
            ELSE IF client \subseteq g2.req[s].received THEN Resumed(g2, k)
            ELSE WithRecord(g2, s, Waiting(g2.req[s]))
    BY ONLY <1>a, <1>b, <1>k, <1>c, <1>x, <1>g, <1>e, <1>5, <2>e, PublishedCases
  <2>2. g2 \in Gateways /\ IdleIsNobodys(g2)
    <3>1. CASE early = {}
      BY <1>3, <1>e, <2>e, <3>1
    <3>2. CASE early # {}
      BY <1>0, <1>3, <1>e, <2>e, <3>2, AcceptedEffect
    <3> QED BY <3>1, <3>2
  <2>3. /\ g2.fits
        /\ h = Resumed(g2, k) => Resumed(g2, k).fits
    <3>1. h = Resumed(g2, k) => g2.fits
      BY <2>2, ResumedEffect
    <3>2. h = WithRecord(g2, s, Waiting(g2.req[s])) => g2.fits
      BY <2>2 DEF Gateways, WithRecord
    <3> QED BY <2>1, <3>1, <3>2
  <2>4. \/ /\ early # {}
           /\ Orderly(g2.slots, g2.req, g2.task, s)
           /\ g2.active[k] # s \/ ~ g2.req[s].awaiting
        \/ /\ g2.active = g.active /\ g2.slots = g.slots /\ g2.task = g.task
           /\ Collecting(g2.req[s]) /\ ReceivedSoFar(g2.req[s])
           /\ g2.req[s].assigned = client /\ g2.req[s].answered
    <3>1. CASE early = {}
      <4>1. g2 = g1
        BY <1>e, <2>e, <3>1
      <4> QED BY <1>1, <1>2, <1>3, <3>1, <4>1
    <3>2. CASE early # {}
      <4>1. g2 = Accepted(g1, k, s, early)
        BY <1>e, <2>e, <3>2
      <4>2. early \in Bunches
        BY <1>0, <2>e
      <4>3. /\ g1.active[k] = s /\ s \in g1.slots /\ RoundsOf(g1.task, s) = {}
            /\ Collecting(g1.req[s]) /\ ReceivedSoFar(g1.req[s]) /\ g1.req[s].answered
        BY <1>1, <1>2, <1>3
      <4>4. \/ /\ Orderly(g2.slots, g2.req, g2.task, s)
               /\ g2.active[k] # s \/ ~ g2.req[s].awaiting
            \/ /\ g2.active = g1.active /\ g2.slots = g1.slots /\ g2.task = g1.task
               /\ Collecting(g2.req[s]) /\ ReceivedSoFar(g2.req[s])
               /\ g2.req[s].assigned = g1.req[s].assigned /\ g2.req[s].answered
        BY <1>3, <2>3, <4>1, <4>2, <4>3, AcceptedResult
      <4> QED BY <1>1, <1>3, <3>2, <4>4
    <3> QED BY <3>1, <3>2
  <2>5. CASE early # {} /\ (g2.active[k] # s \/ ~ g2.req[s].awaiting)
    <3>1. h = g2
      BY <2>1, <2>5
    <3>2. Orderly(g2.slots, g2.req, g2.task, s)
      BY <2>4, <2>5 DEF Collecting
    <3> QED BY <3>1, <3>2
  <2>6. CASE ~ (early # {} /\ (g2.active[k] # s \/ ~ g2.req[s].awaiting))
    <3>1. /\ g2.active = g.active /\ g2.slots = g.slots /\ g2.task = g.task
          /\ Collecting(g2.req[s]) /\ ReceivedSoFar(g2.req[s])
          /\ g2.req[s].assigned = client /\ g2.req[s].answered
      BY <2>4, <2>6
    <3> DEFINE q == g2.req[s]
    <3>2. q \in Request
      BY <2>2 DEF Gateways
    <3>3. /\ q.assigned = {c \in q.calls : c[2] \in ClientNames}
          /\ IdsOf(q.got) = (q.calls \ q.assigned) \cup (q.assigned \cap q.received)
      BY <3>1 DEF Collecting, Lists
    <3>4. CASE client \subseteq q.received
      <4>1. h = Resumed(g2, k)
        BY <2>1, <2>6, <3>4
      <4>2. Complete(q)
        BY <3>1, <3>3, <3>4 DEF Complete
      <4>3. AnswersCalls(q)
        BY <3>1, <3>2, <4>2, CollectingAnswers
      <4>4. /\ Driven(h.req, h.task, s) /\ h.req[s].answered /\ h.slots = g2.slots
        BY <2>2, <3>1, <4>1, <4>2, <4>3, ResumedDrives
      <4> QED BY <3>1, <4>4, DrivenOrderly
    <3>5. CASE ~ (client \subseteq q.received)
      <4>y. PICK y : y = Waiting(q)
        OBVIOUS
      <4>1. h = WithRecord(g2, s, y)
        BY <2>1, <2>6, <3>5, <4>y
      <4>2. ~ Complete(q)
        BY <3>1, <3>3, <3>5 DEF Complete
      <4>t. y \in Request
        BY <3>2, <4>y, WaitingRecord
      <4>3. /\ y \in Request /\ y.timer
            /\ y.calls = q.calls /\ y.got = q.got /\ y.round = q.round
            /\ y.received = q.received /\ y.assigned = q.assigned
        BY <3>2, <4>y, WaitingRecord
      <4>4. (q.awaiting => y.awaiting) /\ (q.accepting => y.accepting)
            /\ (q.answered => y.answered)
        BY <3>2, <4>y, WaitingRecord
      <4> HIDE DEF q
      <4>5. /\ Collecting(y) /\ ~ Complete(y) /\ ReceivedSoFar(y)
        BY <3>1, <4>2, <4>3, <4>4
        DEF q, Collecting, Complete, ReceivedSoFar, OfThisRound, Lists
      <4>6. h.slots = g2.slots /\ h.task = g2.task /\ h.req[s] = y
        BY ONLY <1>a, <2>2, <4>1, <4>t, RecordReplaced
      <4>r. RoundsOf(h.task, s) = {}
        BY <3>1, <4>6
      <4>w. y.timer
        BY <4>3
      <4>7. Driven(h.req, h.task, s)
        BY ONLY <4>r, <4>5, <4>6, <4>w DEF Driven, AwaitingClient, RoundsOf
      <4>8. h.req[s].answered
        BY <3>1, <4>4, <4>6 DEF q
      <4> QED BY <3>1, <4>6, <4>7, <4>8, DrivenOrderly
    <3> QED BY <3>4, <3>5
  <2> QED BY <2>5, <2>6
<1> QED BY <1>4, <1>5


-----------------------------------------------------------------------------
(* The state the functions work on                                         *)

IInv == TypeOK /\ SlotInv /\ RoundInv

LEMMA NowIsGateway ==
  ASSUME TypeOK
  PROVE  /\ Now \in Gateways
         /\ Now.active = active /\ Now.slots = slots /\ Now.req = req /\ Now.task = task
BY DEF TypeOK, Now, Gateways

LEMMA KeyType ==
  ASSUME TypeOK, NEW s \in Starts
  PROVE  Key(s) \in Keys
BY StartsAssumption DEF TypeOK, Key, Keys

\* A request in the Map has this key, was accepted and holds a slot.
LEMMA ActiveHoldsSlot ==
  ASSUME TypeOK, SlotInv, NEW k \in Keys, active[k] # None
  PROVE  /\ active[k] \in Starts /\ Key(active[k]) = k
         /\ stage[active[k]] = "accepted" /\ active[k] \in slots
BY DEF TypeOK, SlotInv, SlotsAreLiveRequests

\* Whoever else had the key of a request with an id of its own is the request.
LEMMA OwnKey ==
  ASSUME TypeOK, SlotInv, NEW q \in Starts, Unique(q), NEW s \in Starts
  PROVE  /\ active[Key(s)] = q => s = q
         /\ active[Key(q)] = None \/ active[Key(q)] = q
         /\ q \in slots <=> active[Key(q)] = q
<1>1. Key(s) \in Keys /\ Key(q) \in Keys /\ None \notin Starts
  BY KeyType, StartsAssumption
<1>2. active[Key(s)] = q => s = q
  BY <1>1, ActiveHoldsSlot DEF Unique
<1>3. active[Key(q)] = None \/ active[Key(q)] = q
  BY <1>1, ActiveHoldsSlot DEF Unique
<1>4. q \in slots <=> active[Key(q)] = q
  BY DEF SlotInv, SlotsAreLiveRequests
<1> QED BY <1>2, <1>3, <1>4

\* The request of a round in flight was accepted.
LEMMA RoundAccepted ==
  ASSUME TypeOK, RoundInv, NEW t \in Tasks, task[t].at # "idle"
  PROVE  /\ task[t].of \in Starts /\ stage[task[t].of] = "accepted"
         /\ task[t].calls \in Bunches
<1>1. task[t].of # None /\ task[t] \in Round
  BY DEF RoundInv, TypeOK
<1>2. task[t].of \in Starts /\ task[t].calls \in Bunches
  BY <1>1 DEF Round
<1>3. t \in RoundsOf(task, task[t].of)
  BY DEF RoundsOf
<1> QED BY <1>2, <1>3 DEF RoundInv

-----------------------------------------------------------------------------
(* Slots: handlers that at most forget a request                           *)

LEMMA FewerSlots ==
  ASSUME TypeOK, SlotInv, NEW held, held \subseteq slots
  PROVE  /\ IsFiniteSet(held)
         /\ Cardinality(held) <= MaxActive
         /\ \A s \in held : Cardinality({q \in held : UserOf[q] = UserOf[s]}) <= MaxPerUser
<1>1. IsFiniteSet(slots) /\ Cardinality(slots) <= MaxActive
  BY DEF SlotInv, SlotsAreLiveRequests
<1>2. IsFiniteSet(held) /\ Cardinality(held) <= Cardinality(slots)
  BY <1>1, FS_Subset
<1>3. Cardinality(held) \in Nat /\ Cardinality(slots) \in Nat /\ MaxActive \in Nat
      /\ MaxPerUser \in Nat
  BY <1>1, <1>2, FS_CardinalityType, LimitsAssumption
<1>4. ASSUME NEW s \in held
      PROVE  Cardinality({q \in held : UserOf[q] = UserOf[s]}) <= MaxPerUser
  <2> DEFINE A == {q \in slots : UserOf[q] = UserOf[s]}
             B == {q \in held : UserOf[q] = UserOf[s]}
  <2>1. A \subseteq slots /\ B \subseteq A
    OBVIOUS
  <2>2. Cardinality(A) <= MaxPerUser
    BY DEF SlotInv, SlotsAreLiveRequests
  <2> HIDE DEF A, B
  <2>3. IsFiniteSet(A)
    BY <1>1, <2>1, FS_Subset
  <2>4. Cardinality(B) <= Cardinality(A) /\ IsFiniteSet(B)
    BY <2>1, <2>3, FS_Subset
  <2>5. Cardinality(A) \in Nat /\ Cardinality(B) \in Nat
    BY <2>3, <2>4, FS_CardinalityType
  <2>6. Cardinality(B) <= MaxPerUser
    BY <1>3, <2>2, <2>4, <2>5
  <2> QED BY <2>6 DEF B
<1>5. Cardinality(held) <= MaxActive
  BY <1>1, <1>2, <1>3
<1> QED BY <1>2, <1>4, <1>5

LEMMA KeptSlots ==
  ASSUME TypeOK, SlotInv, NEW k \in Keys, NEW h \in Gateways, Kept(Now, h, k),
         active' = h.active, slots' = h.slots,
         UNCHANGED <<id, stage, pending, starting, closed>>, cancelled \subseteq cancelled'
  PROVE  SlotInv'
<1>1. /\ Now.active = active /\ Now.slots = slots
      /\ \A s \in Starts : Key(s) \in Keys /\ Key(s)' = Key(s)
  BY NowIsGateway, KeyType DEF Key
<1>2. \/ active' = active /\ slots' = slots
      \/ /\ active[k] # None /\ active'[k] = None
         /\ \A l \in Keys : l # k => active'[l] = active[l]
         /\ \A q \in Starts : q \in slots' <=> q \in slots /\ q # active[k]
  BY <1>1 DEF Kept
<1>3. slots \subseteq Starts /\ slots' \subseteq Starts
  BY DEF TypeOK, Gateways
<1>4. slots' \subseteq slots
  BY <1>2, <1>3
<1>5. \A l \in Keys : active'[l] = active[l] \/ active'[l] = None
  BY <1>2
<1>6. \A l \in Keys : active'[l] # None =>
        Key(active[l])' = l /\ stage'[active'[l]] = "accepted"
  <2> SUFFICES ASSUME NEW l \in Keys, active'[l] # None
               PROVE  Key(active[l])' = l /\ stage'[active'[l]] = "accepted"
    OBVIOUS
  <2>1. active'[l] = active[l] /\ active[l] \in Starts
    BY <1>5 DEF TypeOK
  <2>2. Key(active[l]) = l /\ stage[active[l]] = "accepted"
    BY <2>1 DEF SlotInv
  <2> QED BY <2>1, <2>2 DEF Key
<1>7. \A l \in Keys : starting'[l] # None =>
        /\ Key(starting[l])' = l /\ stage'[starting'[l]] = "preflight"
        /\ active'[l] = None
  <2> SUFFICES ASSUME NEW l \in Keys, starting'[l] # None
               PROVE  /\ Key(starting[l])' = l /\ stage'[starting'[l]] = "preflight"
                      /\ active'[l] = None
    OBVIOUS
  <2>1. starting'[l] = starting[l]
    OBVIOUS
  <2>2. Key(starting[l]) = l /\ stage[starting[l]] = "preflight" /\ active[l] = None
    BY <2>1 DEF SlotInv
  <2> QED BY <1>5, <2>1, <2>2 DEF Key
<1>8. \A s \in Starts : stage'[s] = "preflight" =>
        IF ConnOf[s] \in closed' THEN s \in cancelled' ELSE starting'[Key(s)'] = s
  BY <1>1 DEF SlotInv
<1>9. slots' = {s \in Starts : active'[Key(s)'] = s}
  <2>1. \A s \in Starts : s \in slots <=> active[Key(s)] = s
    BY <1>3 DEF SlotInv, SlotsAreLiveRequests
  <2>2. \A s \in Starts : s = active[k] /\ active[k] # None => Key(s) = k
    BY DEF SlotInv
  <2>3. None \notin Starts
    BY StartsAssumption
  <2>4. ASSUME NEW s \in Starts PROVE s \in slots' <=> active'[Key(s)'] = s
    <3>1. CASE active' = active /\ slots' = slots
      BY <1>1, <2>1, <3>1
    <3>2. CASE /\ active[k] # None /\ active'[k] = None
               /\ \A l \in Keys : l # k => active'[l] = active[l]
               /\ \A q \in Starts : q \in slots' <=> q \in slots /\ q # active[k]
      <4>1. CASE Key(s) = k
        BY <1>1, <2>1, <2>3, <3>2, <4>1
      <4>2. CASE Key(s) # k
        BY <1>1, <2>1, <2>2, <3>2, <4>2
      <4> QED BY <4>1, <4>2
    <3> QED BY <1>2, <3>1, <3>2
  <2> QED BY <1>3, <2>4
<1>10. /\ IsFiniteSet(slots') /\ Cardinality(slots') <= MaxActive
       /\ \A s \in slots' :
            Cardinality({q \in slots' : UserOf[q] = UserOf[s]}) <= MaxPerUser
  BY <1>4, FewerSlots
<1>11. /\ \A s \in slots' : ConnOf[s] \notin closed'
       /\ pending' = {s \in Starts : stage'[s] = "preflight"}
  BY <1>4 DEF SlotInv, SlotsAreLiveRequests
<1>12. SlotsAreLiveRequests'
  BY ONLY <1>9, <1>10, <1>11, Zenon DEF SlotsAreLiveRequests
<1> QED BY ONLY <1>6, <1>7, <1>8, <1>10, <1>12 DEF SlotInv

-----------------------------------------------------------------------------
(* Rounds: a handler that concerns one request                             *)

LEMMA ApartOrderly ==
  ASSUME NEW g, NEW h, NEW q \in Starts, Apart(g, h, q), q # None,
         Orderly(g.slots, g.req, g.task, q)
  PROVE  Orderly(h.slots, h.req, h.task, q)
<1>1. RoundsOf(h.task, q) = RoundsOf(g.task, q)
  BY DEF Apart, RoundsOf
<1>2. h.req[q] = g.req[q] /\ (q \in h.slots <=> q \in g.slots)
      /\ \A t \in RoundsOf(g.task, q) : h.task[t] = g.task[t]
  BY DEF Apart, RoundsOf
<1>3. Driven(g.req, g.task, q) => Driven(h.req, h.task, q)
  BY <1>1, <1>2 DEF Driven
<1> QED BY <1>1, <1>2, <1>3 DEF Orderly

LEMMA HandlerStep ==
  ASSUME IInv, NEW s \in Starts, stage[s] = "accepted",
         NEW h \in Gateways, IdleIsNobodys(h), Kept(Now, h, Key(s)),
         \A q \in Starts : q # s /\ q # active[Key(s)] => Apart(Now, h, q),
         Unique(s) => Orderly(h.slots, h.req, h.task, s),
         Becomes(h), UNCHANGED <<id, stage, pending, starting, closed, draining>>,
         cancelled \subseteq cancelled', cancelled' \subseteq Starts
  PROVE  IInv'
<1>1. TypeOK /\ SlotInv /\ RoundInv
  BY DEF IInv
<1>2. active' = h.active /\ slots' = h.slots /\ req' = h.req /\ task' = h.task
  BY DEF Becomes
<1>3. TypeOK'
  BY <1>1, <1>2 DEF TypeOK, Gateways
<1>4. SlotInv'
  BY <1>1, <1>2, KeptSlots, KeyType
<1>5. Now.req = req /\ Now.slots = slots /\ Now.task = task
  BY <1>1, NowIsGateway
<1>6. \A t \in Tasks : task'[t].of = None <=> task'[t].at = "idle"
  BY <1>2 DEF IdleIsNobodys
<1>7. ASSUME NEW q \in Starts, stage'[q] # "accepted"
      PROVE  RoundsOf(task', q) = {} /\ req'[q] = FreshRequest
  <2>1. q # s /\ q # active[Key(s)]
    BY <1>1, <1>7, KeyType, ActiveHoldsSlot, StartsAssumption
  <2>2. Apart(Now, h, q)
    BY <2>1
  <2>3. RoundsOf(task, q) = {} /\ req[q] = FreshRequest
    BY <1>1, <1>7 DEF RoundInv
  <2> QED BY <1>2, <1>5, <2>2, <2>3 DEF Apart, RoundsOf
<1>8. ASSUME NEW q \in Starts, Unique(q)'
      PROVE  Orderly(slots', req', task', q)
  <2>1. Unique(q)
    BY <1>8 DEF Unique, Key
  <2>2. CASE q = s
    BY <1>2, <2>1, <2>2
  <2>3. CASE q # s
    <3>1. q # active[Key(s)]
      BY <1>1, <2>1, <2>3, OwnKey
    <3>2. Apart(Now, h, q)
      BY <2>3, <3>1
    <3>3. Orderly(Now.slots, Now.req, Now.task, q)
      BY <1>1, <1>5, <2>1 DEF RoundInv
    <3>4. Orderly(h.slots, h.req, h.task, q)
      BY <3>2, <3>3, ApartOrderly, StartsAssumption
    <3> QED BY <1>2, <3>4
  <2> QED BY <2>2, <2>3
<1>9. RoundInv'
  BY <1>6, <1>7, <1>8 DEF RoundInv
<1> QED BY <1>3, <1>4, <1>9 DEF IInv

-----------------------------------------------------------------------------
(* Rounds in flight                                                        *)

\* A round alone is replaced.
WithRound(g, t, x) == [g EXCEPT !.task[t] = x]

LEMMA RoundReplaced ==
  ASSUME NEW g \in Gateways, NEW t \in Tasks, NEW x \in Round,
         x.of = None <=> x.at = "idle", IdleIsNobodys(g),
         NEW h, h = WithRound(g, t, x)
  PROVE  /\ h \in Gateways /\ IdleIsNobodys(h)
         /\ h.active = g.active /\ h.slots = g.slots /\ h.req = g.req
         /\ g.fits => h.fits
         /\ h.task[t] = x /\ \A u \in Tasks : u # t => h.task[u] = g.task[u]
         /\ \A q \in Starts : q # g.task[t].of /\ q # x.of => Apart(g, h, q)
<1>1. h = [g EXCEPT !.task = [g.task EXCEPT ![t] = x]]
  BY DEF WithRound
<1>2. g.task \in [Tasks -> Round] /\ [g.task EXCEPT ![t] = x] \in [Tasks -> Round]
  BY DEF Gateways
<1>3. /\ h.active = g.active /\ h.slots = g.slots /\ h.req = g.req /\ (g.fits => h.fits)
      /\ h.task = [g.task EXCEPT ![t] = x] /\ h \in Gateways
  BY <1>1, <1>2 DEF Gateways
<1>4. h.task[t] = x /\ \A u \in Tasks : u # t => h.task[u] = g.task[u]
  BY <1>2, <1>3
<1>5. \A q \in Starts : q # g.task[t].of /\ q # x.of => Apart(g, h, q)
  BY <1>3, <1>4 DEF Apart
<1>6. IdleIsNobodys(h)
  BY <1>4 DEF IdleIsNobodys
<1> QED BY <1>3, <1>4, <1>5, <1>6

LEMMA EndedEffect ==
  ASSUME NEW g \in Gateways, NEW t \in Tasks, IdleIsNobodys(g), NEW h, h = Ended(g, t)
  PROVE  /\ h \in Gateways /\ IdleIsNobodys(h)
         /\ h.active = g.active /\ h.slots = g.slots /\ h.req = g.req
         /\ g.fits => h.fits
         /\ \A q \in Starts, u \in Tasks :
              u \in RoundsOf(h.task, q) <=> u \in RoundsOf(g.task, q) /\ u # t
         /\ \A q \in Starts : q # g.task[t].of => Apart(g, h, q)
<1>1. h = WithRound(g, t, IdleTask)
  BY DEF Ended, WithRound
<1>2. IdleTask \in Round /\ IdleTask.of = None /\ IdleTask.at = "idle"
  BY NoCalls DEF IdleTask, Round, RoundLabels
<1>3. /\ h \in Gateways /\ IdleIsNobodys(h)
      /\ h.active = g.active /\ h.slots = g.slots /\ h.req = g.req
      /\ g.fits => h.fits
      /\ h.task[t] = IdleTask /\ \A u \in Tasks : u # t => h.task[u] = g.task[u]
      /\ \A q \in Starts : q # g.task[t].of /\ q # IdleTask.of => Apart(g, h, q)
  BY <1>1, <1>2, RoundReplaced
<1>4. None \notin Starts
  BY StartsAssumption
<1>5. \A q \in Starts, u \in Tasks :
        u \in RoundsOf(h.task, q) <=> u \in RoundsOf(g.task, q) /\ u # t
  BY <1>2, <1>3, <1>4 DEF RoundsOf
<1> QED BY <1>2, <1>3, <1>4, <1>5

LEMMA NowIdle ==
  ASSUME IInv
  PROVE  /\ Now \in Gateways /\ IdleIsNobodys(Now) /\ Now.fits
         /\ Now.active = active /\ Now.slots = slots /\ Now.req = req /\ Now.task = task
<1>1. /\ Now \in Gateways
      /\ Now.active = active /\ Now.slots = slots /\ Now.req = req /\ Now.task = task
  BY NowIsGateway DEF IInv
<1>2. IdleIsNobodys(Now)
  BY <1>1 DEF IInv, RoundInv, IdleIsNobodys
<1> QED BY <1>1, <1>2 DEF Now

\* What a round in flight finds: its request waits for it, or was aborted.
LEMMA RoundFinds ==
  ASSUME IInv, NEW t \in Tasks, task[t].at # "idle", NEW s, s = task[t].of
  PROVE  /\ s \in Starts /\ stage[s] = "accepted" /\ task[t].calls \in Bunches
         /\ Key(s) \in Keys /\ req[s] \in Request
         /\ Unique(s) => req[s].answered
         /\ Unique(s) /\ s \in slots =>
              /\ active[Key(s)] = s
              /\ RoundsOf(task, s) = {t} /\ ReceivedSoFar(req[s])
              /\ task[t].at = "tools" => RunningTools(req[s], task[t].calls)
              /\ task[t].at # "tools" => Asking(req[s])
         /\ Unique(s) /\ s \notin slots => active[Key(s)] = None /\ req[s].aborted
<1>0. TypeOK /\ SlotInv /\ RoundInv
  BY DEF IInv
<1>1. s \in Starts /\ stage[s] = "accepted" /\ task[t].calls \in Bunches
      /\ Key(s) \in Keys /\ req[s] \in Request
  BY <1>0, RoundAccepted, KeyType DEF TypeOK
<1>2. t \in RoundsOf(task, s)
  BY DEF RoundsOf
<1>3. Unique(s) => Orderly(slots, req, task, s)
  BY <1>0, <1>1 DEF RoundInv
<1>4. ASSUME Unique(s), s \in slots
      PROVE  /\ active[Key(s)] = s
             /\ RoundsOf(task, s) = {t} /\ ReceivedSoFar(req[s])
             /\ task[t].at = "tools" => RunningTools(req[s], task[t].calls)
             /\ task[t].at # "tools" => Asking(req[s])
  <2>1. Driven(req, task, s)
    BY <1>3, <1>4 DEF Orderly
  <2>2. PICK u \in Tasks :
          /\ RoundsOf(task, s) = {u}
          /\ \/ task[u].at = "tools" /\ RunningTools(req[s], task[u].calls)
             \/ task[u].at # "tools" /\ Asking(req[s])
    BY <1>2, <2>1 DEF Driven
  <2>3. u = t
    BY <1>2, <2>2
  <2> QED BY <1>0, <1>1, <1>4, <2>1, <2>2, <2>3, OwnKey DEF Driven
<1>5. ASSUME Unique(s), s \notin slots
      PROVE  active[Key(s)] = None /\ req[s].aborted
  BY <1>0, <1>1, <1>2, <1>3, <1>5, OwnKey DEF Orderly
<1> QED BY <1>1, <1>3, <1>4, <1>5 DEF Orderly

\* A round goes on to await something else.
LEMMA RelabelStep ==
  ASSUME IInv, NEW t \in Tasks, task[t].at # "idle",
         task[t].at # "tools" \/ active[KeyOf(t)] # task[t].of,
         NEW label \in RoundLabels \ {"idle", "tools"}, Moves(t, label),
         ElsewhereUnchanged, UNCHANGED <<active, slots, req>>
  PROVE  IInv'
<1> DEFINE s == task[t].of
           x == [task[t] EXCEPT !.at = label]
           h == WithRound(Now, t, x)
<1>1. /\ Now \in Gateways /\ IdleIsNobodys(Now) /\ Now.fits
      /\ Now.active = active /\ Now.slots = slots /\ Now.req = req /\ Now.task = task
  BY NowIdle
<1>2. /\ s \in Starts /\ stage[s] = "accepted"
      /\ Unique(s) => req[s].answered
      /\ Unique(s) /\ s \in slots =>
           /\ active[Key(s)] = s
           /\ RoundsOf(task, s) = {t} /\ ReceivedSoFar(req[s])
           /\ task[t].at # "tools" => Asking(req[s])
      /\ Unique(s) /\ s \notin slots => active[Key(s)] = None /\ req[s].aborted
  BY RoundFinds
<1>3. task[t] \in Round
  BY DEF IInv, TypeOK
<1>4. x \in Round /\ x.of = s /\ x.at = label /\ s # None
  BY <1>2, <1>3, StartsAssumption DEF Round
<1> HIDE DEF x
<1>5. /\ h \in Gateways /\ IdleIsNobodys(h) /\ h.fits
      /\ h.active = active /\ h.slots = slots /\ h.req = req
      /\ h.task[t] = x /\ \A u \in Tasks : u # t => h.task[u] = task[u]
      /\ \A q \in Starts : q # s => Apart(Now, h, q)
  BY <1>1, <1>4, RoundReplaced
<1>6. Kept(Now, h, Key(s))
  BY <1>1, <1>5 DEF Kept
<1>7. task' = h.task
  <2>1. task' = [task EXCEPT ![t] = x]
    BY DEF Moves, x, IInv, TypeOK
  <2> QED BY <1>1, <2>1 DEF WithRound, Gateways
<1>8. Becomes(h)
  BY <1>5, <1>7 DEF Becomes
<1>9. RoundsOf(h.task, s) = RoundsOf(task, s)
  BY <1>4, <1>5 DEF RoundsOf
<1> HIDE DEF h
<1>10. ASSUME Unique(s) PROVE Orderly(h.slots, h.req, h.task, s)
  <2>1. CASE s \in slots
    <3>1. /\ RoundsOf(h.task, s) = {t} /\ ReceivedSoFar(req[s]) /\ Asking(req[s])
          /\ h.task[t].at # "tools"
      BY <1>2, <1>4, <1>5, <1>9, <1>10, <2>1 DEF KeyOf
    <3>2. Driven(h.req, h.task, s)
      BY <1>5, <3>1 DEF Driven
    <3> QED BY <1>2, <1>5, <1>10, <2>1, <3>2, DrivenOrderly
  <2>2. CASE s \notin slots
    BY <1>2, <1>5, <1>10, <2>2, AbortedOrderly
  <2> QED BY <2>1, <2>2
<1>11. UNCHANGED <<id, stage, pending, starting, closed, draining>>
       /\ cancelled \subseteq cancelled' /\ cancelled' \subseteq Starts
  BY DEF ElsewhereUnchanged, IInv, TypeOK
<1> HIDE DEF s
<1> QED BY <1>2, <1>5, <1>6, <1>8, <1>10, <1>11, HandlerStep

\* A round ends: its request is forgotten, or was not known any more.
LEMMA EndedStep ==
  ASSUME IInv, NEW t \in Tasks, task[t].at # "idle",
         NEW f, f = Ended(Now, t),
         NEW h, \/ h = f /\ active[KeyOf(t)] # task[t].of
                \/ h = Forgotten(f, KeyOf(t))
                \/ h = Aborted(f, KeyOf(t)),
         Becomes(h), ElsewhereUnchanged
  PROVE  IInv'
<1>s. PICK s : s = task[t].of
  OBVIOUS
<1>k. PICK k : k = Key(s)
  OBVIOUS
<1>1. /\ Now \in Gateways /\ IdleIsNobodys(Now)
      /\ Now.active = active /\ Now.slots = slots /\ Now.req = req /\ Now.task = task
  BY NowIdle
<1>2. /\ s \in Starts /\ stage[s] = "accepted" /\ k \in Keys
      /\ Unique(s) => req[s].answered
      /\ Unique(s) /\ s \in slots => active[k] = s /\ RoundsOf(task, s) = {t}
      /\ Unique(s) /\ s \notin slots => active[k] = None /\ req[s].aborted
  BY <1>s, <1>k, RoundFinds
<1>3. /\ f \in Gateways /\ IdleIsNobodys(f)
      /\ f.active = active /\ f.slots = slots /\ f.req = req
      /\ \A u \in Tasks : u \in RoundsOf(f.task, s) <=> u \in RoundsOf(task, s) /\ u # t
      /\ \A q \in Starts : q # s => Apart(Now, f, q)
  <2>1. f = Ended(Now, t) /\ t \in Tasks
    OBVIOUS
  <2>2. s \in Starts
    BY <1>2
  <2> QED BY ONLY <1>s, <1>1, <2>1, <2>2, EndedEffect
<1>4. \/ h = f /\ active[k] # s
      \/ /\ h \in Gateways /\ Kept(f, h, k) /\ h.task = f.task
         /\ active[k] = None => h = f
         /\ active[k] # None => /\ active[k] \notin h.slots
                                /\ f.req[active[k]].answered => h.req[active[k]].answered
         /\ \A q \in Starts : q # active[k] => Apart(f, h, q)
  <2>1. CASE h = f /\ active[k] # s
    BY <2>1
  <2>2. CASE h = Forgotten(f, k)
    BY <1>2, <1>3, <2>2, ForgottenEffect
  <2>3. CASE h = Aborted(f, k)
    BY <1>2, <1>3, <2>3, AbortedEffect
  <2> QED BY <1>s, <1>k, <2>1, <2>2, <2>3 DEF KeyOf
<1>5. h \in Gateways /\ IdleIsNobodys(h) /\ Kept(Now, h, k)
  BY <1>1, <1>3, <1>4 DEF Kept, IdleIsNobodys
<1>6. \A q \in Starts : q # s /\ q # active[k] => Apart(Now, h, q)
  BY <1>3, <1>4, ApartTwice
<1>7. ASSUME Unique(s) PROVE Orderly(h.slots, h.req, h.task, s)
  <2>0. None \notin Starts
    BY StartsAssumption
  <2>1. CASE s \in slots
    <3>1. s \notin h.slots /\ h.task = f.task /\ h.req[s].answered
      BY <1>2, <1>3, <1>4, <1>7, <2>0, <2>1
    <3>2. RoundsOf(h.task, s) = {}
      BY <1>2, <1>3, <1>7, <2>1, <3>1 DEF RoundsOf
    <3> QED BY <3>1, <3>2 DEF Orderly
  <2>2. CASE s \notin slots
    <3>1. h = f
      BY <1>2, <1>4, <1>7, <2>2
    <3> QED BY <1>2, <1>3, <1>7, <2>2, <3>1, AbortedOrderly
  <2> QED BY <2>1, <2>2
<1>8. UNCHANGED <<id, stage, pending, starting, closed, draining>>
      /\ cancelled \subseteq cancelled' /\ cancelled' \subseteq Starts
  BY DEF ElsewhereUnchanged, IInv, TypeOK
<1> QED BY <1>2, <1>5, <1>6, <1>7, <1>8, <1>k, HandlerStep

LEMMA RoundEndsStep ==
  ASSUME IInv, NEW t \in Tasks, RoundEnds(t)
  PROVE  IInv'
<1>1. task[t].at # "idle" /\ ElsewhereUnchanged
  BY DEF RoundEnds, TaskAt
<1>2. Becomes(Forgotten(Ended(Now, t), KeyOf(t)))
  BY DEF RoundEnds, Forgotten
<1> QED BY <1>1, <1>2, EndedStep

LEMMA ServerToolsFailStep ==
  ASSUME IInv, NEW t \in Tasks, ServerToolsFail(t)
  PROVE  IInv'
<1>1. task[t].at # "idle" /\ ElsewhereUnchanged
  BY DEF ServerToolsFail, TaskAt
<1>2. Becomes(Aborted(Ended(Now, t), KeyOf(t)))
  BY DEF ServerToolsFail, Aborted
<1> QED BY <1>1, <1>2, EndedStep

LEMMA FailureReportedStep ==
  ASSUME IInv, NEW t \in Tasks, FailureReported(t)
  PROVE  IInv'
<1>1. task[t].at # "idle" /\ ElsewhereUnchanged
  BY DEF FailureReported, TaskAt
<1>2. Becomes(Forgotten(Ended(Now, t), KeyOf(t)))
  BY DEF FailureReported, Forgotten
<1> QED BY <1>1, <1>2, EndedStep

LEMMA RoundThrowsStep ==
  ASSUME IInv, NEW t \in Tasks, RoundThrows(t)
  PROVE  IInv'
<1>1. /\ task[t].at # "idle" /\ ElsewhereUnchanged
      /\ task[t].at # "tools" \/ active[KeyOf(t)] # task[t].of
  BY DEF RoundThrows, TaskAt
<1>2. CASE active[KeyOf(t)] = None
  <2>1. Becomes(Ended(Now, t))
    BY <1>2 DEF RoundThrows
  <2>2. task[t].of # None
    BY <1>1 DEF IInv, RoundInv
  <2> QED BY <1>1, <1>2, <2>1, <2>2, EndedStep
<1>3. CASE active[KeyOf(t)] # None
  <2>1. Becomes([Now EXCEPT !.task[t].at = "failing"])
    BY <1>3 DEF RoundThrows
  <2>2. Moves(t, "failing") /\ UNCHANGED <<active, slots, req>>
    BY <2>1 DEF Becomes, Now, Moves
  <2> QED BY <1>1, <2>2, RelabelStep DEF RoundLabels
<1> QED BY <1>2, <1>3

LEMMA CallProviderStep ==
  ASSUME IInv, NEW t \in Tasks, CallProvider(t)
  PROVE  IInv'
<1>1. /\ task[t].at # "idle" /\ task[t].at # "tools" /\ Moves(t, "provider")
      /\ ElsewhereUnchanged /\ UNCHANGED <<active, slots, req>>
  BY DEF CallProvider, TaskAt
<1> QED BY <1>1, RelabelStep DEF RoundLabels

LEMMA ProviderReturnsStep ==
  ASSUME IInv, NEW t \in Tasks, ProviderReturns(t)
  PROVE  IInv'
<1>1. /\ task[t].at # "idle" /\ task[t].at # "tools"
      /\ Moves(t, "settling") \/ Moves(t, "refunding")
      /\ ElsewhereUnchanged /\ UNCHANGED <<active, slots, req>>
  BY DEF ProviderReturns, TaskAt
<1> QED BY <1>1, RelabelStep DEF RoundLabels

-----------------------------------------------------------------------------
(* cancel, tool_results, the timer and close                               *)

\* Somebody forgets the request with this key, whatever its round is doing.
LEMMA ForgetStep ==
  ASSUME IInv, NEW s \in Starts, NEW k, k = Key(s), active[k] = s,
         NEW h, h = Aborted(Now, k), Becomes(h),
         UNCHANGED <<id, stage, pending, starting, closed, draining>>,
         cancelled \subseteq cancelled', cancelled' \subseteq Starts
  PROVE  IInv'
<1>1. /\ Now \in Gateways /\ IdleIsNobodys(Now)
      /\ Now.active = active /\ Now.slots = slots /\ Now.req = req /\ Now.task = task
  BY NowIdle
<1>2. k \in Keys /\ s # None /\ stage[s] = "accepted"
  BY KeyType, ActiveHoldsSlot, StartsAssumption DEF IInv
<1>3. /\ h \in Gateways /\ Kept(Now, h, k) /\ h.task = task
      /\ s \notin h.slots /\ h.req[s].aborted
      /\ req[s].answered => h.req[s].answered
      /\ \A q \in Starts : q # s => Apart(Now, h, q)
  BY <1>1, <1>2, AbortedEffect
<1>4. IdleIsNobodys(h)
  BY <1>1, <1>3 DEF IdleIsNobodys
<1>5. ASSUME Unique(s) PROVE Orderly(h.slots, h.req, h.task, s)
  <2>1. req[s].answered
    BY <1>5 DEF IInv, RoundInv, Orderly
  <2> QED BY <1>3, <2>1, AbortedOrderly
<1> QED BY <1>2, <1>3, <1>4, <1>5, HandlerStep

LEMMA CancelStep ==
  ASSUME IInv, NEW k \in Keys, Cancel(k)
  PROVE  IInv'
<1>1. /\ Becomes(Aborted(Now, k))
      /\ UNCHANGED <<id, stage, pending, starting, closed, draining>>
      /\ cancelled \subseteq cancelled' /\ cancelled' \subseteq Starts
  BY DEF Cancel, Aborted, IInv, TypeOK
<1>2. CASE active[k] # None
  <2>1. active[k] \in Starts /\ Key(active[k]) = k
    BY <1>2, ActiveHoldsSlot DEF IInv
  <2> QED BY <1>1, <2>1, ForgetStep
<1>3. CASE active[k] = None
  <2>1. /\ Now \in Gateways
        /\ Now.active = active /\ Now.slots = slots /\ Now.req = req /\ Now.task = task
    BY NowIdle
  <2>2. Aborted(Now, k) = Now
    BY <1>3, <2>1 DEF Aborted, Deleted
  <2>3. UNCHANGED <<active, slots, req, task>>
    BY <1>1, <2>1, <2>2 DEF Becomes
  <2>4. Kept(Now, Now, k)
    BY DEF Kept
  <2>5. SlotInv'
    BY <1>1, <2>1, <2>3, <2>4, KeptSlots DEF IInv
  <2>6. TypeOK'
    BY <1>1, <2>3 DEF IInv, TypeOK
  <2>7. RoundInv'
    BY <1>1, <2>3 DEF IInv, RoundInv, Unique, Key
  <2> QED BY <2>5, <2>6, <2>7 DEF IInv
<1> QED BY <1>2, <1>3

LEMMA InvalidToolResultsStep ==
  ASSUME IInv, NEW k \in Keys, InvalidToolResults(k)
  PROVE  IInv'
<1>1. /\ Becomes(Aborted(Now, k)) /\ active[k] # None
      /\ UNCHANGED <<id, stage, pending, starting, closed, draining>>
      /\ cancelled \subseteq cancelled' /\ cancelled' \subseteq Starts
  BY DEF InvalidToolResults, Aborted, IInv, TypeOK
<1>2. active[k] \in Starts /\ Key(active[k]) = k
  BY <1>1, ActiveHoldsSlot DEF IInv
<1> QED BY <1>1, <1>2, ForgetStep

\* The timer of a request fires.
Fired(s) == [Now EXCEPT !.req[s].timer = FALSE]
Silent(r) == [r EXCEPT !.timer = FALSE]

LEMMA SilentRecord ==
  ASSUME NEW r \in Request, NEW x, x = Silent(r)
  PROVE  /\ x \in Request
         /\ (r.answered => x.answered) /\ (r.aborted => x.aborted)
BY DEF Request, Silent

LEMMA ToolResultsTimeoutStep ==
  ASSUME IInv, NEW s \in Starts, ToolResultsTimeout(s)
  PROVE  IInv'
<1>k. PICK k : k = Key(s)
  OBVIOUS
<1>f. PICK f : f = Fired(s)
  OBVIOUS
<1>h. PICK h : h = IF active[k] # None /\ req[active[k]].awaiting
                     THEN Forgotten(f, k) ELSE f
  OBVIOUS
<1>0. /\ req[s].timer /\ Becomes(h)
      /\ UNCHANGED <<id, stage, cancelled, pending, starting, closed, draining>>
  BY <1>k, <1>f, <1>h DEF ToolResultsTimeout, Forgotten, Fired
<1>1. /\ Now \in Gateways /\ IdleIsNobodys(Now)
      /\ Now.active = active /\ Now.slots = slots /\ Now.req = req /\ Now.task = task
  BY NowIdle
<1>2. k \in Keys /\ s # None /\ req[s] \in Request
  BY <1>k, KeyType, StartsAssumption DEF IInv, TypeOK
<1>3. stage[s] = "accepted"
  BY <1>0 DEF IInv, RoundInv, FreshRequest
<1>x. PICK x : x = Silent(req[s])
  OBVIOUS
<1>4. /\ x \in Request
      /\ (req[s].answered => x.answered) /\ (req[s].aborted => x.aborted)
  BY <1>2, <1>x, SilentRecord
<1>5. f = WithRecord(Now, s, x)
  BY <1>f, <1>x, <1>1 DEF Fired, Silent, WithRecord, Gateways
<1>6. /\ f \in Gateways /\ IdleIsNobodys(f)
      /\ f.active = active /\ f.slots = slots /\ f.task = task /\ f.req[s] = x
      /\ \A q \in Starts : q # s => Apart(Now, f, q)
  <2>1. x \in Request
    BY <1>4
  <2>2. s \in Starts
    OBVIOUS
  <2> QED BY ONLY <1>1, <1>5, <2>1, <2>2, RecordReplaced
<1>7. /\ h \in Gateways /\ Kept(Now, h, k) /\ h.task = task
      /\ \A q \in Starts : q # s /\ q # active[k] => Apart(Now, h, q)
      /\ active[k] = s /\ req[s].awaiting =>
           s \notin h.slots /\ (x.answered => h.req[s].answered)
      /\ ~ (active[k] # None /\ req[active[k]].awaiting) => h = f
  <2>1. CASE active[k] # None /\ req[active[k]].awaiting
    <3>1. h = Forgotten(f, k)
      BY <1>h, <2>1
    <3>2. /\ h \in Gateways /\ Kept(f, h, k) /\ h.task = f.task
          /\ f.active[k] # None =>
               /\ f.active[k] \notin h.slots
               /\ f.req[f.active[k]].answered => h.req[f.active[k]].answered
          /\ \A q \in Starts : q # f.active[k] => Apart(f, h, q)
      BY <1>2, <1>6, <3>1, ForgottenEffect
    <3>3. Kept(Now, h, k)
      BY <1>1, <1>6, <3>2 DEF Kept
    <3>4. \A q \in Starts : q # s /\ q # active[k] => Apart(Now, h, q)
      BY <1>6, <3>2, ApartTwice
    <3> QED BY <1>2, <1>6, <2>1, <3>2, <3>3, <3>4
  <2>2. CASE ~ (active[k] # None /\ req[active[k]].awaiting)
    <3>1. h = f
      BY <1>h, <2>2
    <3>2. Kept(Now, h, k)
      BY <1>1, <1>6, <3>1 DEF Kept
    <3>3. active[k] = s => ~ req[s].awaiting
      BY <1>2, <2>2
    <3> QED BY <1>6, <3>1, <3>2, <3>3
  <2> QED BY <2>1, <2>2
<1>8. IdleIsNobodys(h)
  BY <1>1, <1>7 DEF IdleIsNobodys
<1>9. ASSUME Unique(s) PROVE Orderly(h.slots, h.req, h.task, s)
  <2>1. Orderly(slots, req, task, s) /\ req[s].answered /\ x.answered
    BY <1>4, <1>9 DEF IInv, RoundInv, Orderly
  <2>2. (active[k] = None \/ active[k] = s) /\ (s \in slots <=> active[k] = s)
    BY <1>9, <1>k, OwnKey DEF IInv
  <2>3. CASE s \in slots
    <3>1. RoundsOf(task, s) = {} /\ req[s].awaiting
      BY <1>0, <2>1, <2>3
      DEF Orderly, Driven, RunningTools, Asking, AwaitingClient, Collecting
    <3>2. s \notin h.slots /\ h.req[s].answered /\ RoundsOf(h.task, s) = {}
      BY <1>7, <2>1, <2>2, <2>3, <3>1
    <3> QED BY <3>2 DEF Orderly
  <2>4. CASE s \notin slots
    <3>1. h = f
      BY <1>2, <1>7, <2>2, <2>4
    <3>2. s \notin h.slots /\ h.req[s] = x /\ h.task = task
      BY <1>6, <2>4, <3>1
    <3>3. req[s].aborted \/ RoundsOf(task, s) = {}
      BY <2>1, <2>4 DEF Orderly
    <3> QED BY <1>4, <2>1, <3>2, <3>3 DEF Orderly
  <2> QED BY <2>3, <2>4
<1>10. cancelled \subseteq cancelled' /\ cancelled' \subseteq Starts
  BY <1>0 DEF IInv, TypeOK
<1> QED BY <1>k, <1>0, <1>3, <1>7, <1>8, <1>9, <1>10, HandlerStep

LEMMA NovelResults ==
  ASSUME IInv, NEW s \in Starts, NEW results, results \subseteq Offered(s)
  PROVE  results \ req[s].received \in Bunches
<1>1. req[s].round \in Nat
  BY DEF IInv, TypeOK, Request
<1>2. IsFiniteSet(ClientNames) /\ ClientNames \subseteq Names
  BY NamesAssumption, FS_Subset DEF Names
<1>3. IsFiniteSet({req[s].round - 1} \cup {req[s].round})
  BY FS_Singleton, FS_Union
<1>b. {req[s].round - 1} \cup {req[s].round} = {req[s].round - 1, req[s].round}
  OBVIOUS
<1>4. IsFiniteSet(Offered(s))
  BY <1>2, <1>3, <1>b, FS_Product DEF Offered
<1>5. Offered(s) \subseteq Calls
  BY <1>1, <1>2 DEF Offered, Calls
<1>6. results \ req[s].received \subseteq Offered(s)
  OBVIOUS
<1> QED BY <1>4, <1>5, <1>6, FS_Subset DEF Bunches

\* Results that come before the round is published are kept for it.
Buffered(r, novel) == [r EXCEPT !.early = @ \cup novel]

LEMMA BufferedRecord ==
  ASSUME NEW r \in Request, NEW novel \in Bunches, NEW x, x = Buffered(r, novel)
  PROVE  /\ x \in Request
         /\ x.calls = r.calls /\ x.got = r.got /\ x.round = r.round
         /\ x.received = r.received /\ x.assigned = r.assigned
         /\ (x.awaiting => r.awaiting) /\ (x.accepting => r.accepting)
         /\ (x.timer => r.timer)
         /\ (r.awaiting => x.awaiting) /\ (r.accepting => x.accepting)
         /\ (r.timer => x.timer) /\ (r.answered => x.answered)
<1> DEFINE more == r.early \cup novel
<1>1. more \in Bunches
  BY BunchUnion DEF Request
<1>2. x = [r EXCEPT !.early = more]
  BY DEF Buffered
<1> HIDE DEF more
<1> QED BY <1>1, <1>2 DEF Request

LEMMA ToolResultsStep ==
  ASSUME IInv, NEW s \in Starts, NEW k, k = Key(s), active[k] = s,
         NEW results, ToolResults(k, results)
  PROVE  IInv'
<1>n. PICK novel : novel = results \ req[s].received
  OBVIOUS
<1>h. PICK h : h = IF req[s].accepting THEN Accepted(Now, k, s, novel)
                   ELSE IF Cardinality(req[s].early \cup novel) > MaxEarly
                   THEN Aborted(Now, k)
                   ELSE [Now EXCEPT !.req[s].early = @ \cup novel]
  OBVIOUS
<1>0. /\ Becomes(h) /\ results \subseteq Offered(s)
      /\ UNCHANGED <<id, stage, cancelled, pending, starting, closed, draining>>
  BY <1>n, <1>h DEF ToolResults, Aborted
<1>1. /\ Now \in Gateways /\ IdleIsNobodys(Now)
      /\ Now.active = active /\ Now.slots = slots /\ Now.req = req /\ Now.task = task
  BY NowIdle
<1>2. k \in Keys /\ s # None /\ req[s] \in Request /\ s \in slots /\ stage[s] = "accepted"
  BY KeyType, ActiveHoldsSlot, StartsAssumption DEF IInv, TypeOK
<1>3. novel \in Bunches
  BY <1>0, <1>n, NovelResults
<1>4. cancelled \subseteq cancelled' /\ cancelled' \subseteq Starts
  BY <1>0 DEF IInv, TypeOK
<1>5. ASSUME Unique(s) PROVE Driven(req, task, s) /\ req[s].answered
  BY <1>2, <1>5 DEF IInv, RoundInv, Orderly
<1>a. k = Key(s)
  OBVIOUS
<1>6. CASE req[s].accepting
  <2>1. h = Accepted(Now, k, s, novel)
    BY <1>6, <1>h
  <2>2. /\ h \in Gateways /\ IdleIsNobodys(h) /\ Kept(Now, h, k)
        /\ \A q \in Starts : q # s /\ q # active[k] => Apart(Now, h, q)
    BY <1>1, <1>2, <1>3, <2>1, AcceptedEffect
  <2>3. ASSUME Unique(s) PROVE Orderly(h.slots, h.req, h.task, s)
    <3>1. RoundsOf(task, s) = {} /\ AwaitingClient(req[s]) /\ ReceivedSoFar(req[s])
      BY <1>5, <1>6, <2>3 DEF Driven, RunningTools, Asking
    <3>2. h.fits
      BY <1>0 DEF Becomes
    <3>3. \/ Orderly(h.slots, h.req, h.task, s)
          \/ /\ h.slots = slots /\ h.task = task
             /\ Collecting(h.req[s]) /\ ReceivedSoFar(h.req[s])
             /\ ~ Complete(h.req[s])
             /\ (req[s].timer => h.req[s].timer) /\ h.req[s].answered
      BY <1>1, <1>2, <1>3, <1>5, <2>1, <2>3, <3>1, <3>2, AcceptedResult DEF AwaitingClient
    <3>4. CASE ~ Orderly(h.slots, h.req, h.task, s)
      <4>1. Driven(h.req, h.task, s)
        BY <3>1, <3>3, <3>4 DEF Driven, AwaitingClient
      <4> QED BY <1>2, <3>3, <4>1, DrivenOrderly
    <3> QED BY <3>4
  <2> QED BY <1>a, <1>0, <1>2, <1>4, <2>2, <2>3, HandlerStep
<1>7. CASE ~ req[s].accepting /\ Cardinality(req[s].early \cup novel) > MaxEarly
  <2>1. h = Aborted(Now, k)
    BY <1>7, <1>h
  <2> QED BY <1>a, <1>0, <1>4, <2>1, ForgetStep
<1>8. CASE ~ req[s].accepting /\ ~ (Cardinality(req[s].early \cup novel) > MaxEarly)
  <2>x. PICK x : x = Buffered(req[s], novel)
    OBVIOUS
  <2>1. h = WithRecord(Now, s, x)
    BY <1>1, <1>8, <1>h, <2>x DEF WithRecord, Buffered, Gateways
  <2>2. /\ x \in Request
        /\ x.calls = req[s].calls /\ x.got = req[s].got /\ x.round = req[s].round
        /\ x.received = req[s].received /\ x.assigned = req[s].assigned
        /\ (x.awaiting => req[s].awaiting) /\ (x.accepting => req[s].accepting)
        /\ (x.timer => req[s].timer)
        /\ (req[s].awaiting => x.awaiting) /\ (req[s].accepting => x.accepting)
        /\ (req[s].timer => x.timer) /\ (req[s].answered => x.answered)
    BY <1>2, <1>3, <2>x, BufferedRecord
  <2>3. /\ h \in Gateways /\ IdleIsNobodys(h)
        /\ h.active = active /\ h.slots = slots /\ h.task = task /\ h.req[s] = x
        /\ \A q \in Starts : q # s => Apart(Now, h, q)
    <3>1. x \in Request
      BY <2>2
    <3>2. s \in Starts
      OBVIOUS
    <3> QED BY ONLY <1>1, <2>1, <3>1, <3>2, RecordReplaced
  <2>4. Kept(Now, h, k)
    BY <1>1, <2>3 DEF Kept
  <2>5. ASSUME Unique(s) PROVE Orderly(h.slots, h.req, h.task, s)
    <3>1. Driven(h.req, h.task, s)
      BY <1>5, <2>2, <2>3, <2>5
      DEF Driven, ReceivedSoFar, RunningTools, Asking, AwaitingClient, Collecting, Complete,
          OfThisRound, Lists
    <3> QED BY <1>2, <1>5, <2>2, <2>3, <2>5, <3>1, DrivenOrderly
  <2> QED BY <1>a, <1>0, <1>2, <1>4, <2>3, <2>4, <2>5, HandlerStep
<1> QED BY <1>6, <1>7, <1>8

-----------------------------------------------------------------------------
(* Rounds that call tools                                                  *)

LEMMA AcceptedGone ==
  ASSUME NEW g \in Gateways, NEW k \in Keys, NEW s \in Starts, NEW results \in Bunches,
         NEW h, h = Accepted(g, k, s, results), IdleIsNobodys(g), g.active[k] = None
  PROVE  /\ (g.req[s].aborted => h.req[s].aborted)
         /\ (g.req[s].answered => h.req[s].answered)
         /\ h.active[k] = None
<1>1. CASE ~ (results \subseteq g.req[s].assigned)
  <2>1. h = Aborted(g, k)
    BY <1>1 DEF Accepted, Aborted
  <2>2. h = g
    BY <2>1, AbortedEffect
  <2> QED BY <2>2
<1>2. CASE results \subseteq g.req[s].assigned
  <2>0. PICK f : f = Taken(g, s, results)
    OBVIOUS
  <2>1. h = Resumed(f, k)
    BY <1>2, <2>0 DEF Accepted, Taken
  <2>n. PICK new : new = Novel(g, s, results)
    OBVIOUS
  <2>2. /\ f \in Gateways /\ IdleIsNobodys(f) /\ f.active = g.active
        /\ f.req[s] = Extended(g.req[s], new) /\ g.req[s] \in Request /\ new \in Bunches
    BY <2>0, <2>n, TakenEffect
  <2>3. h = f
    BY <2>1, <2>2, ResumedEffect
  <2>4. (g.req[s].aborted => f.req[s].aborted) /\ (g.req[s].answered => f.req[s].answered)
    BY <2>2, ExtendedType
  <2> QED BY <2>2, <2>3, <2>4
<1> QED BY <1>1, <1>2

LEMMA PublishedGone ==
  ASSUME NEW g \in Gateways, NEW k \in Keys, NEW s \in Starts, NEW client \in Bunches,
         NEW h, h = Published(g, k, s, client), IdleIsNobodys(g), g.active[k] = None,
         s \notin g.slots, g.req[s].aborted, g.req[s].answered
  PROVE  Orderly(h.slots, h.req, h.task, s)
<1>r. PICK r : r = g.req[s]
  OBVIOUS
<1>x. PICK x : x = Opened(r, client)
  OBVIOUS
<1>g. PICK g1 : g1 = WithRecord(g, s, x)
  OBVIOUS
<1>e. PICK g2 : g2 = IF r.early = {} THEN g1 ELSE Accepted(g1, k, s, r.early)
  OBVIOUS
<1>a. /\ g \in Gateways /\ s \in Starts /\ IdleIsNobodys(g) /\ k \in Keys
      /\ client \in Bunches /\ h = Published(g, k, s, client) /\ g.active[k] = None
  OBVIOUS
<1>b. s \notin g.slots
  OBVIOUS
<1>c. r.aborted /\ r.answered
  BY <1>r
<1>1. r \in Request /\ r.early \in Bunches
  BY <1>r DEF Gateways, Request
<1>2. x \in Request /\ (r.aborted => x.aborted) /\ (r.answered => x.answered)
  BY ONLY <1>a, <1>1, <1>x, OpenedRecord
<1>3. x \in Request
  BY <1>2
<1>4. /\ g1 \in Gateways /\ IdleIsNobodys(g1) /\ g1.active = g.active /\ g1.req[s] = x
  BY ONLY <1>a, <1>3, <1>g, RecordReplaced
<1>5. /\ g2 \in Gateways /\ IdleIsNobodys(g2) /\ g2.active[k] = None
      /\ (x.aborted => g2.req[s].aborted) /\ (x.answered => g2.req[s].answered)
  <2>1. CASE r.early = {}
    BY ONLY <1>a, <1>4, <1>e, <2>1
  <2>2. CASE r.early # {}
    <3>1. g2 = Accepted(g1, k, s, r.early)
      BY <1>e, <2>2
    <3>2. g2 \in Gateways /\ IdleIsNobodys(g2)
      BY ONLY <1>a, <1>1, <1>4, <3>1, AcceptedEffect
    <3>3. /\ g2.active[k] = None
          /\ (x.aborted => g2.req[s].aborted) /\ (x.answered => g2.req[s].answered)
      BY ONLY <1>a, <1>1, <1>4, <3>1, AcceptedGone
    <3> QED BY <3>2, <3>3
  <2> QED BY <2>1, <2>2
<1>y. PICK y : y = Waiting(g2.req[s])
  OBVIOUS
<1>6. h = g \/ h = g2 \/ h = WithRecord(g2, s, y)
  <2>1. h = Resumed(g, k) \/ h = g2 \/ h = Resumed(g2, k) \/ h = WithRecord(g2, s, y)
    BY ONLY <1>a, <1>r, <1>x, <1>g, <1>e, <1>y, PublishedCases
  <2>2. Resumed(g, k) = g
    BY ONLY <1>a, ResumedEffect
  <2>3. Resumed(g2, k) = g2
    BY ONLY <1>a, <1>5, ResumedEffect
  <2> QED BY <2>1, <2>2, <2>3
<1>7. h.req[s].aborted /\ h.req[s].answered
  <2>1. CASE h = g
    BY <2>1
  <2>2. CASE h = g2
    BY <1>2, <1>5, <1>c, <2>2
  <2>3. CASE h = WithRecord(g2, s, y)
    <3>1. g2.req[s] \in Request
      BY <1>5 DEF Gateways
    <3>2. y \in Request /\ (g2.req[s].aborted => y.aborted)
          /\ (g2.req[s].answered => y.answered)
      BY ONLY <1>y, <3>1, WaitingRecord
    <3>3. y \in Request
      BY <3>2
    <3>4. h.req[s] = y
      BY ONLY <1>a, <1>5, <2>3, <3>3, RecordReplaced
    <3> QED BY <1>2, <1>5, <1>c, <3>2, <3>4
  <2> QED BY <1>6, <2>1, <2>2, <2>3
<1>8. s \notin h.slots
  <2>1. Kept(g, h, k)
    BY ONLY <1>a, PublishedEffect
  <2> QED BY <1>a, <1>b, <2>1 DEF Kept
<1> QED BY <1>7, <1>8, AbortedOrderly

\* The server's part of the round is answered; the client's calls are these.
ReadyToPublish(r, client) ==
  /\ r.awaiting /\ ~ r.timer /\ OfThisRound(r) /\ ReceivedSoFar(r)
  /\ r.received \cap r.calls = {}
  /\ client = {c \in r.calls : c[2] \in ClientNames}
  /\ Lists(r, r.calls \ client)

LEMMA PublishStep ==
  ASSUME IInv, NEW s \in Starts, stage[s] = "accepted", NEW k, k = Key(s),
         NEW f \in Gateways, IdleIsNobodys(f), f.active = active, f.slots = slots,
         \A q \in Starts : q # s => Apart(Now, f, q),
         NEW client \in Bunches, NEW h, h = Published(f, k, s, client), Becomes(h),
         ElsewhereUnchanged,
         Unique(s) => f.req[s].answered,
         Unique(s) /\ s \in slots =>
           ReadyToPublish(f.req[s], client) /\ RoundsOf(f.task, s) = {},
         Unique(s) /\ s \notin slots => f.req[s].aborted
  PROVE  IInv'
<1>1. /\ Now \in Gateways /\ Now.active = active /\ Now.slots = slots
  BY NowIdle
<1>2. k \in Keys
  BY KeyType DEF IInv
<1>3. /\ h \in Gateways /\ IdleIsNobodys(h) /\ Kept(f, h, k)
      /\ \A q \in Starts : q # s /\ q # active[k] => Apart(f, h, q)
  BY <1>2, PublishedEffect
<1>4. Kept(Now, h, k)
  BY <1>1, <1>3 DEF Kept
<1>5. \A q \in Starts : q # s /\ q # active[k] => Apart(Now, h, q)
  BY <1>3, ApartTwice
<1>6. ASSUME Unique(s) PROVE Orderly(h.slots, h.req, h.task, s)
  <2>1. (active[k] = None \/ active[k] = s) /\ (s \in slots <=> active[k] = s)
    BY <1>6, OwnKey DEF IInv
  <2>2. h.fits
    BY DEF Becomes
  <2>3. CASE s \in slots
    <3>r. PICK r : r = f.req[s]
      OBVIOUS
    <3>1. ReadyToPublish(r, client) /\ RoundsOf(f.task, s) = {} /\ r.answered
      BY <1>6, <2>3, <3>r
    <3>2. /\ r.awaiting /\ ~ r.timer /\ r.answered
          /\ OfThisRound(r) /\ ReceivedSoFar(r) /\ r.received \cap r.calls = {}
          /\ client = {c \in r.calls : c[2] \in ClientNames}
          /\ Lists(r, r.calls \ client) /\ RoundsOf(f.task, s) = {}
      BY ONLY <3>1, Zenon DEF ReadyToPublish
    <3>3. /\ f \in Gateways /\ k \in Keys /\ s \in Starts /\ f.active[k] = s
          /\ s \in f.slots /\ IdleIsNobodys(f) /\ client \in Bunches
          /\ h = Published(f, k, s, client)
      BY <1>2, <2>1, <2>3
    <3> QED BY ONLY <2>2, <3>r, <3>2, <3>3, PublishedResult
  <2>4. CASE s \notin slots
    <3>1. f.active[k] = None /\ s \notin f.slots /\ f.req[s].aborted /\ f.req[s].answered
      BY <1>6, <2>1, <2>4
    <3> QED BY <1>2, <3>1, PublishedGone
  <2> QED BY <2>3, <2>4
<1>7. UNCHANGED <<id, stage, pending, starting, closed, draining>>
      /\ cancelled \subseteq cancelled' /\ cancelled' \subseteq Starts
  BY DEF ElsewhereUnchanged, IInv, TypeOK
<1> QED BY <1>3, <1>4, <1>5, <1>6, <1>7, HandlerStep

LEMMA CalledRecord ==
  ASSUME NEW r \in Request, NEW calls \in Bunches, NEW x, x = Called(r, calls)
  PROVE  /\ x \in Request
         /\ x.calls = calls /\ x.got = MessagesFor(Those(calls, RefusedNames))
         /\ x.round = r.round + 1
         /\ x.received = r.received /\ x.awaiting /\ ~ x.accepting
         /\ (x.timer => r.timer) /\ (r.answered => x.answered)
         /\ (r.aborted => x.aborted)
<1>g. PICK got : got = MessagesFor(Those(calls, RefusedNames))
  OBVIOUS
<1>0. got \in Seq(Calls)
  BY <1>g, BunchSubset, MessagesListed DEF Those
<1>n. PICK n : n = r.round + 1
  OBVIOUS
<1>1. n \in Nat
  BY <1>n DEF Request
<1>2. x = [r EXCEPT !.calls = calls, !.got = got, !.assigned = {}, !.round = n,
                    !.awaiting = TRUE, !.accepting = FALSE]
  BY <1>n, <1>g DEF Called
<1>3. /\ x \in Request
      /\ x.calls = calls /\ x.got = got /\ x.round = n
      /\ x.received = r.received /\ x.awaiting /\ ~ x.accepting
      /\ (x.timer => r.timer) /\ (r.answered => x.answered)
      /\ (r.aborted => x.aborted)
  BY <1>0, <1>1, <1>2, NoCalls DEF Request
<1> QED BY <1>n, <1>g, <1>3

LEMMA CallsMade ==
  ASSUME NEW n \in Nat, NEW names \in SUBSET Names, NEW calls, calls = {n} \X names
  PROVE  calls \in Bunches /\ \A c \in calls : c[1] = n /\ c[2] \in names
<1>1. IsFiniteSet(names)
  BY NamesAssumption, FS_Subset
<1>2. IsFiniteSet({n} \X names)
  BY <1>1, FS_Singleton, FS_Product
<1>3. calls \subseteq Calls
  BY DEF Calls
<1> QED BY <1>2, <1>3 DEF Bunches

LEMMA RoundCallsToolsStep ==
  ASSUME IInv, NEW t \in Tasks, NEW names \in SUBSET Names, RoundCallsTools(t, names)
  PROVE  IInv'
<1> DEFINE s == task[t].of
           k == Key(s)
           n == req[s].round + 1
           calls == {n} \X names
           refused == Those(calls, RefusedNames)
           client == Those(calls, ClientNames)
           x == Called(Now.req[s], calls)
           f == WithRecord(Now, s, x)
<1>3. /\ ElsewhereUnchanged
      /\ Becomes(IF names \cap ServerNames # {}
                   THEN [f EXCEPT !.task[t] = [@ EXCEPT !.at = "tools", !.calls = calls]]
                   ELSE Published(Ended(f, t), k, s, client))
  BY DEF RoundCallsTools, KeyOf, WithRecord
<1>s. s = task[t].of
  OBVIOUS
<1>k. k = Key(s)
  OBVIOUS
<1>n. n = req[s].round + 1
  OBVIOUS
<1>c. calls = {n} \X names
  OBVIOUS
<1>r. refused = {c \in calls : c[2] \in RefusedNames}
  BY DEF Those
<1>l. client = {c \in calls : c[2] \in ClientNames}
  BY DEF Those
<1>g. refused = Those(calls, RefusedNames)
  OBVIOUS
<1>x. x = Called(req[s], calls)
  <2>1. Now.req = req
    BY NowIdle
  <2> QED BY <2>1
<1>f. f = WithRecord(Now, s, x)
  OBVIOUS
<1> HIDE DEF s, k, n, calls, refused, client, x, f
<1>1. /\ Now \in Gateways /\ IdleIsNobodys(Now) /\ Now.fits
      /\ Now.active = active /\ Now.slots = slots /\ Now.req = req /\ Now.task = task
  BY NowIdle
<1>at. task[t].at = "settling" /\ task[t].at # "idle"
  BY DEF RoundCallsTools, TaskAt
<1>2. /\ s \in Starts /\ stage[s] = "accepted" /\ k \in Keys /\ req[s] \in Request
      /\ Unique(s) => req[s].answered
      /\ Unique(s) /\ s \in slots =>
           /\ active[k] = s
           /\ RoundsOf(task, s) = {t} /\ ReceivedSoFar(req[s]) /\ Asking(req[s])
      /\ Unique(s) /\ s \notin slots => active[k] = None /\ req[s].aborted
  BY <1>s, <1>k, <1>at, RoundFinds
<1>4. n \in Nat /\ calls \in Bunches /\ \A c \in calls : c[1] = n /\ c[2] \in names
  <2>1. req[s] \in Request
    BY <1>2
  <2>2. n \in Nat
    BY ONLY <1>n, <2>1 DEF Request
  <2>3. names \in SUBSET Names
    OBVIOUS
  <2> QED BY ONLY <1>c, <2>2, <2>3, CallsMade
<1>5. refused \in Bunches /\ client \in Bunches
  BY <1>4, <1>r, <1>l, BunchSubset
<1>6. /\ IdsOf(MessagesFor(refused)) = refused
      /\ Len(MessagesFor(refused)) = Cardinality(refused)
  BY <1>5, MessagesListed
<1>7. /\ x \in Request
      /\ x.calls = calls /\ x.got = MessagesFor(refused) /\ x.round = n
      /\ x.received = req[s].received /\ x.awaiting /\ ~ x.accepting
      /\ (x.timer => req[s].timer) /\ (req[s].answered => x.answered)
      /\ (req[s].aborted => x.aborted)
  <2>1. req[s] \in Request /\ calls \in Bunches
    BY <1>2, <1>4
  <2> QED BY ONLY <2>1, <1>n, <1>g, <1>x, CalledRecord
<1>t. x \in Request
  BY <1>7
<1>8. /\ f \in Gateways /\ IdleIsNobodys(f) /\ (Now.fits => f.fits)
      /\ f.active = active /\ f.slots = slots /\ f.task = task /\ f.req[s] = x
      /\ \A q \in Starts : q # s => Apart(Now, f, q)
  <2>1. s \in Starts
    BY <1>2
  <2> QED BY ONLY <1>1, <1>t, <1>f, <2>1, RecordReplaced
<1>9. Lists(x, refused) /\ OfThisRound(x)
  BY <1>4, <1>6, <1>7 DEF Lists, OfThisRound
<1>10. ASSUME ReceivedSoFar(req[s])
       PROVE  ReceivedSoFar(x) /\ x.received \cap calls = {}
  <2>1. \A c \in x.received : c[1] <= req[s].round
    BY <1>7, <1>10 DEF ReceivedSoFar
  <2>2. req[s].round \in Nat /\ x.received \subseteq Calls
    BY <1>2, <1>t DEF Request, Bunches
  <2>3. \A c \in x.received : c[1] \in Int
    BY <2>2 DEF Calls
  <2>4. \A c \in x.received : c[1] <= n /\ c[1] # n
    BY ONLY <1>n, <2>1, <2>2, <2>3
  <2> QED BY <1>4, <1>7, <2>4 DEF ReceivedSoFar
<1>11. CASE names \cap ServerNames # {}
  <2>z. PICK z : z = [task[t] EXCEPT !.at = "tools", !.calls = calls]
    OBVIOUS
  <2>h. PICK h : h = WithRound(f, t, z)
    OBVIOUS
  <2>1. task[t] \in Round /\ task[t].of = s /\ s # None
    BY <1>s, <1>2, StartsAssumption DEF IInv, TypeOK
  <2>2. z \in Round /\ z.of = s /\ z.at = "tools" /\ z.calls = calls
    BY <1>4, <2>1, <2>z DEF Round, RoundLabels
  <2>3. /\ h \in Gateways /\ IdleIsNobodys(h)
        /\ h.active = active /\ h.slots = slots /\ h.req = f.req
        /\ h.task[t] = z /\ \A u \in Tasks : u # t => h.task[u] = task[u]
        /\ \A q \in Starts : q # s => Apart(f, h, q)
    BY <1>8, <2>h, <2>1, <2>2, RoundReplaced
  <2>4. Becomes(h)
    <3>1. h = [f EXCEPT !.task[t] = [@ EXCEPT !.at = "tools", !.calls = calls]]
      BY <1>8, <2>h, <2>z DEF WithRound, Gateways
    <3> QED BY <1>3, <1>11, <3>1
  <2>5. Kept(Now, h, k)
    BY <1>1, <2>3 DEF Kept
  <2>6. \A q \in Starts : q # s => Apart(Now, h, q)
    BY <1>8, <2>3, ApartTwice
  <2>7. ASSUME Unique(s) PROVE Orderly(h.slots, h.req, h.task, s)
    <3>1. RoundsOf(h.task, s) = RoundsOf(task, s)
      BY <2>1, <2>2, <2>3 DEF RoundsOf
    <3>2. CASE s \in slots
      <4>1. RunningTools(x, calls)
        BY <1>2, <1>7, <1>9, <1>10, <1>r, <2>7, <3>2 DEF RunningTools, Asking
      <4>2. Driven(h.req, h.task, s)
        BY <1>2, <1>8, <1>10, <2>2, <2>3, <2>7, <3>1, <3>2, <4>1 DEF Driven
      <4>3. h.req[s].answered
        BY <1>2, <1>7, <1>8, <2>3, <2>7
      <4> QED BY <2>3, <3>2, <4>2, <4>3, DrivenOrderly
    <3>3. CASE s \notin slots
      <4>1. h.req[s].aborted /\ h.req[s].answered /\ s \notin h.slots
        BY <1>2, <1>7, <1>8, <2>3, <2>7, <3>3
      <4> QED BY <4>1, AbortedOrderly
    <3> QED BY <3>2, <3>3
  <2>8. UNCHANGED <<id, stage, pending, starting, closed, draining>>
        /\ cancelled \subseteq cancelled' /\ cancelled' \subseteq Starts
    BY <1>3 DEF ElsewhereUnchanged, IInv, TypeOK
  <2> QED BY <1>k, <1>2, <2>3, <2>4, <2>5, <2>6, <2>7, <2>8, HandlerStep
<1>12. CASE names \cap ServerNames = {}
  <2>e. PICK e : e = Ended(f, t)
    OBVIOUS
  <2>h. PICK h : h = Published(e, k, s, client)
    OBVIOUS
  <2>1. /\ e \in Gateways /\ IdleIsNobodys(e)
        /\ e.active = active /\ e.slots = slots /\ e.req = f.req
        /\ \A u \in Tasks : u \in RoundsOf(e.task, s) <=> u \in RoundsOf(task, s) /\ u # t
        /\ \A q \in Starts : q # s => Apart(f, e, q)
    <3>1. s \in Starts /\ t \in Tasks
      BY <1>2
    <3> QED BY ONLY <1>s, <1>8, <2>e, <3>1, EndedEffect
  <2>2. \A q \in Starts : q # s => Apart(Now, e, q)
    BY <1>8, <2>1, ApartTwice
  <2>3. Becomes(h)
    BY <1>3, <1>12, <2>e, <2>h
  <2>4. e.req[s] = x
    BY <1>8, <2>1
  <2>5. ASSUME Unique(s), s \in slots
        PROVE  ReadyToPublish(e.req[s], client) /\ RoundsOf(e.task, s) = {}
    <3>1. RoundsOf(e.task, s) = {}
      BY <1>2, <2>1, <2>5 DEF RoundsOf
    <3>2. x.calls \ client = refused
      BY <1>4, <1>7, <1>12, <1>r, <1>l, NamesAssumption DEF Names
    <3>3. x.awaiting /\ ~ x.timer /\ ReceivedSoFar(x) /\ x.received \cap x.calls = {}
      BY <1>2, <1>7, <1>10, <2>5 DEF Asking
    <3>4. client = {c \in x.calls : c[2] \in ClientNames}
      BY <1>7, <1>l
    <3>5. ReadyToPublish(x, client)
      BY ONLY <1>9, <3>2, <3>3, <3>4 DEF ReadyToPublish
    <3> QED BY <2>4, <3>1, <3>5
  <2>6. /\ Unique(s) => e.req[s].answered
        /\ Unique(s) /\ s \notin slots => e.req[s].aborted
    BY <1>2, <1>7, <2>4
  <2> QED BY <1>k, <1>2, <1>3, <1>5, <2>h, <2>1, <2>2, <2>3, <2>5, <2>6, PublishStep
<1> QED BY <1>11, <1>12

\* The answers of the server's tools.
Answered(r, done) == [r EXCEPT !.got = @ \o MessagesFor(done)]

LEMMA AnsweredRecord ==
  ASSUME NEW r \in Request, NEW done \in Bunches
  PROVE  LET x == Answered(r, done)
         IN  /\ x \in Request
             /\ x.got = r.got \o MessagesFor(done)
             /\ x.calls = r.calls /\ x.round = r.round /\ x.received = r.received
             /\ (r.awaiting => x.awaiting) /\ (x.timer => r.timer)
             /\ (r.answered => x.answered) /\ (r.aborted => x.aborted)
<1>x. PICK x : x = Answered(r, done)
  OBVIOUS
<1>m. PICK msgs : msgs = r.got \o MessagesFor(done)
  OBVIOUS
<1>1. msgs \in Seq(Calls)
  BY <1>m, MessagesListed, Listed DEF Request
<1>2. x = [r EXCEPT !.got = msgs]
  BY <1>x, <1>m DEF Answered
<1>3. /\ x \in Request
      /\ x.got = msgs
      /\ x.calls = r.calls /\ x.round = r.round /\ x.received = r.received
      /\ (r.awaiting => x.awaiting) /\ (x.timer => r.timer)
      /\ (r.answered => x.answered) /\ (r.aborted => x.aborted)
  BY ONLY <1>1, <1>2, r \in Request DEF Request
<1> QED BY <1>x, <1>m, <1>3

LEMMA ServerToolsReturnStep ==
  ASSUME IInv, NEW t \in Tasks, ServerToolsReturn(t)
  PROVE  IInv'
<1>s. PICK s : s = task[t].of
  OBVIOUS
<1>k. PICK k : k = Key(s)
  OBVIOUS
<1>c. PICK calls : calls = task[t].calls
  OBVIOUS
<1>d. PICK done : done = Those(calls, ServerNames)
  OBVIOUS
<1>l. PICK client : client = Those(calls, ClientNames)
  OBVIOUS
<1>b. /\ done = {c \in calls : c[2] \in ServerNames}
      /\ client = {c \in calls : c[2] \in ClientNames}
  BY <1>d, <1>l DEF Those
<1>r. PICK refused : refused = {c \in calls : c[2] \in RefusedNames}
  OBVIOUS
<1>e. PICK e : e = Ended(Now, t)
  OBVIOUS
<1>x. PICK x : x = Answered(req[s], done)
  OBVIOUS
<1>f. PICK f : f = WithRecord(e, s, x)
  OBVIOUS
<1>1. /\ Now \in Gateways /\ IdleIsNobodys(Now)
      /\ Now.active = active /\ Now.slots = slots /\ Now.req = req /\ Now.task = task
  BY NowIdle
<1>at. /\ task[t].at = "tools" /\ task[t].at # "idle"
       /\ ~ req[s].aborted /\ ElsewhereUnchanged
  BY <1>s DEF ServerToolsReturn, TaskAt
<1>2. /\ s \in Starts /\ stage[s] = "accepted" /\ k \in Keys /\ req[s] \in Request
      /\ calls \in Bunches
      /\ Unique(s) => req[s].answered
      /\ Unique(s) /\ s \in slots =>
           /\ RoundsOf(task, s) = {t} /\ ReceivedSoFar(req[s])
           /\ RunningTools(req[s], calls)
      /\ Unique(s) /\ s \notin slots => req[s].aborted
  BY <1>s, <1>k, <1>c, <1>at, RoundFinds
<1>3. /\ e \in Gateways /\ IdleIsNobodys(e)
      /\ e.active = active /\ e.slots = slots /\ e.req = req
      /\ \A u \in Tasks : u \in RoundsOf(e.task, s) <=> u \in RoundsOf(task, s) /\ u # t
      /\ \A q \in Starts : q # s => Apart(Now, e, q)
  <2>1. s \in Starts /\ t \in Tasks
    BY <1>2
  <2> QED BY ONLY <1>s, <1>1, <1>e, <2>1, EndedEffect
<1>4. Becomes(IF active[k] # s THEN e ELSE Published(f, k, s, client))
  <2>1. f = [e EXCEPT !.req[s].got = @ \o MessagesFor(done)]
    BY <1>2, <1>3, <1>f, <1>x DEF WithRecord, Answered, Gateways
  <2> QED BY <1>s, <1>k, <1>c, <1>d, <1>l, <1>e, <2>1 DEF ServerToolsReturn, KeyOf
<1>5. CASE active[k] # s
  <2>1. Becomes(e)
    BY <1>4, <1>5
  <2> QED BY <1>s, <1>k, <1>at, <1>e, <1>5, <2>1, EndedStep DEF KeyOf
<1>6. CASE active[k] = s
  <2>h. PICK h : h = Published(f, k, s, client)
    OBVIOUS
  <2>1. done \in Bunches /\ client \in Bunches /\ refused \in Bunches
    BY <1>2, <1>b, <1>r, BunchSubset
  <2>2. /\ x \in Request
        /\ x.got = req[s].got \o MessagesFor(done)
        /\ x.calls = req[s].calls /\ x.round = req[s].round
        /\ x.received = req[s].received
        /\ (req[s].awaiting => x.awaiting) /\ (x.timer => req[s].timer)
        /\ (req[s].answered => x.answered) /\ (req[s].aborted => x.aborted)
    <3>1. req[s] \in Request /\ done \in Bunches
      BY <1>2, <2>1
    <3> QED BY ONLY <1>x, <3>1, AnsweredRecord
  <2>t. x \in Request /\ s \in Starts
    BY <1>2, <2>2
  <2>3. /\ f \in Gateways /\ IdleIsNobodys(f)
        /\ f.active = active /\ f.slots = slots /\ f.task = e.task /\ f.req[s] = x
        /\ \A q \in Starts : q # s => Apart(e, f, q)
    BY ONLY <1>3, <1>f, <2>t, RecordReplaced
  <2>4. \A q \in Starts : q # s => Apart(Now, f, q)
    BY <1>3, <2>3, ApartTwice
  <2>5. Becomes(h)
    BY <1>4, <1>6, <2>h
  <2>6. ASSUME Unique(s), s \in slots
        PROVE  ReadyToPublish(f.req[s], client) /\ RoundsOf(f.task, s) = {}
    <3>1. RoundsOf(f.task, s) = {}
      BY <1>2, <1>3, <2>3, <2>6 DEF RoundsOf
    <3>2. /\ req[s].awaiting /\ ~ req[s].timer /\ req[s].calls = calls
          /\ OfThisRound(req[s]) /\ req[s].received \cap calls = {}
          /\ Lists(req[s], refused) /\ ReceivedSoFar(req[s])
      BY <1>2, <1>r, <2>6 DEF RunningTools
    <3>3. refused \cap done = {}
      BY <1>r, <1>b, NamesAssumption
    <3>4. Lists(x, refused \cup done)
      BY <1>2, <2>1, <2>2, <3>2, <3>3, MessagesAdded
    <3>5. refused \cup done = x.calls \ client
      <4>1. \A c \in calls : c[2] \in Names
        BY <1>2 DEF Bunches, Calls
      <4> QED BY <1>r, <1>b, <2>2, <3>2, <4>1, NamesAssumption DEF Names
    <3>6. OfThisRound(x) /\ ReceivedSoFar(x) /\ x.received \cap x.calls = {}
      BY <2>2, <3>2 DEF OfThisRound, ReceivedSoFar
    <3>7. x.awaiting /\ ~ x.timer
      BY <2>2, <3>2
    <3>8. client = {c \in x.calls : c[2] \in ClientNames}
      BY <1>b, <2>2, <3>2
    <3>9. ReadyToPublish(x, client)
      BY ONLY <3>4, <3>5, <3>6, <3>7, <3>8 DEF ReadyToPublish
    <3> QED BY <2>3, <3>1, <3>9
  <2>7. /\ Unique(s) => f.req[s].answered
        /\ Unique(s) /\ s \notin slots => f.req[s].aborted
    BY <1>2, <2>2, <2>3
  <2> QED BY <1>k, <1>2, <1>at, <2>h, <2>1, <2>3, <2>4, <2>5, <2>6, <2>7, PublishStep
<1> QED BY <1>5, <1>6

-----------------------------------------------------------------------------
(* start                                                                   *)

\* A start that gets no further concerns no round.
LEMMA NoRoundsYet ==
  ASSUME IInv, NEW s \in Starts, stage[s] # "accepted", NEW v \in Stages,
         stage' = [stage EXCEPT ![s] = v], v # "accepted",
         UNCHANGED <<id, slots, req, task>>
  PROVE  RoundInv'
<1>1. \A q \in Starts : stage'[q] # "accepted" => stage[q] # "accepted"
  BY DEF IInv, TypeOK
<1> QED BY <1>1 DEF IInv, RoundInv, Unique, Key

LEMMA StartArrivesStep ==
  ASSUME IInv, NEW s \in Starts, StartArrives(s)
  PROVE  IInv'
<1>0. TypeOK /\ SlotInv /\ RoundInv
  BY DEF IInv
<1>1. /\ stage[s] = "unsent" /\ ConnOf[s] \notin closed
      /\ UNCHANGED <<id, cancelled, active, slots, req, task, closed, draining>>
  BY DEF StartArrives, Handles
<1>k. \A q \in Starts : Key(q) \in Keys /\ Key(q)' = Key(q)
  BY <1>0, <1>1, KeyType DEF Key
<1>2. CASE /\ stage' = [stage EXCEPT ![s] = "refused"]
           /\ UNCHANGED <<pending, starting>>
  <2>1. RoundInv'
    BY <1>1, <1>2, NoRoundsYet DEF Stages
  <2>2. TypeOK'
    BY <1>0, <1>1, <1>2 DEF TypeOK, Stages
  <2>3. \A q \in Starts : q # s => stage'[q] = stage[q]
    BY <1>0, <1>2 DEF TypeOK
  <2>4. stage'[s] = "refused"
    BY <1>0, <1>2 DEF TypeOK
  <2>5. \A k \in Keys : active[k] # s /\ starting[k] # s
    BY <1>0, <1>1, StartsAssumption DEF SlotInv
  <2>6. SlotsAreLiveRequests'
    <3>1. pending' = {q \in Starts : stage'[q] = "preflight"}
      BY <1>0, <1>1, <1>2, <2>3, <2>4 DEF SlotInv, SlotsAreLiveRequests
    <3> QED BY <1>0, <1>1, <3>1 DEF SlotInv, SlotsAreLiveRequests, Key
  <2>7. \A k \in Keys : active'[k] # None =>
          Key(active[k])' = k /\ stage'[active'[k]] = "accepted"
    BY <1>0, <1>1, <1>k, <2>3, <2>5 DEF SlotInv, TypeOK
  <2>8. \A k \in Keys : starting'[k] # None =>
          /\ Key(starting[k])' = k /\ stage'[starting'[k]] = "preflight"
          /\ active'[k] = None
    BY <1>0, <1>1, <1>2, <1>k, <2>3, <2>5 DEF SlotInv, TypeOK
  <2>9. \A q \in Starts : stage'[q] = "preflight" =>
          IF ConnOf[q] \in closed' THEN q \in cancelled' ELSE starting'[Key(q)'] = q
    BY <1>0, <1>1, <1>2, <1>k, <2>3, <2>4 DEF SlotInv
  <2>10. SlotInv'
    BY <1>0, <1>1, <1>2, <2>6, <2>7, <2>8, <2>9 DEF SlotInv
  <2> QED BY <2>1, <2>2, <2>10 DEF IInv
<1>3. CASE /\ active[Key(s)] = None /\ starting[Key(s)] = None
           /\ stage' = [stage EXCEPT ![s] = "preflight"]
           /\ pending' = pending \cup {s}
           /\ starting' = [starting EXCEPT ![Key(s)] = s]
  <2>1. RoundInv'
    BY <1>1, <1>3, NoRoundsYet DEF Stages
  <2>2. TypeOK'
    BY <1>0, <1>1, <1>3 DEF TypeOK, Stages
  <2>3. \A q \in Starts : q # s => stage'[q] = stage[q]
    BY <1>0, <1>3 DEF TypeOK
  <2>4. stage'[s] = "preflight"
    BY <1>0, <1>3 DEF TypeOK
  <2>5. \A k \in Keys : active[k] # s
    BY <1>0, <1>1, StartsAssumption DEF SlotInv
  <2>s. starting'[Key(s)] = s /\ \A k \in Keys : k # Key(s) => starting'[k] = starting[k]
    BY <1>0, <1>3, <1>k DEF TypeOK
  <2>6. SlotsAreLiveRequests'
    <3>1. pending' = {q \in Starts : stage'[q] = "preflight"}
      BY <1>0, <1>1, <1>3, <2>3, <2>4 DEF SlotInv, SlotsAreLiveRequests
    <3> QED BY <1>0, <1>1, <3>1 DEF SlotInv, SlotsAreLiveRequests, Key
  <2>7. \A k \in Keys : active'[k] # None =>
          Key(active[k])' = k /\ stage'[active'[k]] = "accepted"
    BY <1>0, <1>1, <1>k, <2>3, <2>5 DEF SlotInv, TypeOK
  <2>8. \A k \in Keys : starting'[k] # None =>
          /\ (Key(starting[k]) = k \/ k = Key(s)) /\ stage'[starting'[k]] = "preflight"
          /\ active'[k] = None
    <3> SUFFICES ASSUME NEW k \in Keys, starting'[k] # None
                 PROVE  /\ (Key(starting[k]) = k \/ k = Key(s))
                        /\ stage'[starting'[k]] = "preflight"
                        /\ active'[k] = None
      OBVIOUS
    <3>1. CASE k = Key(s)
      BY <1>1, <1>3, <2>4, <2>s, <3>1
    <3>2. CASE k # Key(s)
      <4>1. starting'[k] = starting[k] /\ starting[k] \in Starts
        BY <1>0, <2>s, <3>2 DEF TypeOK
      <4>2. Key(starting[k]) = k /\ stage[starting[k]] = "preflight" /\ active[k] = None
        BY <1>0, <4>1 DEF SlotInv
      <4> QED BY <1>1, <2>3, <4>1, <4>2
    <3> QED BY <3>1, <3>2
  <2>9. \A q \in Starts : stage'[q] = "preflight" =>
          IF ConnOf[q] \in closed' THEN q \in cancelled' ELSE starting'[Key(q)'] = q
    <3> SUFFICES ASSUME NEW q \in Starts, stage'[q] = "preflight"
                 PROVE  IF ConnOf[q] \in closed' THEN q \in cancelled'
                        ELSE starting'[Key(q)'] = q
      OBVIOUS
    <3>1. CASE q = s
      BY <1>1, <1>k, <2>s, <3>1
    <3>2. CASE q # s
      <4>1. IF ConnOf[q] \in closed THEN q \in cancelled ELSE starting[Key(q)] = q
        BY <1>0, <2>3, <3>2 DEF SlotInv
      <4>2. starting[Key(q)] = q => starting'[Key(q)] = q
        BY <1>3, <1>k, <2>s, StartsAssumption
      <4> QED BY <1>1, <1>k, <4>1, <4>2
    <3> QED BY <3>1, <3>2
  <2>k. \A k \in Keys : starting'[k] # None =>
          /\ <<ConnOf[starting'[k]], id'[starting'[k]]>> = k
          /\ stage'[starting'[k]] = "preflight" /\ active'[k] = None
    BY <1>1, <2>8, <2>s DEF Key
  <2>10. SlotInv'
    BY <1>0, <1>1, <2>6, <2>7, <2>9, <2>k DEF SlotInv, Key
  <2> QED BY <2>1, <2>2, <2>10 DEF IInv
<1> QED BY <1>2, <1>3 DEF StartArrives

\* A preflight that does not admit its request.
LEMMA PreflightRefused ==
  ASSUME IInv, NEW s \in Starts, stage[s] = "preflight", PreflightEnds(s, "refused"),
         UNCHANGED <<id, cancelled, active, slots, req, task, closed, draining>>
  PROVE  IInv'
<1>0. TypeOK /\ SlotInv /\ RoundInv
  BY DEF IInv
<1>k. \A q \in Starts : Key(q) \in Keys /\ Key(q)' = Key(q)
  BY <1>0, KeyType DEF Key
<1>1. /\ stage' = [stage EXCEPT ![s] = "refused"] /\ pending' = pending \ {s}
      /\ starting' = [starting EXCEPT ![Key(s)] = None]
  BY DEF PreflightEnds
<1>2. RoundInv'
  BY <1>1, NoRoundsYet DEF Stages
<1>3. TypeOK'
  BY <1>0, <1>1 DEF TypeOK, Stages
<1>4. /\ \A q \in Starts : q # s => stage'[q] = stage[q]
      /\ stage'[s] = "refused"
  BY <1>0, <1>1 DEF TypeOK
<1>5. /\ starting'[Key(s)] = None
      /\ \A k \in Keys : k # Key(s) => starting'[k] = starting[k]
  BY <1>0, <1>1, <1>k DEF TypeOK
<1>6. \A k \in Keys : active[k] # s
  BY <1>0, StartsAssumption DEF SlotInv
<1>7. SlotsAreLiveRequests'
  <2>1. pending' = {q \in Starts : stage'[q] = "preflight"}
    BY <1>0, <1>1, <1>4 DEF SlotInv, SlotsAreLiveRequests
  <2> QED BY <1>0, <2>1 DEF SlotInv, SlotsAreLiveRequests, Key
<1>8. \A k \in Keys : active'[k] # None =>
        Key(active[k])' = k /\ stage'[active'[k]] = "accepted"
  BY <1>0, <1>k, <1>4, <1>6 DEF SlotInv, TypeOK
<1>9. \A k \in Keys : starting'[k] # None =>
        /\ Key(starting[k])' = k /\ stage'[starting'[k]] = "preflight"
        /\ active'[k] = None /\ starting'[k] = starting[k]
  <2> SUFFICES ASSUME NEW k \in Keys, starting'[k] # None
               PROVE  /\ Key(starting[k])' = k /\ stage'[starting'[k]] = "preflight"
                      /\ active'[k] = None /\ starting'[k] = starting[k]
    OBVIOUS
  <2>1. starting'[k] = starting[k] /\ starting[k] \in Starts /\ k # Key(s)
    BY <1>0, <1>5 DEF TypeOK
  <2>2. Key(starting[k]) = k /\ stage[starting[k]] = "preflight" /\ active[k] = None
    BY <1>0, <2>1 DEF SlotInv
  <2>3. stage'[starting[k]] = "preflight"
    BY <1>4, <2>1, <2>2
  <2> QED BY <2>1, <2>2, <2>3 DEF Key
<1>10. \A q \in Starts : stage'[q] = "preflight" =>
         IF ConnOf[q] \in closed' THEN q \in cancelled' ELSE starting'[Key(q)'] = q
  <2> SUFFICES ASSUME NEW q \in Starts, stage'[q] = "preflight"
               PROVE  IF ConnOf[q] \in closed' THEN q \in cancelled'
                      ELSE starting'[Key(q)'] = q
    OBVIOUS
  <2>1. q # s /\ stage[q] = "preflight"
    BY <1>4
  <2>2. IF ConnOf[q] \in closed THEN q \in cancelled ELSE starting[Key(q)] = q
    BY <1>0, <2>1 DEF SlotInv
  <2>3. IF ConnOf[s] \in closed THEN s \in cancelled ELSE starting[Key(s)] = s
    BY <1>0 DEF SlotInv
  <2>4. Key(q) = Key(s) => ConnOf[q] = ConnOf[s]
    BY DEF Key
  <2> QED BY <1>k, <1>5, <2>1, <2>2, <2>3, <2>4
<1>11. SlotInv'
  BY <1>0, <1>7, <1>8, <1>9, <1>10 DEF SlotInv
<1> QED BY <1>2, <1>3, <1>11 DEF IInv

LEMMA PreflightFailsStep ==
  ASSUME IInv, NEW s \in Starts, PreflightFails(s)
  PROVE  IInv'
BY PreflightRefused DEF PreflightFails

\* One more request fits when ChatSlotFree says so.
LEMMA MoreSlots ==
  ASSUME IInv, NEW s \in Starts, s \notin slots, ChatSlotFree(s),
         NEW held, held = slots \cup {s}
  PROVE  /\ IsFiniteSet(held)
         /\ Cardinality(held) <= MaxActive
         /\ \A q \in held : Cardinality({p \in held : UserOf[p] = UserOf[q]}) <= MaxPerUser
<1>1. IsFiniteSet(slots)
  BY DEF IInv, SlotInv
<1>2. IsFiniteSet(held) /\ Cardinality(held) = Cardinality(slots) + 1
  BY <1>1, FS_AddElement
<1>3. Cardinality(slots) \in Nat /\ MaxActive \in Nat /\ MaxPerUser \in Nat
  BY <1>1, FS_CardinalityType, LimitsAssumption
<1>4. Cardinality(held) <= MaxActive
  BY <1>2, <1>3 DEF ChatSlotFree
<1>5. ASSUME NEW q \in held
      PROVE  Cardinality({p \in held : UserOf[p] = UserOf[q]}) <= MaxPerUser
  <2> DEFINE A == {p \in slots : UserOf[p] = UserOf[s]}
             B == {p \in held : UserOf[p] = UserOf[q]}
             C == {p \in slots : UserOf[p] = UserOf[q]}
  <2>1. A \subseteq slots /\ s \notin A
    OBVIOUS
  <2>2. Cardinality(A) < MaxPerUser
    BY DEF ChatSlotFree
  <2>3. CASE UserOf[q] = UserOf[s]
    <3>1. B = A \cup {s}
      BY <2>3
    <3> HIDE DEF A, B
    <3>2. IsFiniteSet(A)
      BY <1>1, <2>1, FS_Subset
    <3>3. Cardinality(B) = Cardinality(A) + 1
      BY <2>1, <3>1, <3>2, FS_AddElement
    <3>4. Cardinality(A) \in Nat
      BY <3>2, FS_CardinalityType
    <3>5. Cardinality(B) <= MaxPerUser
      BY ONLY <1>3, <2>2, <3>3, <3>4
    <3> QED BY <3>5 DEF B
  <2>4. CASE UserOf[q] # UserOf[s]
    <3>1. B = C /\ q \in slots
      BY <2>4
    <3>2. Cardinality(C) <= MaxPerUser
      BY <3>1 DEF IInv, SlotInv, SlotsAreLiveRequests
    <3> QED BY <3>1, <3>2
  <2> QED BY <2>3, <2>4
<1> QED BY <1>2, <1>4, <1>5

Entered(s) == [Now EXCEPT !.active[Key(s)] = s, !.slots = @ \cup {s}]

LEMMA AdmitStep ==
  ASSUME IInv, NEW s \in Starts, Admit(s)
  PROVE  IInv'
<1>0. TypeOK /\ SlotInv /\ RoundInv
  BY DEF IInv
<1>p. stage[s] = "preflight"
  BY DEF Admit
<1>1. CASE ~ (s \notin cancelled /\ ChatSlotFree(s))
  BY <1>1, PreflightRefused DEF Admit
<1>2. CASE s \notin cancelled /\ ChatSlotFree(s)
  <2>g. PICK g : g = Entered(s)
    OBVIOUS
  <2>h. PICK h : h = Launched(g, s)
    OBVIOUS
  <2>1. /\ Becomes(h) /\ PreflightEnds(s, "accepted")
        /\ UNCHANGED <<id, cancelled, closed, draining>>
    BY <1>2, <2>g, <2>h DEF Admit, Entered
  <2>2. /\ active' = h.active /\ slots' = h.slots /\ req' = h.req /\ task' = h.task
        /\ h.fits
    BY <2>1 DEF Becomes
  <2>3. /\ stage' = [stage EXCEPT ![s] = "accepted"] /\ pending' = pending \ {s}
        /\ starting' = [starting EXCEPT ![Key(s)] = None]
    BY <2>1 DEF PreflightEnds
  <2>k. \A q \in Starts : Key(q) \in Keys /\ Key(q)' = Key(q)
    BY <1>0, <2>1, KeyType DEF Key
  <2>4. ConnOf[s] \notin closed /\ starting[Key(s)] = s
    BY <1>0, <1>2, <1>p DEF SlotInv
  <2>5. active[Key(s)] = None /\ s # None
    BY <1>0, <2>4, <2>k, StartsAssumption DEF SlotInv
  <2>6. s \notin slots
    BY <1>0, <2>5 DEF SlotInv, SlotsAreLiveRequests
  <2>7. RoundsOf(task, s) = {} /\ req[s] = FreshRequest
    BY <1>0, <1>p DEF RoundInv
  <2>8. /\ Now \in Gateways /\ IdleIsNobodys(Now)
        /\ Now.active = active /\ Now.slots = slots /\ Now.req = req /\ Now.task = task
    BY NowIdle
  <2>9. /\ g \in Gateways /\ g.active = [active EXCEPT ![Key(s)] = s]
        /\ g.slots = slots \cup {s} /\ g.req = req /\ g.task = task
    <3>1. /\ [active EXCEPT ![Key(s)] = s] \in [Keys -> Starts \cup {None}]
          /\ slots \cup {s} \subseteq Starts
      BY <1>0, <2>k DEF TypeOK
    <3>2. g = [Now EXCEPT !.active = [active EXCEPT ![Key(s)] = s],
                          !.slots = slots \cup {s}]
      BY <2>8, <2>g DEF Entered
    <3> QED BY <2>8, <3>1, <3>2 DEF Gateways
  <2>10. IdleIsNobodys(g)
    BY <2>8, <2>9 DEF IdleIsNobodys
  <2>11. /\ h \in Gateways /\ IdleIsNobodys(h)
         /\ h.active = g.active /\ h.slots = g.slots /\ h.req = g.req
         /\ \E t \in Tasks : /\ h.task[t].of = s /\ h.task[t].at = "admitting"
                             /\ \A u \in Tasks : u # t => h.task[u] = g.task[u]
         /\ \A q \in Starts : q # s => Apart(g, h, q)
    BY <2>2, <2>9, <2>10, <2>h, LaunchedEffect
  <2>12. /\ active'[Key(s)] = s
         /\ \A k \in Keys : k # Key(s) => active'[k] = active[k]
         /\ slots' = slots \cup {s} /\ req' = req
    BY <1>0, <2>2, <2>9, <2>11, <2>k DEF TypeOK
  <2>13. /\ stage'[s] = "accepted" /\ \A q \in Starts : q # s => stage'[q] = stage[q]
         /\ starting'[Key(s)] = None
         /\ \A k \in Keys : k # Key(s) => starting'[k] = starting[k]
    BY <1>0, <2>3, <2>k DEF TypeOK
  <2>14. TypeOK'
    BY <1>0, <2>1, <2>2, <2>3, <2>11 DEF TypeOK, Gateways, Stages
  <2>15. SlotInv'
    <3>1. SlotsAreLiveRequests'
      <4>1. slots' = {q \in Starts : active'[Key(q)'] = q}
        <5>1. ASSUME NEW q \in Starts PROVE q \in slots' <=> active'[Key(q)] = q
          <6>1. q \in slots <=> active[Key(q)] = q
            BY <1>0 DEF SlotInv, SlotsAreLiveRequests
          <6>2. CASE Key(q) = Key(s)
            BY <2>5, <2>12, <6>1, <6>2, StartsAssumption
          <6>3. CASE Key(q) # Key(s)
            BY <2>12, <2>k, <6>1, <6>3
          <6> QED BY <6>2, <6>3
        <5>2. slots' \subseteq Starts
          BY <2>14 DEF TypeOK
        <5> QED BY <2>k, <5>1, <5>2
      <4>2. pending' = {q \in Starts : stage'[q] = "preflight"}
        BY <1>0, <2>3, <2>13 DEF SlotInv, SlotsAreLiveRequests
      <4>3. \A q \in slots' : ConnOf[q] \notin closed'
        BY <1>0, <2>1, <2>4, <2>12 DEF SlotInv, SlotsAreLiveRequests
      <4>4. /\ Cardinality(slots') <= MaxActive
            /\ \A q \in slots' :
                 Cardinality({p \in slots' : UserOf[p] = UserOf[q]}) <= MaxPerUser
        BY <1>2, <2>6, <2>12, MoreSlots
      <4> QED BY ONLY <4>1, <4>2, <4>3, <4>4, Zenon DEF SlotsAreLiveRequests
    <3>2. IsFiniteSet(slots')
      BY <1>2, <2>6, <2>12, MoreSlots
    <3>3. \A k \in Keys : active'[k] # None =>
            /\ <<ConnOf[active'[k]], id'[active'[k]]>> = k
            /\ stage'[active'[k]] = "accepted"
      <4> SUFFICES ASSUME NEW k \in Keys, active'[k] # None
                   PROVE  /\ <<ConnOf[active'[k]], id'[active'[k]]>> = k
                          /\ stage'[active'[k]] = "accepted"
        OBVIOUS
      <4>1. CASE k = Key(s)
        BY <2>1, <2>12, <2>13, <4>1 DEF Key
      <4>2. CASE k # Key(s)
        <5>1. active'[k] = active[k] /\ active[k] \in Starts
          BY <1>0, <2>12, <4>2 DEF TypeOK
        <5>2. Key(active[k]) = k /\ stage[active[k]] = "accepted"
          BY <1>0, <5>1 DEF SlotInv
        <5> QED BY <2>1, <2>13, <5>1, <5>2 DEF Key
      <4> QED BY <4>1, <4>2
    <3>4. \A k \in Keys : starting'[k] # None =>
            /\ <<ConnOf[starting'[k]], id'[starting'[k]]>> = k
            /\ stage'[starting'[k]] = "preflight" /\ active'[k] = None
      <4> SUFFICES ASSUME NEW k \in Keys, starting'[k] # None
                   PROVE  /\ <<ConnOf[starting'[k]], id'[starting'[k]]>> = k
                          /\ stage'[starting'[k]] = "preflight" /\ active'[k] = None
        OBVIOUS
      <4>1. k # Key(s) /\ starting'[k] = starting[k] /\ starting[k] \in Starts
        BY <1>0, <2>13 DEF TypeOK
      <4>2. Key(starting[k]) = k /\ stage[starting[k]] = "preflight" /\ active[k] = None
        BY <1>0, <4>1 DEF SlotInv
      <4> QED BY <2>1, <2>12, <2>13, <4>1, <4>2 DEF Key
    <3>5. \A q \in Starts : stage'[q] = "preflight" =>
            IF ConnOf[q] \in closed' THEN q \in cancelled' ELSE starting'[Key(q)'] = q
      <4> SUFFICES ASSUME NEW q \in Starts, stage'[q] = "preflight"
                   PROVE  IF ConnOf[q] \in closed' THEN q \in cancelled'
                          ELSE starting'[Key(q)'] = q
        OBVIOUS
      <4>1. q # s /\ stage[q] = "preflight"
        BY <2>13
      <4>2. IF ConnOf[q] \in closed THEN q \in cancelled ELSE starting[Key(q)] = q
        BY <1>0, <4>1 DEF SlotInv
      <4> QED BY <2>1, <2>4, <2>k, <2>13, <4>1, <4>2
    <3> QED BY <3>1, <3>2, <3>3, <3>4, <3>5 DEF SlotInv, Key
  <2>16. RoundInv'
    <3>1. \A t \in Tasks : task'[t].of = None <=> task'[t].at = "idle"
      BY <2>2, <2>11 DEF IdleIsNobodys
    <3>2. PICK t \in Tasks : /\ task'[t].of = s /\ task'[t].at = "admitting"
                             /\ \A u \in Tasks : u # t => task'[u] = task[u]
      BY <2>2, <2>9, <2>11
    <3>3. \A q \in Starts : q # s => Apart(g, h, q)
      BY <2>11
    <3>4. \A q \in Starts : stage'[q] # "accepted" =>
            RoundsOf(task', q) = {} /\ req'[q] = FreshRequest
      <4> SUFFICES ASSUME NEW q \in Starts, stage'[q] # "accepted"
                   PROVE  RoundsOf(task', q) = {} /\ req'[q] = FreshRequest
        OBVIOUS
      <4>1. q # s /\ RoundsOf(task, q) = {} /\ req[q] = FreshRequest
        BY <1>0, <2>13 DEF RoundInv
      <4> QED BY <2>12, <3>2, <4>1 DEF RoundsOf
    <3>5. RoundsOf(task', s) = {t}
      BY <2>7, <3>2 DEF RoundsOf
    <3>6. Asking(req'[s]) /\ ReceivedSoFar(req'[s]) /\ req'[s].answered
      BY <2>7, <2>12 DEF FreshRequest, Asking, ReceivedSoFar
    <3>7. Driven(req', task', s)
      BY <3>2, <3>5, <3>6 DEF Driven
    <3>8. ASSUME NEW q \in Starts, Unique(q)'
          PROVE  Orderly(slots', req', task', q)
      <4>1. Unique(q)
        BY <2>1, <3>8 DEF Unique, Key
      <4>2. CASE q = s
        BY <2>12, <3>6, <3>7, <4>2, DrivenOrderly
      <4>3. CASE q # s
        <5>1. Orderly(slots, req, task, q)
          BY <1>0, <4>1 DEF RoundInv
        <5>2. Orderly(g.slots, g.req, g.task, q)
          BY <2>9, <4>3, <5>1 DEF Orderly
        <5> QED BY <2>2, <3>3, <4>3, <5>2, ApartOrderly, StartsAssumption
      <4> QED BY <4>2, <4>3
    <3> QED BY <3>1, <3>4, <3>8 DEF RoundInv
  <2> QED BY <2>14, <2>15, <2>16 DEF IInv
<1> QED BY <1>1, <1>2

-----------------------------------------------------------------------------
(* close                                                                   *)

LEMMA CloseStep ==
  ASSUME IInv, NEW c \in Conns, Close(c)
  PROVE  IInv'
<1>0. TypeOK /\ SlotInv /\ RoundInv
  BY DEF IInv
<1>g. PICK gone : gone = {s \in Starts : ConnOf[s] = c /\ active[Key(s)] = s}
  OBVIOUS
<1>1. /\ c \notin closed /\ closed' = closed \cup {c}
      /\ cancelled' = cancelled \cup {s \in Starts : starting[Key(s)] = s /\ ConnOf[s] = c}
      /\ starting' = [k \in Keys |-> IF k[1] = c THEN None ELSE starting[k]]
      /\ active' = [k \in Keys |-> IF k[1] = c THEN None ELSE active[k]]
      /\ slots' = slots \ gone
      /\ req' = [s \in Starts |->
                   IF s \in gone THEN [req[s] EXCEPT !.timer = FALSE, !.aborted = TRUE]
                                 ELSE req[s]]
      /\ UNCHANGED <<id, stage, pending, task, draining>>
  BY <1>g DEF Close
<1>k. \A q \in Starts : Key(q) \in Keys /\ Key(q)' = Key(q) /\ Key(q)[1] = ConnOf[q]
  BY <1>0, <1>1, KeyType DEF Key
<1>2. \A q \in Starts : q \in slots <=> active[Key(q)] = q
  BY <1>0 DEF SlotInv, SlotsAreLiveRequests
<1>3. \A q \in Starts : q \in gone <=> q \in slots /\ ConnOf[q] = c
  BY <1>g, <1>2
<1>4. \A s \in Starts : [req[s] EXCEPT !.timer = FALSE, !.aborted = TRUE] \in Request
  BY <1>0 DEF TypeOK, Request
<1>5. req' \in [Starts -> Request]
  BY <1>0, <1>1, <1>4 DEF TypeOK
<1>6. \A q \in Starts :
        /\ q \notin gone => req'[q] = req[q]
        /\ q \in gone => req'[q].aborted /\ (req[q].answered => req'[q].answered)
  BY <1>0, <1>1 DEF TypeOK, Request
<1>7. TypeOK'
  <2>1. active' \in [Keys -> Starts \cup {None}] /\ starting' \in [Keys -> Starts \cup {None}]
    BY <1>0, <1>1 DEF TypeOK
  <2> QED BY <1>0, <1>1, <1>5, <2>1 DEF TypeOK
<1>8. SlotInv'
  <2>1. slots' = {s \in Starts : active'[Key(s)'] = s}
    <3>1. ASSUME NEW q \in Starts PROVE q \in slots' <=> active'[Key(q)] = q
      BY <1>1, <1>2, <1>3, <1>k, StartsAssumption
    <3>2. slots' \subseteq Starts
      BY <1>7 DEF TypeOK
    <3> QED BY <1>k, <3>1, <3>2
  <2>2. slots' \subseteq slots
    BY <1>1
  <2>3. \A q \in slots' : ConnOf[q] \notin closed'
    BY <1>0, <1>1, <1>3, <2>2 DEF SlotInv, SlotsAreLiveRequests, TypeOK
  <2>4. /\ IsFiniteSet(slots') /\ Cardinality(slots') <= MaxActive
        /\ \A s \in slots' :
             Cardinality({q \in slots' : UserOf[q] = UserOf[s]}) <= MaxPerUser
    BY <1>0, <2>2, FewerSlots
  <2>5. pending' = {s \in Starts : stage'[s] = "preflight"}
    BY <1>0, <1>1 DEF SlotInv, SlotsAreLiveRequests
  <2>6. SlotsAreLiveRequests'
    BY ONLY <2>1, <2>3, <2>4, <2>5, Zenon DEF SlotsAreLiveRequests
  <2>7. \A k \in Keys : active'[k] # None =>
          /\ <<ConnOf[active'[k]], id'[active'[k]]>> = k
          /\ stage'[active'[k]] = "accepted"
    <3> SUFFICES ASSUME NEW k \in Keys, active'[k] # None
                 PROVE  /\ <<ConnOf[active'[k]], id'[active'[k]]>> = k
                        /\ stage'[active'[k]] = "accepted"
      OBVIOUS
    <3>1. active'[k] = active[k]
      BY <1>1
    <3>2. Key(active[k]) = k /\ stage[active[k]] = "accepted"
      BY <1>0, <3>1 DEF SlotInv
    <3> QED BY <1>1, <3>1, <3>2 DEF Key
  <2>8. \A k \in Keys : starting'[k] # None =>
          /\ <<ConnOf[starting'[k]], id'[starting'[k]]>> = k
          /\ stage'[starting'[k]] = "preflight" /\ active'[k] = None
    <3> SUFFICES ASSUME NEW k \in Keys, starting'[k] # None
                 PROVE  /\ <<ConnOf[starting'[k]], id'[starting'[k]]>> = k
                        /\ stage'[starting'[k]] = "preflight" /\ active'[k] = None
      OBVIOUS
    <3>1. starting'[k] = starting[k]
      BY <1>1
    <3>2. Key(starting[k]) = k /\ stage[starting[k]] = "preflight" /\ active[k] = None
      BY <1>0, <3>1 DEF SlotInv
    <3>3. active'[k] = None
      BY <1>1, <3>2
    <3> QED BY <1>1, <3>1, <3>2, <3>3 DEF Key
  <2>9. \A q \in Starts : stage'[q] = "preflight" =>
          IF ConnOf[q] \in closed' THEN q \in cancelled' ELSE starting'[Key(q)'] = q
    <3> SUFFICES ASSUME NEW q \in Starts, stage'[q] = "preflight"
                 PROVE  IF ConnOf[q] \in closed' THEN q \in cancelled'
                        ELSE starting'[Key(q)'] = q
      OBVIOUS
    <3>1. IF ConnOf[q] \in closed THEN q \in cancelled ELSE starting[Key(q)] = q
      BY <1>0, <1>1 DEF SlotInv
    <3>2. CASE ConnOf[q] = c
      BY <1>1, <3>1, <3>2
    <3>3. CASE ConnOf[q] # c
      BY <1>1, <1>k, <3>1, <3>3
    <3> QED BY <3>2, <3>3
  <2> QED BY <2>4, <2>6, <2>7, <2>8, <2>9 DEF SlotInv, Key
<1>9. RoundInv'
  <2>1. \A t \in Tasks : task'[t].of = None <=> task'[t].at = "idle"
    BY <1>0, <1>1 DEF RoundInv
  <2>2. ASSUME NEW q \in Starts, stage'[q] # "accepted"
        PROVE  RoundsOf(task', q) = {} /\ req'[q] = FreshRequest
    <3>1. RoundsOf(task, q) = {} /\ req[q] = FreshRequest
      BY <1>0, <1>1, <2>2 DEF RoundInv
    <3>2. q \notin slots
      <4>1. stage[q] # "accepted" /\ q # None
        BY <1>1, <2>2, StartsAssumption
      <4>2. active[Key(q)] = q => stage[q] = "accepted"
        BY <1>0, <1>k, <4>1 DEF SlotInv
      <4> QED BY <1>2, <4>1, <4>2
    <3> QED BY <1>1, <1>3, <1>6, <3>1, <3>2
  <2>3. ASSUME NEW q \in Starts, Unique(q)'
        PROVE  Orderly(slots', req', task', q)
    <3>1. Unique(q)
      BY <1>1, <2>3 DEF Unique, Key
    <3>2. Orderly(slots, req, task, q) /\ req[q].answered
      BY <1>0, <3>1 DEF RoundInv, Orderly
    <3>3. CASE q \in gone
      BY <1>1, <1>6, <3>2, <3>3, AbortedOrderly
    <3>4. CASE q \notin gone
      <4>1. req'[q] = req[q] /\ (q \in slots' <=> q \in slots) /\ task' = task
        BY <1>1, <1>6, <3>4
      <4> QED BY <3>2, <4>1 DEF Orderly, Driven
    <3> QED BY <3>3, <3>4
  <2> QED BY <2>1, <2>2, <2>3 DEF RoundInv
<1> QED BY <1>7, <1>8, <1>9 DEF IInv

-----------------------------------------------------------------------------
(* The invariant holds                                                     *)

LEMMA InvInit == Init => IInv
<1> SUFFICES ASSUME Init PROVE IInv
  OBVIOUS
<1>1. FreshRequest \in Request
  BY NoCalls DEF FreshRequest, Request
<1>2. IdleTask \in Round /\ IdleTask.of = None /\ IdleTask.at = "idle"
  BY NoCalls DEF IdleTask, Round, RoundLabels
<1>3. TypeOK
  BY <1>1, <1>2 DEF Init, TypeOK, Stages
<1>k. \A s \in Starts : Key(s) \in Keys
  BY <1>3, KeyType
<1>4. Cardinality({}) = 0 /\ IsFiniteSet({})
  BY FS_EmptySet
<1>5. SlotsAreLiveRequests
  <2>1. slots = {s \in Starts : active[Key(s)] = s}
    BY <1>k, StartsAssumption DEF Init
  <2>2. pending = {s \in Starts : stage[s] = "preflight"}
    BY DEF Init
  <2>3. MaxActive \in Nat
    BY LimitsAssumption
  <2>4. slots = {}
    BY DEF Init
  <2> QED BY <1>4, <2>1, <2>2, <2>3, <2>4 DEF SlotsAreLiveRequests
<1>6. SlotInv
  BY <1>4, <1>5 DEF SlotInv, Init
<1>7. \A s \in Starts : RoundsOf(task, s) = {} /\ req[s] = FreshRequest /\ s \notin slots
  BY <1>2, StartsAssumption DEF RoundsOf, Init
<1>8. \A s \in Starts : Orderly(slots, req, task, s)
  BY <1>7 DEF Orderly, FreshRequest
<1>9. RoundInv
  BY <1>2, <1>7, <1>8 DEF RoundInv, Init
<1> QED BY <1>3, <1>6, <1>9 DEF IInv

LEMMA InvStep == IInv /\ [Next]_vars => IInv'
<1> SUFFICES ASSUME IInv, [Next]_vars PROVE IInv'
  OBVIOUS
<1>1. ASSUME NEW s \in Starts, StartArrives(s) PROVE IInv'
  BY <1>1, StartArrivesStep
<1>2. ASSUME NEW k \in Keys, Cancel(k) PROVE IInv'
  BY <1>2, CancelStep
<1>3. ASSUME NEW k \in Keys, InvalidToolResults(k) PROVE IInv'
  BY <1>3, InvalidToolResultsStep
<1>4. ASSUME NEW s \in Starts, NEW results \in SUBSET Offered(s),
             active[Key(s)] = s, ToolResults(Key(s), results)
      PROVE  IInv'
  BY <1>4, ToolResultsStep
<1>5. ASSUME NEW c \in Conns, Close(c) PROVE IInv'
  BY <1>5, CloseStep
<1>6. ASSUME NEW s \in Starts, Preflight(s) PROVE IInv'
  BY <1>6, PreflightFailsStep, AdmitStep DEF Preflight
<1>7. ASSUME NEW s \in Starts, ToolResultsTimeout(s) PROVE IInv'
  BY <1>7, ToolResultsTimeoutStep
<1>8. ASSUME NEW t \in Tasks, TaskStep(t) PROVE IInv'
  <2>1. CASE CallProvider(t)
    BY <2>1, CallProviderStep
  <2>2. CASE ProviderReturns(t)
    BY <2>2, ProviderReturnsStep
  <2>3. CASE RoundEnds(t)
    BY <2>3, RoundEndsStep
  <2>4. ASSUME NEW names \in SUBSET Names \ {{}}, RoundCallsTools(t, names) PROVE IInv'
    BY <2>4, RoundCallsToolsStep
  <2>5. CASE ServerToolsReturn(t)
    BY <2>5, ServerToolsReturnStep
  <2>6. CASE ServerToolsFail(t)
    BY <2>6, ServerToolsFailStep
  <2>7. CASE RoundThrows(t)
    BY <2>7, RoundThrowsStep
  <2>8. CASE FailureReported(t)
    BY <2>8, FailureReportedStep
  <2> QED BY <1>8, <2>1, <2>2, <2>3, <2>4, <2>5, <2>6, <2>7, <2>8 DEF TaskStep
<1>9. CASE BeginDrain
  BY <1>9 DEF BeginDrain, IInv, TypeOK, SlotInv, RoundInv, SlotsAreLiveRequests, Unique, Key
<1>10. CASE UNCHANGED vars
  BY <1>10 DEF vars, IInv, TypeOK, SlotInv, RoundInv, SlotsAreLiveRequests, Unique, Key
<1> QED BY <1>1, <1>2, <1>3, <1>4, <1>5, <1>6, <1>7, <1>8, <1>9, <1>10
        DEF Next, ClientStep

\* Every reachable state of the gateway satisfies the inductive invariant.
THEOREM GatewayInvariant == Spec => []IInv
BY InvInit, InvStep, PTL DEF Spec

-----------------------------------------------------------------------------
(* What it says                                                            *)

\* The state stays well-formed: the Maps hold starts, the books of a request
\* finitely many calls.
THEOREM GatewayTypeCorrect == Spec => []TypeOK
<1>1. IInv => TypeOK
  BY DEF IInv
<1> QED BY <1>1, GatewayInvariant, PTL

\* Slots are held by exactly the requests their open connections know, within
\* the limits, for any number of connections, users and requests.
THEOREM SlotsMatchRequests == Spec => []SlotsAreLiveRequests
<1>1. IInv => SlotsAreLiveRequests
  BY DEF IInv, SlotInv
<1> QED BY <1>1, GatewayInvariant, PTL

\* A request with a requestId of its own that holds a slot has exactly one
\* round in flight, or none and the running tool-results timer.
THEOREM RequestsAreDriven == Spec => []DrivenByOne
<1>1. IInv => DrivenByOne
  <2> SUFFICES ASSUME IInv, NEW s \in slots, Unique(s)
               PROVE  LET rounds == {t \in Tasks : task[t].of = s}
                      IN \/ Cardinality(rounds) = 1 /\ ~ req[s].timer
                         \/ rounds = {} /\ req[s].timer /\ req[s].awaiting
    BY DEF DrivenByOne
  <2> DEFINE rounds == {t \in Tasks : task[t].of = s}
  <2>0. rounds = RoundsOf(task, s)
    BY DEF RoundsOf
  <2>1. s \in Starts
    BY DEF IInv, TypeOK
  <2>2. Driven(req, task, s)
    BY <2>1 DEF IInv, RoundInv, Orderly
  <2> HIDE DEF rounds
  <2>3. CASE rounds = {} /\ AwaitingClient(req[s])
    BY <2>3 DEF AwaitingClient, Collecting, rounds
  <2>4. CASE \E t \in Tasks : rounds = {t} /\ ~ req[s].timer
    <3>1. Cardinality(rounds) = 1
      BY <2>4, FS_Singleton
    <3> QED BY <2>4, <3>1 DEF rounds
  <2> QED BY <2>0, <2>2, <2>3, <2>4 DEF Driven, RunningTools, Asking
<1> QED BY <1>1, GatewayInvariant, PTL

\* Every provider call that nobody aborted is counted by the limits.
THEOREM CallsAreCounted == Spec => []CallsHoldSlots
<1>1. IInv => CallsHoldSlots
  <2> SUFFICES ASSUME IInv, NEW t \in Tasks, task[t].at = "provider",
                      Unique(task[t].of), ~ req[task[t].of].aborted
               PROVE  task[t].of \in slots
    BY DEF CallsHoldSlots
  <2>1. task[t].of \in Starts
    BY RoundAccepted DEF IInv
  <2> QED BY <2>1 DEF IInv, RoundInv, Orderly, RoundsOf
<1> QED BY <1>1, GatewayInvariant, PTL

\* Every round replayed to the model answers each of its tool calls once.
THEOREM CallsAnswered == Spec => []AnsweredOnce
<1>1. IInv => AnsweredOnce
  BY DEF IInv, RoundInv, Orderly, AnsweredOnce
<1> QED BY <1>1, GatewayInvariant, PTL

\* Nothing starts again in a drained gateway.
THEOREM DrainedStaysIdle == Spec => DrainIsFinal
<1>1. IInv /\ [Next]_vars => [draining /\ Idle => Idle']_vars
  <2> SUFFICES ASSUME IInv, Next, draining, pending = {},
                      \A t \in Tasks : task[t].of = None
               PROVE  Idle'
    BY DEF Idle
  <2>1. \A t \in Tasks : task[t].at = "idle"
    BY DEF IInv, RoundInv
  <2>2. \A s \in Starts : stage[s] # "preflight"
    BY DEF IInv, SlotInv, SlotsAreLiveRequests
  <2>3. \A t \in Tasks : ~ TaskStep(t)
    BY <2>1 DEF TaskStep, CallProvider, ProviderReturns, RoundEnds, RoundCallsTools,
                ServerToolsReturn, ServerToolsFail, RoundThrows, FailureReported, TaskAt
  <2>4. ASSUME NEW s \in Starts PROVE ~ Preflight(s) /\ ~ StartArrives(s)
    BY <2>2 DEF Preflight, PreflightFails, Admit, StartArrives, Handles
  <2>5. ASSUME NEW k \in Keys PROVE ~ Cancel(k) /\ ~ InvalidToolResults(k)
    BY DEF Cancel, InvalidToolResults, Handles
  <2>6. ASSUME NEW k, NEW results PROVE ~ ToolResults(k, results)
    BY DEF ToolResults, Handles
  <2>7. ASSUME NEW s \in Starts, ToolResultsTimeout(s) PROVE Idle'
    <3>f. PICK f : f = Fired(s)
      OBVIOUS
    <3>h. PICK h : h = IF active[Key(s)] # None /\ req[active[Key(s)]].awaiting
                         THEN Forgotten(f, Key(s)) ELSE f
      OBVIOUS
    <3>1. Becomes(h) /\ pending' = pending
      BY <2>7, <3>f, <3>h DEF ToolResultsTimeout, Forgotten, Fired
    <3>2. f.task = task
      BY <3>f DEF Fired, Now
    <3>3. h.task = task
      BY <3>2, <3>h DEF Forgotten, Deleted
    <3> QED BY <3>1, <3>3 DEF Becomes, Idle
  <2>8. ASSUME NEW c \in Conns, Close(c) PROVE Idle'
    BY <2>8 DEF Close, Idle
  <2>9. CASE BeginDrain
    BY <2>9 DEF BeginDrain
  <2> QED BY <2>3, <2>4, <2>5, <2>6, <2>7, <2>8, <2>9 DEF Next, ClientStep
<1> QED BY <1>1, GatewayInvariant, PTL DEF Spec, DrainIsFinal
=============================================================================
