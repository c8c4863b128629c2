------------------------- MODULE ServerPartsProofs -------------------------
(***************************************************************************)
(* Machine-checked proofs about the parts of ServerParts, for any          *)
(* releases, fetches, callers and limits.                                  *)
(***************************************************************************)
EXTENDS ServerParts, LimitsProofs

-----------------------------------------------------------------------------
(* The database file and the process (ServerLife)                          *)

Stages == {"columns", "create", "fill", "drop", "rename", "schema", "stamp", "commit"}

LifeType ==
  /\ pc \in {"down", "preflight", "begin", "listen", "serving"} \cup Stages
  /\ release \in Nat
  /\ file \in Life!Schema /\ tx \in Life!Schema
  /\ db \in {"none", "open", "closing", "closed"} /\ terminal \in BOOLEAN
  /\ stopping \in BOOLEAN /\ announced \in BOOLEAN
  /\ client \in {"none", "idle", "busy"}
  /\ orphan \in BOOLEAN /\ socket \in BOOLEAN /\ chat \in BOOLEAN /\ recovery \in BOOLEAN

\* What is committed is whole. Under the write lock the version of the file
\* stays the one that was found to be supported, and each statement finds what
\* the one before has left.
SchemaInv ==
  /\ file.rows /\ file.copy = "none"
  /\ pc \in Stages => file.version <= release
  /\ pc = "columns" => tx = file
  /\ pc = "create" => tx.rows
  /\ pc = "fill" => tx.copy = "empty"
  /\ pc \in {"drop", "rename"} => tx.copy = "filled"
  /\ pc \in {"schema", "stamp", "commit"} => tx.rows /\ tx.copy = "none"
  /\ pc = "commit" => tx.version = release

\* Steps of the drain settle after the signal only, and what they have waited
\* for does not come back; the close waits for them.
ClosingInv ==
  /\ stopping => pc = "serving"
  /\ drained # {} => stopping
  /\ "http" \in drained => client = "none"
  /\ "background" \in drained => ~ chat /\ ~ recovery
  /\ terminal => "http" \in drained /\ "background" \in drained
  /\ terminal <=> db \in {"closing", "closed"}

LifeInv == LifeType /\ SchemaInv /\ ClosingInv

LEMMA LifeInitially == Life!Init => LifeInv
<1> SUFFICES ASSUME Life!Init PROVE LifeInv
  OBVIOUS
<1>1. Life!Legacy \in Life!Schema /\ Life!Legacy.rows /\ Life!Legacy.copy = "none"
  BY DEF Life!Legacy, Life!Schema
<1>2. LifeType
  BY <1>1 DEF Life!Init, Life!Idle, LifeType
<1>3. SchemaInv
  BY <1>1 DEF Life!Init, SchemaInv, Stages
<1>4. ClosingInv
  BY DEF Life!Init, Life!Idle, ClosingInv
<1> QED BY <1>2, <1>3, <1>4 DEF LifeInv

\* A process that ends leaves what is committed.
LEMMA LifeGone ==
  ASSUME LifeInv, NEW code, Life!Gone(code)
  PROVE  LifeInv' /\ file' = file
BY DEF Life!Gone, LifeInv, LifeType, SchemaInv, ClosingInv, Stages

-----------------------------------------------------------------------------
(* Migration                                                               *)

LEMMA RecordsUpdated ==
  ASSUME NEW s \in Life!Schema, NEW n \in Nat, NEW t \in BOOLEAN,
         NEW c \in {"none", "empty", "filled"}
  PROVE  /\ [s EXCEPT !.columns = TRUE] \in Life!Schema
         /\ [s EXCEPT !.copy = c] \in Life!Schema
         /\ [s EXCEPT !.version = n] \in Life!Schema
         /\ [s EXCEPT !.table = TRUE, !.weeks = TRUE] \in Life!Schema
         /\ [s EXCEPT !.table = FALSE, !.rows = FALSE] \in Life!Schema
         /\ [s EXCEPT !.table = TRUE, !.weeks = TRUE, !.copy = "none", !.rows = t]
              \in Life!Schema
BY DEF Life!Schema

LEMMA MigrationStep ==
  ASSUME LifeInv, Life!Migration
  PROVE  LifeInv' /\ ((file'.version >= file.version /\ file'.rows) \/ file' = file)
<1> USE DEF LifeInv
<1>1. CASE Life!Unsupported
  BY <1>1, LifeGone DEF Life!Unsupported
<1>2. CASE Life!Preflight
  BY <1>2 DEF Life!Preflight, Life!At, Life!Keep, Life!schema, Life!dbVars, Life!work,
              LifeType, SchemaInv, ClosingInv, Stages
<1>3. CASE Life!BeginTx
  BY <1>3 DEF Life!BeginTx, Life!SupportedLocked, Life!Supported, Life!At, Life!Keep,
              Life!dbVars, Life!work, LifeType, SchemaInv, ClosingInv, Stages
<1>4. ASSUME UNCHANGED file, Life!Keep, pc \in Stages, pc' \in Stages
      PROVE  /\ LifeType' <=> tx' \in Life!Schema
             /\ ClosingInv'
             /\ file'.rows /\ file'.copy = "none" /\ (file.version <= release)'
  BY <1>4 DEF Life!Keep, Life!dbVars, Life!work, LifeType, SchemaInv, ClosingInv, Stages
<1>5. CASE Life!Columns
  <2>1. LifeType' /\ ClosingInv'
    BY <1>4, <1>5, RecordsUpdated DEF Life!Columns, Life!At, Life!Statement, Stages, LifeType
  <2>2. SchemaInv'
    BY <1>4, <1>5 DEF Life!Columns, Life!At, Life!Statement, Stages, SchemaInv, LifeType,
                      Life!Schema
  <2> QED BY <1>5, <2>1, <2>2 DEF Life!Columns, Life!Statement
<1>6. CASE Life!CreateCopy
  <2>1. LifeType' /\ ClosingInv'
    BY <1>4, <1>6, RecordsUpdated DEF Life!CreateCopy, Life!At, Life!Statement, Stages, LifeType
  <2>2. SchemaInv'
    BY <1>4, <1>6 DEF Life!CreateCopy, Life!At, Life!Statement, Stages, SchemaInv, LifeType,
                      Life!Schema
  <2> QED BY <1>6, <2>1, <2>2 DEF Life!CreateCopy, Life!Statement
<1>7. CASE Life!FillCopy
  <2>1. LifeType' /\ ClosingInv'
    BY <1>4, <1>7, RecordsUpdated DEF Life!FillCopy, Life!At, Life!Statement, Stages, LifeType
  <2>2. SchemaInv'
    BY <1>4, <1>7 DEF Life!FillCopy, Life!At, Life!Statement, Stages, SchemaInv, LifeType,
                      Life!Schema
  <2> QED BY <1>7, <2>1, <2>2 DEF Life!FillCopy, Life!Statement
<1>8. CASE Life!DropTable
  <2>1. LifeType' /\ ClosingInv'
    BY <1>4, <1>8, RecordsUpdated DEF Life!DropTable, Life!At, Life!Statement, Stages, LifeType
  <2>2. SchemaInv'
    BY <1>4, <1>8 DEF Life!DropTable, Life!At, Life!Statement, Stages, SchemaInv, LifeType,
                      Life!Schema
  <2> QED BY <1>8, <2>1, <2>2 DEF Life!DropTable, Life!Statement
<1>9. CASE Life!RenameCopy
  <2>1. LifeType' /\ ClosingInv'
    BY <1>4, <1>9, RecordsUpdated DEF Life!RenameCopy, Life!At, Life!Statement, Stages, LifeType
  <2>2. SchemaInv'
    BY <1>4, <1>9 DEF Life!RenameCopy, Life!At, Life!Statement, Stages, SchemaInv, LifeType,
                      Life!Schema
  <2> QED BY <1>9, <2>1, <2>2 DEF Life!RenameCopy, Life!Statement
<1>10. CASE Life!ApplySchema
  <2>1. LifeType' /\ ClosingInv'
    BY <1>4, <1>10, RecordsUpdated DEF Life!ApplySchema, Life!At, Life!Statement, Stages, LifeType
  <2>2. SchemaInv'
    BY <1>4, <1>10 DEF Life!ApplySchema, Life!At, Life!Statement, Stages, SchemaInv, LifeType,
                       Life!Schema
  <2> QED BY <1>10, <2>1, <2>2 DEF Life!ApplySchema, Life!Statement
<1>11. CASE Life!Stamp
  <2>1. LifeType' /\ ClosingInv'
    BY <1>4, <1>11, RecordsUpdated DEF Life!Stamp, Life!At, Life!Statement, Stages, LifeType
  <2>2. SchemaInv'
    BY <1>4, <1>11 DEF Life!Stamp, Life!At, Life!Statement, Life!Keep, Stages, SchemaInv,
                       LifeType, Life!Schema
  <2> QED BY <1>11, <2>1, <2>2 DEF Life!Stamp, Life!Statement
<1>12. CASE Life!Commit
  <2>1. LifeInv'
    BY <1>12 DEF Life!Commit, Life!At, Life!Keep, Life!dbVars, Life!work, Stages,
                 LifeType, SchemaInv, ClosingInv
  <2>2. file'.version >= file.version /\ file'.rows
    BY <1>12 DEF Life!Commit, Life!At, Stages, LifeType, SchemaInv, Life!Schema
  <2> QED BY <2>1, <2>2
<1> QED BY <1>1, <1>2, <1>3, <1>5, <1>6, <1>7, <1>8, <1>9, <1>10, <1>11, <1>12
        DEF Life!Migration, Life!Preflight, Life!BeginTx, Life!schema

-----------------------------------------------------------------------------
(* Starts, serving and shutdown                                            *)

LEMMA StartsStep ==
  ASSUME LifeInv, Life!Start \/ Life!OtherMigrates \/ Life!Listen
  PROVE  LifeInv' /\ ((file'.version >= file.version /\ file'.rows) \/ file' = file)
<1> USE DEF LifeInv
<1>1. CASE Life!Start
  <2>1. release' \in Nat
    BY <1>1, PartsAssumption DEF Life!Start, Life!LifeAssumption
  <2> QED BY <1>1, <2>1 DEF Life!Start, Life!schema, Life!work, LifeType, SchemaInv,
                            ClosingInv, Stages
<1>2. CASE Life!OtherMigrates
  <2>1. PICK r \in Releases :
          /\ file.version <= r
          /\ file' = [Life!Legacy EXCEPT !.version = r, !.columns = TRUE, !.weeks = TRUE,
                                         !.rows = file.rows]
    BY <1>2 DEF Life!OtherMigrates
  <2>2. r \in Nat /\ file.version \in Nat /\ file.rows
    BY PartsAssumption DEF Life!LifeAssumption, LifeType, SchemaInv, Life!Schema
  <2>3. file' \in Life!Schema /\ file'.version = r /\ file'.rows /\ file'.copy = "none"
    BY <2>1, <2>2 DEF Life!Legacy, Life!Schema
  <2>4. /\ UNCHANGED <<pc, release, db, terminal, stopping, announced, client, orphan,
                       socket, chat, recovery, drained>>
        /\ tx' = file' /\ pc \notin Stages
    BY <1>2 DEF Life!OtherMigrates, Life!proc, Life!dbVars, Life!work, Life!Locked, Stages
  <2>5. LifeType'
    BY <2>3, <2>4 DEF LifeType
  <2>6. SchemaInv' /\ ClosingInv'
    BY <2>3, <2>4 DEF SchemaInv, ClosingInv, Stages
  <2> QED BY <2>1, <2>2, <2>3, <2>5, <2>6
<1>3. CASE Life!Listen
  BY <1>3 DEF Life!Listen, Life!schema, Life!dbVars, Life!work, LifeType, SchemaInv,
              ClosingInv, Stages
<1> QED BY <1>1, <1>2, <1>3

LEMMA ServingStep ==
  ASSUME LifeInv,
         \/ Life!Announce \/ Life!Tick \/ Life!RecoveryEnds \/ Life!Traffic \/ Life!LateQuery
         \/ Life!Signal
  PROVE  LifeInv' /\ file' = file
<1> USE DEF LifeInv
<1>1. UNCHANGED <<pc, release, file, tx>>
  BY DEF Life!Announce, Life!Tick, Life!RecoveryEnds, Life!Traffic, Life!Connects, Life!Sends,
         Life!Responds, Life!Disconnects, Life!OrphanEnds, Life!Opens, Life!ChatStarts,
         Life!ChatEnds, Life!SocketCloses, Life!LateQuery, Life!Signal, Life!Quiet, Life!proc,
         Life!schema
<1>2. SchemaInv'
  BY <1>1 DEF SchemaInv
<1>3. CASE Life!Announce
  BY <1>1, <1>2, <1>3 DEF Life!Announce, Life!Serving, Life!MayRecover, Life!dbVars,
                          LifeType, ClosingInv
<1>4. CASE Life!LateQuery
  BY <1>1, <1>2, <1>4 DEF Life!LateQuery, Life!GetDb, Life!proc, Life!work, LifeType,
                          ClosingInv
<1>5. CASE Life!Signal
  BY <1>1, <1>2, <1>5 DEF Life!Signal, Life!Serving, Life!dbVars, Life!work, LifeType,
                          ClosingInv
<1>6. CASE Life!Tick \/ Life!RecoveryEnds \/ Life!Traffic
  <2>1. UNCHANGED <<pc, release, file, tx, db, terminal, stopping, announced, drained>>
    BY <1>6 DEF Life!Tick, Life!RecoveryEnds, Life!Traffic, Life!Connects, Life!Sends,
                Life!Responds, Life!Disconnects, Life!OrphanEnds, Life!Opens,
                Life!ChatStarts, Life!ChatEnds, Life!SocketCloses, Life!Quiet, Life!proc,
                Life!schema, Life!dbVars
  <2>2. ASSUME /\ client' \in {"none", "idle", "busy"}
               /\ orphan' \in BOOLEAN /\ socket' \in BOOLEAN
               /\ chat' \in BOOLEAN /\ recovery' \in BOOLEAN,
               "http" \in drained /\ client = "none" => client' = "none",
               "background" \in drained /\ ~ chat => ~ chat',
               "background" \in drained /\ ~ recovery => ~ recovery'
        PROVE  LifeInv'
    <3>1. LifeType'
      BY <2>1, <2>2 DEF LifeType
    <3>2. ClosingInv'
      BY <2>1, <2>2 DEF ClosingInv
    <3> QED BY <1>2, <3>1, <3>2
  <2>3. CASE Life!Tick
    BY <2>1, <2>2, <2>3 DEF Life!Tick, LifeType, ClosingInv
  <2>4. CASE Life!RecoveryEnds
    BY <2>1, <2>2, <2>4 DEF Life!RecoveryEnds, LifeType
  <2>5. CASE Life!Connects
    BY <2>1, <2>2, <2>5 DEF Life!Connects, LifeType, ClosingInv
  <2>6. CASE Life!Sends
    BY <2>1, <2>2, <2>6 DEF Life!Sends, LifeType
  <2>7. CASE Life!Responds
    BY <2>1, <2>2, <2>7 DEF Life!Responds, LifeType
  <2>8. CASE Life!Disconnects
    BY <2>1, <2>2, <2>8 DEF Life!Disconnects, LifeType
  <2>9. CASE Life!OrphanEnds
    BY <2>1, <2>2, <2>9 DEF Life!OrphanEnds, LifeType
  <2>10. CASE Life!Opens
    BY <2>1, <2>2, <2>10 DEF Life!Opens, LifeType
  <2>11. CASE Life!ChatStarts
    BY <2>1, <2>2, <2>11 DEF Life!ChatStarts, LifeType, ClosingInv
  <2>12. CASE Life!ChatEnds
    BY <2>1, <2>2, <2>12 DEF Life!ChatEnds, LifeType
  <2>13. CASE Life!SocketCloses
    BY <2>1, <2>2, <2>13 DEF Life!SocketCloses, LifeType
  <2> QED BY <1>1, <1>6, <2>3, <2>4, <2>5, <2>6, <2>7, <2>8, <2>9, <2>10, <2>11, <2>12,
             <2>13 DEF Life!Traffic
<1> QED BY <1>1, <1>3, <1>4, <1>5, <1>6

LEMMA ShutdownStep ==
  ASSUME LifeInv, Life!Shutdown
  PROVE  LifeInv' /\ file' = file
<1> USE DEF LifeInv
<1>1. CASE Life!Exits
  BY <1>1, LifeGone DEF Life!Exits
<1>2. ASSUME NEW step, Life!Settles(step), orphan' = orphan, chat' = chat,
             recovery' = recovery, client' = client, socket' \in BOOLEAN,
             step = "http" => client = "none",
             step = "background" => ~ chat /\ ~ recovery
      PROVE  LifeInv' /\ file' = file
  <2>1. /\ UNCHANGED <<pc, release, file, tx, stopping, announced, db, terminal>>
        /\ pc = "serving" /\ stopping /\ drained' = drained \cup {step}
    BY <1>2 DEF Life!Settles, Life!schema, Life!dbVars, Life!Serving
  <2>2. SchemaInv'
    BY <2>1 DEF SchemaInv
  <2>3. LifeType'
    BY <1>2, <2>1 DEF LifeType
  <2>4. ClosingInv'
    BY <1>2, <2>1 DEF ClosingInv
  <2> QED BY <2>1, <2>2, <2>3, <2>4
<1>3. CASE Life!HttpCloses
  BY <1>2, <1>3 DEF Life!HttpCloses, Life!work, LifeType
<1>4. CASE Life!WsCloses
  BY <1>2, <1>4 DEF Life!WsCloses
<1>5. CASE Life!BackgroundEnds
  BY <1>2, <1>5 DEF Life!BackgroundEnds, Life!work, LifeType
<1>6. CASE Life!CloseStarts \/ Life!CloseEnds
  <2>1. UNCHANGED <<pc, release, file, tx, stopping, announced, drained, client, orphan,
                    socket, chat, recovery>>
    BY <1>6 DEF Life!CloseStarts, Life!CloseEnds, Life!proc, Life!schema, Life!work
  <2>2. SchemaInv'
    BY <2>1 DEF SchemaInv
  <2>3. LifeType' /\ ClosingInv'
    <3>1. CASE Life!CloseStarts
      BY <2>1, <3>1 DEF Life!CloseStarts, Life!Awaited, LifeType, ClosingInv
    <3>2. CASE Life!CloseEnds
      BY <2>1, <3>2 DEF Life!CloseEnds, LifeType, ClosingInv
    <3> QED BY <1>6, <3>1, <3>2
  <2> QED BY <2>1, <2>2, <2>3
<1> QED BY <1>1, <1>3, <1>4, <1>5, <1>6 DEF Life!Shutdown

LEMMA LifeStep ==
  ASSUME LifeInv, Life!Next \/ UNCHANGED lifeVars
  PROVE  LifeInv' /\ ((file'.version >= file.version /\ file'.rows) \/ file' = file)
<1>1. CASE UNCHANGED lifeVars
  BY <1>1 DEF lifeVars, LifeInv, LifeType, SchemaInv, ClosingInv
<1>2. CASE Life!MigrationFails \/ Life!HardDeadline \/ Life!Crash
  BY <1>2, LifeGone DEF Life!MigrationFails, Life!HardDeadline, Life!Crash
<1> QED BY <1>1, <1>2, MigrationStep, StartsStep, ServingStep, ShutdownStep DEF Life!Next

-----------------------------------------------------------------------------
(* Pages from the web (SafeFetch)                                          *)

Entries == [host : Hosts, allows : BOOLEAN, at : Nat]

WebType ==
  /\ clock \in Nat
  /\ cache \in Seq(Entries)
  /\ at \in [Fetches -> {"validate", "robots", "asking", "request", "reading"} \cup Web!Ends]
  /\ target \in [Fetches -> Hosts]
  /\ hops \in [Fetches -> Nat]
  /\ valid \in [Fetches -> Hosts \cup {"none"}]
  /\ rules \in [Fetches -> [host : Hosts \cup {"none"}, allows : BOOLEAN]]
  /\ asked \in [Fetches -> Nat]
  /\ agents \in [Fetches -> {0, 1}]
  /\ aborted \in [Fetches -> BOOLEAN]

Requesting(f) == at[f] \in {"request", "reading"}

\* From the validation of a hop to its end the target stays the one that was
\* validated; the rules and the agent are those of the request that runs.
HopInv(f) ==
  /\ at[f] \in {"robots", "asking", "request", "reading"} => valid[f] = target[f]
  /\ Requesting(f) => rules[f] = [host |-> target[f], allows |-> TRUE]
  /\ agents[f] = IF Requesting(f) THEN 1 ELSE 0

CacheInv ==
  /\ Len(cache) <= CacheMax
  /\ \A i, j \in DOMAIN cache : cache[i].host = cache[j].host => i = j

WebInv == WebType /\ (\A f \in Fetches : HopInv(f)) /\ CacheInv

LEMMA WebInitially == Web!Init => WebInv
BY PartsAssumption DEF Web!Init, Web!NoRules, Web!FetchAssumption, WebInv, WebType, HopInv,
   Requesting, CacheInv, Entries, Web!Ends

\* A fetch changes nothing of another one.
LEMMA OtherHops ==
  ASSUME WebInv, WebType', NEW f \in Fetches,
         \A g \in Fetches \ {f} :
           /\ at'[g] = at[g] /\ valid'[g] = valid[g] /\ target'[g] = target[g]
           /\ rules'[g] = rules[g] /\ agents'[g] = agents[g],
         HopInv(f)', CacheInv'
  PROVE  WebInv'
<1> SUFFICES ASSUME NEW g \in Fetches PROVE HopInv(g)'
  BY DEF WebInv
<1>1. CASE g = f
  BY <1>1
<1>2. CASE g # f
  BY <1>2 DEF WebInv, HopInv, Requesting
<1> QED BY <1>1, <1>2

\* What the rules of an entry of the target's host lead to.
LEMMA ObeysStep ==
  ASSUME WebInv, NEW f \in Fetches, NEW entry \in Entries, Web!Obeys(f, entry),
         at[f] \in {"robots", "asking"}, entry.host = target[f],
         UNCHANGED <<clock, target, hops, valid, asked, aborted>>,
         cache' \in Seq(Entries), CacheInv'
  PROVE  WebInv'
<1>1. [host |-> entry.host, allows |-> entry.allows]
        \in [host : Hosts \cup {"none"}, allows : BOOLEAN]
  BY DEF Entries
<1>2. agents[f] = 0
  BY DEF WebInv, WebType, HopInv, Requesting
<1>3. at' \in [Fetches -> {"validate", "robots", "asking", "request", "reading"}
                            \cup Web!Ends]
  BY DEF Web!Obeys, Web!Ends, WebInv, WebType
<1>4. rules' \in [Fetches -> [host : Hosts \cup {"none"}, allows : BOOLEAN]]
  BY <1>1 DEF Web!Obeys, WebInv, WebType
<1>5. agents' \in [Fetches -> {0, 1}]
  BY <1>2 DEF Web!Obeys, WebInv, WebType
<1>6. WebType'
  BY <1>3, <1>4, <1>5 DEF WebInv, WebType
<1>7. HopInv(f)'
  <2>1. valid[f] = target[f]
    BY DEF WebInv, HopInv
  <2>2. CASE entry.allows
    BY <2>1, <2>2, <1>2 DEF Web!Obeys, WebInv, WebType, HopInv, Requesting
  <2>3. CASE ~ entry.allows
    BY <2>1, <2>3, <1>2 DEF Web!Obeys, WebInv, WebType, HopInv, Requesting
  <2> QED BY <2>2, <2>3
<1>8. \A g \in Fetches \ {f} :
        /\ at'[g] = at[g] /\ valid'[g] = valid[g] /\ target'[g] = target[g]
        /\ rules'[g] = rules[g] /\ agents'[g] = agents[g]
  BY DEF Web!Obeys, WebInv, WebType
<1> QED BY <1>6, <1>7, <1>8, OtherHops

\* The oldest entry makes room; the others keep their order.
LEMMA RoomIsMade ==
  ASSUME WebType, CacheInv
  PROVE  /\ Web!Room \in Seq(Entries) /\ Len(Web!Room) < CacheMax
         /\ \A i, j \in DOMAIN Web!Room : Web!Room[i].host = Web!Room[j].host => i = j
<1>1. CacheMax \in Nat \ {0}
  BY PartsAssumption DEF Web!FetchAssumption
<1>2. CASE Len(cache) >= CacheMax
  <2>1. cache # <<>> /\ Len(cache) \in Nat /\ Len(cache) = CacheMax
    BY <1>1, <1>2 DEF WebType, CacheInv
  <2>2. /\ Tail(cache) \in Seq(Entries) /\ Len(Tail(cache)) = Len(cache) - 1
        /\ \A i \in 1..Len(Tail(cache)) : Tail(cache)[i] = cache[i + 1]
    BY <2>1 DEF WebType
  <2>3. \A i, j \in 1..Len(Tail(cache)) :
          Tail(cache)[i].host = Tail(cache)[j].host => i = j
    <3> SUFFICES ASSUME NEW i \in 1..Len(Tail(cache)), NEW j \in 1..Len(Tail(cache)),
                        Tail(cache)[i].host = Tail(cache)[j].host
                 PROVE  i = j
      OBVIOUS
    <3>1. i + 1 \in DOMAIN cache /\ j + 1 \in DOMAIN cache
      BY <2>1, <2>2 DEF WebType
    <3>2. cache[i + 1].host = cache[j + 1].host
      BY <2>2
    <3>3. i + 1 = j + 1
      BY <3>1, <3>2 DEF CacheInv
    <3> QED BY <3>3
  <2>4. DOMAIN Tail(cache) = 1..Len(Tail(cache))
    BY <2>2
  <2> QED BY <1>1, <1>2, <2>1, <2>2, <2>3, <2>4 DEF Web!Room
<1>3. CASE Len(cache) < CacheMax
  BY <1>1, <1>3 DEF Web!Room, WebType, CacheInv
<1> QED BY <1>1, <1>2, <1>3 DEF WebType

LEMMA EntryStored ==
  ASSUME WebType, CacheInv, NEW entry \in Entries, cache' = Web!Stored(entry)
  PROVE  cache' \in Seq(Entries) /\ CacheInv'
<1> DEFINE room == Web!Room
           n == Len(room)
<1>1. /\ room \in Seq(Entries) /\ n < CacheMax /\ n \in Nat /\ DOMAIN room = 1..n
      /\ \A i, j \in 1..n : room[i].host = room[j].host => i = j
      /\ CacheMax \in Nat
  BY RoomIsMade, PartsAssumption DEF Web!FetchAssumption
<1>2. cache' = IF \E i \in 1..n : room[i].host = entry.host
               THEN [i \in 1..n |-> IF room[i].host = entry.host THEN entry ELSE room[i]]
               ELSE Append(room, entry)
  BY <1>1 DEF Web!Stored
<1>3. \A i \in 1..n : room[i] \in Entries
  BY <1>1
<1> HIDE DEF room, n
<1>4. CASE \E i \in 1..n : room[i].host = entry.host
  <2>1. cache' = [i \in 1..n |-> IF room[i].host = entry.host THEN entry ELSE room[i]]
    BY <1>2, <1>4
  <2>2. cache' \in Seq(Entries) /\ Len(cache') = n /\ DOMAIN cache' = 1..n
    BY <1>1, <1>3, <2>1
  <2>3. \A i \in 1..n : cache'[i].host = room[i].host
    BY <2>1
  <2> QED BY <1>1, <2>2, <2>3 DEF CacheInv
<1>5. CASE ~ \E i \in 1..n : room[i].host = entry.host
  <2>1. cache' = Append(room, entry)
    BY <1>2, <1>5
  <2>2. /\ cache' \in Seq(Entries) /\ Len(cache') = n + 1 /\ DOMAIN cache' = 1..(n + 1)
        /\ \A i \in 1..n : cache'[i] = room[i]
        /\ cache'[n + 1] = entry
    BY <1>1, <2>1 DEF n
  <2>3. \A i, j \in 1..(n + 1) : cache'[i].host = cache'[j].host => i = j
    <3> SUFFICES ASSUME NEW i \in 1..(n + 1), NEW j \in 1..(n + 1),
                        cache'[i].host = cache'[j].host
                 PROVE  i = j
      OBVIOUS
    <3>1. CASE i \in 1..n /\ j \in 1..n
      BY <1>1, <2>2, <3>1
    <3>2. CASE i = n + 1 \/ j = n + 1
      BY <1>1, <1>5, <2>2, <3>2
    <3> QED BY <1>1, <3>1, <3>2
  <2> QED BY <1>1, <2>2, <2>3 DEF CacheInv
<1> QED BY <1>4, <1>5

\* The steps of one fetch.
LEMMA FetchStep ==
  ASSUME WebInv, NEW f \in Fetches,
         \/ Web!Validates(f) \/ Web!Remembers(f) \/ Web!AsksRobots(f) \/ Web!RobotsAnswer(f)
         \/ Web!PageFails(f) \/ Web!Redirects(f) \/ Web!PageAnswers(f) \/ Web!Reads(f)
         \/ Web!Aborts(f)
  PROVE  WebInv'
<1> USE DEF WebInv
<1>1. CASE Web!Remembers(f)
  <2>1. PICK i \in Web!Cached(target[f]) : Web!Obeys(f, cache[i])
    BY <1>1 DEF Web!Remembers
  <2>2. cache[i] \in Entries /\ cache[i].host = target[f]
    BY DEF Web!Cached, WebType
  <2>3. CacheInv' /\ cache' \in Seq(Entries)
    BY <1>1 DEF Web!Remembers, CacheInv, WebType
  <2> QED BY <1>1, <2>1, <2>2, <2>3, ObeysStep DEF Web!Remembers
<1>2. CASE Web!RobotsAnswer(f)
  <2>1. PICK allows \in BOOLEAN :
          LET entry == [host |-> target[f], allows |-> allows, at |-> asked[f]] IN
          Web!Obeys(f, entry) /\ cache' = Web!Stored(entry)
    BY <1>2 DEF Web!RobotsAnswer
  <2> DEFINE entry == [host |-> target[f], allows |-> allows, at |-> asked[f]]
  <2>2. entry \in Entries /\ entry.host = target[f]
    BY DEF Entries, WebType
  <2>3. Web!Obeys(f, entry) /\ cache' = Web!Stored(entry)
    BY <2>1
  <2> HIDE DEF entry
  <2>4. cache' \in Seq(Entries) /\ CacheInv'
    BY <2>2, <2>3, EntryStored
  <2> QED BY <1>2, <2>2, <2>3, <2>4, ObeysStep DEF Web!RobotsAnswer
<1>3. ASSUME UNCHANGED <<clock, cache>>, WebType', HopInv(f)',
             \A g \in Fetches \ {f} :
               /\ at'[g] = at[g] /\ valid'[g] = valid[g] /\ target'[g] = target[g]
               /\ rules'[g] = rules[g] /\ agents'[g] = agents[g]
      PROVE  WebInv'
  <2>1. CacheInv'
    BY <1>3 DEF CacheInv
  <2> QED BY <1>3, <2>1, OtherHops
<1>4. HopInv(f)
  OBVIOUS
<1>5. CASE Web!Validates(f)
  <2>1. WebType'
    BY <1>5 DEF Web!Validates, Web!Goes, Web!Ends, WebType
  <2>2. HopInv(f)'
    BY <1>4, <1>5 DEF Web!Validates, Web!Goes, WebType, HopInv, Requesting
  <2> QED BY <1>3, <1>5, <2>1, <2>2 DEF Web!Validates, Web!Goes, WebType
<1>6. CASE Web!AsksRobots(f)
  <2>1. WebType'
    BY <1>6 DEF Web!AsksRobots, Web!Goes, Web!Ends, WebType
  <2>2. HopInv(f)'
    BY <1>4, <1>6 DEF Web!AsksRobots, Web!Goes, WebType, HopInv, Requesting
  <2> QED BY <1>3, <1>6, <2>1, <2>2 DEF Web!AsksRobots, Web!Goes, WebType
<1>7. CASE Web!PageFails(f)
  <2>1. agents[f] = 1
    BY <1>4, <1>7 DEF Web!PageFails, Web!Goes, HopInv, Requesting
  <2>2. WebType'
    BY <1>7, <2>1 DEF Web!PageFails, Web!Goes, Web!Ends, Web!Destroyed, WebType
  <2>3. HopInv(f)'
    BY <1>7, <2>1 DEF Web!PageFails, Web!Goes, Web!Destroyed, WebType, HopInv, Requesting
  <2> QED BY <1>3, <1>7, <2>2, <2>3 DEF Web!PageFails, Web!Goes, WebType
<1>11. CASE Web!Reads(f)
  <2>1. agents[f] = 1
    BY <1>4, <1>11 DEF Web!Reads, Web!Goes, HopInv, Requesting
  <2>4. /\ at' = [at EXCEPT ![f] = "returned"] \/ at' = [at EXCEPT ![f] = "failed"]
        /\ agents' = [agents EXCEPT ![f] = 0]
        /\ UNCHANGED <<clock, cache, target, hops, valid, rules, asked, aborted>>
    BY <1>11, <2>1 DEF Web!Reads, Web!Goes, Web!Destroyed
  <2>2. WebType'
    BY <2>4 DEF Web!Ends, WebType
  <2>3. HopInv(f)'
    BY <1>11, <2>1 DEF Web!Reads, Web!Goes, Web!Destroyed, WebType, HopInv, Requesting
  <2> QED BY <1>3, <1>11, <2>2, <2>3 DEF Web!Reads, Web!Goes, WebType
<1>8. CASE Web!Redirects(f)
  <2>1. agents[f] = 1
    BY <1>4, <1>8 DEF Web!Redirects, Web!Goes, HopInv, Requesting
  <2>2. PICK host \in Hosts : target' = [target EXCEPT ![f] = host]
    BY <1>8 DEF Web!Redirects
  <2>3. WebType'
    BY <1>8, <2>1, <2>2 DEF Web!Redirects, Web!Goes, Web!Ends, Web!Destroyed, WebType
  <2>4. HopInv(f)'
    BY <1>8, <2>1 DEF Web!Redirects, Web!Goes, Web!Destroyed, WebType, HopInv, Requesting
  <2> QED BY <1>3, <1>8, <2>2, <2>3, <2>4 DEF Web!Redirects, Web!Goes, WebType
<1>9. CASE Web!PageAnswers(f)
  <2>1. WebType'
    BY <1>9 DEF Web!PageAnswers, Web!Goes, Web!Ends, WebType
  <2>2. HopInv(f)'
    BY <1>4, <1>9 DEF Web!PageAnswers, Web!Goes, WebType, HopInv, Requesting
  <2> QED BY <1>3, <1>9, <2>1, <2>2 DEF Web!PageAnswers, Web!Goes, WebType
<1>10. CASE Web!Aborts(f)
  <2>1. WebType'
    BY <1>10 DEF Web!Aborts, WebType
  <2>2. HopInv(f)'
    BY <1>4, <1>10 DEF Web!Aborts, HopInv, Requesting
  <2> QED BY <1>3, <1>10, <2>1, <2>2 DEF Web!Aborts
<1> QED BY <1>1, <1>2, <1>5, <1>6, <1>7, <1>8, <1>9, <1>10, <1>11

LEMMA WebStep ==
  ASSUME WebInv, Web!Next \/ UNCHANGED webVars
  PROVE  WebInv'
<1> USE DEF WebInv
<1>1. CASE UNCHANGED webVars
  BY <1>1 DEF webVars, WebType, HopInv, Requesting, CacheInv
<1>2. CASE Web!Ticks
  BY <1>2 DEF Web!Ticks, Web!fetchVars, WebType, HopInv, Requesting, CacheInv
<1> QED BY <1>1, <1>2, FetchStep DEF Web!Next

LEMMA WebOrderly == WebInv => FetchesOrderly
BY DEF WebInv, HopInv, Requesting, CacheInv, FetchesOrderly, Web!FetchesOrderly

-----------------------------------------------------------------------------
(* Accounts (UserProfile)                                                  *)

Uid == Tokens \cup {Profile!NoToken}
Known == Reports \cup {Profile!None}
Answer == [from : {"nothing", "apple", "client"}, at : Nat, active : BOOLEAN]
Caller ==
  [pc : {"idle", "token", "check", "find", "write", "save", "apple", "row", "last", "answered"},
   kind : {"create", "sync", "session"}, terms : BOOLEAN, report : Known, token : Uid,
   stored : Known, answer : Answer, newest : Nat, verified : BOOLEAN, hour : Nat]

ProfileType ==
  /\ account \in [token : Uid, terms : BOOLEAN, report : Known, exists : BOOLEAN]
  /\ tombstone \in BOOLEAN /\ apple \in BOOLEAN
  /\ caller \in [Callers -> Caller]
  /\ hour \in Nat

\* What has been told is the token the row has. A row that is gone was purged
\* after the tombstone.
AccountInv ==
  /\ account.exists => account.terms
  /\ ~ account.exists => account = Profile!NoAccount
  /\ told = {} \/ \E t \in Tokens :
       told = {t} /\ (tombstone \/ account.exists) /\ (account.exists => account.token = t)

\* What a request noted when it came is still true, unless a tombstone has been
\* written by then; it reads the row only when it has found nothing of Apple's.
Noted(own) ==
  /\ tombstone \/
       /\ own.newest <= account.report.at
       /\ own.verified => apple /\ own.pc # "row"
  /\ own.hour <= hour

\* A request that goes on has found the row, or may create it; the token it has
\* read is the row's.
Found(own) ==
  tombstone \/
    /\ own.pc \in {"save", "apple", "row"} => account.exists
    /\ own.pc = "write" =>
         account.exists \/ (own.kind # "session" /\ (own.kind = "create" => own.terms))
    /\ own.kind = "session" /\ own.pc \in {"apple", "row", "last"} =>
         account.exists /\ own.token = account.token /\ own.token # Profile!NoToken

\* The row has the request's own report or a newer one, from the update on.
Reported(own) ==
  /\ own.kind = "session" => own.report = Profile!None /\ own.pc # "save"
  /\ own.pc \in {"token", "check", "find", "write", "save", "row"} =>
       own.stored = Profile!None
  /\ own.pc \in {"apple", "row"} =>
       IF own.stored = Profile!None
         THEN tombstone \/ own.report.at <= account.report.at
         ELSE own.stored = own.report /\ (tombstone \/ own.newest <= own.report.at)

Ordered(own) ==
  /\ own.answer # Profile!Blank
  /\ \/ own.answer.from = "apple"
     \/ /\ ~ own.verified
        /\ own.answer.at >= own.newest /\ own.answer.at >= own.report.at
        /\ own.answer.active => own.hour <= own.answer.at + MaxAge

Answered(own) ==
  /\ own.pc = "last" => tombstone \/ Ordered(own)
  /\ own.pc = "answered" => Ordered(own)

CallerInv(own) == Noted(own) /\ Found(own) /\ Reported(own) /\ Answered(own)

ProfileInv == ProfileType /\ AccountInv /\ \A c \in Callers : CallerInv(caller[c])

LEMMA KnownReports ==
  /\ \A r \in Known : r.at \in Nat
  /\ Profile!None \in Known /\ Profile!None.at = 0
  /\ Profile!NoToken \in Uid /\ Profile!NoToken \notin Tokens
BY PartsAssumption DEF Profile!ProfileAssumption, Known, Uid, Profile!None

LEMMA AnswerTypes ==
  /\ Profile!Blank \in Answer /\ Profile!FromApple \in Answer
  /\ Profile!FromApple # Profile!Blank /\ Profile!FromApple.from = "apple"
  /\ \A r \in Known : Profile!FromReport(r) \in Answer
  /\ \A r \in Known : Profile!FromReport(r) # Profile!Blank
  /\ \A r \in Known : Profile!FromReport(r).at = r.at
<1>1. \A r \in Known : Profile!Subscribed(r) \in BOOLEAN
  BY DEF Profile!Subscribed
<1> QED BY <1>1, KnownReports DEF Answer, Profile!Blank, Profile!FromApple, Profile!FromReport

LEMMA RowTypes ==
  \A t \in Uid, accepted \in BOOLEAN, report \in Known, exists \in BOOLEAN :
    [token |-> t, terms |-> accepted, report |-> report, exists |-> exists]
      \in [token : Uid, terms : BOOLEAN, report : Known, exists : BOOLEAN]
OBVIOUS

LEMMA NobodyType == Profile!Nobody \in Caller
BY KnownReports, AnswerTypes DEF Profile!Nobody, Caller

LEMMA NobodyInv ==
  ASSUME ProfileType
  PROVE  CallerInv(Profile!Nobody)
<1>1. account.report.at \in Nat /\ hour \in Nat
  BY KnownReports DEF ProfileType
<1>2. /\ Profile!Nobody.pc = "idle" /\ Profile!Nobody.newest = 0 /\ Profile!Nobody.hour = 0
      /\ ~ Profile!Nobody.verified /\ Profile!Nobody.report = Profile!None
  BY DEF Profile!Nobody
<1> HIDE DEF Profile!Nobody
<1>3. Noted(Profile!Nobody)
  BY <1>1, <1>2 DEF Noted
<1>4. Found(Profile!Nobody) /\ Reported(Profile!Nobody) /\ Answered(Profile!Nobody)
  BY <1>2 DEF Found, Reported, Answered
<1> QED BY <1>3, <1>4 DEF CallerInv

LEMMA ProfileInitially == Profile!Init => ProfileInv
<1> SUFFICES ASSUME Profile!Init PROVE ProfileInv
  OBVIOUS
<1>1. ProfileType
  <2>1. \/ account = [token |-> Profile!NoToken, terms |-> FALSE,
                      report |-> Profile!None, exists |-> FALSE]
        \/ account = [token |-> Profile!NoToken, terms |-> TRUE,
                      report |-> Profile!None, exists |-> TRUE]
    BY Zenon DEF Profile!Init, Profile!NoAccount, Profile!Fresh
  <2>2. account \in [token : Uid, terms : BOOLEAN, report : Known, exists : BOOLEAN]
    BY <2>1, RowTypes, KnownReports
  <2>3. /\ tombstone = FALSE /\ apple = FALSE /\ hour = 1
        /\ caller = [c \in Callers |-> Profile!Nobody]
    BY Zenon DEF Profile!Init
  <2> QED BY <2>2, <2>3, NobodyType DEF ProfileType
<1>2. AccountInv
  BY DEF Profile!Init, AccountInv, Profile!NoAccount, Profile!Fresh
<1>3. \A c \in Callers : caller[c] = Profile!Nobody
  BY DEF Profile!Init
<1> QED BY <1>1, <1>2, <1>3, NobodyInv DEF ProfileInv

\* Until a tombstone is written the row stays, with its token, and its report and
\* Apple's state only become newer.
Grows ==
  /\ tombstone => tombstone'
  /\ hour <= hour'
  /\ ~ tombstone' =>
       /\ account.exists => account'.exists
       /\ account.token # Profile!NoToken => account'.token = account.token
       /\ account.report.at <= account'.report.at
       /\ apple => apple'

\* What is known of a request survives the steps of the others.
LEMMA CallerStable ==
  ASSUME ProfileType, ProfileType', Grows, NEW own \in Caller, CallerInv(own)
  PROVE  CallerInv(own)'
<1>1. /\ account.report.at \in Nat /\ (account.report.at)' \in Nat /\ hour \in Nat
      /\ hour' \in Nat
  BY KnownReports DEF ProfileType
<1>2. own.newest \in Nat /\ own.hour \in Nat /\ own.report.at \in Nat
  BY KnownReports DEF Caller
<1>3. Noted(own)'
  BY <1>1, <1>2 DEF CallerInv, Noted, Grows
<1>4. Found(own)'
  BY DEF CallerInv, Found, Grows
<1>5. Reported(own)'
  BY <1>1, <1>2 DEF CallerInv, Reported, Grows
<1>6. Answered(own)'
  BY DEF CallerInv, Answered, Ordered, Grows
<1> QED BY <1>3, <1>4, <1>5, <1>6 DEF CallerInv

LEMMA CallersStable ==
  ASSUME ProfileInv, ProfileType', AccountInv', Grows, UNCHANGED caller
  PROVE  ProfileInv'
BY CallerStable DEF ProfileInv, ProfileType

LEMMA CallerActs ==
  ASSUME ProfileInv, ProfileType', AccountInv', Grows, NEW c \in Callers, NEW own,
         caller' = [caller EXCEPT ![c] = own], CallerInv(own)'
  PROVE  ProfileInv'
<1> SUFFICES ASSUME NEW d \in Callers PROVE CallerInv(caller[d])'
  BY DEF ProfileInv
<1>1. CASE d = c
  BY <1>1 DEF ProfileInv, ProfileType
<1>2. CASE d # c
  <2>1. caller'[d] = caller[d] /\ caller[d] \in Caller /\ CallerInv(caller[d])
    BY <1>2 DEF ProfileInv, ProfileType
  <2>2. PICK other \in Caller : other = caller[d]
    BY <2>1
  <2>3. CallerInv(other)'
    BY <2>1, <2>2, CallerStable DEF ProfileInv
  <2> QED BY <2>1, <2>2, <2>3
<1> QED BY <1>1, <1>2

\* A step that changes only the request of its connection.
LEMMA CallerMoves ==
  ASSUME ProfileInv, NEW c \in Callers, NEW own \in Caller, CallerInv(own),
         caller' = [caller EXCEPT ![c] = own],
         UNCHANGED <<account, tombstone, apple, told, hour>>
  PROVE  ProfileInv'
<1>1. ProfileType' /\ AccountInv'
  BY DEF ProfileInv, ProfileType, AccountInv
<1>2. Grows
  BY KnownReports DEF Grows, ProfileInv, ProfileType
<1>3. CallerInv(own)'
  BY DEF CallerInv, Noted, Found, Reported, Answered
<1> QED BY <1>1, <1>2, <1>3, CallerActs

-----------------------------------------------------------------------------
(* Requests                                                                *)

LEMMA ReadsStep ==
  ASSUME ProfileInv, NEW c \in Callers,
         \/ Profile!Arrives(c) \/ Profile!Authenticates(c) \/ Profile!ChecksDeletion(c)
         \/ Profile!Finds(c) \/ Profile!Leaves(c)
  PROVE  ProfileInv'
<1> DEFINE own == caller[c]
<1>1. own \in Caller /\ CallerInv(own) /\ ProfileType
  BY DEF ProfileInv, ProfileType
<1>2. UNCHANGED <<account, tombstone, apple, told, hour>>
  BY DEF Profile!Arrives, Profile!Authenticates, Profile!ChecksDeletion, Profile!Finds,
         Profile!Leaves
<1>3. ASSUME Profile!Refused(c)
      PROVE  ProfileInv'
  BY <1>1, <1>2, <1>3, NobodyType, NobodyInv, CallerMoves DEF Profile!Refused
<1>4. CASE Profile!Arrives(c)
  <2>1. PICK ask \in Asks[c] :
          caller' = [caller EXCEPT ![c] =
            [Profile!Nobody EXCEPT !.pc = "token", !.kind = ask.kind, !.terms = ask.terms,
                                   !.report = ask.report, !.newest = account.report.at,
                                   !.verified = apple, !.hour = hour]]
    BY <1>4 DEF Profile!Arrives
  <2>2. /\ ask.kind \in {"create", "sync", "session"} /\ ask.terms \in BOOLEAN
        /\ ask.report \in Known /\ (ask.kind = "session" => ask.report = Profile!None)
    BY PartsAssumption DEF Profile!ProfileAssumption, Known
  <2> DEFINE new == [Profile!Nobody EXCEPT !.pc = "token", !.kind = ask.kind,
                       !.terms = ask.terms, !.report = ask.report,
                       !.newest = account.report.at, !.verified = apple, !.hour = hour]
  <2>3. /\ account.report.at \in Nat /\ apple \in BOOLEAN /\ hour \in Nat
    BY <1>1, KnownReports DEF ProfileType
  <2>4. Profile!Nobody.stored = Profile!None
    BY DEF Profile!Nobody
  <2>5. /\ new \in Caller /\ new.pc = "token" /\ new.kind = ask.kind
        /\ new.report = ask.report /\ new.newest = account.report.at
        /\ new.verified = apple /\ new.hour = hour /\ new.stored = Profile!None
    BY <2>2, <2>3, <2>4, NobodyType DEF Caller
  <2>6. caller' = [caller EXCEPT ![c] = new]
    BY <2>1
  <2> HIDE DEF new
  <2>7. Noted(new)
    BY <2>3, <2>5 DEF Noted
  <2>8. Found(new) /\ Reported(new) /\ Answered(new)
    BY <2>2, <2>5 DEF Found, Reported, Answered
  <2> QED BY <1>2, <2>5, <2>6, <2>7, <2>8, CallerMoves DEF CallerInv
<1>5. ASSUME NEW to \in {"check", "find", "write", "save", "apple"}, Profile!Goes(c, to),
             own.pc \in {"token", "check", "find"},
             to = "save" => own.kind # "session",
             to = "write" => tombstone \/ account.exists \/
                             (own.kind # "session" /\ (own.kind = "create" => own.terms)),
             to \in {"save", "apple"} => account.exists /\ own.kind # "session",
             to = "apple" => own.report = Profile!None
      PROVE  ProfileInv'
  <2> DEFINE new == [own EXCEPT !.pc = to]
  <2>1. /\ new \in Caller /\ new.pc = to /\ new.kind = own.kind /\ new.terms = own.terms
        /\ new.report = own.report /\ new.newest = own.newest /\ new.token = own.token
        /\ new.verified = own.verified /\ new.hour = own.hour /\ new.stored = own.stored
    BY <1>1, <1>5 DEF Caller
  <2>2. caller' = [caller EXCEPT ![c] = new]
    BY <1>5 DEF Profile!Goes
  <2>3. account.report.at \in Nat
    BY <1>1, KnownReports DEF ProfileType
  <2> HIDE DEF new
  <2>4. Noted(new) /\ Answered(new)
    BY <1>1, <1>5, <2>1 DEF CallerInv, Noted, Answered
  <2>5. Found(new)
    BY <1>1, <1>5, <2>1 DEF CallerInv, Found
  <2>6. Reported(new)
    BY <1>1, <1>5, <2>1, <2>3, KnownReports DEF CallerInv, Reported
  <2> QED BY <1>2, <2>1, <2>2, <2>4, <2>5, <2>6, CallerMoves DEF CallerInv
<1>6. CASE Profile!Authenticates(c)
  BY <1>3, <1>5, <1>6 DEF Profile!Authenticates, Profile!At
<1>7. CASE Profile!ChecksDeletion(c)
  BY <1>3, <1>5, <1>7, <1>1 DEF Profile!ChecksDeletion, Profile!At, Caller
<1>8. CASE Profile!Finds(c)
  <2>1. CASE own.kind = "create"
    BY <1>5, <1>8, <2>1 DEF Profile!Finds, Profile!At
  <2>2. CASE own.kind = "sync" /\ account.exists
    BY <1>5, <1>8, <2>2 DEF Profile!Finds, Profile!At, Profile!HasReport
  <2>3. CASE own.kind = "session" /\ account.exists
    <3> DEFINE to == IF account.token = Profile!NoToken THEN "write" ELSE "apple"
               new == [own EXCEPT !.pc = to, !.token = account.token]
    <3>1. account.token \in Uid /\ account.report.at \in Nat
      BY <1>1, KnownReports DEF ProfileType
    <3>2. /\ new \in Caller /\ new.pc = to /\ new.kind = own.kind /\ new.terms = own.terms
          /\ new.report = own.report /\ new.newest = own.newest /\ new.token = account.token
          /\ new.verified = own.verified /\ new.hour = own.hour /\ new.stored = own.stored
      BY <1>1, <3>1 DEF Caller
    <3>3. caller' = [caller EXCEPT ![c] = new] /\ own.pc = "find"
      BY <1>8, <2>3 DEF Profile!Finds, Profile!At
    <3>4. to \in {"write", "apple"} /\ (to = "apple" <=> account.token # Profile!NoToken)
      OBVIOUS
    <3> HIDE DEF new, to
    <3>5. Noted(new) /\ Answered(new)
      BY <1>1, <3>2, <3>4 DEF CallerInv, Noted, Answered
    <3>6. Found(new)
      BY <2>3, <3>2, <3>4 DEF Found
    <3>7. Reported(new)
      BY <1>1, <2>3, <3>1, <3>2, <3>3, <3>4, KnownReports DEF CallerInv, Reported
    <3> QED BY <1>2, <3>2, <3>3, <3>5, <3>6, <3>7, CallerMoves DEF CallerInv
  <2>4. CASE /\ own.kind # "create" /\ ~ (own.kind = "sync" /\ account.exists)
             /\ ~ (own.kind = "session" /\ account.exists)
    BY <1>3, <1>8, <2>4 DEF Profile!Finds
  <2> QED BY <2>1, <2>2, <2>3, <2>4
<1>9. CASE Profile!Leaves(c)
  BY <1>3, <1>9 DEF Profile!Leaves
<1> QED BY <1>4, <1>6, <1>7, <1>8, <1>9

\* The row is written: by ensureUserProfile's upsert, by POST's, by the update.
LEMMA WritesStep ==
  ASSUME ProfileInv, NEW c \in Callers,
         Profile!SessionWrites(c) \/ Profile!CreateWrites(c) \/ Profile!Saves(c)
  PROVE  ProfileInv'
<1> DEFINE own == caller[c]
<1>1. /\ own \in Caller /\ CallerInv(own) /\ ProfileType /\ AccountInv
      /\ account.report \in Known /\ account.report.at \in Nat
      /\ account.token \in Uid /\ account.exists \in BOOLEAN
  BY KnownReports DEF ProfileInv, ProfileType
<1>2. UNCHANGED <<tombstone, apple, told, hour>>
  BY DEF Profile!SessionWrites, Profile!CreateWrites, Profile!Saves
<1>3. CASE tombstone /\ (Profile!SessionWrites(c) \/ Profile!CreateWrites(c))
  <2>1. UNCHANGED account /\ caller' = [caller EXCEPT ![c] = Profile!Nobody]
    BY <1>3 DEF Profile!SessionWrites, Profile!CreateWrites, Profile!Refused
  <2> QED BY <1>1, <1>2, <2>1, NobodyType, NobodyInv, CallerMoves
<1>4. ASSUME NEW new \in Caller, caller' = [caller EXCEPT ![c] = new],
             account' \in [token : Uid, terms : BOOLEAN, report : Known, exists : BOOLEAN],
             AccountInv', CallerInv(new)',
             ~ tombstone => account'.exists /\ account.report.at <= account'.report.at,
             account.token # Profile!NoToken => account'.token = account.token,
             account.exists => account'.exists
      PROVE  ProfileInv'
  <2>1. ProfileType'
    BY <1>1, <1>2, <1>4 DEF ProfileType
  <2>2. Grows
    BY <1>1, <1>2, <1>4 DEF Grows, ProfileType
  <2> QED BY <1>4, <2>1, <2>2, CallerActs
<1>5. CASE ~ tombstone /\ Profile!SessionWrites(c)
  <2>1. account.exists
    BY <1>1, <1>5 DEF Profile!SessionWrites, Profile!At, CallerInv, Found
  <2>2. PICK t \in Tokens : account' = [account EXCEPT !.token = Profile!KeptToken(@, t)]
    BY <1>5, <2>1 DEF Profile!SessionWrites
  <2>3. /\ account'.token = Profile!KeptToken(account.token, t)
        /\ account'.terms = account.terms /\ account'.exists
        /\ account'.report = account.report
        /\ account' \in [token : Uid, terms : BOOLEAN, report : Known, exists : BOOLEAN]
    BY <1>1, <2>1, <2>2 DEF ProfileType, Profile!KeptToken, Uid
  <2>4. /\ account'.token \in Uid /\ account'.token # Profile!NoToken
        /\ (account.token # Profile!NoToken => account'.token = account.token)
    BY <1>1, <2>3, KnownReports DEF Profile!KeptToken, Uid
  <2>a. PICK new : new = [own EXCEPT !.pc = "apple", !.token = account'.token]
    OBVIOUS
  <2>5. caller' = [caller EXCEPT ![c] = new] /\ own.pc = "write" /\ own.kind = "session"
    BY <1>5, <2>a DEF Profile!SessionWrites, Profile!At
  <2>6. /\ new \in Caller /\ new.pc = "apple" /\ new.kind = own.kind /\ new.terms = own.terms
        /\ new.report = own.report /\ new.newest = own.newest /\ new.token = account'.token
        /\ new.verified = own.verified /\ new.hour = own.hour /\ new.stored = own.stored
    BY <1>1, <2>4, <2>a DEF Caller
  <2>7. AccountInv'
    BY <1>1, <1>2, <2>1, <2>3, <2>4, KnownReports DEF AccountInv
  <2>8. Noted(new)' /\ Answered(new)'
    BY <1>1, <1>2, <2>3, <2>6 DEF CallerInv, Noted, Answered
  <2>9. Found(new)' /\ Reported(new)'
    BY <1>1, <2>3, <2>4, <2>5, <2>6, KnownReports DEF CallerInv, Found, Reported
  <2>10. CallerInv(new)'
    BY <2>8, <2>9 DEF CallerInv
  <2>11. account'.exists /\ account.report.at <= account'.report.at
    BY <1>1, <2>3
  <2> QED BY <1>4, <2>3, <2>4, <2>5, <2>6, <2>7, <2>10, <2>11
<1>6. CASE ~ tombstone /\ Profile!CreateWrites(c)
  <2>1. own.pc = "write" /\ own.kind = "create" /\ (account.exists \/ own.terms)
    BY <1>1, <1>6 DEF Profile!CreateWrites, Profile!At, CallerInv, Found
  <2>2. account' = IF account.exists THEN account
                   ELSE [token |-> Profile!NoToken, terms |-> own.terms,
                         report |-> Profile!None, exists |-> TRUE]
    BY <1>6 DEF Profile!CreateWrites, Profile!Fresh
  <2>3. own.terms \in BOOLEAN
    BY <1>1 DEF Caller
  <2>4. /\ account' \in [token : Uid, terms : BOOLEAN, report : Known, exists : BOOLEAN]
        /\ account'.exists /\ account'.terms
        /\ (account.exists => account' = account)
        /\ (~ account.exists => account.report.at = 0 /\ account'.report.at = 0
                                /\ account.token = Profile!NoToken)
    <3>1. CASE account.exists
      BY <1>1, <2>2, <3>1 DEF ProfileType, AccountInv
    <3>2. CASE ~ account.exists
      <4>1. account = Profile!NoAccount
        BY <1>1, <3>2 DEF AccountInv
      <4>2. account.report = Profile!None /\ account.token = Profile!NoToken
        BY <4>1 DEF Profile!NoAccount
      <4>3. account' = [token |-> Profile!NoToken, terms |-> own.terms,
                        report |-> Profile!None, exists |-> TRUE]
        BY <2>2, <3>2
      <4>4. account' \in [token : Uid, terms : BOOLEAN, report : Known, exists : BOOLEAN]
        BY <2>3, <4>3, RowTypes, KnownReports
      <4> QED BY <2>1, <3>2, <4>2, <4>3, <4>4, KnownReports
    <3> QED BY <3>1, <3>2
  <2>5. AccountInv'
    BY <1>1, <1>2, <1>6, <2>4 DEF AccountInv
  <2>a. PICK to : to = IF Profile!HasReport(c) THEN "save" ELSE "apple"
    OBVIOUS
  <2>b. PICK new : new = [own EXCEPT !.pc = to]
    OBVIOUS
  <2>8. to \in {"save", "apple"} /\ (to = "apple" => own.report = Profile!None)
    BY <2>a DEF Profile!HasReport
  <2>6. caller' = [caller EXCEPT ![c] = new]
    BY <1>6, <2>a, <2>b DEF Profile!CreateWrites, Profile!Goes
  <2>7. /\ new \in Caller /\ new.pc = to /\ new.kind = own.kind /\ new.terms = own.terms
        /\ new.report = own.report /\ new.newest = own.newest
        /\ new.verified = own.verified /\ new.hour = own.hour /\ new.stored = own.stored
    BY <1>1, <2>8, <2>b DEF Caller
  <2>9. account'.report.at >= account.report.at /\ account'.report.at \in Nat
    BY <1>1, <2>4
  <2>10. Noted(new)' /\ Answered(new)'
    <3>1. own.newest \in Nat
      BY <1>1 DEF Caller
    <3> QED BY <1>1, <1>2, <1>6, <2>7, <2>8, <2>9, <3>1 DEF CallerInv, Noted, Answered
  <2>11. Found(new)' /\ Reported(new)'
    BY <1>1, <2>1, <2>4, <2>7, <2>8, <2>9, KnownReports DEF CallerInv, Found, Reported
  <2> QED BY <1>1, <1>4, <2>4, <2>5, <2>6, <2>7, <2>9, <2>10, <2>11 DEF CallerInv
<1>7. CASE Profile!Saves(c)
  <2> DEFINE stores == account.exists /\ Profile!Newer(own.report)
  <2>a. PICK new : new = [own EXCEPT !.pc = "apple",
                                     !.stored = IF stores THEN own.report ELSE Profile!None]
    OBVIOUS
  <2>1. /\ account' = IF stores THEN [account EXCEPT !.report = own.report] ELSE account
        /\ caller' = [caller EXCEPT ![c] = new] /\ own.pc = "save"
    BY <1>7, <2>a DEF Profile!Saves, Profile!At
  <2>2. own.report \in Known /\ own.report.at \in Nat /\ own.newest \in Nat
    BY <1>1, KnownReports DEF Caller
  <2>3. /\ account' \in [token : Uid, terms : BOOLEAN, report : Known, exists : BOOLEAN]
        /\ account'.token = account.token /\ account'.exists = account.exists
        /\ account'.terms = account.terms
        /\ account'.report = (IF stores THEN own.report ELSE account.report)
    BY <1>1, <2>1, <2>2 DEF ProfileType
  <2>4. /\ new \in Caller /\ new.pc = "apple" /\ new.kind = own.kind /\ new.terms = own.terms
        /\ new.report = own.report /\ new.newest = own.newest
        /\ new.verified = own.verified /\ new.hour = own.hour
        /\ new.stored = (IF stores THEN own.report ELSE Profile!None)
    BY <1>1, <2>2, <2>a, KnownReports DEF Caller
  <2>5. /\ stores => account.exists /\ account.report.at < own.report.at
        /\ account.exists /\ ~ stores => own.report.at <= account.report.at
        /\ stores \in BOOLEAN
    BY <1>1, <2>2 DEF Profile!Newer
  <2>6. ~ tombstone => account.exists
    BY <1>1, <2>1 DEF CallerInv, Found
  <2>7. own.kind # "session"
    BY <1>1, <2>1 DEF CallerInv, Reported
  <2> HIDE DEF stores
  <2>8. account'.report.at >= account.report.at /\ account'.report.at \in Nat
    BY <1>1, <2>2, <2>3, <2>5
  <2>9. AccountInv'
    <3>1. ~ account.exists => account' = account
      BY <2>1, <2>5
    <3> QED BY <1>1, <1>2, <2>3, <3>1 DEF AccountInv
  <2>10. Noted(new)' /\ Answered(new)'
    BY <1>1, <1>2, <2>2, <2>4, <2>8 DEF CallerInv, Noted, Answered
  <2>11. Found(new)'
    BY <1>1, <1>2, <2>3, <2>4, <2>6, <2>7 DEF Found
  <2>12. Reported(new)'
    <3>1. CASE stores
      <4>1. new.stored = own.report /\ account'.report = own.report
        BY <2>3, <2>4, <3>1
      <4>2. tombstone \/ own.newest <= own.report.at
        BY <1>1, <2>2, <2>5, <3>1 DEF CallerInv, Noted
      <4>3. own.report # Profile!None
        BY <1>1, <2>5, <3>1, KnownReports
      <4> QED BY <1>2, <2>4, <2>7, <4>1, <4>2, <4>3 DEF Reported
    <3>2. CASE ~ stores
      BY <1>2, <2>3, <2>4, <2>5, <2>6, <2>7, <3>2 DEF Reported
    <3> QED BY <3>1, <3>2
  <2> QED BY <1>1, <1>4, <2>1, <2>3, <2>4, <2>6, <2>8, <2>9, <2>10, <2>11, <2>12 DEF CallerInv
<1> QED BY <1>3, <1>5, <1>6, <1>7

\* The row or Apple's state is read, and the answer is sent.
LEMMA AnswersStep ==
  ASSUME ProfileInv, NEW c \in Callers,
         Profile!ReadsApple(c) \/ Profile!ReadsRow(c) \/ Profile!Answers(c)
  PROVE  ProfileInv'
<1> DEFINE own == caller[c]
<1>1. /\ own \in Caller /\ CallerInv(own) /\ ProfileType /\ AccountInv
      /\ account.report \in Known /\ account.report.at \in Nat
      /\ own.report.at \in Nat /\ own.newest \in Nat /\ own.hour \in Nat /\ hour \in Nat
      /\ own.stored \in Known /\ own.stored.at \in Nat /\ MaxAge \in Nat /\ Skew \in Nat
  BY KnownReports, PartsAssumption
  DEF ProfileInv, ProfileType, Caller, Profile!ProfileAssumption
<1>2. ASSUME NEW to \in {"row", "last"}, NEW answer \in Answer,
             own.pc \in {"apple", "row"}, UNCHANGED <<account, tombstone, apple, told, hour>>,
             to = "row" => own.stored = Profile!None /\ (tombstone \/ ~ own.verified),
             caller' = [caller EXCEPT ![c] = [own EXCEPT !.pc = to, !.answer = answer]],
             to = "last" /\ ~ tombstone =>
               /\ answer # Profile!Blank
               /\ \/ answer.from = "apple"
                  \/ /\ ~ own.verified
                     /\ answer.at >= own.newest /\ answer.at >= own.report.at
                     /\ answer.active => own.hour <= answer.at + MaxAge
      PROVE  ProfileInv'
  <2>1. PICK new : new = [own EXCEPT !.pc = to, !.answer = answer]
    OBVIOUS
  <2>2. /\ new \in Caller /\ new.pc = to /\ new.kind = own.kind /\ new.terms = own.terms
        /\ new.report = own.report /\ new.newest = own.newest /\ new.token = own.token
        /\ new.verified = own.verified /\ new.hour = own.hour /\ new.stored = own.stored
        /\ new.answer = answer
    BY <1>1, <1>2, <2>1 DEF Caller
  <2>3. Noted(new)
    BY <1>1, <1>2, <2>2 DEF CallerInv, Noted
  <2>4. Found(new)
    BY <1>1, <1>2, <2>2 DEF CallerInv, Found
  <2>5. Reported(new)
    BY <1>1, <1>2, <2>2 DEF CallerInv, Reported
  <2>6. Answered(new)
    BY <1>2, <2>2 DEF Answered, Ordered
  <2> QED BY <1>2, <2>1, <2>2, <2>3, <2>4, <2>5, <2>6, CallerMoves DEF CallerInv
<1>3. \A r \in Known : Profile!FromReport(r).active => own.hour <= r.at + MaxAge
  <2> SUFFICES ASSUME NEW r \in Known, Profile!FromReport(r).active
               PROVE  own.hour <= r.at + MaxAge
    OBVIOUS
  <2>1. hour <= r.at + MaxAge
    BY DEF Profile!FromReport, Profile!Subscribed
  <2>2. own.hour <= hour
    BY <1>1 DEF CallerInv, Noted
  <2> QED BY <1>1, <2>1, <2>2, KnownReports
<1>4. CASE Profile!ReadsApple(c)
  <2>1. own.pc = "apple" /\ UNCHANGED <<account, tombstone, apple, told, hour>>
    BY <1>4 DEF Profile!ReadsApple, Profile!At
  <2>2. CASE ~ apple /\ own.stored = Profile!None
    <3>1. caller' = [caller EXCEPT ![c] = [own EXCEPT !.pc = "row", !.answer = own.answer]]
      <4>1. caller' = [caller EXCEPT ![c] = [own EXCEPT !.pc = "row"]]
        BY <1>4, <2>2 DEF Profile!ReadsApple, Profile!Goes
      <4>2. [own EXCEPT !.pc = "row"] = [own EXCEPT !.pc = "row", !.answer = own.answer]
        BY <1>1 DEF Caller
      <4> QED BY <4>1, <4>2
    <3>2. own.answer \in Answer
      BY <1>1 DEF Caller
    <3>3. tombstone \/ ~ own.verified
      BY <1>1, <2>2 DEF CallerInv, Noted
    <3> QED BY <1>2, <2>1, <2>2, <3>1, <3>2, <3>3
  <2>3. CASE apple
    <3>1. caller' = [caller EXCEPT ![c] =
                      [own EXCEPT !.pc = "last", !.answer = Profile!FromApple]]
      BY <1>4, <2>3 DEF Profile!ReadsApple
    <3> QED BY <1>2, <2>1, <3>1, AnswerTypes
  <2>4. CASE ~ apple /\ own.stored # Profile!None
    <3>1. PICK answer : answer = Profile!FromReport(own.stored)
      OBVIOUS
    <3>2. caller' = [caller EXCEPT ![c] = [own EXCEPT !.pc = "last", !.answer = answer]]
      BY <1>4, <2>4, <3>1 DEF Profile!ReadsApple
    <3>3. /\ answer \in Answer /\ answer # Profile!Blank /\ answer.at = own.stored.at
          /\ (answer.active => own.hour <= answer.at + MaxAge)
      BY <1>1, <1>3, <3>1, AnswerTypes
    <3>4. own.stored = own.report /\ (tombstone \/ own.newest <= own.report.at)
      BY <1>1, <2>1, <2>4 DEF CallerInv, Reported
    <3>5. tombstone \/ ~ own.verified
      BY <1>1, <2>4 DEF CallerInv, Noted
    <3>6. ASSUME ~ tombstone
          PROVE  /\ ~ own.verified /\ answer.at >= own.newest /\ answer.at >= own.report.at
                 /\ answer.active => own.hour <= answer.at + MaxAge
      BY <1>1, <3>3, <3>4, <3>5, <3>6
    <3> QED BY <1>2, <2>1, <3>2, <3>3, <3>6
  <2> QED BY <2>2, <2>3, <2>4
<1>5. CASE Profile!ReadsRow(c)
  <2>1. own.pc = "row" /\ UNCHANGED <<account, tombstone, apple, told, hour>>
    BY <1>5 DEF Profile!ReadsRow, Profile!At
  <2>2. PICK answer :
          answer = IF account.exists THEN Profile!FromReport(account.report) ELSE Profile!Blank
    OBVIOUS
  <2>3. caller' = [caller EXCEPT ![c] = [own EXCEPT !.pc = "last", !.answer = answer]]
    BY <1>5, <2>2 DEF Profile!ReadsRow
  <2>4. answer \in Answer
    BY <1>1, <2>2, AnswerTypes
  <2>5. ASSUME ~ tombstone
        PROVE  /\ answer # Profile!Blank /\ ~ own.verified
               /\ answer.at >= own.newest /\ answer.at >= own.report.at
               /\ answer.active => own.hour <= answer.at + MaxAge
    <3>1. account.exists /\ own.stored = Profile!None
      BY <1>1, <2>1, <2>5 DEF CallerInv, Found, Reported
    <3>2. /\ answer # Profile!Blank /\ answer.at = account.report.at
          /\ answer.active => own.hour <= answer.at + MaxAge
      BY <1>1, <1>3, <2>2, <3>1, AnswerTypes
    <3>3. own.newest <= account.report.at
      BY <1>1, <2>5 DEF CallerInv, Noted
    <3>4. own.report.at <= account.report.at
      BY <1>1, <2>1, <2>5, <3>1 DEF CallerInv, Reported
    <3>5. ~ own.verified
      BY <1>1, <2>1, <2>5 DEF CallerInv, Noted
    <3> QED BY <1>1, <3>2, <3>3, <3>4, <3>5
  <2> QED BY <1>2, <2>1, <2>3, <2>4, <2>5
<1>6. CASE Profile!Answers(c)
  <2>1. CASE tombstone
    <3>1. UNCHANGED <<account, tombstone, apple, told, hour>>
          /\ caller' = [caller EXCEPT ![c] = Profile!Nobody]
      BY <1>6, <2>1 DEF Profile!Answers, Profile!Refused
    <3> QED BY <1>1, <3>1, NobodyType, NobodyInv, CallerMoves
  <2>2. CASE ~ tombstone
    <3>1. PICK new : new = [own EXCEPT !.pc = "answered"]
      OBVIOUS
    <3>2. /\ caller' = [caller EXCEPT ![c] = new] /\ own.pc = "last"
          /\ UNCHANGED <<account, tombstone, apple, hour>>
          /\ told' = IF own.kind = "session" THEN told \cup {own.token} ELSE told
      BY <1>6, <2>2, <3>1 DEF Profile!Answers, Profile!Goes, Profile!At
    <3>3. /\ new \in Caller /\ new.pc = "answered" /\ new.kind = own.kind
          /\ new.report = own.report /\ new.newest = own.newest
          /\ new.verified = own.verified /\ new.hour = own.hour /\ new.answer = own.answer
      BY <1>1, <3>1 DEF Caller
    <3>4. ProfileType' /\ Grows
      BY <1>1, <3>2, <3>3 DEF ProfileType, Grows
    <3>5. AccountInv'
      <4>1. CASE own.kind = "session"
        <5>1. /\ account.exists /\ own.token = account.token
              /\ own.token # Profile!NoToken
          BY <1>1, <2>2, <3>2, <4>1 DEF CallerInv, Found
        <5>2. account.token \in Tokens
          BY <1>1, <5>1 DEF ProfileType, Uid
        <5>3. told' = {account.token}
          BY <1>1, <3>2, <4>1, <5>1 DEF AccountInv
        <5> QED BY <1>1, <3>2, <5>1, <5>2, <5>3 DEF AccountInv
      <4>2. CASE own.kind # "session"
        BY <1>1, <3>2, <4>2 DEF AccountInv
      <4> QED BY <4>1, <4>2
    <3>6. Noted(new)' /\ Found(new)'
      BY <1>1, <3>2, <3>3 DEF CallerInv, Noted, Found
    <3>7. Reported(new)' /\ Answered(new)'
      BY <1>1, <2>2, <3>2, <3>3 DEF CallerInv, Reported, Answered, Ordered
    <3> QED BY <3>2, <3>4, <3>5, <3>6, <3>7, CallerActs DEF CallerInv
  <2> QED BY <2>1, <2>2
<1> QED BY <1>4, <1>5, <1>6

-----------------------------------------------------------------------------
(* The rest of the server                                                  *)

LEMMA ElsewhereStep ==
  ASSUME ProfileInv,
         Profile!AppleVerifies \/ Profile!Tombstoned \/ Profile!Purged \/ Profile!Ticks
  PROVE  ProfileInv'
<1>1. /\ ProfileType /\ AccountInv /\ UNCHANGED <<caller, told>>
      /\ account.report.at \in Nat
  BY KnownReports
  DEF ProfileInv, ProfileType, Profile!AppleVerifies, Profile!Tombstoned, Profile!Purged,
      Profile!Ticks
<1>2. CASE Profile!Purged
  <2>1. /\ tombstone /\ account' = Profile!NoAccount /\ apple' = FALSE
        /\ UNCHANGED <<tombstone, hour>>
    BY <1>2 DEF Profile!Purged
  <2>2. Profile!NoAccount \in [token : Uid, terms : BOOLEAN, report : Known, exists : BOOLEAN]
    BY RowTypes, KnownReports DEF Profile!NoAccount
  <2>3. ~ Profile!NoAccount.exists
    BY DEF Profile!NoAccount
  <2>4. ProfileType'
    BY <1>1, <2>1, <2>2 DEF ProfileType
  <2>5. AccountInv'
    BY <1>1, <2>1, <2>3 DEF AccountInv
  <2>6. Grows
    BY <1>1, <2>1 DEF Grows, ProfileType
  <2> QED BY <1>1, <2>4, <2>5, <2>6, CallersStable
<1>3. CASE Profile!AppleVerifies
  <2>1. ProfileType' /\ AccountInv' /\ Grows
    BY <1>1, <1>3 DEF Profile!AppleVerifies, ProfileType, AccountInv, Grows
  <2> QED BY <1>1, <2>1, CallersStable
<1>4. CASE Profile!Tombstoned
  <2>1. ProfileType' /\ AccountInv' /\ Grows
    BY <1>1, <1>4 DEF Profile!Tombstoned, ProfileType, AccountInv, Grows
  <2> QED BY <1>1, <2>1, CallersStable
<1>5. CASE Profile!Ticks
  <2>1. ProfileType' /\ AccountInv' /\ Grows
    BY <1>1, <1>5 DEF Profile!Ticks, ProfileType, AccountInv, Grows
  <2> QED BY <1>1, <2>1, CallersStable
<1> QED BY <1>2, <1>3, <1>4, <1>5

LEMMA ProfileStep ==
  ASSUME ProfileInv, Profile!Next \/ UNCHANGED profileVars
  PROVE  ProfileInv'
<1>1. CASE UNCHANGED profileVars
  <2>1. UNCHANGED <<account, tombstone, apple, told, hour, caller>>
    BY <1>1 DEF profileVars
  <2>2. ProfileType' /\ AccountInv' /\ Grows
    BY <2>1, KnownReports DEF ProfileInv, ProfileType, AccountInv, Grows
  <2> QED BY <2>1, <2>2, CallersStable
<1>2. CASE \E c \in Callers : Profile!Request(c)
  BY <1>2, ReadsStep, WritesStep, AnswersStep DEF Profile!Request
<1> QED BY <1>1, <1>2, ElsewhereStep DEF Profile!Next

LEMMA ProfileConsistent == ProfileInv => ProfilesConsistent
<1> SUFFICES ASSUME ProfileInv PROVE ProfilesConsistent
  OBVIOUS
<1>1. Profile!NoToken \notin told /\ \A s, t \in told : s = t
  BY KnownReports DEF ProfileInv, AccountInv
<1>2. \A c \in Callers : Profile!At(c, "answered") => caller[c].answer # Profile!Blank
  BY DEF ProfileInv, CallerInv, Answered, Ordered, Profile!At
<1>3. /\ account.exists => account.terms
      /\ account.exists /\ told # {} => told = {account.token}
  BY DEF ProfileInv, AccountInv
<1> QED BY <1>1, <1>2, <1>3 DEF ProfilesConsistent, Profile!ProfilesConsistent

LEMMA ProfileOrdered == ProfileInv => ReportsOrdered
BY DEF ProfileInv, CallerInv, Answered, Ordered, ReportsOrdered, Profile!ReportsOrdered,
       Profile!At

-----------------------------------------------------------------------------
(* The streams of the providers (StreamReader)                             *)

Ascending(s) == \A i, j \in DOMAIN s : i < j => s[i] < s[j]
Members(s) == {s[i] : i \in DOMAIN s}

\* What stands at positions of a sequence comes in the order of the positions.
LEMMA AtType ==
  ASSUME NEW X, NEW s \in Seq(X), NEW K, K \subseteq DOMAIN s
  PROVE  /\ Stream!At(s, K) \in Seq(X)
         /\ Members(Stream!At(s, K)) = {s[i] : i \in K}
         /\ \A a, b \in DOMAIN Stream!At(s, K) : a < b =>
              \E i, j \in K : i < j /\ Stream!At(s, K)[a] = s[i] /\ Stream!At(s, K)[b] = s[j]
<1> DEFINE Below(p) == {q \in K : q < p}
           rank == [p \in K |-> Cardinality(Below(p))]
           N == Cardinality(K)
           Nth(n) == CHOOSE p \in K : Stream!Cardinality(Below(p)) = n - 1
<1>0. K \subseteq Nat /\ IsFiniteSet(K)
  <2>1. DOMAIN s = 1..Len(s) /\ Len(s) \in Nat
    OBVIOUS
  <2>2. IsFiniteSet(1..Len(s))
    BY <2>1, FS_Interval
  <2> QED BY <2>1, <2>2, FS_Subset
<1>1. N \in Nat
  BY <1>0, FS_CardinalityType
<1>2. ASSUME NEW p \in K
      PROVE  IsFiniteSet(Below(p)) /\ Cardinality(Below(p)) \in 0..(N - 1)
  <2>1. Below(p) \subseteq K \ {p}
    BY <1>0
  <2>2. IsFiniteSet(K \ {p}) /\ Cardinality(K \ {p}) = N - 1
    BY <1>0, FS_RemoveElement
  <2>3. IsFiniteSet(Below(p)) /\ Cardinality(Below(p)) <= N - 1
    <3> HIDE DEF Below, N
    <3> QED BY <2>1, <2>2, FS_Subset
  <2>4. Cardinality(Below(p)) \in Nat
    BY <2>3, FS_CardinalityType
  <2> HIDE DEF Below, N
  <2> QED BY <1>1, <2>3, <2>4
<1>3. ASSUME NEW p \in K, NEW q \in K, p < q PROVE rank[p] < rank[q]
  <2>1. Below(p) \cup {p} \subseteq Below(q) /\ p \notin Below(p)
    <3>1. p \in Nat /\ q \in Nat /\ \A x \in K : x \in Nat
      BY <1>0
    <3>2. ASSUME NEW x \in K, x < p PROVE x < q
      BY <1>3, <3>1, <3>2
    <3>3. p \in Below(q)
      BY <1>3
    <3>4. ~ (p < p)
      BY <3>1
    <3>5. p \notin Below(p)
      BY <3>4
    <3>6. \A x \in Below(p) : x \in Below(q)
      BY <3>2
    <3> HIDE DEF Below
    <3> QED BY <3>3, <3>5, <3>6
  <2>2. IsFiniteSet(Below(p)) /\ IsFiniteSet(Below(q))
    BY <1>2
  <2> HIDE DEF Below
  <2>3. Cardinality(Below(p) \cup {p}) = Cardinality(Below(p)) + 1
    BY <2>1, <2>2, FS_AddElement
  <2>4. Cardinality(Below(p) \cup {p}) <= Cardinality(Below(q))
    BY <2>1, <2>2, FS_Subset
  <2>5. Cardinality(Below(p)) \in Nat /\ Cardinality(Below(q)) \in Nat
    BY <2>2, FS_CardinalityType
  <2>6. rank[p] = Cardinality(Below(p)) /\ rank[q] = Cardinality(Below(q))
    OBVIOUS
  <2> HIDE DEF rank
  <2> QED BY <2>3, <2>4, <2>5, <2>6
<1>4. /\ rank \in [K -> 0..(N - 1)]
      /\ \A p, q \in K : rank[p] = rank[q] => p = q
  <2>1. rank \in [K -> 0..(N - 1)]
    BY <1>2
  <2>2. \A p, q \in K : p = q \/ p < q \/ q < p
    BY <1>0
  <2> HIDE DEF rank, N
  <2>3. ASSUME NEW p \in K, NEW q \in K, rank[p] = rank[q] PROVE p = q
    <3>1. rank[p] \in Nat
      BY <1>1, <2>1
    <3> QED BY <1>3, <2>2, <2>3, <3>1
  <2> QED BY <2>1, <2>3
<1>5. IsFiniteSet(0..(N - 1)) /\ Cardinality(0..(N - 1)) = N
  <2>1. 0 \in Int /\ N - 1 \in Int
    BY <1>1
  <2>2. IsFiniteSet(0..(N - 1))
        /\ Cardinality(0..(N - 1)) = IF 0 > N - 1 THEN 0 ELSE (N - 1) - 0 + 1
    <3> HIDE DEF N
    <3> QED BY <2>1, FS_Interval
  <2> HIDE DEF N
  <2> QED BY <1>1, <2>2
<1>6. rank \in Surjection(K, 0..(N - 1))
  <2>1. Cardinality(K) = Cardinality(0..(N - 1))
    BY <1>5
  <2> HIDE DEF rank, N
  <2>2. rank \in Injection(K, 0..(N - 1))
    BY <1>4 DEF Injection, IsInjective
  <2> QED BY <1>0, <1>5, <2>1, <2>2, FS_Injection
<1>7. ASSUME NEW S PROVE Stream!Cardinality(S) = Cardinality(S)
  BY DEF Stream!Cardinality, Cardinality
<1>8. ASSUME NEW n \in 1..N PROVE Nth(n) \in K /\ rank[Nth(n)] = n - 1
  <2>1. n - 1 \in 0..(N - 1)
    BY <1>1
  <2>2. \E p \in K : rank[p] = n - 1
    <3> HIDE DEF rank, N
    <3> QED BY <1>6, <2>1 DEF Surjection
  <2>3. \E p \in K : Stream!Cardinality(Below(p)) = n - 1
    BY <1>7, <2>2
  <2>4. Nth(n) \in K /\ Stream!Cardinality(Below(Nth(n))) = n - 1
    <3> HIDE DEF Below, N
    <3> QED BY <2>3
  <2> HIDE DEF Nth
  <2> QED BY <1>7, <2>4
<1>9. Stream!At(s, K) = [n \in 1..N |-> s[Nth(n)]]
  <2>1. Stream!Cardinality(K) = N
    BY <1>7
  <2> HIDE DEF N
  <2> QED BY <2>1 DEF Stream!At
<1> HIDE DEF Below, rank, N, Nth
<1>10. PICK t : t = Stream!At(s, K)
  OBVIOUS
<1>11. DOMAIN t = 1..N /\ \A n \in 1..N : t[n] = s[Nth(n)]
  BY <1>9, <1>10
<1>12. t \in Seq(X)
  <2>1. \A n \in 1..N : s[Nth(n)] \in X
    BY <1>8
  <2> QED BY <1>1, <1>9, <1>10, <2>1
<1>13. ASSUME NEW i \in K PROVE \E n \in 1..N : t[n] = s[i]
  <2>1. rank[i] \in 0..(N - 1)
    BY <1>4
  <2>2. rank[i] + 1 \in 1..N /\ (rank[i] + 1) - 1 = rank[i]
    BY <1>1, <2>1
  <2>3. Nth(rank[i] + 1) = i
    BY <1>4, <1>8, <2>2
  <2> QED BY <1>11, <2>2, <2>3
<1>14. {t[n] : n \in DOMAIN t} = {s[i] : i \in K}
  <2>1. ASSUME NEW n \in DOMAIN t PROVE t[n] \in {s[i] : i \in K}
    BY <1>8, <1>11
  <2>2. ASSUME NEW i \in K PROVE s[i] \in {t[n] : n \in DOMAIN t}
    BY <1>11, <1>13
  <2> QED BY <2>1, <2>2
<1>15. ASSUME NEW a \in 1..N, NEW b \in 1..N, a < b
       PROVE  Nth(a) < Nth(b)
  <2>1. Nth(a) \in K /\ Nth(b) \in K /\ rank[Nth(a)] = a - 1 /\ rank[Nth(b)] = b - 1
    BY <1>8
  <2>2. Nth(a) \in Nat /\ Nth(b) \in Nat
    BY <1>0, <2>1
  <2>3. a \in Nat /\ b \in Nat /\ rank[Nth(a)] < rank[Nth(b)]
    BY <1>1, <1>15, <2>1
  <2>4. Nth(a) # Nth(b)
    BY <2>1, <2>3
  <2>5. ASSUME Nth(b) < Nth(a) PROVE FALSE
    <3>1. rank[Nth(b)] < rank[Nth(a)]
      BY <1>3, <2>1, <2>5
    <3> QED BY <2>1, <2>3, <3>1
  <2> QED BY <2>2, <2>4, <2>5
<1>16. \A a, b \in DOMAIN t : a < b =>
         \E i, j \in K : i < j /\ t[a] = s[i] /\ t[b] = s[j]
  BY <1>8, <1>11, <1>15
<1> QED BY <1>10, <1>12, <1>14, <1>16 DEF Members

\* The events whose last unit is among the first k.
Through(k) == {i \in DOMAIN Stream!Sent : 2 * i <= k}

\* What was read is what the provider has sent whole; half an event waits in the
\* buffer.
StreamInv ==
  /\ script \in Scripts
  /\ arrived \in Nat /\ arrived <= 2 * Len(Stream!Sent)
  /\ buffer = IF arrived % 2 = 1 THEN <<Stream!Unit(arrived)>> ELSE <<>>
  /\ deltas \in Seq(Nat) /\ Ascending(deltas)
  /\ Members(deltas) = Stream!Of({"text"}) \cap Through(arrived)
  /\ parts = [c \in Stream!CallsOf(script) |-> Stream!Piece(c) \cap Through(arrived)]
  /\ finish <=> script.api = "chat" /\ Stream!Of({"finish"}) \cap Through(arrived) # {}
  /\ completed <=>
       script.api = "responses" /\ Stream!Of({"completed"}) \cap Through(arrived) # {}

LEMMA ScriptsType ==
  ASSUME script \in Scripts
  PROVE  /\ Stream!Sent \in Seq(Stream!Events)
         /\ DOMAIN Stream!Sent = 1..Len(Stream!Sent) /\ Len(Stream!Sent) \in Nat
         /\ \/ script.api = "chat" /\ Stream!ChatProtocol(Stream!Sent)
            \/ script.api = "responses" /\ Stream!ResponsesProtocol(Stream!Sent)
<1>1. Stream!ScriptsAssumption
  BY PartsAssumption
<1>2. /\ script.events \in Seq(Stream!Events)
      /\ \/ script.api = "chat" /\ Stream!ChatProtocol(script.events)
         \/ script.api = "responses" /\ Stream!ResponsesProtocol(script.events)
  BY <1>1 DEF Stream!ScriptsAssumption
<1> QED BY <1>2 DEF Stream!Sent

LEMMA UnitType ==
  ASSUME NEW q \in Nat
  PROVE  /\ Stream!Unit(2 * q + 1) = [event |-> q + 1, half |-> 0]
         /\ Stream!Unit(2 * q + 2) = [event |-> q + 1, half |-> 1]
<1>1. (2 * q + 1 + 1) \div 2 = q + 1 /\ (2 * q + 1 + 1) % 2 = 0
  OBVIOUS
<1>2. (2 * q + 2 + 1) \div 2 = q + 1 /\ (2 * q + 2 + 1) % 2 = 1
  OBVIOUS
<1> QED BY <1>1, <1>2 DEF Stream!Unit

LEMMA Halves == \A k \in Nat : \E q \in Nat : k = 2 * q \/ k = 2 * q + 1
<1> SUFFICES ASSUME NEW k \in Nat PROVE \E q \in Nat : k = 2 * q \/ k = 2 * q + 1
  OBVIOUS
<1>1. k \div 2 \in Nat /\ (k = 2 * (k \div 2) \/ k = 2 * (k \div 2) + 1)
  OBVIOUS
<1> QED BY <1>1

\* The whole events of consecutive units that begin with an event's first half.
LEMMA WholeType ==
  ASSUME NEW q \in Nat, NEW m \in Nat, NEW units,
         units = [k \in 1..m |-> Stream!Unit(2 * q + k)]
  PROVE  /\ Stream!Whole(units) \in Seq(Nat)
         /\ Ascending(Stream!Whole(units))
         /\ Members(Stream!Whole(units)) = {e \in Nat : q < e /\ 2 * e <= 2 * q + m}
<1> DEFINE ends == {i \in DOMAIN units :
                      /\ units[i].half = 1
                      /\ \E j \in DOMAIN units : units[j] = [event |-> units[i].event, half |-> 0]}
<1>1. DOMAIN units = 1..m
  OBVIOUS
<1>2. ASSUME NEW e \in Nat, q < e, 2 * e <= 2 * q + m
      PROVE  /\ 2 * (e - q) \in DOMAIN units
             /\ units[2 * (e - q)] = [event |-> e, half |-> 1]
             /\ 2 * (e - q) - 1 \in DOMAIN units
             /\ units[2 * (e - q) - 1] = [event |-> e, half |-> 0]
  <2>1. 2 * (e - q) \in 1..m /\ 2 * (e - q) - 1 \in 1..m /\ e - 1 \in Nat
    BY <1>2
  <2>2. 2 * q + 2 * (e - q) = 2 * (e - 1) + 2 /\ 2 * q + (2 * (e - q) - 1) = 2 * (e - 1) + 1
        /\ (e - 1) + 1 = e
    OBVIOUS
  <2>3. units[2 * (e - q)] = Stream!Unit(2 * q + 2 * (e - q))
        /\ units[2 * (e - q) - 1] = Stream!Unit(2 * q + (2 * (e - q) - 1))
    BY <2>1
  <2>4. Stream!Unit(2 * (e - 1) + 2) = [event |-> (e - 1) + 1, half |-> 1]
        /\ Stream!Unit(2 * (e - 1) + 1) = [event |-> (e - 1) + 1, half |-> 0]
    BY <2>1, UnitType
  <2> QED BY <1>1, <2>1, <2>2, <2>3, <2>4
<1>3. ASSUME NEW i \in 1..m
      PROVE  \E e \in Nat : /\ q < e
                            /\ \/ i = 2 * (e - q) /\ units[i] = [event |-> e, half |-> 1]
                               \/ i = 2 * (e - q) - 1 /\ units[i] = [event |-> e, half |-> 0]
  <2>1. PICK h \in Nat : i = 2 * h \/ i = 2 * h + 1
    <3>1. i \in Nat
      OBVIOUS
    <3> QED BY <3>1, Halves
  <2>2. CASE i = 2 * h
    <3>1. h # 0 /\ q + h \in Nat /\ q < q + h /\ (q + h) - q = h
      BY <2>2
    <3>2. 2 * (q + h) <= 2 * q + m
      BY <2>2
    <3> QED BY <1>2, <2>2, <3>1, <3>2
  <2>3. CASE i = 2 * h + 1
    <3>1. q + h \in Nat /\ q + h + 1 \in Nat /\ q < q + h + 1
          /\ i = 2 * ((q + h + 1) - q) - 1 /\ 2 * q + i = 2 * (q + h) + 1
      BY <2>3
    <3>2. units[i] = Stream!Unit(2 * q + i)
      OBVIOUS
    <3>3. Stream!Unit(2 * (q + h) + 1) = [event |-> (q + h) + 1, half |-> 0]
      BY <3>1, UnitType
    <3>4. units[i] = [event |-> q + h + 1, half |-> 0]
      BY <3>1, <3>2, <3>3
    <3> QED BY <3>1, <3>4
  <2> QED BY <2>1, <2>2, <2>3
<1>4. ASSUME NEW i \in ends
      PROVE  \E e \in Nat : /\ q < e /\ 2 * e <= 2 * q + m /\ i = 2 * (e - q)
                            /\ units[i].event = e
  <2>1. i \in 1..m /\ units[i].half = 1
    BY <1>1
  <2>2. PICK e \in Nat : /\ q < e
                         /\ \/ i = 2 * (e - q) /\ units[i] = [event |-> e, half |-> 1]
                            \/ i = 2 * (e - q) - 1 /\ units[i] = [event |-> e, half |-> 0]
    BY <1>3, <2>1
  <2>3. i = 2 * (e - q) /\ units[i].event = e
    BY <2>1, <2>2
  <2>4. 2 * e <= 2 * q + m
    BY <2>1, <2>3
  <2> QED BY <2>2, <2>3, <2>4
<1>5. ASSUME NEW e \in Nat, q < e, 2 * e <= 2 * q + m
      PROVE  2 * (e - q) \in ends /\ units[2 * (e - q)].event = e
  <2>1. PICK i : i = 2 * (e - q)
    OBVIOUS
  <2>2. /\ i \in DOMAIN units /\ units[i] = [event |-> e, half |-> 1]
        /\ i - 1 \in DOMAIN units /\ units[i - 1] = [event |-> e, half |-> 0]
    BY <1>2, <1>5, <2>1
  <2>3. units[i].event = e /\ units[i].half = 1
    BY <2>2
  <2>4. i \in ends
    BY <2>2, <2>3
  <2> QED BY <2>1, <2>3, <2>4
<1>6. PICK last : last = Stream!At(units, ends)
  OBVIOUS
<1>7. PICK R : R = {units[k] : k \in 1..m}
  OBVIOUS
<1>8. units \in Seq(R) /\ ends \subseteq DOMAIN units
  <2>1. \A k \in 1..m : units[k] \in R
    BY <1>7
  <2>2. units \in [1..m -> R]
    <3> HIDE DEF ends
    <3> QED BY <1>1, <2>1
  <2>3. ends \subseteq DOMAIN units
    OBVIOUS
  <2> HIDE DEF ends
  <2> QED BY <2>2, <2>3
<1> HIDE DEF ends
<1>9. /\ last \in Seq(R)
      /\ Members(last) = {units[i] : i \in ends}
      /\ \A a, b \in DOMAIN last : a < b =>
           \E i, j \in ends : i < j /\ last[a] = units[i] /\ last[b] = units[j]
  <2>1. /\ Stream!At(units, ends) \in Seq(R)
        /\ Members(Stream!At(units, ends)) = {units[i] : i \in ends}
        /\ \A a, b \in DOMAIN Stream!At(units, ends) : a < b =>
             \E i, j \in ends : /\ i < j /\ Stream!At(units, ends)[a] = units[i]
                               /\ Stream!At(units, ends)[b] = units[j]
    BY ONLY <1>8, AtType
  <2> QED BY ONLY <1>6, <2>1
<1>10. PICK w : w = [n \in DOMAIN last |-> last[n].event]
  OBVIOUS
<1>11. Stream!Whole(units) = w
  BY <1>6, <1>10 DEF Stream!Whole, ends
<1>12. ASSUME NEW n \in DOMAIN last PROVE \E i \in ends : last[n] = units[i]
  <2>1. last[n] \in Members(last)
    BY DEF Members
  <2> QED BY <1>9, <2>1
<1>13. \A n \in DOMAIN last : w[n] \in Nat
  BY <1>4, <1>10, <1>12
<1>14. DOMAIN last = 1..Len(last) /\ Len(last) \in Nat
  BY <1>9
<1>15. w \in Seq(Nat)
  BY <1>10, <1>13, <1>14
<1>16. Ascending(w)
  <2> SUFFICES ASSUME NEW a \in DOMAIN last, NEW b \in DOMAIN last, a < b
               PROVE  w[a] < w[b]
    BY <1>10 DEF Ascending
  <2>1. PICK i \in ends, j \in ends : i < j /\ last[a] = units[i] /\ last[b] = units[j]
    BY <1>9
  <2>2. PICK e \in Nat : i = 2 * (e - q) /\ units[i].event = e
    BY <1>4
  <2>3. PICK f \in Nat : j = 2 * (f - q) /\ units[j].event = f
    BY <1>4
  <2>4. e < f
    BY <2>1, <2>2, <2>3
  <2> QED BY <1>10, <2>1, <2>2, <2>3, <2>4
<1>17. Members(w) = {e \in Nat : q < e /\ 2 * e <= 2 * q + m}
  <2>1. ASSUME NEW n \in DOMAIN last PROVE w[n] \in {e \in Nat : q < e /\ 2 * e <= 2 * q + m}
    BY <1>4, <1>10, <1>12
  <2>2. ASSUME NEW e \in Nat, q < e, 2 * e <= 2 * q + m
        PROVE  \E n \in DOMAIN last : w[n] = e
    <3>1. 2 * (e - q) \in ends /\ units[2 * (e - q)].event = e
      BY <1>5, <2>2
    <3>2. units[2 * (e - q)] \in Members(last)
      BY <1>9, <3>1
    <3>3. \E n \in DOMAIN last : last[n] = units[2 * (e - q)]
      BY <3>2 DEF Members
    <3> QED BY <1>10, <3>1, <3>3
  <2>3. DOMAIN w = DOMAIN last
    BY <1>10
  <2> QED BY <2>1, <2>2, <2>3 DEF Members
<1> QED BY <1>11, <1>15, <1>16, <1>17

LEMMA StreamInitially == Stream!Init => StreamInv
<1> SUFFICES ASSUME Stream!Init PROVE StreamInv
  OBVIOUS
<1>1. /\ script \in Scripts /\ arrived = 0 /\ buffer = <<>> /\ deltas = <<>>
      /\ parts = [c \in Stream!CallsOf(script) |-> {}]
      /\ finish = FALSE /\ completed = FALSE
  BY DEF Stream!Init
<1>2. Through(arrived) = {}
  BY <1>1, ScriptsType DEF Through
<1>3. arrived <= 2 * Len(Stream!Sent) /\ arrived % 2 = 0
  BY <1>1, ScriptsType
<1>4. Members(deltas) = {} /\ Ascending(deltas) /\ deltas \in Seq(Nat)
  BY <1>1 DEF Members, Ascending
<1> QED BY <1>1, <1>2, <1>3, <1>4 DEF StreamInv

\* What is parsed when n units come after the first k: half an event may have
\* waited in the buffer.
Read(k, n) ==
  (IF k % 2 = 1 THEN <<Stream!Unit(k)>> ELSE <<>>) \o [i \in 1..n |-> Stream!Unit(k + i)]

\* These are consecutive units, of which the whole events are parsed while half
\* an event at the end is kept.
LEMMA ChunkParsed ==
  ASSUME NEW k \in Nat, NEW n \in Nat, n > 0, NEW units, units = Read(k, n)
  PROVE  /\ Stream!Whole(units) \in Seq(Nat)
         /\ Ascending(Stream!Whole(units))
         /\ Members(Stream!Whole(units)) = {e \in Nat : k < 2 * e /\ 2 * e <= k + n}
         /\ Stream!Rest(units) = IF (k + n) % 2 = 1 THEN <<Stream!Unit(k + n)>> ELSE <<>>
<1>1. PICK held : held = IF k % 2 = 1 THEN <<Stream!Unit(k)>> ELSE <<>>
  OBVIOUS
<1>2. units = held \o [i \in 1..n |-> Stream!Unit(k + i)]
  BY <1>1 DEF Read
<1>3. PICK q \in Nat : k = 2 * q \/ k = 2 * q + 1
  BY Halves
<1>4. PICK m \in Nat : 2 * q + m = k + n /\ m > 0
  BY <1>3
<1>5. units = [i \in 1..m |-> Stream!Unit(2 * q + i)]
  <2>1. CASE k = 2 * q
    <3>1. held = <<>> /\ m = n
      BY <1>4, <1>1, <2>1
    <3>2. units = [i \in 1..n |-> Stream!Unit(k + i)]
      BY <1>2, <3>1
    <3> QED BY <2>1, <3>1, <3>2
  <2>2. CASE k = 2 * q + 1
    <3>1. held = <<Stream!Unit(k)>> /\ m = n + 1
      BY <1>4, <1>1, <2>2
    <3>2. PICK chunk : chunk = [i \in 1..n |-> Stream!Unit(k + i)]
      OBVIOUS
    <3>7. PICK R : R = {chunk[i] : i \in 1..n}
      OBVIOUS
    <3>3. chunk \in Seq(R) /\ Len(chunk) = n
          /\ \A i \in 1..n : chunk[i] = Stream!Unit(k + i)
      <4>1. DOMAIN chunk = 1..n /\ \A i \in 1..n : chunk[i] = Stream!Unit(k + i)
        BY ONLY <3>2
      <4>2. chunk \in [1..n -> R]
        BY ONLY <3>2, <3>7, <4>1
      <4> QED BY ONLY <4>1, <4>2, n \in Nat
    <3>4. units = held \o chunk
      BY <1>2, <3>2
    <3>5. units = [i \in 1..(n + 1) |-> IF i = 1 THEN Stream!Unit(k) ELSE chunk[i - 1]]
      <4>1. <<Stream!Unit(k)>> \in Seq({Stream!Unit(k)}) /\ Len(<<Stream!Unit(k)>>) = 1
        OBVIOUS
      <4> QED BY ONLY <3>1, <3>3, <3>4, <4>1, n \in Nat
    <3>6. ASSUME NEW i \in 1..(n + 1)
          PROVE  (IF i = 1 THEN Stream!Unit(k) ELSE chunk[i - 1]) = Stream!Unit(2 * q + i)
      <4>1. CASE i = 1
        BY <2>2, <4>1
      <4>2. CASE i # 1
        <5>1. i - 1 \in 1..n /\ k + (i - 1) = 2 * q + i
          BY ONLY <2>2, <4>2, i \in 1..(n + 1), n \in Nat, q \in Nat, k \in Nat
        <5> QED BY <3>3, <4>2, <5>1
      <4> QED BY <4>1, <4>2
    <3> QED BY <3>1, <3>5, <3>6
  <2> QED BY <1>3, <2>1, <2>2
<1>6. /\ Stream!Whole(units) \in Seq(Nat)
      /\ Ascending(Stream!Whole(units))
      /\ Members(Stream!Whole(units)) = {e \in Nat : q < e /\ 2 * e <= 2 * q + m}
  BY <1>5, WholeType
<1>7. \A e \in Nat : q < e <=> k < 2 * e
  BY <1>3
<1>8. {e \in Nat : q < e /\ 2 * e <= 2 * q + m} = {e \in Nat : k < 2 * e /\ 2 * e <= k + n}
  BY <1>4, <1>7
<1>9. units # <<>> /\ Len(units) = m /\ units[m] = Stream!Unit(k + n)
  <2>1. units[m] = Stream!Unit(2 * q + m)
    BY ONLY <1>4, <1>5, m \in Nat
  <2>2. Len(units) = m /\ DOMAIN units = 1..m
    BY ONLY <1>5, m \in Nat
  <2>3. units # <<>>
    BY ONLY <1>4, <2>2, m \in Nat
  <2> QED BY <1>4, <2>1, <2>2, <2>3
<1>10. PICK h \in Nat : k + n = 2 * h + 1 \/ k + n = 2 * h + 2
  <2>1. k + n - 1 \in Nat
    OBVIOUS
  <2>2. PICK h \in Nat : k + n - 1 = 2 * h \/ k + n - 1 = 2 * h + 1
    BY <2>1, Halves
  <2> QED BY ONLY <2>1, <2>2, k \in Nat, n \in Nat, h \in Nat
<1>11. Stream!Rest(units) = IF (k + n) % 2 = 1 THEN <<Stream!Unit(k + n)>> ELSE <<>>
  <2>1. CASE k + n = 2 * h + 1
    <3>1. units[Len(units)].half = 0 /\ (k + n) % 2 = 1
      <4>1. Stream!Unit(2 * h + 1) = [event |-> h + 1, half |-> 0]
        BY UnitType
      <4>2. (2 * h + 1) % 2 = 1
        BY ONLY h \in Nat
      <4> QED BY ONLY <1>9, <2>1, <4>1, <4>2
    <3> QED BY <1>9, <3>1 DEF Stream!Rest
  <2>2. CASE k + n = 2 * h + 2
    <3>1. units[Len(units)].half = 1 /\ (k + n) % 2 = 0
      <4>1. Stream!Unit(2 * h + 2) = [event |-> h + 1, half |-> 1]
        BY UnitType
      <4>2. (2 * h + 2) % 2 = 0
        BY ONLY h \in Nat
      <4> QED BY ONLY <1>9, <2>2, <4>1, <4>2
    <3> QED BY <1>9, <3>1 DEF Stream!Rest
  <2> QED BY <1>10, <2>1, <2>2
<1> QED BY <1>6, <1>8, <1>11

\* The events of one type among those parsed.
LEMMA InEventsType ==
  ASSUME NEW events \in Seq(Nat), Ascending(events), NEW type
  PROVE  /\ Stream!InEvents(events, type) \in Seq(Nat)
         /\ Ascending(Stream!InEvents(events, type))
         /\ Members(Stream!InEvents(events, type)) =
              {e \in Members(events) : Stream!Sent[e].type = type}
         /\ Stream!Has(events, type) <=> {e \in Members(events) : Stream!Sent[e].type = type} # {}
<1>1. PICK K : K = {i \in DOMAIN events : Stream!Sent[events[i]].type = type}
  OBVIOUS
<1>2. PICK t : t = Stream!At(events, K)
  OBVIOUS
<1>3. Stream!InEvents(events, type) = t
  BY <1>1, <1>2 DEF Stream!InEvents
<1>4. K \subseteq DOMAIN events
  BY <1>1
<1>5. /\ Stream!At(events, K) \in Seq(Nat)
      /\ Members(Stream!At(events, K)) = {events[i] : i \in K}
      /\ \A a, b \in DOMAIN Stream!At(events, K) : a < b =>
           \E i, j \in K : /\ i < j /\ Stream!At(events, K)[a] = events[i]
                           /\ Stream!At(events, K)[b] = events[j]
  BY ONLY <1>4, events \in Seq(Nat), AtType
<1>6. /\ t \in Seq(Nat) /\ Members(t) = {events[i] : i \in K}
      /\ \A a, b \in DOMAIN t : a < b =>
           \E i, j \in K : i < j /\ t[a] = events[i] /\ t[b] = events[j]
  BY ONLY <1>2, <1>5
<1>7. Ascending(t)
  <2> SUFFICES ASSUME NEW a \in DOMAIN t, NEW b \in DOMAIN t, a < b PROVE t[a] < t[b]
    BY DEF Ascending
  <2>1. PICK i \in K, j \in K : i < j /\ t[a] = events[i] /\ t[b] = events[j]
    BY <1>6
  <2>2. events[i] < events[j]
    BY <1>4, <2>1 DEF Ascending
  <2> QED BY <2>1, <2>2
<1>8. Members(t) = {e \in Members(events) : Stream!Sent[e].type = type}
  <2>1. ASSUME NEW i \in K
        PROVE  events[i] \in Members(events) /\ Stream!Sent[events[i]].type = type
    BY <1>1 DEF Members
  <2>2. ASSUME NEW e \in Members(events), Stream!Sent[e].type = type
        PROVE  \E i \in K : events[i] = e
    BY <1>1, <2>2 DEF Members
  <2> QED BY <1>6, <2>1, <2>2
<1>9. Stream!Has(events, type) <=> {e \in Members(events) : Stream!Sent[e].type = type} # {}
  BY DEF Stream!Has, Members
<1> QED BY <1>3, <1>6, <1>7, <1>8, <1>9

LEMMA ChunkStep ==
  ASSUME StreamInv, NEW n \in Nat, Stream!ChunkArrives(n)
  PROVE  StreamInv'
<1>1. PICK k : k = arrived
  OBVIOUS
<1>2. /\ k \in Nat /\ n > 0 /\ arrived' = k + n /\ k + n <= 2 * Len(Stream!Sent)
      /\ script \in Scripts /\ script' = script
  BY <1>1 DEF StreamInv, Stream!ChunkArrives
<1>3. PICK held : held = buffer
  OBVIOUS
<1>4. PICK units : units = held \o [i \in 1..n |-> Stream!Unit(k + i)]
  OBVIOUS
<1>5. PICK events : events = Stream!Whole(units)
  OBVIOUS
<1>6. /\ buffer' = Stream!Rest(units)
      /\ IF script.api = "chat" THEN Stream!ChatEvents(events) ELSE Stream!ResponsesEvents(events)
  BY <1>1, <1>4, <1>5, <1>3 DEF Stream!ChunkArrives
<1>7. held = IF k % 2 = 1 THEN <<Stream!Unit(k)>> ELSE <<>>
  BY <1>1, <1>3 DEF StreamInv
<1>8. /\ events \in Seq(Nat) /\ Ascending(events)
      /\ Members(events) = {e \in Nat : k < 2 * e /\ 2 * e <= k + n}
      /\ Stream!Rest(units) = IF (k + n) % 2 = 1 THEN <<Stream!Unit(k + n)>> ELSE <<>>
  <2>1. k \in Nat /\ n > 0
    BY <1>2
  <2>3. units = Read(k, n)
    BY <1>4, <1>7 DEF Read
  <2>2. /\ Stream!Whole(units) \in Seq(Nat) /\ Ascending(Stream!Whole(units))
        /\ Members(Stream!Whole(units)) = {e \in Nat : k < 2 * e /\ 2 * e <= k + n}
        /\ Stream!Rest(units) = IF (k + n) % 2 = 1 THEN <<Stream!Unit(k + n)>> ELSE <<>>
    BY <2>1, <2>3, ChunkParsed
  <2> QED BY ONLY <1>5, <2>2
<1>9. /\ DOMAIN Stream!Sent = 1..Len(Stream!Sent) /\ Len(Stream!Sent) \in Nat
      /\ Stream!Sent' = Stream!Sent
  BY <1>2, ScriptsType DEF Stream!Sent
<1>10. /\ Members(events) \subseteq DOMAIN Stream!Sent
      /\ Through(k + n) = Through(k) \cup Members(events)
  <2>1. ASSUME NEW e \in Members(events) PROVE e \in DOMAIN Stream!Sent /\ e \in Through(k + n)
    <3>1. e \in Nat /\ k < 2 * e /\ 2 * e <= k + n
      BY <1>8
    <3>2. e \in DOMAIN Stream!Sent
      BY ONLY <1>2, <1>9, <3>1, n \in Nat
    <3> QED BY <3>1, <3>2 DEF Through
  <2>2. ASSUME NEW e \in Through(k + n), e \notin Through(k) PROVE e \in Members(events)
    <3>1. e \in DOMAIN Stream!Sent /\ 2 * e <= k + n /\ ~ (2 * e <= k)
      BY <2>2 DEF Through
    <3>2. e \in Nat /\ k < 2 * e
      BY ONLY <1>2, <1>9, <3>1
    <3> QED BY <1>8, <3>1, <3>2
  <2>3. ASSUME NEW e \in Through(k) PROVE e \in Through(k + n)
    <3>1. e \in DOMAIN Stream!Sent /\ 2 * e <= k
      BY DEF Through
    <3>2. 2 * e <= k + n
      BY ONLY <1>2, <1>9, <3>1, n \in Nat
    <3> QED BY <3>1, <3>2 DEF Through
  <2> QED BY <2>1, <2>2, <2>3
<1>11. Through(arrived)' = Through(k) \cup Members(events)
  <2>1. Through(arrived)' = Through(k + n)
    BY <1>2, <1>9 DEF Through
  <2> QED BY <1>10, <2>1
<1>12. \A t : /\ Stream!Of({t})' = Stream!Of({t})
              /\ {e \in Members(events) : Stream!Sent[e].type = t} =
                   Stream!Of({t}) \cap Members(events)
  BY <1>9, <1>10 DEF Stream!Of
<1>13. \A c : Stream!Piece(c)' = Stream!Piece(c)
  BY <1>9 DEF Stream!Piece, Stream!Of
<1>14. (deltas \in Seq(Nat) /\ Ascending(deltas)
        /\ Members(deltas) = Stream!Of({"text"}) \cap Through(arrived))'
  <2>1. PICK texts : texts = Stream!InEvents(events, "text")
    OBVIOUS
  <2>2. /\ texts \in Seq(Nat) /\ Ascending(texts)
        /\ Members(texts) = Stream!Of({"text"}) \cap Members(events)
    BY <1>8, <1>12, <2>1, InEventsType
  <2>3. deltas' = deltas \o texts
    BY <1>6, <2>1 DEF Stream!ChatEvents, Stream!ResponsesEvents
  <2>4. /\ deltas \in Seq(Nat) /\ Ascending(deltas)
        /\ Members(deltas) = Stream!Of({"text"}) \cap Through(k)
    BY <1>1 DEF StreamInv
  <2>5. deltas' \in Seq(Nat)
    BY <2>2, <2>3, <2>4
  <2>6. /\ Len(deltas) \in Nat /\ Len(texts) \in Nat
        /\ DOMAIN deltas = 1..Len(deltas) /\ DOMAIN texts = 1..Len(texts)
        /\ DOMAIN (deltas \o texts) = 1..(Len(deltas) + Len(texts))
        /\ \A i \in 1..(Len(deltas) + Len(texts)) :
             (deltas \o texts)[i] = IF i <= Len(deltas) THEN deltas[i] ELSE texts[i - Len(deltas)]
    BY <2>2, <2>4
  <2>7. Members(deltas \o texts) = Members(deltas) \cup Members(texts)
    <3>1. ASSUME NEW i \in 1..(Len(deltas) + Len(texts))
          PROVE  (deltas \o texts)[i] \in Members(deltas) \cup Members(texts)
      <4>1. CASE i <= Len(deltas)
        BY <2>6, <4>1 DEF Members
      <4>2. CASE ~ (i <= Len(deltas))
        <5>1. i - Len(deltas) \in 1..Len(texts)
          BY <2>6, <4>2
        <5> QED BY <2>6, <4>2, <5>1 DEF Members
      <4> QED BY <4>1, <4>2
    <3>2. ASSUME NEW x \in Members(deltas)
          PROVE  \E i \in 1..(Len(deltas) + Len(texts)) : (deltas \o texts)[i] = x
      <4>1. PICK i \in 1..Len(deltas) : deltas[i] = x
        BY <2>6 DEF Members
      <4>2. i \in 1..(Len(deltas) + Len(texts)) /\ i <= Len(deltas)
        BY <2>6
      <4> QED BY <2>6, <4>1, <4>2
    <3>3. ASSUME NEW x \in Members(texts)
          PROVE  \E i \in 1..(Len(deltas) + Len(texts)) : (deltas \o texts)[i] = x
      <4>1. PICK i \in 1..Len(texts) : texts[i] = x
        BY <2>6 DEF Members
      <4>2. /\ i + Len(deltas) \in 1..(Len(deltas) + Len(texts))
            /\ ~ (i + Len(deltas) <= Len(deltas)) /\ (i + Len(deltas)) - Len(deltas) = i
        BY <2>6
      <4> QED BY <2>6, <4>1, <4>2
    <3>4. Members(deltas \o texts) =
            {(deltas \o texts)[i] : i \in 1..(Len(deltas) + Len(texts))}
      BY <2>6 DEF Members
    <3> QED BY <3>1, <3>2, <3>3, <3>4
  <2>8. Ascending(deltas \o texts)
    <3> SUFFICES ASSUME NEW i \in 1..(Len(deltas) + Len(texts)),
                        NEW j \in 1..(Len(deltas) + Len(texts)), i < j
                 PROVE  (deltas \o texts)[i] < (deltas \o texts)[j]
      BY <2>6 DEF Ascending
    <3>1. CASE j <= Len(deltas)
      <4>1. i \in 1..Len(deltas) /\ j \in 1..Len(deltas)
        BY <2>6, <3>1
      <4>2. deltas[i] < deltas[j]
        BY <2>4, <2>6, <4>1 DEF Ascending
      <4> QED BY <2>6, <4>1, <4>2
    <3>2. CASE ~ (i <= Len(deltas))
      <4>1. i - Len(deltas) \in 1..Len(texts) /\ j - Len(deltas) \in 1..Len(texts)
            /\ i - Len(deltas) < j - Len(deltas) /\ ~ (j <= Len(deltas))
        BY <2>6, <3>2
      <4>2. texts[i - Len(deltas)] < texts[j - Len(deltas)]
        BY <2>2, <2>6, <4>1 DEF Ascending
      <4> QED BY <2>6, <3>2, <4>1, <4>2
    <3>3. CASE i <= Len(deltas) /\ ~ (j <= Len(deltas))
      <4>1. i \in 1..Len(deltas) /\ j - Len(deltas) \in 1..Len(texts)
        BY <2>6, <3>3
      <4>2. deltas[i] \in Through(k) /\ texts[j - Len(deltas)] \in Members(events)
        BY <2>2, <2>4, <2>6, <4>1 DEF Members
      <4>3. deltas[i] \in DOMAIN Stream!Sent /\ 2 * deltas[i] <= k
        BY <4>2 DEF Through
      <4>4. deltas[i] \in Nat /\ texts[j - Len(deltas)] \in Nat /\ k < 2 * texts[j - Len(deltas)]
        BY <1>8, <2>2, <2>4, <2>6, <4>1, <4>2
      <4>5. deltas[i] < texts[j - Len(deltas)]
        BY ONLY <1>2, <4>3, <4>4
      <4> QED BY <2>6, <3>3, <4>5
    <3> QED BY <3>1, <3>2, <3>3, <2>6
  <2>9. Ascending(deltas)' /\ Members(deltas)' = Members(deltas) \cup Members(texts)
    BY <2>3, <2>7, <2>8 DEF Ascending, Members
  <2>10. Members(deltas)' = (Stream!Of({"text"}) \cap Through(arrived))'
    <3>1. Stream!Of({"text"})' = Stream!Of({"text"})
      BY <1>12
    <3> QED BY <1>11, <2>2, <2>4, <2>9, <3>1
  <2> QED BY <2>5, <2>9, <2>10
<1>15. (parts = [c \in Stream!CallsOf(script) |-> Stream!Piece(c) \cap Through(arrived)])'
  <2>1. parts' = Stream!UpsertToolCalls(events)
    BY <1>6 DEF Stream!ChatEvents, Stream!ResponsesEvents
  <2>2. parts = [c \in Stream!CallsOf(script) |-> Stream!Piece(c) \cap Through(k)]
    BY <1>1 DEF StreamInv
  <2>3. ASSUME NEW c
        PROVE  {events[i] : i \in {j \in DOMAIN events : events[j] \in Stream!Piece(c)}} =
                 Stream!Piece(c) \cap Members(events)
    BY DEF Members
  <2>4. Stream!UpsertToolCalls(events) =
          [c \in DOMAIN parts |-> parts[c] \cup (Stream!Piece(c) \cap Members(events))]
    BY <2>3 DEF Stream!UpsertToolCalls
  <2>5. DOMAIN parts = Stream!CallsOf(script)
        /\ \A c \in Stream!CallsOf(script) :
             parts[c] \cup (Stream!Piece(c) \cap Members(events)) =
               Stream!Piece(c) \cap (Through(k) \cup Members(events))
    BY <2>2
  <2>6. parts' = [c \in Stream!CallsOf(script) |->
                    Stream!Piece(c) \cap (Through(k) \cup Members(events))]
    BY <2>1, <2>4, <2>5
  <2>7. Stream!CallsOf(script)' = Stream!CallsOf(script)
    BY <1>2 DEF Stream!CallsOf
  <2> QED BY <1>11, <1>13, <2>6, <2>7
<1>16. ASSUME NEW t
       PROVE  /\ Stream!Has(events, t) <=> Stream!Of({t}) \cap Members(events) # {}
              /\ (Stream!Of({t}) \cap Through(arrived) # {})' <=>
                   \/ Stream!Of({t}) \cap Through(k) # {}
                   \/ Stream!Of({t}) \cap Members(events) # {}
  <2>1. Stream!Has(events, t) <=> Stream!Of({t}) \cap Members(events) # {}
    <3>1. Stream!Has(events, t) <=> {e \in Members(events) : Stream!Sent[e].type = t} # {}
      BY <1>8, InEventsType, Zenon
    <3> QED BY <1>12, <3>1
  <2>2. (Stream!Of({t}) \cap Through(arrived))' =
          Stream!Of({t}) \cap (Through(k) \cup Members(events))
    BY <1>11, <1>12
  <2> QED BY <2>1, <2>2
<1>17. (finish <=> script.api = "chat" /\ Stream!Of({"finish"}) \cap Through(arrived) # {})'
  <2>1. finish <=> script.api = "chat" /\ Stream!Of({"finish"}) \cap Through(k) # {}
    BY <1>1 DEF StreamInv
  <2>2. CASE script.api = "chat"
    <3>1. finish' <=> (finish \/ Stream!Has(events, "finish"))
      BY <1>6, <2>2 DEF Stream!ChatEvents
    <3> QED BY <1>2, <1>16, <2>1, <2>2, <3>1
  <2>3. CASE script.api # "chat"
    <3>1. finish' = finish
      BY <1>6, <2>3 DEF Stream!ResponsesEvents
    <3> QED BY <1>2, <2>1, <2>3, <3>1
  <2> QED BY <2>2, <2>3
<1>18. (completed <=>
          script.api = "responses" /\ Stream!Of({"completed"}) \cap Through(arrived) # {})'
  <2>1. completed <=> script.api = "responses" /\ Stream!Of({"completed"}) \cap Through(k) # {}
    BY <1>1 DEF StreamInv
  <2>2. script.api = "chat" \/ script.api = "responses"
    BY <1>2, ScriptsType
  <2>3. CASE script.api = "responses"
    <3>1. completed' <=> (completed \/ Stream!Has(events, "completed"))
      BY <1>6, <2>3 DEF Stream!ResponsesEvents
    <3> QED BY <1>2, <1>16, <2>1, <2>3, <3>1
  <2>4. CASE script.api = "chat"
    <3>1. completed' = completed
      BY <1>6, <2>4 DEF Stream!ChatEvents
    <3> QED BY <1>2, <2>1, <2>4, <3>1
  <2> QED BY <2>2, <2>3, <2>4
<1>19. (arrived \in Nat /\ arrived <= 2 * Len(Stream!Sent))'
  BY <1>2, <1>9
<1>20. (buffer = IF arrived % 2 = 1 THEN <<Stream!Unit(arrived)>> ELSE <<>>)'
  BY <1>2, <1>6, <1>8 DEF Stream!Unit
<1> QED BY <1>2, <1>14, <1>15, <1>17, <1>18, <1>19, <1>20 DEF StreamInv

LEMMA StreamIdles ==
  ASSUME StreamInv, UNCHANGED <<script, arrived, buffer, deltas, parts, finish, completed>>
  PROVE  StreamInv'
BY DEF StreamInv, Ascending, Members, Through, Stream!Sent, Stream!Of, Stream!Piece,
       Stream!CallsOf, Stream!Unit

LEMMA StreamStep ==
  ASSUME StreamInv, Stream!Next \/ UNCHANGED streamVars
  PROVE  StreamInv'
<1>1. ASSUME NEW n \in 1..(2 * Len(Stream!Sent)), Stream!ChunkArrives(n) PROVE StreamInv'
  <2>1. n \in Nat
    BY ScriptsType DEF StreamInv
  <2> QED BY <1>1, <2>1, ChunkStep
<1>2. ASSUME Stream!StreamEnds \/ Stream!HttpFails \/ Stream!Aborts \/ Stream!Rejects
             \/ UNCHANGED streamVars
      PROVE  StreamInv'
  <2>1. UNCHANGED <<script, arrived, buffer, deltas, parts, finish, completed>>
    BY <1>2 DEF Stream!StreamEnds, Stream!HttpFails, Stream!Aborts, Stream!Rejects,
                Stream!content, streamVars
  <2> QED BY <2>1, StreamIdles
<1> QED BY <1>1, <1>2 DEF Stream!Next

\* A call is returned with all its arguments: what follows or brings its last
\* part was read.
LEMMA StreamFollows == StreamInv => StreamFaithful
<1> SUFFICES ASSUME StreamInv PROVE Stream!StreamFaithful
  BY DEF StreamFaithful
<1>1. /\ script \in Scripts /\ arrived \in Nat
      /\ parts = [c \in Stream!CallsOf(script) |-> Stream!Piece(c) \cap Through(arrived)]
      /\ finish <=> script.api = "chat" /\ Stream!Of({"finish"}) \cap Through(arrived) # {}
      /\ completed <=>
           script.api = "responses" /\ Stream!Of({"completed"}) \cap Through(arrived) # {}
  BY DEF StreamInv
<1>2. /\ Stream!Sent \in Seq(Stream!Events)
      /\ DOMAIN Stream!Sent = 1..Len(Stream!Sent) /\ Len(Stream!Sent) \in Nat
      /\ \/ script.api = "chat" /\ Stream!ChatProtocol(Stream!Sent)
         \/ script.api = "responses" /\ Stream!ResponsesProtocol(Stream!Sent)
  BY <1>1, ScriptsType
<1>3. /\ \A i, j \in DOMAIN deltas : i < j => deltas[i] < deltas[j]
      /\ {deltas[i] : i \in DOMAIN deltas} =
           Stream!Of({"text"}) \cap {i \in DOMAIN Stream!Sent : 2 * i <= arrived}
  BY DEF StreamInv, Ascending, Members, Through
<1>4. ASSUME NEW c \in Stream!CallsOf(script) PROVE Stream!Piece(c) # {} /\ c # 0
  <2>1. PICK i \in DOMAIN Stream!Sent : Stream!Sent[i].call = c /\ c # 0
    BY DEF Stream!CallsOf, Stream!Sent
  <2>2. Stream!Sent[i] \in Stream!Events
    BY <1>2
  <2>3. Stream!Sent[i].type \in {"part", "item"}
    BY <2>1, <2>2 DEF Stream!Events
  <2>4. i \in Stream!Piece(c)
    BY <2>1, <2>3 DEF Stream!Piece, Stream!Of
  <2> QED BY <2>1, <2>4
<1>5. ASSUME NEW c \in Stream!CallsOf(script), NEW i \in Stream!Of({"finish", "completed"}),
             i \in Through(arrived),
             script.api = "chat" => Stream!Sent[i].type = "finish",
             script.api = "responses" => Stream!Sent[i].type = "completed"
      PROVE  Stream!Piece(c) \subseteq Through(arrived)
  <2> SUFFICES ASSUME NEW p \in Stream!Piece(c) PROVE p \in Through(arrived)
    OBVIOUS
  <2>1. p \in DOMAIN Stream!Sent /\ Stream!Sent[p].type \in {"part", "item"}
        /\ i \in DOMAIN Stream!Sent /\ 2 * i <= arrived
    BY <1>5 DEF Stream!Piece, Stream!Of, Through
  <2>2. p < i
    <3>1. CASE script.api = "chat" /\ Stream!ChatProtocol(Stream!Sent)
      <4>1. Stream!Sent[p].type = "part"
        BY <2>1, <3>1 DEF Stream!ChatProtocol
      <4> QED BY <1>5, <2>1, <3>1, <4>1 DEF Stream!ChatProtocol
    <3>2. CASE script.api = "responses" /\ Stream!ResponsesProtocol(Stream!Sent)
      <4>1. Stream!Sent[p].type = "item"
        BY <2>1, <3>2 DEF Stream!ResponsesProtocol
      <4> QED BY <1>5, <2>1, <3>2, <4>1 DEF Stream!ResponsesProtocol
    <3> QED BY <1>2, <3>1, <3>2
  <2>3. 2 * p <= arrived
    BY ONLY <1>1, <1>2, <2>1, <2>2
  <2> QED BY <2>1, <2>3 DEF Through
<1>6. ASSUME NEW c \in Stream!Returned PROVE parts[c] = Stream!Piece(c)
  <2>1. c \in Stream!CallsOf(script)
    BY <1>1 DEF Stream!Returned
  <2>2. parts[c] = Stream!Piece(c) \cap Through(arrived)
    BY <1>1, <2>1
  <2>3. CASE script.api = "chat"
    <3>1. finish
      BY <2>3 DEF Stream!Returned
    <3>2. PICK i \in Stream!Of({"finish"}) : i \in Through(arrived)
      BY <1>1, <3>1
    <3>3. i \in Stream!Of({"finish", "completed"}) /\ Stream!Sent[i].type = "finish"
      BY <3>2 DEF Stream!Of
    <3>4. Stream!Piece(c) \subseteq Through(arrived)
      BY <1>5, <2>1, <2>3, <3>2, <3>3
    <3> QED BY <2>2, <3>4
  <2>4. CASE script.api = "responses" /\ completed
    <3>1. PICK i \in Stream!Of({"completed"}) : i \in Through(arrived)
      BY <1>1, <2>4
    <3>2. i \in Stream!Of({"finish", "completed"}) /\ Stream!Sent[i].type = "completed"
      BY <3>1 DEF Stream!Of
    <3>3. Stream!Piece(c) \subseteq Through(arrived)
      BY <1>5, <2>1, <2>4, <3>1, <3>2
    <3> QED BY <2>2, <3>3
  <2>5. CASE script.api = "responses" /\ ~ completed
    <3>1. parts[c] # {}
      BY <2>5 DEF Stream!Returned
    <3>2. PICK i : i \in Stream!Piece(c) /\ i \in Through(arrived)
      BY <2>2, <3>1
    <3>3. ASSUME NEW p \in Stream!Piece(c) PROVE p = i
      <4>1. Stream!ResponsesProtocol(Stream!Sent)
        BY <1>2, <2>5
      <4>2. /\ p \in DOMAIN Stream!Sent /\ i \in DOMAIN Stream!Sent
            /\ Stream!Sent[p].type \in {"part", "item"} /\ Stream!Sent[p].call = c
            /\ Stream!Sent[i].type \in {"part", "item"} /\ Stream!Sent[i].call = c
        BY <3>2 DEF Stream!Piece, Stream!Of
      <4>3. Stream!Sent[p].type = "item" /\ Stream!Sent[i].type = "item"
        BY <4>1, <4>2 DEF Stream!ResponsesProtocol
      <4> QED BY <4>1, <4>2, <4>3 DEF Stream!ResponsesProtocol
    <3> QED BY <2>2, <3>2, <3>3
  <2> QED BY <1>2, <2>3, <2>4, <2>5
<1>7. ASSUME outcome = "ok", arrived = 2 * Len(Stream!Sent)
      PROVE  Stream!Returned = Stream!CallsOf(script)
  <2>1. Through(arrived) = DOMAIN Stream!Sent
    <3>1. ASSUME NEW i \in DOMAIN Stream!Sent PROVE 2 * i <= arrived
      BY ONLY <1>2, <1>7
    <3> QED BY <3>1 DEF Through
  <2>2. ASSUME NEW c \in Stream!CallsOf(script) PROVE parts[c] # {}
    <3>1. parts[c] = Stream!Piece(c) \cap Through(arrived)
      BY <1>1
    <3>2. Stream!Piece(c) \subseteq DOMAIN Stream!Sent
      BY DEF Stream!Piece, Stream!Of
    <3> QED BY <1>4, <2>1, <3>1, <3>2
  <2>3. DOMAIN parts = Stream!CallsOf(script)
    BY <1>1
  <2>4. {c \in DOMAIN parts : parts[c] # {}} = Stream!CallsOf(script)
    BY <2>2, <2>3
  <2>5. CASE script.api = "chat" /\ ~ finish
    <3>1. ASSUME NEW c \in Stream!CallsOf(script) PROVE FALSE
      <4>1. Stream!ChatProtocol(Stream!Sent)
        BY <1>2, <2>5
      <4>2. PICK p : p \in Stream!Piece(c)
        BY <1>4
      <4>3. p \in DOMAIN Stream!Sent /\ Stream!Sent[p].type = "part"
        BY <4>1, <4>2 DEF Stream!Piece, Stream!Of, Stream!ChatProtocol
      <4>4. PICK f \in DOMAIN Stream!Sent : Stream!Sent[f].type = "finish"
        BY <4>1, <4>3 DEF Stream!ChatProtocol
      <4>5. f \in Stream!Of({"finish"}) \cap Through(arrived)
        BY <2>1, <4>4 DEF Stream!Of
      <4> QED BY <1>1, <2>5, <4>5
    <3>2. Stream!Returned = {}
      BY <2>5 DEF Stream!Returned
    <3> QED BY <3>1, <3>2
  <2>6. CASE ~ (script.api = "chat" /\ ~ finish)
    BY <1>7, <2>4, <2>6 DEF Stream!Returned
  <2> QED BY <2>5, <2>6
<1> QED BY <1>3, <1>6, <1>7 DEF Stream!StreamFaithful

-----------------------------------------------------------------------------
(* The parts together                                                      *)

PartsInv == LifeInv /\ WebInv /\ ProfileInv /\ LimitsInv /\ StreamInv

LEMMA PartsInitially == PartsInit => PartsInv
BY LifeInitially, WebInitially, ProfileInitially, LimitsInitially, StreamInitially
   DEF PartsInit, PartsInv

LEMMA PartsMove ==
  ASSUME [PartsNext]_partsVars
  PROVE  /\ Life!Next \/ UNCHANGED lifeVars
         /\ Web!Next \/ UNCHANGED webVars
         /\ Profile!Next \/ UNCHANGED profileVars
         /\ Stream!Next \/ UNCHANGED streamVars
         /\ [Next]_vars
BY DEF PartsNext, partsVars, Next

LEMMA PartsStep == PartsInv /\ [PartsNext]_partsVars => PartsInv'
<1> SUFFICES ASSUME PartsInv, [PartsNext]_partsVars PROVE PartsInv'
  OBVIOUS
<1>1. LifeInv'
  BY PartsMove, LifeStep DEF PartsInv
<1>2. WebInv'
  BY PartsMove, WebStep DEF PartsInv
<1>3. ProfileInv'
  BY PartsMove, ProfileStep DEF PartsInv
<1>4. LimitsInv'
  BY PartsMove, LimitsStep DEF PartsInv
<1>5. StreamInv'
  BY PartsMove, StreamStep DEF PartsInv
<1> QED BY <1>1, <1>2, <1>3, <1>4, <1>5 DEF PartsInv

\* The inductive invariant of the parts: the schema of the file and of the
\* transaction at each statement of the migration, the order of the shutdown, what
\* each hop of a fetch has validated, what each request has read of the account,
\* the limits' counters and what was read of each stream.
THEOREM PartsInvariant == PartsSpec => []PartsInv
<1>1. PartsInit => PartsInv
  BY PartsInitially
<1>2. PartsInv /\ [PartsNext]_partsVars => PartsInv'
  BY PartsStep
<1> QED BY <1>1, <1>2, PTL DEF PartsSpec

\* initDb: whichever releases are started, crash and migrate at the same time, no
\* commit brings an older version or loses the usage rows.
THEOREM SchemaKept == PartsSpec => SchemaOnlyGrows
<1>1. ASSUME PartsInv, [PartsNext]_partsVars
      PROVE  [file'.version >= file.version /\ file'.rows]_file
  BY <1>1, PartsMove, LifeStep DEF PartsInv
<1> QED BY <1>1, PartsInvariant, PTL DEF PartsSpec, SchemaOnlyGrows, Life!SchemaOnlyGrows

\* gracefulShutdown.js: the database is closed only after the work that the
\* shutdown waits for, and is not opened again; handlers whose clients left are not
\* among that work.
THEOREM ClosedWhenIdle == PartsSpec => []NoWorkOnClosedDatabase
<1>1. PartsInv => NoWorkOnClosedDatabase
  BY DEF PartsInv, LifeInv, LifeType, ClosingInv, NoWorkOnClosedDatabase,
         Life!NoWorkOnClosedDatabase
<1> QED BY <1>1, PartsInvariant, PTL

\* safeWebFetch.js: each hop's page is requested only after it is validated and
\* allowed, each page's agent is destroyed once, and the robots cache stays bounded
\* without duplicates.
THEOREM HopsAreChecked == PartsSpec => []FetchesOrderly
<1>1. PartsInv => FetchesOrderly
  BY WebOrderly DEF PartsInv
<1> QED BY <1>1, PartsInvariant, PTL

\* sessionService.js, routes.js: rows are created with the terms accepted, all
\* sessions answer with the account's one token, and none with a purged row.
THEOREM AccountsConsistent == PartsSpec => []ProfilesConsistent
<1>1. PartsInv => ProfilesConsistent
  BY ProfileConsistent DEF PartsInv
<1> QED BY <1>1, PartsInvariant, PTL

\* subscriptionStore.js, subscriptionStatus.js: the newest report wins whatever
\* the order they arrive in, and Apple's verified state over all of them.
THEOREM NewestReportWins == PartsSpec => []ReportsOrdered
<1>1. PartsInv => ReportsOrdered
  BY ProfileOrdered DEF PartsInv
<1> QED BY <1>1, PartsInvariant, PTL

\* openaiStream.js, responsesStream.js: wherever chunks end or the stream is cut,
\* the client gets the text in order and once, and no call is returned in part.
THEOREM StreamsAreFaithful == PartsSpec => []StreamFaithful
<1>1. PartsInv => StreamFaithful
  BY StreamFollows DEF PartsInv
<1> QED BY <1>1, PartsInvariant, PTL

\* The limits beside the other parts of the process.
THEOREM PartsLimits == PartsSpec => []LimitsHold
<1>1. PartsInv => LimitsHold
  BY LimitsFollow DEF PartsInv
<1> QED BY <1>1, PartsInvariant, PTL

=============================================================================
