----------------------------- MODULE ServerLife -----------------------------
(***************************************************************************)
(* The life of the server process and of its database file: migration at   *)
(* the start (src/src/db/initDb.js), the shared connection (db.js),        *)
(* serving and the recovery worker (server.js) and the graceful shutdown   *)
(* (operations/gracefulShutdown.js), with crashes, restarts as another     *)
(* release and a second process that migrates the same file.               *)
(*                                                                         *)
(* A definition whose comment starts with "Wrong:" is a faulty variant of  *)
(* the next one; no specification uses it.                                 *)
(***************************************************************************)
EXTENDS Naturals, FiniteSets

CONSTANTS
  Releases,  \* DATABASE_SCHEMA_VERSION of the releases that may be started
  MaxStarts  \* bound on the starts of the process

\* What the constants must satisfy; ServerParts assumes it.
LifeAssumption ==
  /\ Releases \subseteq Nat \ {0} /\ Releases # {} /\ IsFiniteSet(Releases)
  /\ MaxStarts \in Nat

VARIABLES
  pc,         \* where the process is
  release,    \* its DATABASE_SCHEMA_VERSION
  file,       \* the committed schema
  tx,         \* the schema inside the process's transaction
  starts,     \* starts so far
  db,         \* dbPromise and dbClosePromise: "none", "open", "closing", "closed"
  terminal,   \* dbTerminallyClosed
  stopping,   \* shutdownRequested, draining: a signal was handled
  announced,  \* the callback of server.listen has run
  client,     \* the HTTP connection: "none", "idle" or "busy" with a request
  orphan,     \* a handler still runs although its client disconnected
  socket,     \* a WebSocket client is connected
  chat,       \* the gateway has an operation in flight
  recovery,   \* accountDeletionRecoveryInFlight
  drained,    \* drain steps that have settled: "http", "ws", "background"
  exit        \* the last exit code, or "none"

schema == <<file, tx>>
dbVars == <<db, terminal>>
work == <<client, orphan, socket, chat, recovery>>
proc == <<pc, release, starts, stopping, announced, drained, exit>>
vars == <<proc, schema, dbVars, work>>

\* What matters of a schema: its version, whether the columns of this release
\* are there, whether usage_periods is there, knows weeks and still has its
\* rows, and whether a half-made copy of it is left.
Schema == [version : Nat, columns : BOOLEAN, weeks : BOOLEAN, table : BOOLEAN,
           rows : BOOLEAN, copy : {"none", "empty", "filled"}]
Legacy == [version |-> 0, columns |-> FALSE, weeks |-> FALSE, table |-> TRUE,
           rows |-> TRUE, copy |-> "none"]

Idle ==
  /\ db = "none" /\ terminal = FALSE
  /\ stopping = FALSE /\ announced = FALSE /\ drained = {}
  /\ client = "none" /\ orphan = FALSE /\ socket = FALSE
  /\ chat = FALSE /\ recovery = FALSE

Init ==
  /\ pc = "down" /\ release = 0 /\ starts = 0 /\ exit = "none"
  /\ file = Legacy /\ tx = Legacy
  /\ Idle

\* The process is gone, with its transaction and all it was doing.
Gone(code) ==
  /\ pc' = "down" /\ exit' = code
  /\ tx' = file
  /\ db' = "none" /\ terminal' = FALSE
  /\ stopping' = FALSE /\ announced' = FALSE /\ drained' = {}
  /\ client' = "none" /\ orphan' = FALSE /\ socket' = FALSE
  /\ chat' = FALSE /\ recovery' = FALSE
  /\ UNCHANGED <<release, file, starts>>

-----------------------------------------------------------------------------
(* initDb                                                                  *)

\* A release is started: getDb opens the file.
Start ==
  /\ pc = "down"
  /\ starts < MaxStarts
  /\ starts' = starts + 1
  /\ release' \in Releases
  /\ pc' = "preflight"
  /\ db' = "open"
  /\ exit' = "none"
  /\ UNCHANGED <<schema, terminal, stopping, announced, drained, work>>

At(from, to) == pc = from /\ pc' = to

Keep == UNCHANGED <<release, starts, dbVars, stopping, announced, drained, exit, work>>

\* assertSupportedSchemaVersion
Supported == file.version <= release

Preflight ==
  /\ Supported
  /\ At("preflight", "begin")
  /\ Keep /\ UNCHANGED schema

\* Wrong: the version is not looked at again.
SupportedBefore == TRUE

SupportedLocked == Supported

\* BEGIN IMMEDIATE and the version under the write lock.
BeginTx ==
  /\ SupportedLocked
  /\ At("begin", "columns")
  /\ tx' = file
  /\ Keep /\ UNCHANGED file

\* A release that does not know the version throws, and the process ends.
Unsupported ==
  /\ ~ Supported
  /\ pc \in {"preflight", "begin"}
  /\ Gone("crashed")

\* A statement inside the transaction.
Statement(s) == tx' = s /\ UNCHANGED file

\* The columns, then the test whether usage_periods has to be rebuilt.
Columns ==
  /\ IF tx.table /\ ~ tx.weeks THEN At("columns", "create") ELSE At("columns", "schema")
  /\ Statement([tx EXCEPT !.columns = TRUE])
  /\ Keep

\* The four statements that rebuild usage_periods; the first fails when a copy
\* is left over.
CreateCopy ==
  /\ tx.copy = "none"
  /\ At("create", "fill")
  /\ Statement([tx EXCEPT !.copy = "empty"])
  /\ Keep
FillCopy ==
  /\ At("fill", "drop")
  /\ Statement([tx EXCEPT !.copy = "filled"])
  /\ Keep
DropTable ==
  /\ At("drop", "rename")
  /\ Statement([tx EXCEPT !.table = FALSE, !.rows = FALSE])
  /\ Keep
RenameCopy ==
  /\ At("rename", "schema")
  /\ Statement([tx EXCEPT !.table = TRUE, !.weeks = TRUE, !.copy = "none",
                          !.rows = (tx.copy = "filled")])
  /\ Keep

\* schema.sql creates the tables that are missing.
ApplySchema ==
  /\ At("schema", "stamp")
  /\ Statement(IF tx.table THEN tx ELSE [tx EXCEPT !.table = TRUE, !.weeks = TRUE])
  /\ Keep

\* PRAGMA user_version
Stamp ==
  /\ At("stamp", "commit")
  /\ Statement([tx EXCEPT !.version = release])
  /\ Keep

Commit ==
  /\ At("commit", "listen")
  /\ file' = tx
  /\ Keep /\ UNCHANGED tx

Migration ==
  \/ Preflight \/ BeginTx \/ Unsupported \/ Columns \/ CreateCopy \/ FillCopy
  \/ DropTable \/ RenameCopy \/ ApplySchema \/ Stamp \/ Commit

Locked == pc \in {"columns", "create", "fill", "drop", "rename", "schema", "stamp", "commit"}

\* A statement of the migration fails: ROLLBACK, and the process ends.
MigrationFails == Locked /\ Gone("crashed")

\* Another process migrates the file while this one does not hold the lock.
OtherMigrates ==
  /\ ~ Locked
  /\ \E r \in Releases :
       /\ file.version <= r
       /\ file' = [Legacy EXCEPT !.version = r, !.columns = TRUE, !.weeks = TRUE,
                                 !.rows = file.rows]
  /\ tx' = file'
  /\ UNCHANGED <<proc, dbVars, work>>

-----------------------------------------------------------------------------
(* Serving                                                                 *)

\* server.listen is called; signals are handled from here on.
Listen ==
  /\ pc = "listen" /\ pc' = "serving"
  /\ UNCHANGED <<release, starts, stopping, announced, drained, exit, schema, dbVars, work>>

Serving == pc = "serving"
Quiet == UNCHANGED <<proc, schema, dbVars>>

\* Wrong: the callback always starts the recovery.
MayAnnounce == TRUE

MayRecover == ~ stopping

\* The callback of server.listen starts the recovery.
Announce ==
  /\ Serving /\ ~ announced
  /\ announced' = TRUE
  /\ recovery' = (recovery \/ MayRecover)
  /\ UNCHANGED <<pc, release, starts, stopping, drained, exit, schema, dbVars, client,
                 orphan, socket, chat>>

\* The interval's tick; shutdown clears the interval.
Tick ==
  /\ Serving /\ announced /\ ~ stopping
  /\ ~ recovery /\ recovery' = TRUE
  /\ Quiet /\ UNCHANGED <<client, orphan, socket, chat>>

RecoveryEnds ==
  /\ recovery /\ recovery' = FALSE
  /\ Quiet /\ UNCHANGED <<client, orphan, socket, chat>>

\* A client connects while the server listens, sends a request, and gets its
\* answer; connections that are there may send another request.
Connects ==
  /\ Serving /\ announced /\ ~ stopping
  /\ client = "none" /\ client' = "idle"
  /\ Quiet /\ UNCHANGED <<orphan, socket, chat, recovery>>
Sends ==
  /\ client = "idle" /\ client' = "busy"
  /\ Quiet /\ UNCHANGED <<orphan, socket, chat, recovery>>
Responds ==
  /\ client = "busy" /\ client' = "idle"
  /\ Quiet /\ UNCHANGED <<orphan, socket, chat, recovery>>
\* A client that leaves does not stop the handler.
Disconnects ==
  /\ client # "none" /\ client' = "none"
  /\ orphan' = (orphan \/ client = "busy")
  /\ Quiet /\ UNCHANGED <<socket, chat, recovery>>
OrphanEnds ==
  /\ orphan /\ orphan' = FALSE
  /\ Quiet /\ UNCHANGED <<client, socket, chat, recovery>>

\* A WebSocket client, and an operation of the gateway, which does not take any
\* while it drains. Operations outlive their sockets.
Opens ==
  /\ Serving /\ announced /\ ~ stopping
  /\ ~ socket /\ socket' = TRUE
  /\ Quiet /\ UNCHANGED <<client, orphan, chat, recovery>>
ChatStarts ==
  /\ socket /\ ~ stopping
  /\ ~ chat /\ chat' = TRUE
  /\ Quiet /\ UNCHANGED <<client, orphan, socket, recovery>>
ChatEnds ==
  /\ chat /\ chat' = FALSE
  /\ Quiet /\ UNCHANGED <<client, orphan, socket, recovery>>
SocketCloses ==
  /\ socket /\ socket' = FALSE
  /\ Quiet /\ UNCHANGED <<client, orphan, chat, recovery>>

Traffic ==
  \/ Connects \/ Sends \/ Responds \/ Disconnects \/ OrphanEnds
  \/ Opens \/ ChatStarts \/ ChatEnds \/ SocketCloses

\* getDb of a handler that comes late: refused once terminally closed.
GetDb == IF terminal THEN db ELSE "open"

LateQuery ==
  /\ Serving
  /\ orphan \/ client = "busy"
  /\ db' = IF db = "closed" THEN GetDb ELSE db
  /\ UNCHANGED <<proc, schema, terminal, work>>

-----------------------------------------------------------------------------
(* Shutdown                                                                *)

\* SIGTERM or SIGINT: new work is refused.
Signal ==
  /\ Serving /\ ~ stopping
  /\ stopping' = TRUE
  /\ UNCHANGED <<pc, release, starts, announced, drained, exit, schema, dbVars, work>>

Settles(step) ==
  /\ Serving /\ stopping
  /\ step \notin drained
  /\ drained' = drained \cup {step}
  /\ UNCHANGED <<pc, release, starts, stopping, announced, exit, schema, dbVars>>

HttpCloses == client = "none" /\ Settles("http") /\ UNCHANGED work

\* Clients are asked to close, after a grace they are terminated; a server that
\* does not close even then counts as failed, and shutdown goes on.
WsCloses ==
  /\ Settles("ws")
  /\ socket' = FALSE
  /\ UNCHANGED <<client, orphan, chat, recovery>>

\* waitForBackgroundWork: the recovery in flight and the gateway's operations.
BackgroundEnds == ~ recovery /\ ~ chat /\ Settles("background") /\ UNCHANGED work

\* Promise.allSettled waits for all three.
Awaited == {"http", "ws", "background"}

\* closeDb, terminal at once; the checkpoint and the close follow.
CloseStarts ==
  /\ Serving /\ Awaited \subseteq drained
  /\ db = "open"
  /\ terminal' = TRUE
  /\ db' = "closing"
  /\ UNCHANGED <<proc, schema, work>>

CloseEnds ==
  /\ db = "closing"
  /\ db' = "closed"
  /\ UNCHANGED <<proc, schema, terminal, work>>

\* exitProcess, with 1 when a step failed.
Exits ==
  /\ Serving /\ stopping /\ terminal
  /\ db = "closed"
  /\ \E code \in {"clean", "failed"} : Gone(code)

\* Wrong: the deadline covers the closing of the database only.
DeadlineArmed == terminal

Armed == stopping

\* The hard deadline: the process exits with 1 at once.
HardDeadline ==
  /\ Serving /\ Armed
  /\ Gone("timedOut")

Shutdown == HttpCloses \/ WsCloses \/ BackgroundEnds \/ CloseStarts \/ CloseEnds \/ Exits

\* The process dies at any point, by a signal while it starts, for instance.
Crash == pc # "down" /\ Gone("crashed")

Next ==
  \/ Start \/ Migration \/ MigrationFails \/ OtherMigrates \/ Listen \/ Announce
  \/ Tick \/ RecoveryEnds \/ Traffic \/ LateQuery \/ Signal \/ Shutdown
  \/ HardDeadline \/ Crash

Spec == Init /\ [][Next]_vars

\* A process that runs goes on, and its deadline's timer fires. Nothing is
\* assumed of clients, of operations or of the recovery.
FairSpec ==
  /\ Spec
  /\ WF_vars(Migration) /\ WF_vars(Listen) /\ WF_vars(Shutdown) /\ WF_vars(HardDeadline)

-----------------------------------------------------------------------------
(* Properties                                                              *)

\* Whatever is started, crashes or migrates at the same time, the committed
\* schema never goes back to an older version and never loses the usage rows.
SchemaOnlyGrows == [][file'.version >= file.version /\ file'.rows]_file

\* The connection is not closed under work that the shutdown waits for: the
\* requests of connected clients, the gateway's operations and the recovery. And
\* what the shutdown closes stays closed: a handler whose client left that asks for
\* the connection again gets none. Such a handler is not waited for, so one that
\* already holds the handle may find it closed under it; this says nothing of it.
NoWorkOnClosedDatabase ==
  terminal => db # "open" /\ client # "busy" /\ ~ chat /\ ~ recovery

\* A signal ends the process, whatever clients and jobs do.
SignalsStop == stopping ~> pc = "down"
=============================================================================
