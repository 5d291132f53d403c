# GenDB in TLA+

GenDB is a proxy in front of PostgreSQL. A client speaks the PostgreSQL protocol to the proxy, which relays
everything to the database except `CALL gendb.*(...)`: these commands it executes itself, over the *same*
backend connection, and they create, fill (through an LLM), show, synchronise and drop *synthetic* copies of
the client's tables in the schema `gendb`.

This directory specifies that program. Each module is written from the Go code; the comment above a
definition says what part of it, and `PROJECT.json` maps definitions to lines.

## 1. Inventory

| Component | Code | State | Operations | What is hard |
|---|---|---|---|---|
| Listener, session table | `pkg/proxy/proxy.go` 64-103 | `sessions` under `mu` | accept, one goroutine per connection | nothing reads the table |
| Start-up, authentication | `proxy.go` 115-204, 454-545 | backend key and parameters of the session | SSL denial, relay of authentication until ReadyForQuery | cancel requests; buffered bytes of a reader that is thrown away |
| Stub installation | `pkg/proxy/stubs.go`, `pkg/lang/stubs.go` | schema `gendb` and its fingerprint, tables `scenario`, `history` | set session info, compare the fingerprint, reinstall | check-then-act between sessions and proxy versions; error replies left half read |
| **Handshake** | `proxy.go` 246-317 | `relayPaused`, `pauseConfirm`, `pauseResume`, the read deadline, two goroutines | `pauseRelay`, `resumeRelay`, the timeout branch of the relay | one connection, two readers; deadlines that outlive their read; channels made anew for each pause |
| **Session** | `proxy.go` 206-452, 571-586, `conn.go` | client, backend and pgx connections, `txStatus`, messages under way | forward, intercept, execute, answer, relay, tear down | order of replies from two goroutines; pipelining; peers that leave |
| **Client byte stream** | `proxy.go` 208-244, 590-678 | the bytes read and not read | interception, drain of an extended query | TCP keeps no message boundaries; the timer of the drain |
| Command language | `pkg/lang` | handlers registered at start | parse, validate, dispatch | quoting and named arguments |
| Scenario and table commands | `cmd/gendb/serve.go` 130-278, 471-735, `pkg/synthetic` | rows of `gendb.scenario` and `gendb.history`, tables `__scenario__schema__table`, temporary views of each session | generate_data, return_generated, return_actual, create, update and drop scenario | lists that are stale when used; half-done work after an error; names that collide |
| Synchronisation | `serve.go` 280-469 | columns and indexes of synthetic tables | sync | a sequence of DDL without a transaction, repeated after a failure |
| Generator | `pkg/generator` | primary keys so far, unique keys seen | generate, repair foreign keys, retry duplicates, fill a column, insert by COPY | retries, bounds, rows already there |
| LLM client | `pkg/llm` | usage counters | chunked generation with retries, usage report | counters swapped one by one |
| Schema graph | `pkg/schema` | none | inspect, sort by foreign keys, write DDL | duplicate names, cycles |
| Configuration, CLI | `pkg/config`, `cmd/gendb` | none after start | load, wire | - |

How they interact: the listener starts a session; start-up relays authentication and installs the stubs;
then `mainLoop` runs two goroutines, the *forwarder* (client to backend) and the *relay* (backend to
client). A GenDB command runs inside the forwarder. It pauses the relay, wraps the backend connection in a
`pgx.Conn` whose handshake is replayed from memory, calls the handler, which queries the database
(generator, inspector) and the LLM, writes notices and the result straight to the client, and resumes the
relay. Sessions share the database, above all the schema `gendb`, and the LLM client, and nothing else.

What makes each component correct:

* **Handshake** - one reader at a time; no stray timeout; no double close; every pause ends.
* **Session** - every request answered once, in order, by the right server; the transaction status told to
  the client is the backend's; a departed peer ends the session.
* **Byte stream** - commands never reach the backend, everything else does, whole and in order; each command
  runs once.
* **Stubs** - an up-to-date schema is not reinstalled; scenarios and history survive connections.
* **Commands** - they change what they report, and only that; a scenario's views show its tables; a failed
  command can be repeated.
* **Sync** - after a sync that reports success the synthetic table has the columns and indexes of the real
  one; repeating sync converges.
* **Generator, LLM** - rows respect foreign keys and unique indexes, and the number asked for.
* **Schema** - the order respects foreign keys and loses no table.

`PROJECT.json` lists, under `hazards`, where each of these can go wrong, line by line.

## 2. Plan

Done in this order, the most important behaviour first:

1. `PauseResume` with `Handover`: the handshake, checked and proved.
2. `Session` with `QueryPort`, composed with 1: the life of a session, checked and proved.
3. `Framing`: the client's byte stream, checked and proved.
4. `Sync`: one synthetic table and its source under changes by its owners, checked and proved.
5. `Catalog`: sessions that install the stubs and run the scenario and table commands on one shared schema,
   checked and proved.
6. `TopoSort`: the order of the tables by their foreign keys, checked and proved.
7. `LLMClient` with `RowSource`: requests in chunks, retries and usage counters, checked and proved.
8. `Generator`, composed with `RowSource`: the rows of `generate_data` for a table, checked and proved.
9. `Startup`: from the first byte of a connection to its main loop, checked and proved.

To come:

10. An abstract catalogue, a map from scenarios to tables, that `Catalog` implements, and the encoding of
    names (`pkg/synthetic/schema.go`) under it.
11. The arguments of commands (`pkg/lang/parser.go`) as recursive functions against a reference definition.
12. More proofs: that nothing stands still which liveness needs to move, stated without ENABLED: in each
    state with work to do, some action of the goroutines has its guard.

A module of proofs accompanies each module of the program; "proved" means all its properties but liveness.

## 3. Modules

| Module | Models | Uses |
|---|---|---|
| `Handover` | abstract: who may read a shared connection | - |
| `PauseResume` | `pauseRelay`, `resumeRelay`, the relay's loop | refines `Handover` |
| `QueryPort` | abstract: a server that answers one request at a time | - |
| `Session` | `mainLoop`, `handleGenDBCommand`, the end of `handleConnection`, with a client, pgx and a backend | extends `PauseResume`, refines `QueryPort` |
| `SessionProofs` | theorems about `PauseResume` and `Session` | TLAPS |
| `Framing` | `extractQuery`, `extractParseQuery`, `drainExtendedQuery` | - |
| `FramingProofs` | theorems about `Framing` | TLAPS |
| `Sync`, `MCSync` | `handleSync`, `indexSignature`, `FillColumn`, with the owners of the real table | - |
| `SyncProofs` | theorems about `Sync` | TLAPS |
| `Catalog`, `MCCatalog` | `ensureGenDBSchema`, `BuildSetupSQL`, the handlers of `serve.go` but sync | - |
| `CatalogProofs` | theorems about `Catalog` | TLAPS |
| `RowSource` | abstract: rows that come in batches, or an error | - |
| `LLMClient` | `GenerateTableData`, `GenerateColumnValues`, `SnapshotUsage`, `logTokenUsage` | refines `RowSource` |
| `LLMClientProofs` | theorems about `LLMClient` | TLAPS |
| `Generator`, `MCGenerator` | `Generate` for one table, `uniqueTracker`, `insertRows`, with other sessions that insert rows | composed with `RowSource` |
| `GeneratorProofs` | theorems about `Generator` | TLAPS |
| `TopoSort`, `MCTopoSort` | `topoSort` | - |
| `TopoSortProofs` | theorems about `TopoSort` | TLAPS |
| `Startup` | `handleConnection` up to the main loop, `relayUntilReady`, `relayClientAuth`, `ensureGenDBSchema`, with client and database | - |
| `StartupProofs` | theorems about `Startup` | TLAPS |

**PauseResume.** `fpc` and `bpc` say where forwarder and relay are. `relayPaused` is `sess.relayPaused`;
`pair` numbers the channels the session holds now, `bPair` those the relay has copied, `confirmClosed` and
`resumeClosed` the channels that were closed; `expired` is a deadline of the backend connection that lies in
the past. An action is what a goroutine does between two points where the other can interfere: taking
`pauseMu`, setting a deadline, closing or receiving from a channel, the start and end of `Read`. The relay
may return at any read or write, because a peer can leave at any time.

**Session** adds the data. It extends `PauseResume`: each of its actions is a step of the handshake together
with what happens to the messages, or leaves the handshake alone. The wire is three queues (`toProxy`,
`toBackend`, `fromBackend`), and `received` is the replies the client got; notices it takes aside. A reply
is a body and a ReadyForQuery that carries a transaction status. `sess.txStatus`, which the relay scans the
bytes it reads for, is not modelled: nothing reads it. Requests are forwarded SQL (`sql`, `fail`, `begin`,
`commit`), a GenDB command (`call`) or one that does not parse (`badcall`). A command connects pgx once per
session (`CommandConnects`), sends any number of queries up to `MaxTrips`, reads whatever message comes next
as their answer, may send notices, and is answered. `Teardown` is the two deferred calls that matter, one
step each.

**Framing** looks below the message. A message is a head of five bytes and a rest, if it has any; the text
of a Query or a Parse, by which a command is known, is a piece of its own between the two. A piece is a
head, a text or a rest, with the batch it belongs to and its place there, and a chunk is any number of
pieces that have arrived, so that it may end inside a message, within its text too (`Cut`). A command is
matched on what the chunk has of its message (`StartsCommand`) and executed on that (`Executes`).
`DrainTimesOut` may happen at any moment of a drain, also with the Sync still on its way. `toBackend` is the
pieces that were relayed, `executed` the commands that were run. Two variables are for the properties:
`torn` remembers that a chunk ended inside a message or a Sync came late, where the code makes no promise
about commands, and `early` that a command was handed over with part of its message unread, where it makes
none to the backend.

**Sync** has two tables: the real one, which its owners alter at any moment (`Alters`), and the synthetic
one, which `Syncs` brings in step by the statements of `handleSync`, one action each. `InspectTable` of the
real table is several queries without a transaction, one action each (`FindsSource`, `ReadsColumns`,
`ReadsIndexes`), so that what it finds (`src`) may be of no single moment, and stale when it is used. If one
of them fails for whatever reason, the synthetic table is taken for an orphan (`SourceQueryFails`,
`DropsOrphan`); a failure about the synthetic one ends the call. PostgreSQL's part is modelled where the
handler depends on it: an index goes with a column of it, a view holds a column and its table in place, `SET
NOT NULL` fails over blanks. The call ends at the first error; it may be called again at any time. Two
variables are for the properties: `held`, what the real table has had all the time since the call began, and
`seen`, what it has had at some time since.

**Catalog** has many sessions and one database. `stamp`, `scenarios` and `history` are the schema `gendb`
(the comment with the fingerprint, and the rows of its two tables), `tables` and `filled` the synthetic
tables, and `views` the temporary views of each session. A session checks the fingerprint and may install,
then runs commands: `call` is the running one with the list it read at its start and what is left of it, and
each statement is a step, so that other sessions come in between. `touched` is no part of the program: it
remembers what others made or dropped during a command, so that properties can except it; so does `bare`,
the tables for which the LLM's answer held nothing to insert, which is a success. A table is a pair of a
scenario and a source, and its views are named by `NameOf`, so that two schemas can have tables of one name.
The foreign keys of synthetic tables (`Parents`) decide which `CREATE TABLE` and `DROP TABLE` PostgreSQL
refuses.

**LLMClient** has sessions that share the usage counters with one reporter. A call is a series of requests
(`remaining` rows are still to be asked for, in chunks), each answered by nothing, by something unreadable
or by a number of rows, after which the session adds to the counters one by one (`Counts`), while the
reporter swaps them one by one (`Swaps`). That a chunk counts as full whatever it brings is `Accepts`.
`RowSource` is what callers can rely on: `owed` batches, then rows or an error.

**Generator** is one session that fills one table. It asks `RowSource` (whose steps are part of its own, by
INSTANCE, instead of those of `LLMClient`), takes the rows of a response one by one (`Keeps`, `Drops`, or
fails on one that cannot be coerced), asks again for those it lost, and copies what it kept. A value is
three things: what the LLM answers, the Go value it is coerced to (`GoValue`), and what a column makes of
that (`Stored`). The tracker, the repair of foreign keys and PostgreSQL each look at their own. `seen` are
the keys of the tracker, lists of Go values as texts that do not name their index, as `makeKey` joins them.
`Unfit` and `Clash` are PostgreSQL's constraints, in which a NULL differs from all else. `valid` are the
foreign key values the repair goes by, those of the real parent; `shape.parents` those that are really in
the synthetic one.

**TopoSort** is the algorithm with its in-degrees and its queue, over places in the list of tables and their
names, which may coincide; the graph is chosen at the start. **Startup** is one connection with four queues.
`buffered` is what the frontend in use has read ahead; it is lost when the code goes over to the next one.
`phase` is the place in `handleConnection`, `setup` the statement of `ensureGenDBSchema`. `Times(m)` counts
how often the client was told `m`.

## 4. What the runs check

| Run | Instance | Result |
|---|---|---|
| `handshake` | five pauses, relay may return anywhere | `RelayWaitsForCommand`, `NoDoubleClose`, `NoStrayTimeout` hold, `Handover` is implemented, and a pause completes unless the relay has returned |
| `handshake_hang` | one pause | **violated**: `pauseRelay` waits for ever for a relay that has returned |
| `session` | three requests of five kinds, one at a time; one query per command, one asynchronous message; the client may quit or vanish and the backend close at any moment | replies reach who asked (`OwnReplies`), one at a time and in order (`PortSpec`), each request gets one (`RequestsAnswered`); whenever all is quiet the last status the client was told is the backend's, unless a command told it (`StatusTold`); a Terminate ends the session |
| `session_pipelined` | two requests sent without waiting | **violated**: a command reads the reply to the request before it |
| `framing` | three batches of seven kinds, a command prepared first and executed later among them, chunks cut anywhere, in a message's text too, Syncs that come late | no command leaks to the backend (`NoLeak`), nothing is lost (`NothingLost`), each command is executed once (`EachCommandOnce`), unless the network tears it apart; the backend gets whole messages (`BackendAligned`) until a command is executed with its message half read; every drain ends (`DrainEnds`) |
| `sync` | three changes of the real table (`MaxAlters = 3`) at any moment, between the queries that inspect it too; queries and an LLM that may fail; views that come and go | a sync that succeeds leaves the columns and indexes that the real table has had since the call began, and none that it has not had since (`SyncedColumns`, `SyncedIndexes`), with the columns it added finished (`NewColumnsComplete`); while no query about the real table fails, it loses no data (`DataKept`); repeated, it converges (`SyncConverges`) unless something that the property names is in its way |
| `catalog` | two sessions, three commands, two scenarios; a parent, its child and a table of the parent's name in another schema; answers that fail or hold no rows; one session may close at any moment | nothing of `gendb` is lost once the stubs are settled (`StubsSettle`), and they settle if all proxies are of one version (`StubsConverge`); a command that reports success has done what it says for what it was asked, up to what others did meanwhile (`GeneratedShown`, `ScenarioDropped`): no view is left on a name that `return_actual` listed (`ActualRestored`), and tables of `generate_data` have rows if the answers had (`DataGenerated`) |
| `sort` | every graph over three tables, in one schema or in two that share a name, with self-references, a reference that leaves the list and two keys between the same tables | parents come first (`ParentsFirst`), circular dependencies are reported if and only if there are any (`CyclesReported`), both if names are distinct; the sort ends in any case (`SortEnds`) |
| `llm` | two sessions, a table's rows in two chunks or a column's values; responses without choices, unreadable, empty or too long; requests that fail | the counters lose no request and report nothing twice (`UsageAccounted`), and the client implements `RowSource` (`SourceSpec`) |
| `generator` | two calls for two rows each, tables of four shapes, short and empty responses, doubles, NULLs, keys of no parent, two answers of one Go value and two texts of one uuid, values that cannot be coerced, a row of another session | two rows of one call clash in a tracked index only by two texts of one value (`OwnRowsFit`), the rows are no more than asked for unless a response was too long (`RowsPromised`), and a call ends (`GenerateEnds`) |
| `generator_keys` | the same | **violated**: a row refers to a key its synthetic parent does not have |
| `startup` | with and without SSL, up to two rounds of authentication, setup statements that may fail, two queries, connections that break anywhere | the client's conversation is its own but for one ReadyForQuery after a failed setup (`RepliesMatch`), and its queries are answered (`ClientServed`) |

**Bounds.** Three pauses are enough for an old deadline or channel to meet a new pause with one in between;
five leave room. Three requests let a reply cross two others and let a command fall before, inside and after
a transaction. Three batches let a drain meet the batch before and the one after. More requests or queries
repeat these situations. `Window = 1` is a client that waits, which is what `docs/guide/proxy.md` describes
and what drivers do unless they pipeline; `session_pipelined`, with `Window = 2`, shows what happens
otherwise. Three changes let the real table change between any two of the queries that inspect it, a column
and an index come and go within one sync, and something change again before the next. Two texts of one value
are the least that coercion can let pass. Three commands are one that makes the tables, one that lists them
and one that changes them while the list is worked off; the three sources are the smallest set with a
foreign key and with a name in two schemas. In `llm`, three rows in chunks of two are a full and a partial
chunk, a response of three is longer than either; `MaxRetries = 2` is the code's; `Kinds = 2` is a counter
of tokens and the one of requests, and the three of tokens behave alike; three responses (`MaxAnswers`) let
a report fall between two of one session with one of the other in between. In `generator`, a row lost to the
one before it can be lost again in the first retry and come in the second, and the second call meets the
rows of the first. Three tables are the smallest graph with a path besides an edge. In `startup`, a second
round tells a repeated request from the first, and a second query tells an answer from a leftover.

**Fairness.** Weak fairness for each goroutine: the Go scheduler runs a goroutine that can run. In `Session`
also for a backend that answers what it reads and closes after a Terminate. No fairness for clients, for
peers that leave, or for asynchronous messages; handlers are assumed to end (an LLM request that never
returns would hold the session, which the code does not prevent). In `Framing`, the forwarder reads what has
arrived, and the five seconds of the drain pass. In `Sync`, weak fairness of the handler, which somebody
calls again and again, and strong fairness of the two queries about synthetic tables (`ListsTables`,
`InspectsSynthetic`), which fail when the connection does and not for ever; none for owners, and an LLM or a
query about the real table that may fail may fail for ever. In `Catalog`, weak fairness of what each session
does by itself (`Runs`); none for clients, who need not connect, call or close. In `LLMClient`, weak
fairness of each session under way, so that a request is answered or fails (the code sets no deadline); none
for the reporter, whose ticks nothing depends on. In `Generator`, of the call and of the client that answers
it, which `SourceSpec` justifies. In `TopoSort`, of the one goroutine. In `Startup`, of the database, the
session's goroutines and none for the client.

`CHECK_DEADLOCK FALSE` where the system may stop: a session ends, and bounded clients fall silent. The runs
of `Sync` and `Catalog` check for deadlock: owners, and sessions that connect again, can always go on.

**Types.** Each module has a type invariant, and each is proved. Those of `PauseResume`, `Sync` and
`Catalog` are checked by the runs as well; the others were checked with the bounds above.

**Where the code differs from what it says.** `handshake_hang`, `session_pipelined` and `generator_keys` are
runs. These follow from reading the code; where a module covers the part, it behaves the same:

* `sendResult` and `sendError` always say the session is idle (`proxy.go:430`), also inside a transaction,
  which `StatusTold` excepts; `docs/guide/proxy.md:60` says "Transactions, prepared statements, and protocol
  features work as expected".
* The relay looks for a ReadyForQuery in the bytes of each read (`proxy.go:270`), where one that is split
  over two reads is missed and six such bytes in a row's data are taken for one. The status it keeps is read
  by nobody.
* A command is matched on the part of its message that has arrived (`proxy.go:219`). If a read ends inside
  its text, the command runs with the text cut short, and the rest of the message is relayed
  (`proxy.go:240`) to a backend that takes it for a message of its own; `BackendAligned` holds until then.
* Only the first message of a read is looked at (`proxy.go:219`, `228`): a command behind another is
  relayed, and what is behind a command in the same read is dropped (`proxy.go:222`).
* A Sync that comes after the drain has given up (`proxy.go:630`) is relayed and answered once more.
* A command that is prepared runs when it is parsed (`proxy.go:233`); if it is executed later, Bind and
  Execute are relayed to a backend that knows no such statement; the same line of the guide promises
  prepared statements.
* `drop_scenario` drops tables as they are listed, without CASCADE (`serve.go:666`); a parent that comes
  before its child cannot be dropped, although `docs/guide/gendb-sql.md:102` says that all of them are.
* Two sessions that connect to a fresh database both install the stubs (`stubs.go:29`, `40`); the second
  `DROP TABLE` takes away what was written through the first in between.
* `return_actual()` without arguments looks for tables of the default scenario only (`serve.go:511`), and
  views of other scenarios stay on names that the default one has no table for, although
  `docs/guide/gendb-sql.md:63` and `68` say that all tables with synthetic data are restored. Likewise "all
  tables" of `return_generated` (line 39) are those of one scenario.
* Of two tables of one name in two schemas, `return_generated` shows the one listed last (`serve.go:490`).
* An answer of the LLM without rows, or with unknown columns only, is a success (`generator.go:405`, `424`):
  `generate_data` reports the number of rows asked for (`serve.go:273`), and the table stays empty.
* `sync` takes a table for orphaned, and drops it with its data, on any error of `InspectTable`
  (`serve.go:341`). A new `real` or `double precision` column of the real table is enough: it has a
  precision and no scale, so that its type is read as NULL (`inspector.go:179`) and cannot be scanned. A
  table that is dropped between the queries of one inspection is found to have no columns, and all columns
  of the synthetic one are dropped.
* `sync` alters the synthetic table and keeps its rows (`DataKept`), where `docs/guide/gendb-sql.md:83` says
  that it drops and recreates the table and removes the data.
* If `sync` cannot fill a column it has added, the next one takes the column as done (`serve.go:388`).
* The tracker compares texts of Go values (`unique.go:52`), PostgreSQL values: uuids in upper and in lower
  case (`coerce.go:57`), times of one day in a date column (`coerce.go:129`), and floats that a
  `numeric(p,s)` rounds to one number (`coerce.go:51`) pass it, and COPY then refuses all rows of the call.
  The other way round, two NULLs are one key to the tracker, and keys of different indexes can be equal, so
  that rows are lost which PostgreSQL would take.
* The tracker knows the rows of one call (`unique.go:16`). A second `generate_data` for the same table may
  lose all its rows over one that is already there.
* A comment says responses are read until ReadyForQuery (`stubs.go:81`), but an ErrorResponse returns before
  it; the client is then told once more that the database is ready, which `RepliesMatch` excepts.
* The arrows of named arguments are looked for inside quotes, too (`parser.go:144`), so that a prompt given
  by position may not contain `=>` or `:=`; doubled quotes stay doubled, and a quoted `'NULL'` counts as
  NULL. This part is not modelled.
* If the database cannot be dialed, the client gets the error and a ReadyForQuery before any login
  (`proxy.go:156`).

## 5. What is proved

TLAPS checks these for every value of the constants.

* `SessionProofs`, the handshake: `HandshakeInv` is an inductive invariant of `HandshakeSpec`, in two parts:
  `ForwarderInv` (what each place of the forwarder implies about the relay's) and `RelayInv` (which pair of
  channels the relay holds and which channels are closed). The safety properties are not inductive by
  themselves: that no channel is closed twice needs that the relay's copy is the session's current pair,
  which needs that the forwarder does not start a new pause before the relay has left the last one.
  `Invariance` proves it; `TypeCorrect`, `ExclusiveConn`, `ChannelsClosedOnce` and `TimeoutsArePauses`
  follow; `ImplementsHandover` is step simulation under the invariant.
* `SessionProofs`, the session: `ImplementsHandshake` (every session step is a handshake step or leaves the
  handshake alone), so that the invariant carries over, and `CommandReadsAlone`: a command that waits for a
  reply is alone on the connection, for any client, any number of requests, queries and notices. For a
  client that waits (`Window = 1`), `WaitingInv` is inductive on top of these. At most one request is
  unanswered, and it is in one place at a time (`PlaceInv`): not yet read by the forwarder (`ProxyInv`), at
  the backend (`BackendInv`), in replies under way (`ReplyInv`), in the relay's hands (`HeldInv`), or being
  executed. The client's log alternates bodies and ReadyForQuery, request by request (`LogInv`, `CountInv`).
  A ReadyForQuery under way to the client has the backend's status (`StatusInv`), and if none is, the client
  was told that status, unless by a command (`ToldInv`). What the relay may still hold while a command runs
  is never a reply, which is where `HandshakeInv` comes in. `RepliesReachTheirOwner`, `ClientKnowsStatus`
  and `ImplementsQueryPort` follow.
* `FramingProofs`: `AnyInv` holds for any client, also one that sends ahead. What is not yet read is the end
  of what was sent, without a gap (`StreamInv`); the backend has pieces of what was read, in order
  (`BackendInv`); commands are executed in order, and nothing of one that is being drained is at the backend
  (`CommandInv`); until a command is handed over too early, the backend is at the end of a message or waits
  for the very piece that is read next (`AlignedInv`). `FramingTypeCorrect` and `BackendStaysAligned`
  follow. For a client that waits, `WaitInv` is inductive on top: all batches but the last are answered
  (`AnsweredInv`); what is no command is on its way or at the backend (`KeptInv`); and while nothing was
  torn, chunks begin with heads, and a command is to be read, drained or executed and never at the backend
  (`IntactInv`). `NothingLeaks`, `NothingIsLost` and `EachCommandIsExecutedOnce` follow.
* `StartupProofs`: `StartupInv` says, for each phase of `handleConnection`, what may be under way between
  database and client: nothing (`OpeningInv`), one message of the login or the end of it (`LoginInv`), one
  statement of the setup with its results (`SetupInv`), and in the main loop no more answers than questions,
  with at most one ReadyForQuery of the setup, after a failure (`MainInv`). A reader that is thrown away
  loses nothing because a dialogue leaves nothing read ahead: `Line`, what was read and what was not, is
  empty when the code changes readers. `StartupTypeCorrect` and `RepliesAreTheClients` follow, without
  assumptions on the constants.
* `SyncProofs`: `IInv`, the types strengthened by `TablesInv` (indexes of the real table, and what is NOT
  NULL in the synthetic one, are on columns that exist) and `ColumnsInv` (what is still to drop and to add
  accounts for all the difference between the columns and those looked at), with one lemma per action.
  `SpanInv` puts what was looked at between what the real table has had all along and what it has had at
  some time, query by query: `held` lies in `src`, and `src` in `seen`. `ColumnsSynced`,
  `NewColumnsFinished` and `NoDataLost` follow: at the end of the loops nothing is left to do, and a call
  that takes the table for an orphan holds nothing. `IndexesInv` says the same of indexes: each of the real
  table's is there or still to be made, because of those with one signature the map has the last
  (`LastOfCovers`), and none of them is on a column that goes; `IndexesSynced` follows.
* `CatalogProofs`: `IInv`, the types strengthened by `ViewsInv` (a view has the name of its table's source),
  `PlaceInv` and `HideInv`: every view on a table that a running `return_actual` was asked for has its name
  still on the list, and so has every view on a name of the list. `HideInv` holds at the start because a
  table that is shown cannot be dropped, so that the list has it, and while it runs because a session's
  views are changed by nobody else. `ActualIsRestored` is this with an empty list. `CommandInv` gives an
  account of the other commands: what was taken off the list is filled (or its answer was empty), shown or
  gone, up to what others did meanwhile; other sessions do not disturb it (`OthersUndisturbed`), and each
  step of its own keeps it (`OwnCommand`). At the end of the list it is `GeneratedDataLasts`,
  `GeneratedIsShown` and `DroppedScenarioIsGone`. `StubsStaySettled` needs only the types: no step but an
  installation takes rows away, and no check that finds the right fingerprint leads to one.

* `TopoSortProofs`: the invariant says how in-degrees, queue and order belong together. A table's in-degree
  is the number of its keys whose parent is not yet in the order or not yet gone through; a table waits in
  the queue or stands in the order when that number is zero, and once only. `SortedParentsFirst` follows at
  the end; for `CyclesFound` the tables left over each refer to another one left over, and a set of such
  tables never loses a member.
* `LLMClientProofs`: `UsageAlwaysAccounted` adds to the types that a session between two responses starts
  with the first counter, and that the reporter holds nothing of a counter it has yet to swap; then each
  step moves what is known of a counter from one place to another. `ImplementsSource` is step simulation:
  the batches owed are the rows to ask for divided by the chunk size and rounded up, and a request takes one
  off (`OneBatch`).
* `GeneratorProofs`: the tracker has the keys of every row kept, no two rows kept share one, and rows kept,
  lost and still to look at add up to no more than were asked for while no response was too long.
  `OwnRowsFitButForTexts` needs that what COPY inserts (`InTable`) is made of what the tracker saw wherever
  PostgreSQL compares it, for whatever coercion (`GoValue`) and column types (`Stored`) do.

Assumptions: those stated with the constants (`PauseResumeAssumption`, `SessionAssumption`,
`SyncAssumption`, `CatalogAssumption`, `TopoSortAssumption`, `LLMClientAssumption`, `GeneratorAssumption`),
and `Window = 1` in the theorems of `Session` and `Framing` that say so. That is needed, not a convenience:
with two requests under way, `session_pipelined` violates `OwnReplies`, and with two batches in one chunk
the code looks at the first message of the chunk only (`proxy.go:219`, `228`), so that a command behind
another message is relayed, a batch behind a command is dropped, and of the safety properties of `framing`
only `BackendAligned` holds.

Only model-checked: the liveness properties (`PauseCompletes`, `RequestsAnswered`, `QuitEndsSession`,
`DrainEnds`, `SyncConverges`, `StubsConverge`, `SortEnds`, `GenerateEnds`, `ClientServed`) and the fairness
of `SourceSpec`, whose safety is `ImplementsSource`: the provers have no rule for fairness and none for
ENABLED.

## 6. Not modelled

`Sync` has one synthetic table of the list, and leaves out foreign keys, CHECK constraints, changes of a
column's type and other sessions that change the synthetic table. `Catalog` leaves out prompts and with them
`update_scenario`, clients that run a command inside a transaction of their own, and names that are parsed
back as others because they contain the separator. `Startup` leaves out clients that send queries before
they are told that the database is ready (a frontend that has read them takes them along), and what becomes
of a CancelRequest or GSSEncRequest beyond its being taken for a startup message. `Generator` leaves out the
statistics and samples that go into a prompt, and the rules of coercion type by type: that one Go value has
one text is all it knows of them. `Session` takes a chunk read as one message, so that a relay which is
paused in the middle of a split message is left out. `Framing` leaves out a chunk that begins in the middle
of a message and looks like a Query or a Parse there. `Session` and `Framing` take the command language as
the set of texts that are commands, and whether they parse. Left out for good: prompt text, repair of
malformed JSON, SQL of the inspector and DDL text, configuration, logging, and the listener, whose table of
sessions nothing reads. They are sequential text processing without shared state. TLS, and writes that
block, are not modelled either: a client that never reads can hold a session.
