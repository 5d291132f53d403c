--------------------------------- MODULE Session --------------------------------
(***************************************************************************)
(* One established session of the proxy: the client, the forwarder and the *)
(* relay of mainLoop, a GenDB command reading and writing the very backend *)
(* connection through pgx, and the PostgreSQL backend (pkg/proxy/proxy.go, *)
(* from mainLoop to sendError, and the end of handleConnection).  The      *)
(* handshake between the goroutines is PauseResume.                        *)
(*                                                                         *)
(* Abstractions.  A chunk read from a connection holds one message.  A     *)
(* reply is two messages: a body (rows, tag or error) and a ReadyForQuery, *)
(* which is named by the transaction status it carries.  Each carries the  *)
(* request it answers and who sent that, which no process looks at.        *)
(* sess.txStatus, which the relay takes from the bytes of each chunk it    *)
(* reads and nothing reads, is left out.                                   *)
(***************************************************************************)
EXTENDS PauseResume, Sequences, FiniteSets

CONSTANTS Ops,          \* the kinds of request the client sends
          MaxRequests,  \* bound on the requests of the client
          Window,       \* how many requests it sends ahead of the replies
          MaxTrips,     \* bound on the queries one command sends
          MaxNotices,   \* bound on asynchronous messages
          MayLeave,     \* whether the client may quit or vanish
          MayDie        \* whether the backend may go away

ASSUME SessionAssumption ==
  /\ Ops \subseteq {"sql", "fail", "begin", "commit", "call", "badcall"}
  /\ MaxRequests \in Nat /\ Window \in Nat \ {0}
  /\ MaxTrips \in Nat /\ MaxNotices \in Nat
  /\ MayLeave \in BOOLEAN /\ MayDie \in BOOLEAN
  /\ MaxPauses >= MaxRequests   \* PauseResume adds no bound of its own

VARIABLES
  asked,         \* number of requests sent by the client
  clientOpen,    \* FALSE once the client has closed its end
  toProxy,       \* sent by the client, not yet read by the forwarder
  toBackend,     \* sent to the backend, not yet read by it
  fromBackend,   \* sent by the backend, not yet read by anyone
  backendUp,     \* FALSE once the backend has closed its end
  backendTx,     \* the backend's transaction status
  notices,       \* asynchronous messages sent so far
  held,          \* read by the relay, not yet written: empty or one message
  received,      \* the replies the client has received; it takes notices aside
  cmd,           \* the request being executed as a command, 0 for none
  trips,         \* queries sent by that command
  awaiting,      \* the command is reading the reply to its last query
  pgxConn,       \* sess.pgxConn: "none", "open", or "closed" by an error
  teardown       \* how far the deferred calls of handleConnection have run

clientVars    == <<asked, clientOpen>>
wireVars      == <<toProxy, toBackend, fromBackend>>
backendVars   == <<backendUp, backendTx>>
cmdVars       == <<cmd, trips, awaiting, pgxConn>>
sessionVars   == <<clientVars, wireVars, backendVars, held, cmdVars,
                   received, notices, teardown>>
vars          == <<pvars, sessionVars>>

Tx == {"I", "T", "E"}
Requests == [id : 0 .. MaxRequests, by : {"client", "pgx"}, op : Ops \union {"sql", "terminate"}]
Messages == [id : 0 .. MaxRequests, by : {"client", "pgx", "gendb"},
             part : {"body", "notice"} \union Tx]

TypeOK == /\ HandshakeTypeOK
          /\ asked \in 0 .. MaxRequests /\ clientOpen \in BOOLEAN
          /\ toProxy \in Seq(Requests) /\ toBackend \in Seq(Requests)
          /\ fromBackend \in Seq(Messages) /\ received \in Seq(Messages)
          /\ backendUp \in BOOLEAN /\ backendTx \in Tx
          /\ held \in Seq(Messages) /\ Len(held) <= 1
          /\ cmd \in 0 .. MaxRequests /\ trips \in 0 .. MaxTrips
          /\ awaiting \in BOOLEAN /\ notices \in 0 .. MaxNotices
          /\ pgxConn \in {"none", "open", "closed"}
          /\ teardown \in {"none", "backendClosed", "done"}

Init == /\ HandshakeInit
        /\ asked = 0 /\ clientOpen = TRUE
        /\ toProxy = <<>> /\ toBackend = <<>> /\ fromBackend = <<>>
        /\ backendUp = TRUE /\ backendTx = "I"
        /\ held = <<>> /\ received = <<>>
        /\ cmd = 0 /\ trips = 0 /\ awaiting = FALSE /\ pgxConn = "none"
        /\ notices = 0 /\ teardown = "none"

Message(id, by, part) == [id |-> id, by |-> by, part |-> part]
Reply(id, by, tx) == <<Message(id, by, "body"), Message(id, by, tx)>>
IsReady(m) == m.part \in Tx

\* conn.Write to the client: lost, without an error, once the client has left.
SendClient(msgs) ==
  received' = IF clientOpen /\ teardown # "done" /\ Head(msgs).part # "notice"
              THEN received \o msgs ELSE received

\* Where a reply to the client is complete.
Readies == {i \in DOMAIN received : IsReady(received[i])}

--------------------------------------------------------------------------------
(* The client *)

\* Up to Window requests are out at a time: 1 is a client that waits.
ClientSends(op) ==
  /\ clientOpen /\ teardown # "done"
  /\ asked < MaxRequests /\ asked - Cardinality(Readies) < Window
  /\ asked' = asked + 1
  /\ toProxy' = Append(toProxy, [id |-> asked', by |-> "client", op |-> op])
  /\ UNCHANGED <<pvars, clientOpen, toBackend, fromBackend, backendVars,
                 held, cmdVars, received, notices, teardown>>

\* Terminate, then close: what drivers do.
ClientQuits ==
  /\ MayLeave /\ clientOpen
  /\ clientOpen' = FALSE
  /\ toProxy' = Append(toProxy, [id |-> 0, by |-> "client", op |-> "terminate"])
  /\ UNCHANGED <<pvars, asked, toBackend, fromBackend, backendVars,
                 held, cmdVars, received, notices, teardown>>

\* The connection closes without a Terminate: a killed process.
ClientVanishes ==
  /\ MayLeave /\ clientOpen
  /\ clientOpen' = FALSE
  /\ UNCHANGED <<pvars, asked, wireVars, backendVars, held, cmdVars,
                 received, notices, teardown>>

--------------------------------------------------------------------------------
(* The forwarder: mainLoop's goroutine, handleGenDBCommand *)

\* clientConn.Read returns the next chunk; it fails once the connection is closed.
Reading == fpc = "relay" /\ teardown # "done" /\ toProxy # <<>>

\* No GenDB command: the bytes go to the backend, or nowhere if it has gone.
ForwardsRequest ==
  /\ Reading /\ Head(toProxy).op \notin {"call", "badcall"}
  /\ teardown = "none"
  /\ toProxy' = Tail(toProxy)
  /\ toBackend' = IF backendUp THEN Append(toBackend, Head(toProxy)) ELSE toBackend
  /\ UNCHANGED <<pvars, clientVars, fromBackend, backendVars, held,
                 cmdVars, received, notices, teardown>>

\* lang.Parse fails: sendError at once, the relay is not paused.
RejectsCommand ==
  /\ Reading /\ Head(toProxy).op = "badcall"
  /\ toProxy' = Tail(toProxy)
  /\ SendClient(Reply(Head(toProxy).id, "gendb", "I"))
  /\ UNCHANGED <<pvars, clientVars, toBackend, fromBackend, backendVars,
                 held, cmdVars, notices, teardown>>

\* Mutant: an intercepted command is relayed as well.
StartsCommandAndForwards ==
  /\ Reading /\ Head(toProxy).op = "call"
  /\ Pause
  /\ toProxy' = Tail(toProxy)
  /\ cmd' = Head(toProxy).id /\ trips' = 0
  /\ toBackend' = Append(toBackend, Head(toProxy))
  /\ UNCHANGED <<clientVars, fromBackend, backendVars, held,
                 awaiting, pgxConn, received, notices, teardown>>

\* lang.Parse succeeds: pauseRelay begins.
StartsCommand ==
  /\ Reading /\ Head(toProxy).op = "call"
  /\ Pause
  /\ toProxy' = Tail(toProxy)
  /\ cmd' = Head(toProxy).id /\ trips' = 0
  /\ UNCHANGED <<clientVars, toBackend, fromBackend, backendVars, held,
                 awaiting, pgxConn, received, notices, teardown>>

\* The rest of pauseRelay.
FinishesPause == /\ Interrupt \/ Confirmed \/ TakeConn
                 /\ UNCHANGED sessionVars

\* createPgxConn: virtualHandshakeConn eats pgx's startup message and replays the
\* captured handshake, so nothing is sent to or read from the backend.
CommandConnects ==
  /\ fpc = "command" /\ cmd # 0 /\ pgxConn = "none"
  /\ pgxConn' = "open"
  /\ UNCHANGED <<pvars, clientVars, wireVars, backendVars, held, cmd, trips,
                 awaiting, received, notices, teardown>>

\* The handler sends a query on backendConn through pgx.
CommandQueries ==
  /\ fpc = "command" /\ cmd # 0 /\ pgxConn = "open" /\ ~awaiting /\ trips < MaxTrips
  /\ trips' = trips + 1 /\ awaiting' = TRUE
  /\ toBackend' = IF backendUp
                  THEN Append(toBackend, [id |-> cmd, by |-> "pgx", op |-> "sql"])
                  ELSE toBackend
  /\ UNCHANGED <<pvars, clientVars, toProxy, fromBackend, backendVars,
                 held, cmd, pgxConn, received, notices, teardown>>

\* pgx reads the next message, whatever it answers, until a ReadyForQuery.
\* Asynchronous messages go to pgx's handlers, of which there are none.
CommandReads ==
  /\ fpc = "command" /\ awaiting /\ fromBackend # <<>>
  /\ fromBackend' = Tail(fromBackend)
  /\ awaiting' = ~IsReady(Head(fromBackend))
  /\ UNCHANGED <<pvars, clientVars, toProxy, toBackend, backendVars,
                 held, cmd, trips, pgxConn, received, notices, teardown>>

\* SendNotice: the handler reports its progress straight to the client.
CommandNotifies ==
  /\ fpc = "command" /\ cmd # 0 /\ ~awaiting /\ notices < MaxNotices
  /\ notices' = notices + 1
  /\ SendClient(<<Message(0, "gendb", "notice")>>)
  /\ UNCHANGED <<pvars, clientVars, wireVars, backendVars, held,
                 cmdVars, teardown>>

\* Mutant: the result is sent before the reply to the last query is read.
AnswersEarly ==
  /\ fpc = "command" /\ cmd # 0
  /\ SendClient(Reply(cmd, "gendb", "I"))
  /\ cmd' = 0 /\ awaiting' = FALSE
  /\ UNCHANGED <<pvars, clientVars, wireVars, backendVars, held,
                 trips, pgxConn, notices, teardown>>

\* The handler returns, or createPgxConn fails, or pgx does for want of a backend
\* and closes itself for good: sendResult or sendError, which both say "idle".
AnswersCommand ==
  /\ fpc = "command" /\ cmd # 0
  /\ ~awaiting \/ (~backendUp /\ fromBackend = <<>>)
  /\ SendClient(Reply(cmd, "gendb", "I"))
  /\ cmd' = 0 /\ awaiting' = FALSE
  /\ pgxConn' = IF awaiting THEN "closed" ELSE pgxConn
  /\ UNCHANGED <<pvars, clientVars, wireVars, backendVars, held,
                 trips, notices, teardown>>

\* Mutant: the relay is resumed at once instead of by a deferred call.
ResumesUndeferred == /\ LeaveConn \/ Unpause \/ CloseResume
                     /\ UNCHANGED sessionVars

\* Mutant: a command whose createPgxConn failed returns without resuming.
ResumesOnSuccess == /\ \/ LeaveConn /\ cmd = 0 /\ pgxConn = "open"
                       \/ Unpause
                       \/ CloseResume
                    /\ UNCHANGED sessionVars

\* The deferred resumeRelay.
ResumesRelay == /\ \/ LeaveConn /\ cmd = 0
                   \/ Unpause
                   \/ CloseResume
                /\ UNCHANGED sessionVars

\* Read or Write failed: the goroutine returns and closes nothing.
ForwarderStops ==
  /\ ForwarderExits
  /\ \/ toProxy = <<>> /\ ~clientOpen
     \/ teardown = "done"
     \/ /\ toProxy # <<>> /\ Head(toProxy).op \notin {"call", "badcall"}
        /\ ~backendUp \/ teardown # "none"
  /\ UNCHANGED sessionVars

--------------------------------------------------------------------------------
(* The relay: mainLoop's read loop, and handleConnection after it *)

\* Read fails at once while the deadline is expired, and it times out if it expires.
RelayWaits == StartRead /\ UNCHANGED sessionVars
RelayTimesOut == ReadTimesOut /\ UNCHANGED sessionVars

\* Read returns data.
RelayReads ==
  /\ ReadData /\ fromBackend # <<>>
  /\ held' = <<Head(fromBackend)>> /\ fromBackend' = Tail(fromBackend)
  /\ UNCHANGED <<clientVars, toProxy, toBackend, backendVars, cmdVars, received,
                 notices, teardown>>

\* Mutant: a ReadyForQuery that was scanned is not passed on.
RelayKeepsReady ==
  /\ WriteClient
  /\ IF IsReady(Head(held)) THEN UNCHANGED received ELSE SendClient(held)
  /\ held' = <<>>
  /\ UNCHANGED <<clientVars, wireVars, backendVars, cmdVars, notices, teardown>>

RelayWrites ==
  /\ WriteClient
  /\ SendClient(held) /\ held' = <<>>
  /\ UNCHANGED <<clientVars, wireVars, backendVars, cmdVars, notices, teardown>>

\* The timeout branch: confirm the pause, wait for its end.
RelayPauses == /\ TimeoutBranch \/ Confirm \/ Resume
               /\ UNCHANGED sessionVars

\* Mutant: any error of Read is taken for a timeout.
RelayIgnoresEOF == RelayExits /\ bpc = "writing" /\ ~clientOpen /\ UNCHANGED sessionVars

\* The backend has closed the connection, or the client cannot be written to.
RelayStops ==
  /\ RelayExits
  /\ \/ bpc = "reading" /\ fromBackend = <<>> /\ ~backendUp
     \/ bpc = "writing" /\ ~clientOpen
  /\ UNCHANGED sessionVars

\* mainLoop has returned: the deferred calls hijack pgx's connection and close the
\* backend's, then delete the session and close the client's.
Teardown ==
  /\ bpc = "gone" /\ teardown # "done"
  /\ teardown' = IF teardown = "none" THEN "backendClosed" ELSE "done"
  /\ pgxConn' = IF pgxConn = "none" THEN "none" ELSE "closed"
  /\ UNCHANGED <<pvars, clientVars, wireVars, backendVars, held,
                 cmd, trips, awaiting, received, notices>>

--------------------------------------------------------------------------------
(* The backend, as far as the session can tell (PostgreSQL, external) *)

TxAfter(op) == CASE op = "begin"  -> IF backendTx = "E" THEN "E" ELSE "T"
                 [] op = "commit" -> "I"
                 [] op = "fail"   -> IF backendTx = "I" THEN "I" ELSE "E"
                 [] OTHER         -> backendTx

\* Answers the next request; a command's query may fail like any other.
BackendServes ==
  /\ backendUp /\ toBackend # <<>> /\ Head(toBackend).op # "terminate"
  /\ LET q == Head(toBackend) IN
       /\ \/ backendTx' = TxAfter(q.op)
          \/ q.by = "pgx" /\ backendTx' = TxAfter("fail")
       /\ fromBackend' = fromBackend \o Reply(q.id, q.by, backendTx')
  /\ toBackend' = Tail(toBackend)
  /\ UNCHANGED <<pvars, clientVars, toProxy, backendUp, held, cmdVars,
                 received, notices, teardown>>

\* NOTIFY or a changed parameter: a message nobody asked for.
BackendNotifies ==
  /\ backendUp /\ notices < MaxNotices
  /\ notices' = notices + 1
  /\ fromBackend' = Append(fromBackend, Message(0, "client", "notice"))
  /\ UNCHANGED <<pvars, clientVars, toProxy, toBackend, backendVars,
                 held, cmdVars, received, teardown>>

\* It closes the connection: after a Terminate, when the proxy has closed it,
\* or on its own.
BackendCloses ==
  /\ backendUp
  /\ \/ toBackend # <<>> /\ Head(toBackend).op = "terminate"
     \/ teardown # "none"
     \/ MayDie
  /\ backendUp' = FALSE /\ toBackend' = <<>>
  /\ UNCHANGED <<pvars, clientVars, toProxy, fromBackend, backendTx,
                 held, cmdVars, received, notices, teardown>>

--------------------------------------------------------------------------------

Client == (\E op \in Ops : ClientSends(op)) \/ ClientQuits \/ ClientVanishes

Forwarder == \/ ForwardsRequest \/ RejectsCommand \/ StartsCommand \/ FinishesPause
             \/ CommandConnects \/ CommandQueries \/ CommandReads \/ CommandNotifies
             \/ AnswersCommand \/ ResumesRelay \/ ForwarderStops

Relay == \/ RelayWaits \/ RelayTimesOut \/ RelayReads \/ RelayWrites
         \/ RelayPauses \/ RelayStops \/ Teardown

Backend == BackendServes \/ BackendNotifies \/ BackendCloses

Next == Client \/ Forwarder \/ Relay \/ Backend

\* Both goroutines keep running, a command ends, and the backend answers what it
\* reads and closes the connection after a Terminate.  Nothing makes the client
\* send, the peers leave, or anyone send an asynchronous message.
Fairness == /\ WF_vars(Forwarder) /\ WF_vars(Relay)
            /\ WF_vars(BackendServes)
            /\ WF_vars(BackendCloses /\ toBackend # <<>> /\ Head(toBackend).op = "terminate")

Spec == Init /\ [][Next]_vars /\ Fairness

--------------------------------------------------------------------------------
(* What must hold *)

\* A reply reaches the one who asked: a command never reads the backend's answer
\* to a request of the client, nor the relay the answer to a query of a command.
OwnReplies ==
  [][ /\ CommandReads => Head(fromBackend).by = "pgx" \/ Head(fromBackend).part = "notice"
      /\ RelayReads   => Head(fromBackend).by = "client" ]_vars

\* While a command waits for a reply the relay is parked: two goroutines never
\* read the backend connection at once.
NoSharedRead == awaiting => fpc = "command" /\ bpc = "paused"

\* The replies the client sees are those of a server that answers one request
\* at a time: each request once, body before ReadyForQuery, in order.
PortLog == [i \in DOMAIN received |->
              <<received[i].id, IF IsReady(received[i]) THEN "ready" ELSE "body">>]

Port == INSTANCE QueryPort WITH log <- PortLog

PortSpec == Port!Spec

\* Every request is answered, by the backend or by the proxy, unless a peer leaves.
RequestsAnswered ==
  (Cardinality(Readies) < asked)
    ~> (Cardinality(Readies) = asked \/ ~clientOpen \/ ~backendUp)

\* Both peers are there, nothing is on its way in either direction, the relay is back in Read.
Quiet == /\ fpc = "relay" /\ bpc = "reading" /\ backendUp /\ clientOpen
         /\ toProxy = <<>> /\ toBackend = <<>> /\ fromBackend = <<>>

\* The last ReadyForQuery the client was sent.
LastReady == received[CHOOSE i \in Readies : \A j \in Readies : j <= i]

\* The client knows whether it is in a transaction: whenever the session is quiet, the
\* last status it was sent is the backend's, also after commands of which a query failed,
\* and before it has sent anything.  Unless a command answered last: sendResult says "idle"
\* (proxy.go:430), in a transaction too.
StatusTold ==
  Quiet => IF Readies = {} THEN backendTx = "I"
           ELSE LastReady.by = "gendb" \/ LastReady.part = backendTx

\* A client that says goodbye takes its session with it, also when the backend
\* dies or a command is being started at that moment.
Quitting == ~clientOpen /\ \E i \in DOMAIN toProxy : toProxy[i].op = "terminate"
QuitEndsSession == Quitting ~> (teardown = "done")
================================================================================
