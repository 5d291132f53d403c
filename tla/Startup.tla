--------------------------------- MODULE Startup ---------------------------------
(***************************************************************************)
(* How a connection starts: handleConnection (pkg/proxy/proxy.go) denies   *)
(* SSL, dials the database, relays the login between client and database   *)
(* (relayUntilReady), asks the database to set up the stubs on the         *)
(* client's connection (ensureGenDBSchema, pkg/proxy/stubs.go), and goes   *)
(* over to the main loop, which relays what the two send.                  *)
(*                                                                         *)
(* Each pgproto3 frontend reads ahead of the message it hands out, and     *)
(* what it has read is gone with it: the login and the setup have a        *)
(* frontend each, the main loop has none.                                  *)
(*                                                                         *)
(* Abstractions: a message is its type and the exchange it belongs to;     *)
(* a statement has a message of results and a ReadyForQuery.  The main     *)
(* loop's commands and chunks are Session's and Framing's; the client      *)
(* sends queries once it has been told that the database is ready.         *)
(***************************************************************************)
EXTENDS Naturals, FiniteSets, Sequences, Functions

CONSTANTS MaxRounds,   \* bound: authentication requests of a login
          MaxQueries   \* bound: queries of the client

ASSUME StartupAssumption == MaxRounds \in Nat /\ MaxQueries \in Nat

VARIABLES phase,       \* where handleConnection is
          opening,     \* the startup message it goes by
          setup,       \* setup statement under way, 1 to 3; 0 before
          failed,      \* ghost: a setup statement failed
          buffered,    \* what the frontend in use has read ahead
          toProxy,     \* what the client has sent and the proxy has not read
          received,    \* what the client has been sent
          toServer,    \* what the proxy has sent to the database
          fromServer,  \* what the database has sent and the proxy has not read
          server,      \* the database: "none", "login", "asking", "serving" or "refused"
          rounds,      \* authentication requests so far
          asked,       \* queries of the client so far
          lost         \* a connection failed

proxy == <<phase, opening, setup, failed, buffered>>
database == <<server, rounds>>
vars == <<proxy, toProxy, received, toServer, fromServer, database, asked, lost>>

Openings == {"ssl", "startup", "other"}  \* other: a CancelRequest, a GSSEncRequest
Exchanges == {"login", "setup", "client"}
Messages == {"N", "auth", "info", "rows", "current", "error", "ready"} \X Exchanges
Msg(type, exchange) == <<type, exchange>>
Type(m) == m[1]

TypeOK == /\ phase \in {"startup", "denied", "dial", "login", "answer", "setup", "drain",
                        "relay", "closed"}
          /\ opening \in Openings /\ setup \in 0 .. 3 /\ failed \in BOOLEAN
          /\ buffered \in Seq(Messages) /\ received \in Seq(Messages)
          /\ fromServer \in Seq(Messages)
          /\ toProxy \in Seq(Openings \union {"answer", "query"})
          /\ toServer \in Seq({"startup", "answer", "setup", "query"})
          /\ server \in {"none", "login", "asking", "serving", "refused"}
          /\ rounds \in 0 .. MaxRounds /\ asked \in 0 .. MaxQueries /\ lost \in BOOLEAN

Init == /\ phase = "startup" /\ opening = "other" /\ setup = 0 /\ failed = FALSE
        /\ buffered = <<>> /\ received = <<>> /\ toServer = <<>> /\ fromServer = <<>>
        /\ toProxy \in {<<o>> : o \in Openings}
        /\ server = "none" /\ rounds = 0 /\ asked = 0 /\ lost = FALSE

Times(m) == Cardinality({i \in DOMAIN received : received[i] = m})

--------------------------------------------------------------------------------
(* The client *)

ClientUnchanged == UNCHANGED <<toProxy, asked>>

\* Denied SSL, it goes on in plain text or tries something else.
Proceeds(o) == /\ phase = "denied" /\ toProxy = <<>>
               /\ toProxy' = <<o>>
               /\ UNCHANGED <<proxy, received, toServer, fromServer, database, asked, lost>>

\* It answers the last authentication request.
AnswersRequest == /\ phase \in {"login", "answer"} /\ server = "asking" /\ toProxy = <<>>
                  /\ Times(Msg("auth", "login")) = rounds
                  /\ "answer" \notin Range(toServer)
                  /\ toProxy' = <<"answer">>
                  /\ UNCHANGED <<proxy, received, toServer, fromServer, database, asked, lost>>

\* Told that the database is ready, it sends queries, one after the other or ahead.
AsksQuery == /\ Times(Msg("ready", "login")) = 1 /\ server = "serving" /\ asked < MaxQueries
             /\ toProxy' = Append(toProxy, "query") /\ asked' = asked + 1
             /\ UNCHANGED <<proxy, received, toServer, fromServer, database, lost>>

--------------------------------------------------------------------------------
(* The database *)

Sends(ms) == fromServer' = fromServer \o ms

ReadsStartup == /\ server = "none" /\ toServer # <<>>
                /\ toServer' = Tail(toServer) /\ server' = "login"
                /\ UNCHANGED <<fromServer, rounds>>

RequestsAuth == /\ server = "login" /\ rounds < MaxRounds
                /\ Sends(<<Msg("auth", "login")>>)
                /\ server' = "asking" /\ rounds' = rounds + 1
                /\ UNCHANGED toServer

ReadsAnswer == /\ server = "asking" /\ toServer # <<>>
               /\ toServer' = Tail(toServer) /\ server' = "login"
               /\ UNCHANGED <<fromServer, rounds>>

\* AuthenticationOk, ParameterStatus and BackendKeyData, then ReadyForQuery.
LetsIn == /\ server = "login"
          /\ Sends(<<Msg("info", "login"), Msg("ready", "login")>>)
          /\ server' = "serving"
          /\ UNCHANGED <<toServer, rounds>>

Refuses == /\ server = "login"
           /\ Sends(<<Msg("error", "login")>>)
           /\ server' = "refused"
           /\ UNCHANGED <<toServer, rounds>>

\* A statement: results ("current" if they are the fingerprint the proxy looks for) or an
\* error, and ReadyForQuery.
Executes(result) ==
  /\ server = "serving" /\ toServer # <<>>
  /\ LET exchange == IF Head(toServer) = "setup" THEN "setup" ELSE "client"
     IN Sends(<<Msg(result, exchange), Msg("ready", exchange)>>)
  /\ toServer' = Tail(toServer)
  /\ UNCHANGED database

Server == /\ \/ ReadsStartup \/ RequestsAuth \/ ReadsAnswer \/ LetsIn \/ Refuses
             \/ \E result \in {"rows", "current", "error"} : Executes(result)
          /\ UNCHANGED <<proxy, toProxy, received, asked, lost>>

--------------------------------------------------------------------------------
(* handleConnection, up to the login *)

ServerUnchanged == UNCHANGED <<fromServer, database, lost>>

\* SSL is denied once; what comes then is taken for the startup message.
ReadsOpening ==
  /\ phase \in {"startup", "denied"} /\ toProxy # <<>>
  /\ opening' = Head(toProxy) /\ toProxy' = Tail(toProxy)
  /\ IF phase = "startup" /\ Head(toProxy) = "ssl"
     THEN phase' = "denied" /\ received' = Append(received, Msg("N", "login"))
     ELSE phase' = "dial" /\ UNCHANGED received
  /\ UNCHANGED <<setup, failed, buffered, toServer, asked>>
  /\ ServerUnchanged

\* Whatever it asks for the database is dialed; anything but a StartupMessage ends there.
Dials == /\ phase = "dial"
         /\ IF opening = "startup"
            THEN phase' = "login" /\ toServer' = Append(toServer, "startup")
            ELSE phase' = "closed" /\ UNCHANGED toServer
         /\ UNCHANGED <<opening, setup, failed, buffered, received>>
         /\ ClientUnchanged /\ ServerUnchanged

\* sendError: an ErrorResponse and a ReadyForQuery, though nobody has logged in.
DialFails == /\ phase = "dial"
             /\ received' = received \o <<Msg("error", "login"), Msg("ready", "login")>>
             /\ phase' = "closed" /\ lost' = TRUE
             /\ UNCHANGED <<opening, setup, failed, buffered, toServer, fromServer, database>>
             /\ ClientUnchanged

\* The frontend in use reads what has come, in full or in part.
ReadsAhead == /\ phase \in {"login", "drain"} /\ buffered = <<>>
              /\ \E n \in 1 .. Len(fromServer) :
                   /\ buffered' = SubSeq(fromServer, 1, n)
                   /\ fromServer' = SubSeq(fromServer, n + 1, Len(fromServer))
              /\ UNCHANGED <<phase, opening, setup, failed, received, toServer, database, lost>>
              /\ ClientUnchanged

\* relayUntilReady: every message goes to the client; its type tells what comes next.
RelaysLogin ==
  /\ phase = "login" /\ buffered # <<>>
  /\ received' = Append(received, Head(buffered))
  /\ phase' = CASE Type(Head(buffered)) = "ready" -> "setup"
                [] Type(Head(buffered)) = "error" -> "closed"
                [] Type(Head(buffered)) = "auth"  -> "answer"
                [] OTHER -> "login"
  /\ buffered' = IF phase' = "setup" THEN <<>> ELSE Tail(buffered)
  /\ UNCHANGED <<opening, setup, failed, toServer>>
  /\ ClientUnchanged /\ ServerUnchanged

\* relayClientAuth: one message of the client for each request.
RelaysAnswer == /\ phase = "answer" /\ toProxy # <<>>
                /\ toServer' = Append(toServer, Head(toProxy)) /\ toProxy' = Tail(toProxy)
                /\ phase' = "login"
                /\ UNCHANGED <<opening, setup, failed, buffered, received, asked>>
                /\ ServerUnchanged

--------------------------------------------------------------------------------
(* ensureGenDBSchema: the info table, the fingerprint, the stubs *)

SendsSetup == /\ phase = "setup"
              /\ toServer' = Append(toServer, "setup")
              /\ setup' = setup + 1 /\ phase' = "drain"
              /\ UNCHANGED <<opening, failed, buffered, received>>
              /\ ClientUnchanged /\ ServerUnchanged

\* The main loop starts; the frontend of the setup goes, with what it has read.
GoesOver == phase' = "relay" /\ buffered' = <<>>

DrainUnchanged == /\ UNCHANGED <<opening, received, toServer>>
                  /\ ClientUnchanged /\ ServerUnchanged

\* Mutant: the results are enough to go on, whatever is still to come.
StatementAnswered ==
  /\ phase = "drain" /\ buffered # <<>> /\ Type(Head(buffered)) \notin {"error", "ready"}
  /\ IF setup = 3 \/ (setup = 2 /\ Type(Head(buffered)) = "current")
     THEN GoesOver
     ELSE phase' = "setup" /\ buffered' = Tail(buffered)
  /\ UNCHANGED <<setup, failed>>
  /\ DrainUnchanged

\* The results are passed over, but for the fingerprint: if it is the one looked for, the
\* statement that creates the stubs is not needed.
SkipsResults ==
  /\ phase = "drain" /\ buffered # <<>> /\ Type(Head(buffered)) \notin {"error", "ready"}
  /\ buffered' = Tail(buffered)
  /\ setup' = IF setup = 2 /\ Type(Head(buffered)) = "current" THEN 3 ELSE setup
  /\ UNCHANGED <<phase, failed>>
  /\ DrainUnchanged

StatementReady ==
  /\ phase = "drain" /\ buffered # <<>> /\ Type(Head(buffered)) = "ready"
  /\ IF setup = 3 THEN GoesOver ELSE phase' = "setup" /\ buffered' = Tail(buffered)
  /\ UNCHANGED <<setup, failed>>
  /\ DrainUnchanged

\* Mutant: a failed setup ends the session.
EndsSession ==
  /\ phase = "drain" /\ buffered # <<>> /\ Type(Head(buffered)) = "error"
  /\ failed' = TRUE
  /\ phase' = "closed" /\ buffered' = <<>>
  /\ UNCHANGED setup
  /\ DrainUnchanged

\* On an error the setup is given up at once, its ReadyForQuery unread, and the session
\* goes on without.
StatementFails ==
  /\ phase = "drain" /\ buffered # <<>> /\ Type(Head(buffered)) = "error"
  /\ failed' = TRUE
  /\ GoesOver
  /\ UNCHANGED setup
  /\ DrainUnchanged

--------------------------------------------------------------------------------
(* The main loop *)

Forwards == /\ phase = "relay" /\ toProxy # <<>>
            /\ toServer' = Append(toServer, Head(toProxy)) /\ toProxy' = Tail(toProxy)
            /\ UNCHANGED <<proxy, received, asked>>
            /\ ServerUnchanged

Relays == /\ phase = "relay" /\ fromServer # <<>>
          /\ received' = Append(received, Head(fromServer)) /\ fromServer' = Tail(fromServer)
          /\ UNCHANGED <<proxy, toServer, database, lost>>
          /\ ClientUnchanged

\* A connection fails, and handleConnection returns.
Breaks == /\ phase # "closed"
          /\ phase' = "closed" /\ lost' = TRUE
          /\ UNCHANGED <<opening, setup, failed, buffered, toProxy, received, toServer,
                         fromServer, database, asked>>

Session == \/ ReadsOpening \/ Dials \/ DialFails \/ ReadsAhead \/ RelaysLogin \/ RelaysAnswer
           \/ SendsSetup \/ SkipsResults \/ StatementReady \/ StatementFails

Next == \/ \E o \in Openings : Proceeds(o)
        \/ AnswersRequest \/ AsksQuery
        \/ Server \/ Session \/ Forwards \/ Relays \/ Breaks

Spec == /\ Init /\ [][Next]_vars
        /\ WF_vars(Server) /\ WF_vars(Session) /\ WF_vars(Forwards) /\ WF_vars(Relays)

--------------------------------------------------------------------------------
(* What must hold *)

\* The client's conversation is its own: it never sees results or errors of the setup on
\* its connection, at most one ReadyForQuery that it did not ask for, that only if a setup
\* statement failed, and each of its queries is answered once.
RepliesMatch ==
  /\ \A m \in Messages : m[2] = "setup" /\ Times(m) > 0 =>
       failed /\ m = Msg("ready", "setup") /\ Times(m) = 1
  /\ Times(Msg("ready", "client")) <= asked
  /\ Times(Msg("ready", "login")) <= 1

\* A client that was let in gets an answer to each query, whether the stubs could be set up
\* or not, unless a connection fails.
ClientServed == asked > 0 ~> (Times(Msg("ready", "client")) = asked \/ lost)
================================================================================
