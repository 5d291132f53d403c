----------------------------- MODULE SessionProofs -----------------------------
(***************************************************************************)
(* The safety of the pause/resume handshake, for any number of pauses and  *)
(* whether or not the relay may exit, and of the session that is built on  *)
(* it.  HandshakeInv (PauseResume) is inductive; the properties of the     *)
(* handshake and the refinement of Handover follow from it.  A session     *)
(* uses its backend connection as PauseResume says, whatever the client,   *)
(* the backend and the commands do, so what is proved of the handshake     *)
(* holds in a session, and a command never shares a Read with the relay.   *)
(* For a client that waits for each reply, every reply reaches who asked   *)
(* for it, in order, and the relay knows the status the client was told.   *)
(***************************************************************************)
EXTENDS Session, SequenceTheorems, FiniteSetTheorems, TLAPS

--------------------------------------------------------------------------------
(* The handshake *)

\* The initial state satisfies the inductive invariant.
LEMMA InitIInv == HandshakeInit => HandshakeInv
<1> USE DEF HandshakeInit, HasPaused
<1>1. HandshakeInit => HandshakeTypeOK
  <2>1. HandshakeInit => relayPaused \in BOOLEAN /\ expired \in BOOLEAN
    BY Zenon
  <2>2. HandshakeInit => pair \in Nat /\ bPair \in Nat /\ fpc \in FStates /\ bpc \in BStates
    BY DEF FStates, BStates
  <2>3. HandshakeInit => confirmClosed \subseteq 1 .. pair /\ resumeClosed \subseteq 1 .. pair
    OBVIOUS
  <2> QED  BY <2>1, <2>2, <2>3, Zenon DEF HandshakeTypeOK
<1>2. HandshakeInit => ForwarderInv
  BY DEF ForwarderInv
<1>3. HandshakeInit => RelayInv
  BY DEF RelayInv
<1> QED
  BY <1>1, <1>2, <1>3 DEF HandshakeInv

\* No step of the forwarder (pauseRelay, resumeRelay) breaks it.
LEMMA ForwarderKeepsIInv == HandshakeInv /\ PausingSide => HandshakeInv'
<1> SUFFICES ASSUME HandshakeInv, PausingSide PROVE HandshakeInv'
  OBVIOUS
<1> USE DEF HandshakeInv, HandshakeTypeOK, ForwarderInv, RelayInv, HasPaused, FStates,
            BStates, relayVars
<1>1. CASE Pause
  <2>1. HandshakeTypeOK'
    BY <1>1 DEF Pause
  <2>2. pair' \notin confirmClosed' /\ pair' \notin resumeClosed'
    BY <1>1 DEF Pause
  <2>3. ForwarderInv' /\ RelayInv'
    BY <1>1, <2>1, <2>2 DEF Pause
  <2> QED  BY <2>1, <2>3
<1>2. CASE Interrupt
  BY <1>2 DEF Interrupt
<1>3. CASE Confirmed
  BY <1>3 DEF Confirmed
<1>4. CASE TakeConn
  BY <1>4 DEF TakeConn
<1>5. CASE LeaveConn
  BY <1>5 DEF LeaveConn
<1>6. CASE Unpause
  BY <1>6 DEF Unpause
<1>7. CASE CloseResume
  <2>1. HandshakeTypeOK'
    BY <1>7 DEF CloseResume
  <2>2. ForwarderInv' /\ RelayInv'
    BY <1>7 DEF CloseResume
  <2> QED  BY <2>1, <2>2
<1>8. CASE ForwarderExits
  BY <1>8 DEF ForwarderExits
<1> QED
  BY <1>1, <1>2, <1>3, <1>4, <1>5, <1>6, <1>7, <1>8 DEF PausingSide

\* No step of the relay (mainLoop's read loop and its timeout branch) breaks it.
LEMMA RelayKeepsIInv == HandshakeInv /\ RelaySide => HandshakeInv'
<1> SUFFICES ASSUME HandshakeInv, RelaySide PROVE HandshakeInv'
  OBVIOUS
<1> USE DEF HandshakeInv, HandshakeTypeOK, ForwarderInv, RelayInv, HasPaused, FStates,
            BStates, forwarderVars
<1>1. CASE StartRead
  BY <1>1 DEF StartRead
<1>2. CASE ReadData
  BY <1>2 DEF ReadData
<1>3. CASE ReadTimesOut
  BY <1>3 DEF ReadTimesOut
<1>4. CASE WriteClient
  BY <1>4 DEF WriteClient
<1>5. CASE TimeoutBranch
  BY <1>5 DEF TimeoutBranch
<1>6. CASE Confirm
  <2>1. HandshakeTypeOK'
    BY <1>6 DEF Confirm
  <2>2. ForwarderInv' /\ RelayInv'
    BY <1>6 DEF Confirm
  <2> QED  BY <2>1, <2>2
<1>7. CASE Resume
  BY <1>7 DEF Resume
<1>8. CASE RelayExits
  BY <1>8 DEF RelayExits
<1> QED
  BY <1>1, <1>2, <1>3, <1>4, <1>5, <1>6, <1>7, <1>8 DEF RelaySide

\* Every step, and every stuttering step, keeps the inductive invariant.
LEMMA NextIInv == HandshakeInv /\ [HandshakeNext]_pvars => HandshakeInv'
<1>1. HandshakeInv /\ UNCHANGED pvars => HandshakeInv'
  BY DEF HandshakeInv, HandshakeTypeOK, ForwarderInv, RelayInv, pvars
<1> QED
  BY <1>1, ForwarderKeepsIInv, RelayKeepsIInv DEF HandshakeNext

\* The inductive invariant holds in every reachable state.
THEOREM Invariance == HandshakeSpec => []HandshakeInv
  BY InitIInv, NextIInv, PTL DEF HandshakeSpec, HandshakeSafety

\* Every variable keeps to the values the program's fields can hold.
THEOREM TypeCorrect == HandshakeSpec => []HandshakeTypeOK
<1>1. HandshakeInv => HandshakeTypeOK
  BY DEF HandshakeInv
<1> QED
  BY <1>1, Invariance, PTL

\* While a command has the connection the relay waits for that very pause, so
\* two goroutines are never inside a Read of backendConn (proxy.go:329).
THEOREM ExclusiveConn == HandshakeSpec => []RelayWaitsForCommand
<1>1. HandshakeInv => RelayWaitsForCommand
  BY DEF HandshakeInv, HandshakeTypeOK, ForwarderInv, RelayInv, RelayWaitsForCommand,
         HasPaused, FStates, BStates
<1> QED
  BY <1>1, Invariance, PTL

\* Neither goroutine closes a channel twice, which would panic.
THEOREM ChannelsClosedOnce == HandshakeSpec => []NoDoubleClose
<1>1. HandshakeInv => NoDoubleClose
  BY DEF HandshakeInv, ForwarderInv, RelayInv, NoDoubleClose, HasPaused
<1> QED
  BY <1>1, Invariance, PTL

\* A read of the relay only times out for a pause it has not confirmed yet.
THEOREM TimeoutsArePauses == HandshakeSpec => []NoStrayTimeout
<1>1. HandshakeInv => NoStrayTimeout
  BY DEF HandshakeInv, ForwarderInv, RelayInv, NoStrayTimeout, HasPaused
<1> QED
  BY <1>1, Invariance, PTL

\* A step of the handshake is a step of Handover or leaves its variables alone.
LEMMA StepRefines == HandshakeInv /\ [HandshakeNext]_pvars => [H!Next]_(H!hvars)
<1> SUFFICES ASSUME HandshakeInv, [HandshakeNext]_pvars PROVE [H!Next]_(H!hvars)
  OBVIOUS
<1> USE DEF HandoverReader, HandoverPhase
<1>1. CASE Pause \/ Confirmed \/ Unpause \/ ForwarderExits
  BY <1>1 DEF Pause, Confirmed, Unpause, ForwarderExits, relayVars, H!hvars
<1>2. CASE Interrupt
  BY <1>2 DEF Interrupt, relayVars, H!Next, H!Ask
<1>3. CASE TakeConn
  <2>1. bpc = "paused" /\ bpc' = "paused"
    BY <1>3 DEF TakeConn, relayVars, HandshakeInv, RelayInv, HasPaused
  <2> QED  BY <1>3, <2>1 DEF TakeConn, H!Next, H!Grant
<1>4. CASE LeaveConn
  <2>1. bpc = "paused" /\ bpc' = "paused"
    BY <1>4 DEF LeaveConn, relayVars, HandshakeInv, RelayInv, HasPaused
  <2> QED  BY <1>4, <2>1 DEF LeaveConn, H!Next, H!CommandStops
<1>5. CASE CloseResume
  <2>1. bpc = "paused" /\ bpc' = "paused"
    BY <1>5 DEF CloseResume, relayVars, HandshakeInv, RelayInv, HasPaused
  <2> QED  BY <1>5, <2>1 DEF CloseResume, H!Next, H!GiveBack
<1>6. CASE StartRead
  <2>1. fpc' = fpc /\ bpc # "reading" /\ fpc \notin HasPaused \ {"armed", "waiting"}
    BY <1>6 DEF StartRead, forwarderVars, HandshakeInv, RelayInv
  <2>2. fpc = "waiting" => bpc' # "reading"
    BY <1>6 DEF StartRead, HandshakeInv, ForwarderInv
  <2>3. fpc # "waiting" => HandoverPhase = "idle"
    BY <2>1 DEF HasPaused
  <2> QED  BY <1>6, <2>1, <2>2, <2>3 DEF StartRead, HasPaused, H!Next, H!RelayStarts, H!hvars
<1>7. CASE ReadData \/ ReadTimesOut \/ RelayExits
  <2>1. fpc' = fpc /\ fpc \notin HasPaused \ {"armed", "waiting"} /\ bpc' # "reading"
    BY <1>7 DEF ReadData, ReadTimesOut, RelayExits, forwarderVars, HandshakeInv, RelayInv
  <2> QED  BY <1>7, <2>1 DEF ReadData, ReadTimesOut, RelayExits, HasPaused,
                             H!Next, H!RelayStops, H!hvars
<1>8. CASE WriteClient \/ TimeoutBranch \/ Confirm \/ Resume
  <2>1. fpc' = fpc /\ bpc # "reading" /\ bpc' # "reading"
    BY <1>8 DEF WriteClient, TimeoutBranch, Confirm, Resume, forwarderVars
  <2> QED  BY <2>1 DEF H!hvars
<1>9. CASE UNCHANGED pvars
  BY <1>9 DEF pvars, H!hvars
<1> QED
  BY <1>1, <1>2, <1>3, <1>4, <1>5, <1>6, <1>7, <1>8, <1>9
     DEF HandshakeNext, PausingSide, RelaySide

\* The handshake implements Handover: no new read of the
\* relay once it is interrupted, no read by both, and a return after every grant.
THEOREM ImplementsHandover == HandshakeSpec => HandoverSpec
<1>1. HandshakeInit => H!Init
  BY DEF HandshakeInit, H!Init, HandoverReader, HandoverPhase
<1> QED
  BY <1>1, StepRefines, Invariance, PTL DEF HandshakeSpec, HandshakeSafety, HandoverSpec, H!Spec

--------------------------------------------------------------------------------
(* The session as a handshake *)

\* A step of the session is a step of the handshake, or leaves it alone.
LEMMA StepIsHandshakeStep == [Next]_vars => [HandshakeNext]_pvars
<1> SUFFICES ASSUME [Next]_vars PROVE [HandshakeNext]_pvars
  OBVIOUS
<1> USE DEF HandshakeNext, PausingSide, RelaySide
<1>1. CASE Client
  BY <1>1 DEF Client, ClientSends, ClientQuits, ClientVanishes
<1>2. CASE Forwarder
  <2>1. CASE ForwardsRequest \/ RejectsCommand \/ CommandConnects \/ CommandQueries
             \/ CommandReads \/ CommandNotifies \/ AnswersCommand
    BY <2>1 DEF ForwardsRequest, RejectsCommand, CommandConnects, CommandQueries,
                CommandReads, CommandNotifies, AnswersCommand
  <2>2. CASE StartsCommand \/ FinishesPause \/ ResumesRelay \/ ForwarderStops
    BY <2>2 DEF StartsCommand, FinishesPause, ResumesRelay, ForwarderStops
  <2> QED  BY <1>2, <2>1, <2>2 DEF Forwarder
<1>3. CASE Relay
  BY <1>3 DEF Relay, RelayWaits, RelayTimesOut, RelayReads, RelayWrites, RelayPauses,
              RelayStops, Teardown
<1>4. CASE Backend
  BY <1>4 DEF Backend, BackendServes, BackendNotifies, BackendCloses
<1>5. CASE UNCHANGED vars
  BY <1>5 DEF vars
<1> QED
  BY <1>1, <1>2, <1>3, <1>4, <1>5 DEF Next

\* A session implements the handshake.
THEOREM ImplementsHandshake == Spec => HandshakeSafety
<1>1. Init => HandshakeInit
  BY DEF Init
<1> QED
  BY <1>1, StepIsHandshakeStep, PTL DEF Spec, HandshakeSafety

\* What is proved of the handshake's invariant carries over to the session.
LEMMA SessionHandshakeInv == Spec => []HandshakeInv
  BY ImplementsHandshake, InitIInv, NextIInv, PTL DEF HandshakeSafety

\* A command that waits for a reply has not been answered yet and still owns
\* the connection: resumeRelay is deferred past sendResult.
CommandInv == awaiting => fpc = "command" /\ cmd # 0

LEMMA SessionCommandInv == Spec => []CommandInv
<1>1. Init => CommandInv
  BY DEF Init, CommandInv
<1>2. CommandInv /\ [Next]_vars => CommandInv'
  <2> SUFFICES ASSUME CommandInv, [Next]_vars PROVE CommandInv'
    OBVIOUS
  <2> USE DEF CommandInv, pvars, sessionVars, cmdVars
  <2>1. CASE Client
    BY <2>1 DEF Client, ClientSends, ClientQuits, ClientVanishes
  <2>2. CASE Forwarder
    <3>1. CASE ForwardsRequest \/ RejectsCommand \/ CommandConnects \/ CommandNotifies
      BY <3>1 DEF ForwardsRequest, RejectsCommand, CommandConnects, CommandNotifies
    <3>2. CASE CommandQueries \/ CommandReads \/ AnswersCommand
      BY <3>2 DEF CommandQueries, CommandReads, AnswersCommand
    <3>3. CASE StartsCommand \/ FinishesPause \/ ForwarderStops
      BY <3>3 DEF StartsCommand, FinishesPause, ForwarderStops,
                  Pause, Interrupt, Confirmed, TakeConn, ForwarderExits
    <3>4. CASE ResumesRelay
      BY <3>4 DEF ResumesRelay, LeaveConn, Unpause, CloseResume
    <3> QED  BY <2>2, <3>1, <3>2, <3>3, <3>4 DEF Forwarder
  <2>3. CASE Relay
    <3>1. UNCHANGED <<fpc, cmd, awaiting>>
      BY <2>3 DEF Relay, RelayWaits, RelayTimesOut, RelayReads, RelayWrites, RelayPauses,
                  RelayStops, Teardown, StartRead, ReadData, ReadTimesOut, WriteClient,
                  TimeoutBranch, Confirm, Resume, RelayExits, forwarderVars
    <3> QED  BY <3>1
  <2>4. CASE Backend
    BY <2>4 DEF Backend, BackendServes, BackendNotifies, BackendCloses
  <2>5. CASE UNCHANGED vars
    BY <2>5 DEF vars
  <2> QED  BY <2>1, <2>2, <2>3, <2>4, <2>5 DEF Next
<1> QED
  BY <1>1, <1>2, PTL DEF Spec

\* A command waiting for a reply and the relay are never both inside a Read of
\* the backend connection: the relay is parked until the command is over.
THEOREM CommandReadsAlone == Spec => []NoSharedRead
<1>1. HandshakeInv /\ CommandInv => NoSharedRead
  BY DEF HandshakeInv, RelayInv, HasPaused, CommandInv, NoSharedRead
<1> QED
  BY <1>1, SessionHandshakeInv, SessionCommandInv, PTL

--------------------------------------------------------------------------------
(* Types, whatever the window of the client *)

\* What is sent to the client keeps the type of what it has received.
LEMMA SendClientType ==
  ASSUME TypeOK, NEW msgs \in Seq(Messages), SendClient(msgs)
  PROVE  received' \in Seq(Messages)
BY DEF TypeOK, SendClient

\* A reply is two messages.
LEMMA ReplyType ==
  ASSUME NEW id \in 0 .. MaxRequests, NEW by \in {"client", "pgx", "gendb"}, NEW tx \in Tx
  PROVE  /\ Reply(id, by, tx) \in Seq(Messages)
         /\ Len(Reply(id, by, tx)) = 2
         /\ Reply(id, by, tx)[1] = Message(id, by, "body")
         /\ Reply(id, by, tx)[2] = Message(id, by, tx)
<1>1. Message(id, by, "body") \in Messages /\ Message(id, by, tx) \in Messages
  BY DEF Message, Messages
<1> QED  BY <1>1 DEF Reply

\* The backend's status after a request is a status.
LEMMA TxAfterType == ASSUME backendTx \in Tx, NEW op PROVE TxAfter(op) \in Tx
BY DEF TxAfter, Tx

\* Every variable of a session has a value the program's fields can hold.
THEOREM SessionTypeCorrect == Spec => []TypeOK
<1> USE SessionAssumption
<1>1. Init /\ HandshakeTypeOK => TypeOK
  <2> SUFFICES ASSUME Init, HandshakeTypeOK PROVE TypeOK
    OBVIOUS
  <2>1. clientOpen \in BOOLEAN /\ backendUp \in BOOLEAN /\ awaiting \in BOOLEAN
    BY Zenon DEF Init
  <2> QED  BY <2>1 DEF Init, TypeOK, Tx
<1>2. TypeOK /\ [Next]_vars /\ HandshakeTypeOK' => TypeOK'
  <2> SUFFICES ASSUME TypeOK, [Next]_vars, HandshakeTypeOK' PROVE TypeOK'
    OBVIOUS
  <2> USE DEF TypeOK, clientVars, wireVars, backendVars, cmdVars
  <2>1. CASE \E op \in Ops : ClientSends(op)
    <3>1. PICK op \in Ops : ClientSends(op)
      BY <2>1
    <3>2. asked' \in 0 .. MaxRequests
      BY <3>1 DEF ClientSends
    <3>3. [id |-> asked', by |-> "client", op |-> op] \in Requests
      BY <3>2 DEF Requests
    <3>4. toProxy' \in Seq(Requests)
      BY <3>1, <3>3 DEF ClientSends
    <3> QED  BY <3>1, <3>2, <3>4 DEF ClientSends
  <2>2. CASE ClientQuits \/ ClientVanishes
    <3>1. [id |-> 0, by |-> "client", op |-> "terminate"] \in Requests
      BY DEF Requests
    <3>2. clientOpen' \in BOOLEAN
      BY <2>2, Zenon DEF ClientQuits, ClientVanishes
    <3>3. toProxy' \in Seq(Requests)
      <4>1. ASSUME ClientQuits PROVE toProxy' \in Seq(Requests)
        BY <4>1, <3>1 DEF ClientQuits
      <4>2. ASSUME ClientVanishes PROVE toProxy' \in Seq(Requests)
        BY <4>2 DEF ClientVanishes
      <4> QED  BY <2>2, <4>1, <4>2
    <3> QED  BY <2>2, <3>2, <3>3 DEF ClientQuits, ClientVanishes
  <2>3. CASE ForwardsRequest
    <3>1. Head(toProxy) \in Requests
      BY <2>3 DEF ForwardsRequest, Reading
    <3> QED  BY <2>3, <3>1 DEF ForwardsRequest, Reading
  <2>4. CASE RejectsCommand
    <3>1. Head(toProxy).id \in 0 .. MaxRequests
      <4>1. Head(toProxy) \in Requests
        BY <2>4 DEF RejectsCommand, Reading
      <4> QED  BY <4>1 DEF Requests
    <3>2. Reply(Head(toProxy).id, "gendb", "I") \in Seq(Messages)
      BY <3>1, ReplyType DEF Tx
    <3>3. received' \in Seq(Messages)
      BY <2>4, <3>2, SendClientType DEF RejectsCommand
    <3> QED  BY <2>4, <3>3 DEF RejectsCommand, Reading
  <2>5. CASE StartsCommand
    <3>1. Head(toProxy).id \in 0 .. MaxRequests
      <4>1. Head(toProxy) \in Requests
        BY <2>5 DEF StartsCommand, Reading
      <4> QED  BY <4>1 DEF Requests
    <3> QED  BY <2>5, <3>1 DEF StartsCommand, Reading
  <2>6. CASE UNCHANGED sessionVars
    BY <2>6 DEF sessionVars
  <2>7. CASE CommandConnects
    BY <2>7 DEF CommandConnects
  <2>8. CASE CommandQueries
    <3>1. [id |-> cmd, by |-> "pgx", op |-> "sql"] \in Requests
      BY DEF Requests
    <3>2. toBackend' \in Seq(Requests)
      BY <2>8, <3>1 DEF CommandQueries
    <3> QED  BY <2>8, <3>2 DEF CommandQueries
  <2>9. CASE CommandReads
    <3>1. awaiting' \in BOOLEAN
      BY <2>9, Zenon DEF CommandReads
    <3> QED  BY <2>9, <3>1 DEF CommandReads
  <2>10. CASE CommandNotifies
    <3>1. <<Message(0, "gendb", "notice")>> \in Seq(Messages)
      BY DEF Message, Messages
    <3>2. received' \in Seq(Messages)
      BY <2>10, <3>1, SendClientType DEF CommandNotifies
    <3> QED  BY <2>10, <3>2 DEF CommandNotifies
  <2>11. CASE AnswersCommand
    <3>1. received' \in Seq(Messages)
      BY <2>11, ReplyType, SendClientType DEF AnswersCommand, Tx
    <3>2. pgxConn' \in {"none", "open", "closed"} /\ awaiting' \in BOOLEAN
      BY <2>11 DEF AnswersCommand
    <3> QED  BY <2>11, <3>1, <3>2 DEF AnswersCommand
  <2>12. CASE RelayReads
    <3>1. Head(fromBackend) \in Messages
      BY <2>12 DEF RelayReads
    <3> QED  BY <2>12, <3>1 DEF RelayReads
  <2>13. CASE RelayWrites
    <3>1. received' \in Seq(Messages)
      BY <2>13, SendClientType DEF RelayWrites
    <3> QED  BY <2>13, <3>1 DEF RelayWrites
  <2>14. CASE Teardown
    BY <2>14 DEF Teardown
  <2>15. CASE BackendServes
    <3>1. Head(toBackend) \in Requests
      BY <2>15 DEF BackendServes
    <3>2. backendTx' \in Tx
      BY <2>15, TxAfterType DEF BackendServes
    <3>3. Reply(Head(toBackend).id, Head(toBackend).by, backendTx') \in Seq(Messages)
      BY <3>1, <3>2, ReplyType DEF Requests
    <3>4. fromBackend' \in Seq(Messages)
      BY <2>15, <3>3 DEF BackendServes
    <3> QED  BY <2>15, <3>2, <3>4 DEF BackendServes
  <2>16. CASE BackendNotifies
    <3>1. Message(0, "client", "notice") \in Messages
      BY DEF Message, Messages
    <3> QED  BY <2>16, <3>1 DEF BackendNotifies
  <2>17. CASE BackendCloses
    <3>1. backendUp' \in BOOLEAN
      BY <2>17, Zenon DEF BackendCloses
    <3> QED  BY <2>17, <3>1 DEF BackendCloses
  <2>18. CASE UNCHANGED vars
    BY <2>18 DEF vars, sessionVars
  <2> QED
    BY <2>1, <2>2, <2>3, <2>4, <2>5, <2>6, <2>7, <2>8, <2>9, <2>10, <2>11, <2>12, <2>13,
       <2>14, <2>15, <2>16, <2>17, <2>18
       DEF Next, Client, Forwarder, Relay, Backend, FinishesPause, ResumesRelay,
           ForwarderStops, RelayWaits, RelayTimesOut, RelayPauses, RelayStops
<1>3. HandshakeInv => HandshakeTypeOK
  BY DEF HandshakeInv
<1> QED
  BY <1>1, <1>2, <1>3, SessionHandshakeInv, PTL DEF Spec

--------------------------------------------------------------------------------
(* A client that waits for each reply (Window = 1): the inductive invariant.    *)
(* Its request is in one place at a time, on its way to the forwarder, in a     *)
(* command, on its way to the backend, or on its way back as a reply; and what  *)
(* the client has received says how far the reply has come.                     *)

Live == clientOpen /\ teardown # "done"   \* what is sent to the client arrives

AtProxy       == \E i \in DOMAIN toProxy : toProxy[i].op # "terminate"
AtBackend(by) == \E i \in DOMAIN toBackend :
                   toBackend[i].by = by /\ toBackend[i].op # "terminate"
IsReply(m)    == m.part # "notice"
Coming(by)    == \E i \in DOMAIN fromBackend :
                   fromBackend[i].by = by /\ IsReply(fromBackend[i])
HeldReply     == held # <<>> /\ IsReply(held[1])
BodyComing    == \E i \in DOMAIN fromBackend : fromBackend[i].part = "body"

\* The client's last request, then its Terminate.
ProxyInv ==
  \A i \in DOMAIN toProxy :
    /\ toProxy[i].by = "client"
    /\ toProxy[i].op # "terminate" => i = 1 /\ toProxy[i].id = asked /\ asked > 0
    /\ toProxy[i].op = "terminate" => i = Len(toProxy) /\ ~clientOpen

\* The same at the backend, or the one query of a command.
BackendInv ==
  /\ \A i \in DOMAIN toBackend :
       /\ toBackend[i].op # "terminate" => i = 1
       /\ toBackend[i].op # "terminate" /\ toBackend[i].by = "client"
            => toBackend[i].id = asked /\ asked > 0
       /\ toBackend[i].by = "pgx" => Len(toBackend) = 1 /\ toBackend[i].op = "sql"
       /\ toBackend[i].op = "terminate"
            => toBackend[i].by = "client" /\ ~clientOpen /\ toProxy = <<>> /\ cmd = 0
  /\ ~backendUp => toBackend = <<>>

\* One reply at most is on its way back, its body first.
ReplyInv ==
  /\ \A i \in DOMAIN fromBackend :
       /\ fromBackend[i].by \in {"client", "pgx"}
       /\ fromBackend[i].by = "client" /\ IsReply(fromBackend[i])
            => fromBackend[i].id = asked /\ asked > 0
       /\ fromBackend[i].part = "notice" => fromBackend[i].by = "client"
  /\ \A i, j \in DOMAIN fromBackend :
       i < j /\ IsReply(fromBackend[i]) /\ IsReply(fromBackend[j])
         => fromBackend[i].part = "body" /\ IsReady(fromBackend[j])

\* What the relay holds is the client's, and came before what is still to be read.
HeldInv ==
  /\ held # <<>> => bpc \in {"writing", "gone"} /\ held[1].by = "client"
  /\ HeldReply => /\ held[1].id = asked /\ asked > 0
                  /\ ~BodyComing
                  /\ IsReady(held[1]) => ~Coming("client")
  /\ bpc = "writing" => held # <<>>
  /\ teardown # "none" => bpc = "gone"

\* A request is in one place at a time.
PlaceInv ==
  /\ AtProxy => ~AtBackend("client") /\ ~Coming("client") /\ ~HeldReply /\ cmd = 0
  /\ AtBackend("client") => ~Coming("client") /\ ~HeldReply /\ cmd = 0
  /\ Coming("client") \/ HeldReply => cmd = 0
  /\ cmd # 0 => fpc \in {"armed", "waiting", "confirmed", "command"} /\ cmd = asked
  /\ AtBackend("pgx") \/ Coming("pgx") => awaiting
  /\ ~(AtBackend("pgx") /\ Coming("pgx"))

\* s is what a client that has sent n requests receives: the replies to all but
\* the last of them, and perhaps that one's, or its body.
Log(s, n) ==
  /\ 2 * n <= Len(s) + 2 /\ Len(s) <= 2 * n
  /\ \A k \in 1 .. n :
       /\ 2 * k - 1 <= Len(s) => s[2 * k - 1].id = k /\ s[2 * k - 1].part = "body"
       /\ 2 * k <= Len(s) => s[2 * k].id = k /\ IsReady(s[2 * k])

LogInv == Log(received, asked)

\* The client has the replies to all its requests but the one on its way.
CountInv ==
  Live => /\ AtProxy \/ AtBackend("client") \/ cmd # 0 => Len(received) = 2 * asked - 2
          /\ Coming("client") \/ HeldReply
               => Len(received) = IF BodyComing \/ (HeldReply /\ held[1].part = "body")
                                  THEN 2 * asked - 2 ELSE 2 * asked - 1

\* The answer to the client that is on its way has the status of the backend.
ReadyComing == \E i \in DOMAIN fromBackend :
                 fromBackend[i].by = "client" /\ IsReady(fromBackend[i])
HeldReady == held # <<>> /\ IsReady(held[1])
StatusInv ==
  /\ \A i \in DOMAIN fromBackend :
       fromBackend[i].by = "client" /\ IsReady(fromBackend[i])
         => fromBackend[i].part = backendTx
  /\ HeldReady => held[1].part = backendTx

\* If none is, and no command is running, the client has been told that status, but by a
\* command.
ToldInv ==
  Live /\ cmd = 0 /\ ~ReadyComing /\ ~HeldReady =>
    IF Len(received) < 2 THEN backendTx = "I"
    ELSE \A i \in DOMAIN received :
           IsReady(received[i]) /\ i + 1 >= Len(received)
             => received[i].part = backendTx \/ received[i].by = "gendb"

WaitingInv == /\ ProxyInv /\ BackendInv /\ ReplyInv /\ HeldInv /\ PlaceInv
              /\ LogInv /\ CountInv /\ StatusInv /\ ToldInv

Facts == /\ TypeOK /\ TypeOK' /\ CommandInv /\ HandshakeInv
         /\ WaitingInv /\ Window = 1

--------------------------------------------------------------------------------
(* The log of the client *)

\* The log grows by a body, then by a ReadyForQuery, of the last request.
LEMMA LogGains ==
  ASSUME NEW s \in Seq(Messages), NEW n \in Nat \ {0}, NEW m \in Messages, Log(s, n),
         m.id = n,
         \/ Len(s) = 2 * n - 2 /\ m.part = "body"
         \/ Len(s) = 2 * n - 1 /\ IsReady(m)
  PROVE  Log(Append(s, m), n)
<1> DEFINE t == Append(s, m)
<1>1. Len(t) = Len(s) + 1 /\ t[Len(s) + 1] = m /\ \A i \in 1 .. Len(s) : t[i] = s[i]
  OBVIOUS
<1>2. Len(s) \in Nat
  OBVIOUS
<1> HIDE DEF t
<1>3. 2 * n <= Len(t) + 2 /\ Len(t) <= 2 * n
  BY <1>1, <1>2
<1>4. ASSUME NEW k \in 1 .. n
      PROVE  /\ 2 * k - 1 <= Len(t) => t[2 * k - 1].id = k /\ t[2 * k - 1].part = "body"
             /\ 2 * k <= Len(t) => t[2 * k].id = k /\ IsReady(t[2 * k])
  <2>1. CASE 2 * k <= Len(s)
    <3>1. 2 * k \in 1 .. Len(s) /\ 2 * k - 1 \in 1 .. Len(s)
      BY <2>1, <1>2
    <3>2. t[2 * k] = s[2 * k] /\ t[2 * k - 1] = s[2 * k - 1]
      BY <1>1, <3>1
    <3>3. 2 * k - 1 <= Len(s)
      BY <2>1, <1>2
    <3> QED  BY <2>1, <3>2, <3>3 DEF Log
  <2>2. CASE 2 * k > Len(s)
    <3>1. k = n
      BY <2>2, <1>2
    <3>2. CASE Len(s) = 2 * n - 2
      BY <3>1, <3>2, <1>1, <1>2
    <3>3. CASE Len(s) = 2 * n - 1 /\ IsReady(m)
      <4>1. 2 * k - 1 \in 1 .. Len(s)
        BY <3>1, <3>3
      <4> QED  BY <3>1, <3>3, <4>1, <1>1, <1>2 DEF Log
    <3> QED  BY <3>2, <3>3
  <2> QED  BY <2>1, <2>2, <1>2
<1>5. Append(s, m) = t
  BY DEF t
<1>6. Log(t, n)
  BY <1>3, <1>4 DEF Log
<1> QED
  BY <1>5, <1>6

\* A request more, once all are answered.
LEMMA LogAsks ==
  ASSUME NEW s \in Seq(Messages), NEW n \in Nat, Log(s, n), Len(s) = 2 * n
  PROVE  Log(s, n + 1)
BY DEF Log

\* The complete replies in a log are at its even places.
LEMMA ReadyPlaces ==
  ASSUME NEW s \in Seq(Messages), NEW n \in Nat, Log(s, n), NEW i \in DOMAIN s
  PROVE  IsReady(s[i]) <=> \E k \in 1 .. n : i = 2 * k
<1>1. \E k \in 1 .. n : i = 2 * k \/ i = 2 * k - 1
  <2>1. (i + 1) \div 2 \in 1 .. n
    BY DEF Log
  <2>2. i = 2 * ((i + 1) \div 2) \/ i = 2 * ((i + 1) \div 2) - 1
    OBVIOUS
  <2> QED  BY <2>1, <2>2
<1>2. PICK k \in 1 .. n : i = 2 * k \/ i = 2 * k - 1
  BY <1>1
<1>3. CASE i = 2 * k
  <2>1. 2 * k <= Len(s)
    BY <1>3
  <2> QED  BY <1>3, <2>1 DEF Log
<1>4. CASE i = 2 * k - 1
  <2>1. s[i].part = "body"
    <3>1. 2 * k - 1 <= Len(s)
      BY <1>4
    <3> QED  BY <1>4, <3>1 DEF Log
  <2>2. ~IsReady(s[i])
    BY <2>1 DEF IsReady, Tx
  <2> QED  BY <1>4, <2>2
<1> QED
  BY <1>2, <1>3, <1>4

--------------------------------------------------------------------------------
(* The invariant holds at the start, and each step keeps it *)

LEMMA WaitingInit == Init => WaitingInv
<1> SUFFICES ASSUME Init PROVE WaitingInv
  OBVIOUS
<1> USE DEF Init, HandshakeInit
<1>1. ProxyInv /\ BackendInv /\ ReplyInv /\ HeldInv
  BY DEF ProxyInv, BackendInv, ReplyInv, HeldInv, HeldReply
<1>2. PlaceInv
  BY DEF PlaceInv, AtProxy, AtBackend, Coming, HeldReply
<1>3. LogInv /\ CountInv /\ StatusInv /\ ToldInv
  BY DEF LogInv, Log, CountInv, StatusInv, ToldInv, ReadyComing, HeldReady, AtProxy, AtBackend,
         Coming, HeldReply
<1> QED
  BY <1>1, <1>2, <1>3 DEF WaitingInv

\* A step that touches nothing the invariant speaks of, or of the positions of the
\* two goroutines only what it allows.
LEMMA FrameKeeps ==
  ASSUME WaitingInv,
         UNCHANGED <<asked, clientOpen, toProxy, toBackend, fromBackend, backendUp,
                     backendTx, held, received, cmd>>,
         AtBackend("pgx") \/ Coming("pgx") => awaiting',
         cmd # 0 => fpc' \in {"armed", "waiting", "confirmed", "command"},
         held # <<>> => bpc' \in {"writing", "gone"},
         bpc' = "writing" => held # <<>>,
         teardown' # "none" => bpc' = "gone",
         teardown = "done" => teardown' = "done"
  PROVE  WaitingInv'
<1> USE DEF WaitingInv, Live
<1>1. ProxyInv' /\ BackendInv' /\ ReplyInv'
  BY DEF ProxyInv, BackendInv, ReplyInv
<1>2. /\ AtProxy' = AtProxy
      /\ \A by : AtBackend(by)' = AtBackend(by) /\ Coming(by)' = Coming(by)
      /\ HeldReply' = HeldReply /\ BodyComing' = BodyComing
  BY DEF AtProxy, AtBackend, Coming, HeldReply, BodyComing
<1>3. HeldInv'
  BY <1>2 DEF HeldInv
<1>4. PlaceInv'
  BY <1>2 DEF PlaceInv
<1>5. LogInv' /\ CountInv' /\ StatusInv' /\ ToldInv'
  BY <1>2 DEF LogInv, CountInv, StatusInv, ToldInv, ReadyComing, HeldReady
<1> QED
  BY <1>1, <1>3, <1>4, <1>5

\* The handshake's own steps: a command under way is neither resumed nor left
\* behind, and the relay leaves a read or a write as it should.
LEMMA HandshakeStepsKeep ==
  ASSUME Facts,
         FinishesPause \/ ResumesRelay \/ ForwarderStops
           \/ RelayWaits \/ RelayTimesOut \/ RelayPauses \/ RelayStops
  PROVE  WaitingInv'
<1> USE DEF Facts
<1>1. UNCHANGED sessionVars
  BY DEF FinishesPause, ResumesRelay, ForwarderStops, RelayWaits, RelayTimesOut,
         RelayPauses, RelayStops
<1>2. UNCHANGED <<asked, clientOpen, toProxy, toBackend, fromBackend, backendUp,
                  backendTx, held, received, cmd, awaiting, teardown>>
  BY <1>1 DEF sessionVars, clientVars, wireVars, backendVars, cmdVars
<1>3. AtBackend("pgx") \/ Coming("pgx") => awaiting'
  BY <1>2 DEF WaitingInv, PlaceInv
<1>4. CASE FinishesPause \/ ResumesRelay \/ ForwarderStops
  <2>1. bpc' = bpc
    BY <1>4 DEF FinishesPause, ResumesRelay, ForwarderStops, Interrupt, Confirmed, TakeConn,
                LeaveConn, Unpause, CloseResume, ForwarderExits, relayVars
  <2>2. cmd # 0 => fpc' \in {"armed", "waiting", "confirmed", "command"}
    <3>1. cmd # 0 => fpc \in {"armed", "waiting", "confirmed", "command"}
      BY DEF WaitingInv, PlaceInv
    <3> QED
      BY <1>4, <3>1 DEF FinishesPause, ResumesRelay, ForwarderStops, Interrupt, Confirmed,
                        TakeConn, LeaveConn, Unpause, CloseResume, ForwarderExits
  <2>3. /\ held # <<>> => bpc' \in {"writing", "gone"}
        /\ bpc' = "writing" => held # <<>>
        /\ teardown' # "none" => bpc' = "gone"
    BY <1>2, <2>1 DEF WaitingInv, HeldInv
  <2> QED  BY <1>2, <1>3, <2>2, <2>3, FrameKeeps
<1>5. CASE RelayWaits \/ RelayTimesOut \/ RelayPauses \/ RelayStops
  <2>1. fpc' = fpc
    BY <1>5 DEF RelayWaits, RelayTimesOut, RelayPauses, RelayStops, StartRead, ReadTimesOut,
                TimeoutBranch, Confirm, Resume, RelayExits, forwarderVars
  <2>2. cmd # 0 => fpc' \in {"armed", "waiting", "confirmed", "command"}
    BY <2>1 DEF WaitingInv, PlaceInv
  <2>3. \/ bpc \notin {"writing", "gone"} /\ bpc' # "writing"
        \/ bpc' = "gone"
    BY <1>5 DEF RelayWaits, RelayTimesOut, RelayPauses, RelayStops, StartRead, ReadTimesOut,
                TimeoutBranch, Confirm, Resume, RelayExits
  <2>4. /\ held # <<>> => bpc' \in {"writing", "gone"}
        /\ bpc' = "writing" => held # <<>>
        /\ teardown' # "none" => bpc' = "gone"
    BY <1>2, <2>3 DEF WaitingInv, HeldInv
  <2> QED  BY <1>2, <1>3, <2>2, <2>4, FrameKeeps
<1> QED
  BY <1>4, <1>5

\* Steps of a command, and of the deferred calls, that move no request.
LEMMA QuietStepsKeep ==
  ASSUME Facts, CommandConnects \/ CommandNotifies \/ Teardown
  PROVE  WaitingInv'
<1> USE DEF Facts, pvars, clientVars, wireVars, backendVars, cmdVars
<1>1. received' = received
  <2>1. ASSUME CommandNotifies PROVE received' = received
    BY <2>1 DEF CommandNotifies, SendClient, Message
  <2> QED  BY <2>1 DEF CommandConnects, Teardown
<1>2. UNCHANGED <<fpc, bpc, asked, clientOpen, toProxy, toBackend, fromBackend, backendUp,
                  backendTx, held, cmd, awaiting>>
  BY DEF CommandConnects, CommandNotifies, Teardown
<1>3. /\ teardown' # "none" => bpc' = "gone"
      /\ teardown = "done" => teardown' = "done"
  BY <1>2 DEF CommandConnects, CommandNotifies, Teardown, WaitingInv, HeldInv
<1>4. /\ AtBackend("pgx") \/ Coming("pgx") => awaiting'
      /\ cmd # 0 => fpc' \in {"armed", "waiting", "confirmed", "command"}
      /\ held # <<>> => bpc' \in {"writing", "gone"}
      /\ bpc' = "writing" => held # <<>>
  BY <1>2 DEF WaitingInv, PlaceInv, HeldInv
<1> QED
  BY <1>1, <1>2, <1>3, <1>4, FrameKeeps

\* A client that waits has all its replies when it sends the next request.
LEMMA NothingOwed ==
  ASSUME Facts, NEW op, ClientSends(op)
  PROVE  Len(received) = 2 * asked
<1>1. asked \in Nat /\ received \in Seq(Messages) /\ Log(received, asked)
  BY SessionAssumption DEF Facts, TypeOK, WaitingInv, LogInv
<1>2. SUFFICES ASSUME Len(received) < 2 * asked PROVE FALSE
  BY <1>1 DEF Log
<1> DEFINE f == [i \in Readies |-> i \div 2]
<1>3. ASSUME NEW i \in Readies PROVE f[i] \in 1 .. asked - 1 /\ i = 2 * f[i]
  <2>1. PICK k \in 1 .. asked : i = 2 * k
    <3>1. i \in DOMAIN received /\ IsReady(received[i])
      BY DEF Readies
    <3> QED  BY <1>1, <3>1, ReadyPlaces
  <2>2. i <= Len(received) /\ i \div 2 = k
    BY <2>1 DEF Readies
  <2> QED  BY <1>1, <1>2, <2>1, <2>2
<1>4. IsFiniteSet(1 .. asked - 1) /\ Cardinality(1 .. asked - 1) <= asked - 1
  <2>1. asked > 0
    BY <1>1, <1>2
  <2>2. asked - 1 \in Int /\ 1 \in Int
    BY <1>1
  <2>3. /\ IsFiniteSet(1 .. asked - 1)
        /\ Cardinality(1 .. asked - 1) = IF 1 > asked - 1 THEN 0 ELSE asked - 1 - 1 + 1
    BY <2>2, FS_Interval, Zenon
  <2> QED  BY <1>1, <2>1, <2>3
<1>5. f \in Injection(Readies, 1 .. asked - 1)
  <2>1. f \in [Readies -> 1 .. asked - 1]
    BY <1>3
  <2>2. \A a, b \in DOMAIN f : f[a] = f[b] => a = b
    <3>1. \A a, b \in Readies : f[a] = f[b] => 2 * f[a] = 2 * f[b]
      OBVIOUS
    <3>2. DOMAIN f = Readies
      OBVIOUS
    <3> QED  BY <1>3, <3>1, <3>2, Zenon
  <2> QED  BY <2>1, <2>2, Zenon DEF Injection, IsInjective
<1>6. /\ IsFiniteSet(Readies)
      /\ Cardinality(Readies) <= Cardinality(1 .. asked - 1)
  BY <1>4, <1>5, FS_Injection
<1>7. asked - Cardinality(Readies) < 1
  BY DEF Facts, ClientSends
<1> QED
  <2>1. Cardinality(Readies) \in Nat /\ Cardinality(1 .. asked - 1) \in Nat
    BY <1>4, <1>6, FS_CardinalityType
  <2> QED  BY <1>1, <1>4, <1>6, <1>7, <2>1

\* A request more: nothing else is on its way.
LEMMA ClientSendsKeeps ==
  ASSUME Facts, NEW op \in Ops, ClientSends(op)
  PROVE  WaitingInv'
<1> DEFINE req == [id |-> asked', by |-> "client", op |-> op]
<1>1. /\ Live /\ asked' = asked + 1 /\ toProxy' = Append(toProxy, req)
      /\ UNCHANGED <<fpc, bpc, clientOpen, toBackend, fromBackend, backendUp, backendTx,
                     held, received, cmd, awaiting, teardown>>
  BY DEF ClientSends, Live, pvars, backendVars, cmdVars
<1>2. /\ asked \in Nat /\ received \in Seq(Messages) /\ toProxy \in Seq(Requests)
      /\ Log(received, asked) /\ Len(received) = 2 * asked
  BY SessionAssumption, NothingOwed DEF Facts, TypeOK, WaitingInv, LogInv
<1>3. ~AtProxy /\ ~AtBackend("client") /\ ~Coming("client") /\ ~HeldReply /\ cmd = 0
  BY <1>1, <1>2 DEF Facts, WaitingInv, CountInv
<1>4. toProxy = <<>>
  BY <1>1, <1>2, <1>3 DEF Facts, WaitingInv, ProxyInv, AtProxy, Live
<1>5. op # "terminate"
  BY SessionAssumption
<1>6. toProxy' = <<req>>
  BY <1>1, <1>4
<1>7. /\ \A by : AtBackend(by)' = AtBackend(by) /\ Coming(by)' = Coming(by)
      /\ HeldReply' = HeldReply /\ BodyComing' = BodyComing
  BY <1>1 DEF AtBackend, Coming, HeldReply, BodyComing
<1>8. ProxyInv'
  BY <1>1, <1>2, <1>5, <1>6 DEF ProxyInv
<1>9. BackendInv'
  BY <1>1, <1>3, <1>7 DEF Facts, WaitingInv, BackendInv, AtBackend, Live
<1>10. ReplyInv'
  BY <1>1, <1>3, <1>7 DEF Facts, WaitingInv, ReplyInv, Coming
<1>11. HeldInv'
  BY <1>1, <1>3, <1>7 DEF Facts, WaitingInv, HeldInv
<1>12. PlaceInv'
  BY <1>1, <1>3, <1>7 DEF Facts, WaitingInv, PlaceInv
<1>13. LogInv'
  BY <1>1, <1>2, LogAsks DEF LogInv
<1>14. CountInv'
  BY <1>1, <1>2, <1>3, <1>7 DEF CountInv
<1>15. StatusInv' /\ ToldInv'
  BY <1>1 DEF Facts, WaitingInv, StatusInv, ToldInv, ReadyComing, HeldReady, Live
<1> QED
  BY <1>8, <1>9, <1>10, <1>11, <1>12, <1>13, <1>14, <1>15 DEF WaitingInv

\* Terminate and a closed connection: nothing arrives any more.
LEMMA ClientLeavesKeeps ==
  ASSUME Facts, ClientQuits \/ ClientVanishes
  PROVE  WaitingInv'
<1> DEFINE bye == [id |-> 0, by |-> "client", op |-> "terminate"]
<1>1. /\ clientOpen /\ ~clientOpen'
      /\ toProxy' = toProxy \/ toProxy' = Append(toProxy, bye)
      /\ UNCHANGED <<fpc, bpc, asked, toBackend, fromBackend, backendUp, backendTx,
                     held, received, cmd, awaiting, teardown>>
  BY DEF ClientQuits, ClientVanishes, pvars, wireVars, backendVars, cmdVars
<1>2. toProxy \in Seq(Requests)
  BY DEF Facts, TypeOK
<1>3. /\ \A by : AtBackend(by)' = AtBackend(by) /\ Coming(by)' = Coming(by)
      /\ HeldReply' = HeldReply /\ BodyComing' = BodyComing
  BY <1>1 DEF AtBackend, Coming, HeldReply, BodyComing
<1>4. AtProxy' => AtProxy
  <2>1. ASSUME NEW i \in DOMAIN toProxy', toProxy'[i].op # "terminate"
        PROVE  i \in DOMAIN toProxy /\ toProxy[i].op # "terminate"
    BY <1>1, <1>2, <2>1
  <2> QED  BY <2>1 DEF AtProxy
<1>5. \A i \in DOMAIN toProxy : i = 1 /\ Len(toProxy) = 1 /\ toProxy[i].op # "terminate"
  <2>1. \A i \in DOMAIN toProxy : i = 1 /\ toProxy[i].op # "terminate"
    BY <1>1, <1>2 DEF Facts, WaitingInv, ProxyInv
  <2>2. Len(toProxy) \in Nat /\ DOMAIN toProxy = 1 .. Len(toProxy)
    BY <1>2
  <2>3. Len(toProxy) <= 1
    BY <2>1, <2>2
  <2> QED  BY <2>1, <2>2, <2>3
<1>6. ProxyInv'
  BY <1>1, <1>2, <1>5 DEF Facts, WaitingInv, ProxyInv
<1>7. BackendInv'
  BY <1>1 DEF Facts, WaitingInv, BackendInv
<1>8. ReplyInv' /\ HeldInv'
  BY <1>1, <1>3 DEF Facts, WaitingInv, ReplyInv, HeldInv
<1>9. PlaceInv'
  BY <1>1, <1>3, <1>4 DEF Facts, WaitingInv, PlaceInv
<1>10. LogInv' /\ CountInv' /\ StatusInv' /\ ToldInv'
  BY <1>1
     DEF Facts, WaitingInv, LogInv, CountInv, StatusInv, ToldInv, ReadyComing, HeldReady, Live
<1> QED
  BY <1>6, <1>7, <1>8, <1>9, <1>10 DEF WaitingInv

\* The forwarder takes the one request there is, or the Terminate.
LEMMA TakesRequest ==
  ASSUME Facts, Reading, toProxy' = Tail(toProxy), UNCHANGED <<asked, clientOpen>>
  PROVE  /\ Head(toProxy).by = "client" /\ Head(toProxy).id \in 0 .. MaxRequests
         /\ ProxyInv' /\ ~AtProxy'
         /\ Head(toProxy).op # "terminate"
              => AtProxy /\ Head(toProxy).id = asked /\ asked > 0
         /\ Head(toProxy).op = "terminate" => toProxy' = <<>> /\ ~clientOpen
         /\ cmd = 0 /\ ~AtBackend("pgx") /\ ~Coming("pgx")
<1>0. toProxy \in Seq(Requests) /\ toProxy # <<>>
  BY DEF Facts, TypeOK, Reading
<1>1. /\ toProxy \in Seq(Requests) /\ toProxy # <<>> /\ Head(toProxy) = toProxy[1]
      /\ 1 \in DOMAIN toProxy
  BY <1>0
<1>2. Head(toProxy).by = "client" /\ Head(toProxy).id \in 0 .. MaxRequests
  <2>1. toProxy[1] \in Requests
    BY <1>1
  <2> QED  BY <1>1, <2>1 DEF Facts, WaitingInv, ProxyInv, Requests
<1>3. /\ Len(toProxy) \in Nat /\ Len(toProxy') = Len(toProxy) - 1
      /\ DOMAIN toProxy = 1 .. Len(toProxy) /\ DOMAIN toProxy' = 1 .. Len(toProxy')
      /\ \A i \in DOMAIN toProxy' : i + 1 \in DOMAIN toProxy /\ toProxy'[i] = toProxy[i + 1]
  BY <1>1
<1>4. \A i \in DOMAIN toProxy' : toProxy'[i].op = "terminate"
  BY <1>3 DEF Facts, WaitingInv, ProxyInv
<1>5. ProxyInv' /\ ~AtProxy'
  <2>1. ASSUME NEW i \in DOMAIN toProxy'
        PROVE  toProxy'[i].by = "client" /\ i = Len(toProxy') /\ ~clientOpen'
    BY <1>3, <1>4 DEF Facts, WaitingInv, ProxyInv
  <2> QED  BY <1>4, <2>1 DEF ProxyInv, AtProxy
<1>6. Head(toProxy).op # "terminate" => AtProxy /\ Head(toProxy).id = asked /\ asked > 0
  BY <1>1 DEF Facts, WaitingInv, ProxyInv, AtProxy
<1>7. Head(toProxy).op = "terminate" => toProxy' = <<>> /\ ~clientOpen
  <2>1. Head(toProxy).op = "terminate" => Len(toProxy) = 1 /\ ~clientOpen
    BY <1>1 DEF Facts, WaitingInv, ProxyInv
  <2> QED  BY <1>1, <2>1
<1>8. cmd = 0 /\ ~AtBackend("pgx") /\ ~Coming("pgx")
  BY DEF Facts, Reading, WaitingInv, PlaceInv, CommandInv
<1> QED
  BY <1>2, <1>5, <1>6, <1>7, <1>8

\* A request on its way to the backend.
LEMMA ForwardsKeeps ==
  ASSUME Facts, ForwardsRequest
  PROVE  WaitingInv'
<1> DEFINE q == Head(toProxy)
<1>1. /\ Reading /\ toProxy' = Tail(toProxy)
      /\ toBackend' = IF backendUp THEN Append(toBackend, q) ELSE toBackend
      /\ UNCHANGED <<fpc, bpc, asked, clientOpen, fromBackend, backendUp, backendTx,
                     held, received, cmd, awaiting, teardown>>
  BY DEF ForwardsRequest, pvars, clientVars, backendVars, cmdVars
<1>2. /\ q.by = "client" /\ ProxyInv' /\ ~AtProxy' /\ cmd = 0
      /\ ~AtBackend("pgx") /\ ~Coming("pgx")
      /\ q.op # "terminate" => AtProxy /\ q.id = asked /\ asked > 0
      /\ q.op = "terminate" => toProxy' = <<>> /\ ~clientOpen
  BY <1>1, TakesRequest
<1>3. toBackend \in Seq(Requests) /\ toBackend' \in Seq(Requests)
  BY DEF Facts, TypeOK
<1>4. /\ \A by : Coming(by)' = Coming(by)
      /\ HeldReply' = HeldReply /\ BodyComing' = BodyComing
  BY <1>1 DEF Coming, HeldReply, BodyComing
<1>5. q.op # "terminate" => toBackend = <<>>
  <2> SUFFICES ASSUME q.op # "terminate", toBackend # <<>> PROVE FALSE
    OBVIOUS
  <2>1. ~AtBackend("client") /\ ~AtBackend("pgx") /\ toProxy # <<>>
    BY <1>1, <1>2 DEF Facts, WaitingInv, PlaceInv, Reading
  <2>2. 1 \in DOMAIN toBackend /\ toBackend[1] \in Requests
    BY <1>3
  <2> QED  BY <2>1, <2>2 DEF Facts, WaitingInv, BackendInv, AtBackend, Requests
<1>6. \A i \in DOMAIN toBackend : toBackend[i].by = "client" /\ toBackend[i].op # "terminate"
  <2> SUFFICES ASSUME NEW i \in DOMAIN toBackend
               PROVE  toBackend[i].by = "client" /\ toBackend[i].op # "terminate"
    OBVIOUS
  <2>1. toBackend[i] \in Requests
    BY <1>3
  <2>2. toBackend[i].op # "terminate"
    BY <1>1 DEF Facts, WaitingInv, BackendInv, Reading
  <2> QED  BY <1>2, <2>1, <2>2 DEF AtBackend, Requests
<1>7. BackendInv'
  <2>1. CASE ~backendUp
    BY <1>1, <1>2, <2>1 DEF Facts, WaitingInv, BackendInv
  <2>2. CASE backendUp /\ q.op # "terminate"
    <3>1. \A i \in DOMAIN toBackend' : i = 1 /\ toBackend'[i] = q
      <4>1. toBackend' = Append(toBackend, q) /\ toBackend = <<>>
        BY <1>1, <1>5, <2>2
      <4> HIDE DEF q
      <4> QED  BY <4>1
    <3> HIDE DEF q
    <3> QED  BY <1>1, <1>2, <2>2, <3>1 DEF BackendInv
  <2>3. CASE backendUp /\ q.op = "terminate"
    <3>1. ASSUME NEW i \in DOMAIN toBackend'
          PROVE  \/ i \in DOMAIN toBackend /\ toBackend'[i] = toBackend[i]
                 \/ toBackend'[i] = q
      BY <1>1, <1>3, <2>3
    <3> QED  BY <1>1, <1>2, <1>6, <2>3, <3>1 DEF Facts, WaitingInv, BackendInv
  <2> QED  BY <2>1, <2>2, <2>3
<1>8. /\ ~AtBackend("pgx")'
      /\ AtBackend("client")' => AtBackend("client") \/ (AtProxy /\ q.op # "terminate")
  <2>1. ASSUME NEW i \in DOMAIN toBackend'
        PROVE  \/ i \in DOMAIN toBackend /\ toBackend'[i] = toBackend[i]
               \/ toBackend'[i] = q
    BY <1>1, <1>3
  <2> QED  BY <1>2, <2>1 DEF AtBackend
<1>9. ReplyInv' /\ HeldInv'
  BY <1>1, <1>4 DEF Facts, WaitingInv, ReplyInv, HeldInv
<1>10. PlaceInv'
  BY <1>1, <1>2, <1>4, <1>8 DEF Facts, WaitingInv, PlaceInv
<1>11. LogInv' /\ CountInv' /\ StatusInv' /\ ToldInv'
  BY <1>1, <1>2, <1>4, <1>8
     DEF Facts, WaitingInv, LogInv, CountInv, StatusInv, ToldInv, ReadyComing, HeldReady, Live
<1> QED
  BY <1>2, <1>7, <1>9, <1>10, <1>11 DEF WaitingInv

\* A request becomes a command.
LEMMA StartsKeeps ==
  ASSUME Facts, StartsCommand
  PROVE  WaitingInv'
<1>1. /\ Reading /\ toProxy' = Tail(toProxy) /\ Head(toProxy).op = "call"
      /\ cmd' = Head(toProxy).id /\ fpc' = "armed"
      /\ UNCHANGED <<bpc, asked, clientOpen, toBackend, fromBackend, backendUp, backendTx,
                     held, received, awaiting, teardown>>
  BY DEF StartsCommand, Pause, relayVars, clientVars, backendVars, cmdVars
<1>2. /\ ProxyInv' /\ ~AtProxy' /\ ~AtBackend("pgx") /\ ~Coming("pgx")
      /\ AtProxy /\ cmd' = asked /\ asked > 0
  BY <1>1, TakesRequest
<1>3. /\ \A by : AtBackend(by)' = AtBackend(by) /\ Coming(by)' = Coming(by)
      /\ HeldReply' = HeldReply /\ BodyComing' = BodyComing
  BY <1>1 DEF AtBackend, Coming, HeldReply, BodyComing
<1>4. BackendInv'
  <2>1. toProxy # <<>>
    BY <1>1 DEF Reading
  <2> QED  BY <1>1, <2>1 DEF Facts, WaitingInv, BackendInv
<1>5. ReplyInv' /\ HeldInv'
  BY <1>1, <1>3 DEF Facts, WaitingInv, ReplyInv, HeldInv
<1>6. PlaceInv'
  BY <1>1, <1>2, <1>3 DEF Facts, WaitingInv, PlaceInv
<1>7. LogInv' /\ CountInv' /\ StatusInv' /\ ToldInv'
  BY <1>1, <1>2, <1>3
     DEF Facts, WaitingInv, LogInv, CountInv, StatusInv, ToldInv, ReadyComing, HeldReady, Live
<1> QED
  BY <1>2, <1>4, <1>5, <1>6, <1>7 DEF WaitingInv

\* Two elements appended at once or one by one.
LEMMA AppendTwice ==
  ASSUME NEW S, NEW s \in Seq(S), NEW a \in S, NEW b \in S
  PROVE  s \o <<a, b>> = Append(Append(s, a), b)
OBVIOUS

\* What the proxy itself sends is a whole reply, if the client is still there.
LEMMA ProxySends ==
  ASSUME Facts, SendClient(Reply(asked, "gendb", "I"))
  PROVE  /\ Live => \E body, ready \in Messages :
                      /\ body.id = asked /\ body.part = "body"
                      /\ ready.id = asked /\ IsReady(ready) /\ ready.by = "gendb"
                      /\ received' = Append(Append(received, body), ready)
         /\ ~Live => received' = received
<1> DEFINE body  == Message(asked, "gendb", "body")
           ready == Message(asked, "gendb", "I")
<1>1. asked \in 0 .. MaxRequests /\ received \in Seq(Messages)
  BY DEF Facts, TypeOK
<1>2. /\ body \in Messages /\ body.id = asked /\ body.part = "body"
      /\ ready \in Messages /\ ready.id = asked /\ IsReady(ready) /\ ready.by = "gendb"
  BY <1>1 DEF Message, Messages, IsReady, Tx
<1>3. Reply(asked, "gendb", "I") = <<body, ready>>
  BY DEF Reply
<1> HIDE DEF body, ready
<1>4. CASE Live
  <2>1. Head(<<body, ready>>).part # "notice"
    BY <1>2
  <2>2. received' = received \o <<body, ready>>
    BY <1>3, <1>4, <2>1 DEF SendClient, Live
  <2>3. received' = Append(Append(received, body), ready)
    BY <1>1, <1>2, <2>2
  <2> QED  BY <1>2, <1>4, <2>3
<1>5. CASE ~Live
  BY <1>5 DEF SendClient, Live
<1> QED
  BY <1>4, <1>5

\* A reply of the proxy completes the log of the client, if that is still there.
LEMMA ProxyAnswers ==
  ASSUME Facts, asked > 0, SendClient(Reply(asked, "gendb", "I")), ~HeldReply,
         Live => Len(received) = 2 * asked - 2,
         UNCHANGED <<asked, clientOpen, teardown, held>>
  PROVE  LogInv' /\ ToldInv' /\ (Live => Len(received') = 2 * asked)
<1>1. /\ asked \in Nat /\ received \in Seq(Messages) /\ Log(received, asked)
  BY SessionAssumption DEF Facts, TypeOK, WaitingInv, LogInv
<1>2. CASE Live
  <2>1. PICK body, ready \in Messages :
                 /\ body.id = asked /\ body.part = "body"
                 /\ ready.id = asked /\ IsReady(ready) /\ ready.by = "gendb"
                 /\ received' = Append(Append(received, body), ready)
    BY <1>2, ProxySends
  <2> DEFINE half == Append(received, body)
  <2>2. received' = Append(half, ready)
    BY <2>1
  <2>3. half \in Seq(Messages) /\ Len(half) = 2 * asked - 1
    BY <1>1, <2>1, <1>2
  <2>4. Log(half, asked)
    BY <1>1, <2>1, <1>2, LogGains
  <2> HIDE DEF half
  <2>5. Log(Append(half, ready), asked)
    <3>1. asked \in Nat \ {0}
      BY <1>1
    <3> QED  BY <2>1, <2>3, <2>4, <3>1, LogGains, Zenon
  <2>6. LogInv' /\ Len(received') = 2 * asked
    <3>1. Len(received') = Len(half) + 1
      BY <2>1, <2>2, <2>3
    <3>2. Log(received', asked')
      BY <2>2, <2>5, Zenon
    <3> QED  BY <1>1, <2>3, <3>1, <3>2 DEF LogInv
  <2>7. ToldInv'
    <3>1. /\ ~(held' # <<>> /\ IsReady(held'[1])) /\ ~(Len(received') < 2)
      BY <1>1, <2>6 DEF HeldReply, IsReady, IsReply, Tx
    <3>2. ASSUME NEW i \in DOMAIN received', IsReady(received'[i]), i + 1 >= Len(received')
          PROVE  received'[i].by = "gendb"
      <4>1. PICK k \in 1 .. asked : i = 2 * k
        <5>1. received' \in Seq(Messages) /\ Log(received', asked)
          BY <2>2, <2>5 DEF Facts, TypeOK
        <5> QED  BY <1>1, <3>2, <5>1, ReadyPlaces
      <4>2. i = 2 * asked
        BY <1>1, <2>6, <3>2, <4>1
      <4> QED  BY <2>1, <2>2, <2>3, <4>2
    <3> QED  BY <3>1, <3>2 DEF ToldInv, ReadyComing, HeldReady
  <2> QED  BY <2>6, <2>7
<1>3. CASE ~Live
  <2>1. received' = received /\ ~Live'
    BY <1>3, ProxySends DEF Live
  <2> QED  BY <1>1, <1>3, <2>1 DEF LogInv, ToldInv, ReadyComing, HeldReady
<1> QED
  BY <1>2, <1>3

\* A command that does not parse is answered at once.
LEMMA RejectsKeeps ==
  ASSUME Facts, RejectsCommand
  PROVE  WaitingInv'
<1>1. /\ Reading /\ toProxy' = Tail(toProxy) /\ Head(toProxy).op = "badcall"
      /\ SendClient(Reply(Head(toProxy).id, "gendb", "I"))
      /\ UNCHANGED <<fpc, bpc, asked, clientOpen, toBackend, fromBackend, backendUp,
                     backendTx, held, cmd, awaiting, teardown>>
  BY DEF RejectsCommand, pvars, clientVars, backendVars, cmdVars
<1>2. /\ ProxyInv' /\ ~AtProxy' /\ ~AtBackend("pgx") /\ ~Coming("pgx") /\ cmd = 0
      /\ AtProxy /\ Head(toProxy).id = asked /\ asked > 0
  BY <1>1, TakesRequest
<1>3. ~AtBackend("client") /\ ~Coming("client") /\ ~HeldReply
  BY <1>2 DEF Facts, WaitingInv, PlaceInv
<1>4. /\ \A by : AtBackend(by)' = AtBackend(by) /\ Coming(by)' = Coming(by)
      /\ HeldReply' = HeldReply /\ BodyComing' = BodyComing
  BY <1>1 DEF AtBackend, Coming, HeldReply, BodyComing
<1>5. LogInv' /\ ToldInv'
  BY <1>1, <1>2, <1>3, ProxyAnswers DEF Facts, WaitingInv, CountInv
<1>6. BackendInv'
  <2>1. toProxy # <<>>
    BY <1>1 DEF Reading
  <2> QED  BY <1>1, <2>1 DEF Facts, WaitingInv, BackendInv
<1>7. ReplyInv' /\ HeldInv' /\ StatusInv'
  BY <1>1, <1>4 DEF Facts, WaitingInv, ReplyInv, HeldInv, StatusInv, ReadyComing, HeldReady
<1>8. PlaceInv' /\ CountInv'
  BY <1>1, <1>2, <1>3, <1>4 DEF Facts, WaitingInv, PlaceInv, CountInv
<1> QED
  BY <1>2, <1>5, <1>6, <1>7, <1>8 DEF WaitingInv

\* A command that is over is answered by the proxy.
LEMMA AnswersKeeps ==
  ASSUME Facts, AnswersCommand
  PROVE  WaitingInv'
<1>1. /\ cmd # 0 /\ cmd' = 0 /\ ~awaiting'
      /\ ~awaiting \/ (~backendUp /\ fromBackend = <<>>)
      /\ SendClient(Reply(cmd, "gendb", "I"))
      /\ UNCHANGED <<fpc, bpc, asked, clientOpen, toProxy, toBackend, fromBackend, backendUp,
                     backendTx, held, teardown>>
  BY DEF AnswersCommand, pvars, clientVars, wireVars, backendVars
<1>2. cmd = asked /\ asked > 0
  <2>1. asked \in Nat
    BY SessionAssumption DEF Facts, TypeOK
  <2> QED  BY <1>1, <2>1 DEF Facts, WaitingInv, PlaceInv
<1>3. ~AtProxy /\ ~AtBackend("client") /\ ~Coming("client") /\ ~HeldReply
  BY <1>1 DEF Facts, WaitingInv, PlaceInv
<1>4. ~AtBackend("pgx") /\ ~Coming("pgx")
  <2>1. CASE ~awaiting
    BY <2>1 DEF Facts, WaitingInv, PlaceInv
  <2>2. CASE ~backendUp /\ fromBackend = <<>>
    BY <2>2 DEF Facts, WaitingInv, BackendInv, AtBackend, Coming
  <2> QED  BY <1>1, <2>1, <2>2
<1>5. /\ AtProxy' = AtProxy
      /\ \A by : AtBackend(by)' = AtBackend(by) /\ Coming(by)' = Coming(by)
      /\ HeldReply' = HeldReply /\ BodyComing' = BodyComing
  BY <1>1 DEF AtProxy, AtBackend, Coming, HeldReply, BodyComing
<1>6. LogInv' /\ ToldInv'
  BY <1>1, <1>2, <1>3, ProxyAnswers DEF Facts, WaitingInv, CountInv
<1>7. ProxyInv' /\ BackendInv' /\ ReplyInv' /\ HeldInv' /\ StatusInv'
  BY <1>1, <1>5
     DEF Facts, WaitingInv, ProxyInv, BackendInv, ReplyInv, HeldInv, StatusInv, ReadyComing,
         HeldReady
<1>8. PlaceInv' /\ CountInv'
  BY <1>1, <1>3, <1>4, <1>5 DEF PlaceInv, CountInv
<1> QED
  BY <1>6, <1>7, <1>8 DEF WaitingInv

\* Whoever reads a ReadyForQuery has read all there is of a reply, and who reads
\* a body has only the ReadyForQuery to read.
LEMMA ReadsReply ==
  ASSUME Facts, fromBackend # <<>>, fromBackend' = Tail(fromBackend), asked' = asked
  PROVE  /\ Head(fromBackend) \in Messages /\ Head(fromBackend) = fromBackend[1]
         /\ 1 \in DOMAIN fromBackend
         /\ \A i \in DOMAIN fromBackend' :
              i + 1 \in DOMAIN fromBackend /\ fromBackend'[i] = fromBackend[i + 1]
         /\ \A i \in DOMAIN fromBackend :
              i = 1 \/ (i - 1 \in DOMAIN fromBackend' /\ fromBackend'[i - 1] = fromBackend[i])
         /\ ReplyInv' /\ \A by : Coming(by)' => Coming(by)
         /\ BodyComing' => BodyComing
         /\ IsReply(Head(fromBackend)) => ~BodyComing'
         /\ IsReady(Head(fromBackend)) => \A by : ~Coming(by)'
<1>0. fromBackend \in Seq(Messages)
  BY DEF Facts, TypeOK
<1>1. /\ Head(fromBackend) \in Messages /\ Head(fromBackend) = fromBackend[1]
      /\ fromBackend \in Seq(Messages) /\ 1 \in DOMAIN fromBackend
  BY <1>0
<1>2. \A i \in DOMAIN fromBackend' :
         /\ i \in Nat \ {0} /\ i + 1 \in DOMAIN fromBackend
         /\ fromBackend'[i] = fromBackend[i + 1]
  BY <1>1
<1>3. \A i \in DOMAIN fromBackend :
         i = 1 \/ (i - 1 \in DOMAIN fromBackend' /\ fromBackend'[i - 1] = fromBackend[i])
  BY <1>1
<1>4. ReplyInv'
  BY <1>2 DEF Facts, WaitingInv, ReplyInv
<1>5. (\A by : Coming(by)' => Coming(by)) /\ (BodyComing' => BodyComing)
  BY <1>2 DEF Coming, BodyComing
<1>6. IsReply(Head(fromBackend)) => ~BodyComing'
  <2> SUFFICES ASSUME IsReply(Head(fromBackend)), NEW i \in DOMAIN fromBackend',
                      fromBackend'[i].part = "body"
               PROVE  FALSE
    BY DEF BodyComing
  <2>1. IsReply(fromBackend[i + 1]) /\ ~IsReady(fromBackend[i + 1]) /\ 1 < i + 1
    BY <1>2 DEF IsReply, IsReady, Tx
  <2> QED  BY <1>1, <1>2, <2>1 DEF Facts, WaitingInv, ReplyInv
<1>7. IsReady(Head(fromBackend)) => \A by : ~Coming(by)'
  <2> SUFFICES ASSUME IsReady(Head(fromBackend)), NEW i \in DOMAIN fromBackend',
                      IsReply(fromBackend'[i])
               PROVE  FALSE
    BY DEF Coming
  <2>1. IsReply(fromBackend[i + 1]) /\ 1 < i + 1
    BY <1>2
  <2>2. IsReply(Head(fromBackend)) /\ Head(fromBackend).part # "body"
    BY DEF IsReply, IsReady, Tx
  <2> QED  BY <1>1, <1>2, <2>1, <2>2 DEF Facts, WaitingInv, ReplyInv
<1> QED
  BY <1>1, <1>2, <1>3, <1>4, <1>5, <1>6, <1>7

\* The relay reads what is the client's, or a notice.
LEMMA RelayReadsKeeps ==
  ASSUME Facts, RelayReads
  PROVE  WaitingInv' /\ Head(fromBackend).by = "client"
<1> DEFINE m == Head(fromBackend)
<1>1. /\ bpc = "reading" /\ bpc' = "writing" /\ fromBackend # <<>>
      /\ held' = <<m>> /\ fromBackend' = Tail(fromBackend)
      /\ UNCHANGED <<fpc, asked, clientOpen, toProxy, toBackend, backendUp, backendTx,
                     received, cmd, awaiting, teardown>>
  BY DEF RelayReads, ReadData, forwarderVars, clientVars, backendVars, cmdVars
<1>2. /\ m \in Messages /\ m = fromBackend[1] /\ 1 \in DOMAIN fromBackend
      /\ \A i \in DOMAIN fromBackend :
           i = 1 \/ (i - 1 \in DOMAIN fromBackend' /\ fromBackend'[i - 1] = fromBackend[i])
      /\ \A i \in DOMAIN fromBackend' :
           i + 1 \in DOMAIN fromBackend /\ fromBackend'[i] = fromBackend[i + 1]
      /\ ReplyInv' /\ (\A by : Coming(by)' => Coming(by))
      /\ (BodyComing' => BodyComing) /\ (IsReply(m) => ~BodyComing')
      /\ (IsReady(m) => \A by : ~Coming(by)')
  BY <1>1, ReadsReply
<1> HIDE DEF m
<1>3. held = <<>> /\ ~HeldReply /\ held' # <<>> /\ held'[1] = m
  BY <1>1 DEF Facts, WaitingInv, HeldInv, HeldReply
<1>4. m.by = "client"
  <2>1. ~awaiting
    BY <1>1 DEF Facts, CommandInv, HandshakeInv, RelayInv, HasPaused
  <2>2. ~Coming("pgx")
    BY <2>1 DEF Facts, WaitingInv, PlaceInv
  <2> QED  BY <1>2, <2>2 DEF Facts, WaitingInv, ReplyInv, Coming, IsReply
<1>5. IsReply(m) => Coming("client") /\ m.id = asked /\ asked > 0
  BY <1>2, <1>4 DEF Coming, Facts, WaitingInv, ReplyInv
<1>6. IsReady(m) => IsReply(m) /\ m.part # "body"
  BY DEF IsReady, IsReply, Tx
<1>7. HeldReply' <=> IsReply(m)
  BY <1>3 DEF HeldReply
<1>8. AtProxy' = AtProxy /\ \A by : AtBackend(by)' = AtBackend(by)
  BY <1>1 DEF AtProxy, AtBackend
<1>9. ProxyInv' /\ BackendInv'
  BY <1>1 DEF Facts, WaitingInv, ProxyInv, BackendInv
<1>10. HeldInv'
  BY <1>1, <1>2, <1>3, <1>4, <1>5, <1>7 DEF Facts, WaitingInv, HeldInv
<1>11. PlaceInv'
  BY <1>1, <1>2, <1>3, <1>5, <1>7, <1>8 DEF Facts, WaitingInv, PlaceInv
<1>12. LogInv'
  BY <1>1 DEF Facts, WaitingInv, LogInv
<1>13. CountInv'
  <2>1. BodyComing => BodyComing' \/ m.part = "body"
    BY <1>2 DEF BodyComing
  <2>2. BodyComing' \/ (HeldReply' /\ held'[1].part = "body") <=> BodyComing
    <3>1. m.part = "body" => IsReply(m) /\ BodyComing
      BY <1>2 DEF IsReply, BodyComing
    <3> QED  BY <1>2, <1>3, <1>7, <2>1, <3>1
  <2>3. Coming("client")' \/ HeldReply' => Coming("client")
    BY <1>2, <1>5, <1>7
  <2> QED  BY <1>1, <1>3, <1>8, <2>2, <2>3 DEF Facts, WaitingInv, CountInv, Live
<1>14. StatusInv'
  <2>1. HeldReady' => m.part = backendTx
    BY <1>2, <1>3, <1>4 DEF Facts, WaitingInv, StatusInv, HeldReady
  <2> QED  BY <1>1, <1>2, <1>3, <2>1 DEF Facts, WaitingInv, StatusInv, HeldReady
<1>15. ToldInv'
  <2>1. HeldReady' <=> IsReady(m)
    BY <1>3 DEF HeldReady
  <2>2. ~IsReady(m) /\ ReadyComing => ReadyComing'
    BY <1>2 DEF ReadyComing
  <2>3. ~HeldReady
    BY <1>3 DEF HeldReady
  <2> QED  BY <1>1, <2>1, <2>2, <2>3 DEF Facts, WaitingInv, ToldInv, Live
<1> QED
  BY <1>2, <1>4, <1>9, <1>10, <1>11, <1>12, <1>13, <1>14, <1>15 DEF WaitingInv

\* What the relay passes on is the next part of the last reply, or a notice.
LEMMA RelaySends ==
  ASSUME Facts, RelayWrites
  PROVE  /\ bpc = "writing" /\ bpc' = "start" /\ held' = <<>> /\ held # <<>>
         /\ UNCHANGED <<fpc, asked, clientOpen, toProxy, toBackend, fromBackend, backendUp,
                        backendTx, cmd, awaiting, teardown>>
         /\ held[1] \in Messages
         /\ HeldReply => /\ held[1].id = asked /\ asked > 0 /\ ~BodyComing
                         /\ IsReady(held[1]) => ~Coming("client")
                         /\ ~AtProxy /\ ~AtBackend("client") /\ cmd = 0
         /\ HeldReply <=> IsReply(held[1])
         /\ IsReply(held[1]) => held[1].part = "body" \/ IsReady(held[1])
         /\ IsReady(held[1]) => IsReply(held[1]) /\ held[1].part # "body"
         /\ Live /\ IsReply(held[1])
              => /\ received' = Append(received, held[1])
                 /\ Len(received) = IF held[1].part = "body"
                                    THEN 2 * asked - 2 ELSE 2 * asked - 1
         /\ ~Live \/ ~IsReply(held[1]) => received' = received
<1> DEFINE m == held[1]
<1>1. /\ bpc = "writing" /\ bpc' = "start" /\ held' = <<>> /\ SendClient(held)
      /\ UNCHANGED <<fpc, asked, clientOpen, toProxy, toBackend, fromBackend, backendUp,
                     backendTx, cmd, awaiting, teardown>>
  BY DEF RelayWrites, WriteClient, forwarderVars, clientVars, wireVars, backendVars, cmdVars
<1>2. /\ held # <<>> /\ held = <<m>> /\ Head(held) = m /\ m \in Messages
      /\ received \in Seq(Messages) /\ asked \in Nat /\ Log(received, asked)
  <2>1. held \in Seq(Messages) /\ Len(held) <= 1 /\ held # <<>>
    BY <1>1 DEF Facts, TypeOK, WaitingInv, HeldInv
  <2>2. held = <<m>> /\ Head(held) = m /\ m \in Messages
    <3>1. Len(held) = 1 /\ m \in Messages /\ Head(held) = m
      <4>1. Len(held) \in Nat /\ Len(held) # 0
        BY <2>1, EmptySeq
      <4> QED  BY <2>1, <4>1
    <3>2. <<m>> \in Seq(Messages) /\ Len(<<m>>) = 1 /\ <<m>>[1] = held[1]
      BY <3>1
    <3> QED  BY <2>1, <3>1, <3>2, SeqEqual
  <2>3. received \in Seq(Messages) /\ asked \in Nat /\ Log(received, asked)
    BY SessionAssumption DEF Facts, TypeOK, WaitingInv, LogInv
  <2> QED  BY <2>1, <2>2, <2>3
<1>3. HeldReply => /\ m.id = asked /\ asked > 0 /\ ~BodyComing
                   /\ IsReady(m) => ~Coming("client")
                   /\ ~AtProxy /\ ~AtBackend("client") /\ cmd = 0
  BY DEF Facts, WaitingInv, HeldInv, PlaceInv
<1>4. HeldReply <=> IsReply(m)
  BY <1>2 DEF HeldReply
<1>5. /\ IsReply(m) => m.part = "body" \/ IsReady(m)
      /\ IsReady(m) => IsReply(m) /\ m.part # "body"
  BY <1>2 DEF IsReply, IsReady, Messages, Tx
<1>6. Live /\ IsReply(m) => /\ received' = Append(received, m)
                            /\ Len(received) = IF m.part = "body"
                                               THEN 2 * asked - 2 ELSE 2 * asked - 1
  <2>1. Live /\ IsReply(m) => received' = received \o <<m>>
    BY <1>1, <1>2 DEF SendClient, Live, IsReply
  <2>2. received \o <<m>> = Append(received, m)
    BY <1>2
  <2> QED  BY <1>3, <1>4, <2>1, <2>2 DEF Facts, WaitingInv, CountInv
<1>7. ~Live \/ ~IsReply(m) => received' = received
  BY <1>1, <1>2 DEF SendClient, Live, IsReply
<1> QED
  BY <1>1, <1>2, <1>3, <1>4, <1>5, <1>6, <1>7

\* The relay passes on what it holds: the log grows by that.
LEMMA RelayWritesKeeps ==
  ASSUME Facts, RelayWrites
  PROVE  WaitingInv'
<1> DEFINE m == held[1]
<1>1. /\ bpc = "writing" /\ bpc' = "start" /\ held' = <<>>
      /\ UNCHANGED <<fpc, asked, clientOpen, toProxy, toBackend, fromBackend, backendUp,
                     backendTx, cmd, awaiting, teardown>>
  BY RelaySends
<1>2. /\ held # <<>> /\ m \in Messages
      /\ received \in Seq(Messages) /\ asked \in Nat /\ Log(received, asked)
  BY SessionAssumption, RelaySends DEF Facts, TypeOK, WaitingInv, LogInv
<1>3. HeldReply => /\ m.id = asked /\ asked > 0 /\ ~BodyComing
                   /\ IsReady(m) => ~Coming("client")
                   /\ ~AtProxy /\ ~AtBackend("client") /\ cmd = 0
  BY RelaySends
<1>4. HeldReply <=> IsReply(m)
  BY RelaySends
<1>5. /\ IsReply(m) => m.part = "body" \/ IsReady(m)
      /\ IsReady(m) => IsReply(m) /\ m.part # "body"
  BY RelaySends
<1>6. Live /\ IsReply(m) => /\ received' = Append(received, m)
                            /\ Len(received) = IF m.part = "body"
                                               THEN 2 * asked - 2 ELSE 2 * asked - 1
  BY RelaySends
<1>7. ~Live \/ ~IsReply(m) => received' = received
  BY RelaySends
<1> HIDE DEF m
<1>8. /\ AtProxy' = AtProxy /\ ~HeldReply' /\ BodyComing' = BodyComing /\ Live' = Live
      /\ \A by : AtBackend(by)' = AtBackend(by) /\ Coming(by)' = Coming(by)
  BY <1>1 DEF AtProxy, AtBackend, HeldReply, BodyComing, Coming, Live
<1>9. ProxyInv' /\ BackendInv' /\ ReplyInv' /\ StatusInv'
  BY <1>1
     DEF Facts, WaitingInv, ProxyInv, BackendInv, ReplyInv, StatusInv, ReadyComing, HeldReady
<1>10. HeldInv'
  BY <1>1, <1>8 DEF Facts, WaitingInv, HeldInv
<1>11. PlaceInv'
  BY <1>1, <1>8 DEF Facts, WaitingInv, PlaceInv
<1>12. CASE Live /\ IsReply(m)
  <2>1. /\ asked \in Nat \ {0} /\ m.id = asked
        /\ \/ Len(received) = 2 * asked - 2 /\ m.part = "body"
           \/ Len(received) = 2 * asked - 1 /\ IsReady(m)
    BY <1>2, <1>3, <1>4, <1>5, <1>6, <1>12
  <2>2. Log(Append(received, m), asked)
    BY <1>2, <2>1, LogGains, Zenon
  <2>3. LogInv'
    BY <1>1, <1>6, <1>12, <2>2 DEF LogInv
  <2>4. /\ Len(received') = Len(received) + 1 /\ received'[Len(received')] = m
        /\ \A i \in DOMAIN received : i \in DOMAIN received' /\ received'[i] = received[i]
        /\ \A i \in DOMAIN received' : i = Len(received') \/ i \in DOMAIN received
    BY <1>2, <1>6, <1>12
  <2>5. CountInv'
    <3>1. IsReady(m) => ~(Coming("client")' \/ HeldReply')
      BY <1>3, <1>4, <1>8, <1>12
    <3> QED
      BY <1>1, <1>2, <1>3, <1>4, <1>6, <1>8, <1>12, <2>1, <2>4, <3>1 DEF CountInv
  <2>6. ToldInv'
    <3>0. HeldReady <=> IsReady(m)
      BY <1>2 DEF HeldReady, m
    <3>1. ReadyComing' <=> ReadyComing
      BY <1>1 DEF ReadyComing
    <3>2. CASE IsReady(m)
      <4>1. Len(received') = 2 * asked /\ ~(Len(received') < 2) /\ backendTx' = m.part
        BY <1>1, <1>2, <1>5, <1>6, <1>12, <2>1, <2>4, <3>0, <3>2
           DEF Facts, WaitingInv, StatusInv, m
      <4>2. ASSUME NEW i \in DOMAIN received', IsReady(received'[i]),
                   i + 1 >= Len(received')
            PROVE  i = Len(received')
        <5>1. PICK k \in 1 .. asked : i = 2 * k
          <6>1. received' \in Seq(Messages) /\ Log(received', asked)
            BY <1>1, <2>3 DEF Facts, TypeOK, LogInv
          <6> QED  BY <1>2, <4>2, <6>1, ReadyPlaces
        <5> QED  BY <1>2, <4>1, <4>2, <5>1
      <4> QED  BY <2>4, <4>1, <4>2 DEF ToldInv
    <3>3. CASE ~IsReady(m)
      <4> SUFFICES ASSUME cmd = 0, ~ReadyComing
                   PROVE  IF Len(received') < 2 THEN backendTx = "I"
                          ELSE \A i \in DOMAIN received' :
                                 IsReady(received'[i]) /\ i + 1 >= Len(received')
                                   => \/ received'[i].part = backendTx
                                      \/ received'[i].by = "gendb"
        BY <1>1, <3>1 DEF ToldInv
      <4>1. Len(received') = 2 * asked - 1 /\ m.part = "body"
        BY <1>2, <2>1, <2>4, <3>3
      <4>2. Len(received') < 2 => backendTx = "I"
        BY <1>2, <1>12, <2>1, <2>4, <3>0, <3>3, <4>1 DEF Facts, WaitingInv, ToldInv
      <4>3. ASSUME NEW i \in DOMAIN received', IsReady(received'[i]),
                   i + 1 >= Len(received')
            PROVE  received'[i].part = backendTx \/ received'[i].by = "gendb"
        <5>1. i \in DOMAIN received /\ received'[i] = received[i] /\ Len(received) >= 1
          BY <2>4, <3>3, <4>3, <1>2
        <5>2. received' \in Seq(Messages) /\ Log(received', asked)
          BY <1>1, <2>3 DEF Facts, TypeOK, LogInv
        <5>3. PICK k \in 1 .. asked : i = 2 * k
          BY <1>2, <4>3, <5>2, ReadyPlaces
        <5>4. ~(Len(received) < 2) /\ i + 1 >= Len(received)
          BY <1>2, <2>4, <4>1, <4>3, <5>1, <5>3
        <5> QED
          BY <1>12, <3>0, <3>3, <4>3, <5>1, <5>4 DEF Facts, WaitingInv, ToldInv
      <4> QED  BY <4>2, <4>3
    <3> QED  BY <3>2, <3>3
  <2> QED  BY <1>9, <1>10, <1>11, <2>3, <2>5, <2>6 DEF WaitingInv
<1>13. CASE ~Live \/ ~IsReply(m)
  <2>1. LogInv'
    BY <1>1, <1>7, <1>13 DEF Facts, WaitingInv, LogInv
  <2>2. CountInv'
    BY <1>1, <1>4, <1>7, <1>8, <1>13 DEF Facts, WaitingInv, CountInv
  <2>3. ToldInv'
    <3>1. Live => ~HeldReady
      BY <1>5, <1>13 DEF HeldReady, m
    <3>2. ReadyComing' <=> ReadyComing
      BY <1>1 DEF ReadyComing
    <3> QED  BY <1>1, <1>7, <1>8, <1>13, <3>1, <3>2 DEF Facts, WaitingInv, ToldInv
  <2> QED  BY <1>9, <1>10, <1>11, <2>1, <2>2, <2>3 DEF WaitingInv
<1> QED
  BY <1>12, <1>13

\* A command sends its query: nothing else is at the backend.
LEMMA QueriesKeeps ==
  ASSUME Facts, CommandQueries
  PROVE  WaitingInv'
<1> DEFINE q == [id |-> cmd, by |-> "pgx", op |-> "sql"]
<1>1. /\ cmd # 0 /\ ~awaiting /\ awaiting'
      /\ toBackend' = IF backendUp THEN Append(toBackend, q) ELSE toBackend
      /\ UNCHANGED <<fpc, bpc, asked, clientOpen, toProxy, fromBackend, backendUp, backendTx,
                     held, received, cmd, teardown>>
  BY DEF CommandQueries, pvars, clientVars, backendVars
<1>2. /\ ~AtProxy /\ ~AtBackend("client") /\ ~AtBackend("pgx") /\ ~Coming("pgx")
      /\ ~Coming("client") /\ ~HeldReply
  BY <1>1 DEF Facts, WaitingInv, PlaceInv
<1>3. toBackend = <<>>
  <2> SUFFICES ASSUME toBackend # <<>> PROVE FALSE
    OBVIOUS
  <2>1. 1 \in DOMAIN toBackend /\ toBackend[1] \in Requests
    <3>1. toBackend \in Seq(Requests)
      BY DEF Facts, TypeOK
    <3> QED  BY <3>1
  <2> QED  BY <1>1, <1>2, <2>1 DEF Facts, WaitingInv, BackendInv, AtBackend, Requests
<1>4. /\ \A i \in DOMAIN toBackend' : i = 1 /\ Len(toBackend') = 1 /\ toBackend'[i] = q
      /\ ~backendUp => toBackend' = <<>>
  BY <1>1, <1>3
<1>5. /\ AtProxy' = AtProxy /\ HeldReply' = HeldReply /\ BodyComing' = BodyComing
      /\ \A by : Coming(by)' = Coming(by)
  BY <1>1 DEF AtProxy, HeldReply, BodyComing, Coming
<1>6. ~AtBackend("client")'
  BY <1>4 DEF AtBackend
<1>7. BackendInv'
  BY <1>1, <1>4 DEF BackendInv
<1>8. ProxyInv' /\ ReplyInv' /\ HeldInv' /\ StatusInv' /\ LogInv' /\ ToldInv'
  BY <1>1, <1>5
     DEF Facts, WaitingInv, ProxyInv, ReplyInv, HeldInv, StatusInv, LogInv, ToldInv, ReadyComing,
         HeldReady, Live
<1>9. PlaceInv' /\ CountInv'
  BY <1>1, <1>2, <1>5, <1>6 DEF Facts, WaitingInv, PlaceInv, CountInv, Live
<1> QED
  BY <1>7, <1>8, <1>9 DEF WaitingInv

\* A command reads the reply to its own query, or a notice.
LEMMA CommandReadsKeeps ==
  ASSUME Facts, CommandReads
  PROVE  /\ WaitingInv'
         /\ Head(fromBackend).by = "pgx" \/ Head(fromBackend).part = "notice"
<1> DEFINE m == Head(fromBackend)
<1>1. /\ awaiting /\ fromBackend # <<>> /\ fromBackend' = Tail(fromBackend)
      /\ awaiting' = ~IsReady(m)
      /\ UNCHANGED <<fpc, bpc, asked, clientOpen, toProxy, toBackend, backendUp, backendTx,
                     held, received, cmd, teardown>>
  BY DEF CommandReads, pvars, clientVars, backendVars
<1>2. /\ m \in Messages /\ m = fromBackend[1] /\ 1 \in DOMAIN fromBackend
      /\ \A i \in DOMAIN fromBackend :
           i = 1 \/ (i - 1 \in DOMAIN fromBackend' /\ fromBackend'[i - 1] = fromBackend[i])
      /\ \A i \in DOMAIN fromBackend' :
           i + 1 \in DOMAIN fromBackend /\ fromBackend'[i] = fromBackend[i + 1]
      /\ ReplyInv' /\ (\A by : Coming(by)' => Coming(by))
      /\ (BodyComing' => BodyComing)
      /\ (IsReady(m) => \A by : ~Coming(by)')
  BY <1>1, ReadsReply
<1> HIDE DEF m
<1>3. cmd # 0 /\ ~AtProxy /\ ~AtBackend("client") /\ ~Coming("client") /\ ~HeldReply
  BY <1>1 DEF Facts, CommandInv, WaitingInv, PlaceInv
<1>4. m.by = "pgx" \/ m.part = "notice"
  BY <1>2, <1>3 DEF Facts, WaitingInv, ReplyInv, Coming, IsReply
<1>5. /\ AtProxy' = AtProxy /\ HeldReply' = HeldReply
      /\ \A by : AtBackend(by)' = AtBackend(by)
  BY <1>1 DEF AtProxy, HeldReply, AtBackend
<1>6. ~(m.by = "client" /\ IsReady(m))
  BY <1>4 DEF IsReady, Tx
<1>7. ProxyInv' /\ BackendInv' /\ HeldInv' /\ LogInv' /\ ToldInv'
  BY <1>1, <1>3, <1>5
     DEF Facts, WaitingInv, ProxyInv, BackendInv, HeldInv, LogInv, ToldInv, ReadyComing,
         HeldReady, Live
<1>8. PlaceInv'
  <2>1. AtBackend("pgx")' \/ Coming("pgx")' => awaiting'
    <3>1. IsReady(m) => Coming("pgx")
      BY <1>2, <1>4 DEF Coming, IsReply, IsReady, Tx
    <3> QED  BY <1>1, <1>2, <1>5, <3>1 DEF Facts, WaitingInv, PlaceInv
  <2> QED  BY <1>1, <1>2, <1>3, <1>5, <2>1 DEF Facts, WaitingInv, PlaceInv
<1>9. CountInv'
  BY <1>1, <1>2, <1>3, <1>5 DEF Facts, WaitingInv, CountInv, Live
<1>10. StatusInv'
  BY <1>1, <1>2, <1>6 DEF Facts, WaitingInv, StatusInv, ReadyComing, HeldReady
<1> QED
  BY <1>2, <1>4, <1>7, <1>8, <1>9, <1>10 DEF m, WaitingInv

\* The backend answers: no other reply is on its way.
LEMMA ServesKeeps ==
  ASSUME Facts, BackendServes
  PROVE  WaitingInv'
<1> DEFINE q == Head(toBackend)
           body == Message(q.id, q.by, "body")
           ready == Message(q.id, q.by, backendTx')
<1>1. /\ toBackend # <<>> /\ q.op # "terminate" /\ toBackend' = Tail(toBackend)
      /\ backendTx' = TxAfter(q.op) \/ (q.by = "pgx" /\ backendTx' = TxAfter("fail"))
      /\ fromBackend' = fromBackend \o <<body, ready>>
      /\ UNCHANGED <<fpc, bpc, asked, clientOpen, toProxy, backendUp, held,
                     received, cmd, awaiting, teardown>>
  BY DEF BackendServes, Reply, pvars, clientVars, cmdVars
<1>2. /\ toBackend \in Seq(Requests) /\ q = toBackend[1] /\ 1 \in DOMAIN toBackend
      /\ q \in Requests /\ fromBackend \in Seq(Messages)
      /\ fromBackend' \in Seq(Messages) /\ backendTx' \in Tx /\ backendTx \in Tx
  BY <1>1 DEF Facts, TypeOK
<1>3. /\ q.by \in {"client", "pgx"} /\ AtBackend(q.by)
      /\ q.by = "client" => q.id = asked /\ asked > 0
      /\ q.by = "pgx" => Len(toBackend) = 1
  BY <1>1, <1>2 DEF Requests, AtBackend, Facts, WaitingInv, BackendInv
<1>4. q.by = "pgx" => q.op = "sql"
  BY <1>2 DEF Facts, WaitingInv, BackendInv
<1> HIDE DEF q
<1>5. /\ body \in Messages /\ body.by = q.by /\ body.id = q.id /\ body.part = "body"
      /\ ready \in Messages /\ ready.by = q.by /\ ready.id = q.id /\ ready.part = backendTx'
      /\ IsReady(ready) /\ IsReply(ready) /\ IsReply(body) /\ ~IsReady(body)
  BY <1>2 DEF Message, Messages, Requests, IsReady, IsReply, Tx
<1> HIDE DEF body, ready
<1>6. /\ ~Coming("client") /\ ~Coming("pgx")
      /\ q.by = "client" => ~HeldReply /\ cmd = 0 /\ ~AtProxy /\ ~AtBackend("pgx")
      /\ q.by = "pgx" => cmd # 0 /\ awaiting /\ ~AtBackend("client")
  BY <1>3 DEF Facts, CommandInv, WaitingInv, PlaceInv
<1>7. \A i \in DOMAIN fromBackend : ~IsReply(fromBackend[i]) /\ ~IsReady(fromBackend[i])
  BY <1>6 DEF Coming, Facts, WaitingInv, ReplyInv, IsReply, IsReady, Tx
<1> DEFINE n == Len(fromBackend)
<1>8. /\ n \in Nat /\ DOMAIN fromBackend = 1 .. n /\ DOMAIN fromBackend' = 1 .. n + 2
      /\ fromBackend'[n + 1] = body /\ fromBackend'[n + 2] = ready
      /\ \A i \in DOMAIN fromBackend : fromBackend'[i] = fromBackend[i]
  BY <1>1, <1>2, <1>5
<1> HIDE DEF n
<1>9. \A i \in DOMAIN fromBackend' :
        \/ i \in DOMAIN fromBackend /\ fromBackend'[i] = fromBackend[i]
        \/ i = n + 1 /\ fromBackend'[i] = body
        \/ i = n + 2 /\ fromBackend'[i] = ready
  BY <1>8
<1>10. BodyComing' /\ \A by : Coming(by)' <=> by = q.by
  <2>1. n + 1 \in DOMAIN fromBackend'
    BY <1>8
  <2>2. BodyComing' /\ \A by : by = q.by => Coming(by)'
    BY <1>5, <1>8, <2>1 DEF Coming, BodyComing
  <2>3. ASSUME NEW by, NEW i \in DOMAIN fromBackend',
               fromBackend'[i].by = by, IsReply(fromBackend'[i])
        PROVE  by = q.by
    BY <1>5, <1>7, <1>9, <2>3
  <2> QED  BY <2>2, <2>3 DEF Coming
<1>11. AtProxy' = AtProxy /\ HeldReply' = HeldReply
  BY <1>1 DEF AtProxy, HeldReply
<1>12. \A i \in DOMAIN toBackend' :
         i + 1 \in DOMAIN toBackend /\ toBackend'[i] = toBackend[i + 1] /\ i \in Nat \ {0}
  BY <1>1, <1>2
<1>13. ~AtBackend("client")' /\ ~AtBackend("pgx")'
  <2>1. ASSUME NEW i \in DOMAIN toBackend' PROVE toBackend'[i].op = "terminate"
    BY <1>12 DEF Facts, WaitingInv, BackendInv
  <2> QED  BY <2>1 DEF AtBackend
<1>14. ProxyInv' /\ LogInv'
  BY <1>1 DEF Facts, WaitingInv, ProxyInv, LogInv
<1>15. BackendInv'
  <2>1. backendUp
    BY DEF BackendServes
  <2>2. ASSUME NEW i \in DOMAIN toBackend'
        PROVE  toBackend'[i].op = "terminate" /\ toBackend'[i].by = "client"
    BY <1>12 DEF Facts, WaitingInv, BackendInv
  <2>3. \A i \in DOMAIN toBackend' : ~clientOpen' /\ toProxy' = <<>> /\ cmd' = 0
    BY <1>1, <1>12, <2>2 DEF Facts, WaitingInv, BackendInv
  <2> QED  BY <1>1, <2>1, <2>2, <2>3 DEF BackendInv
<1>16. ReplyInv'
  <2>1. ASSUME NEW i \in DOMAIN fromBackend'
        PROVE  /\ fromBackend'[i].by \in {"client", "pgx"}
               /\ fromBackend'[i].by = "client" /\ IsReply(fromBackend'[i])
                    => fromBackend'[i].id = asked' /\ asked' > 0
               /\ fromBackend'[i].part = "notice" => fromBackend'[i].by = "client"
    BY <1>1, <1>3, <1>5, <1>9 DEF Facts, WaitingInv, ReplyInv, IsReply
  <2>2. ASSUME NEW i \in DOMAIN fromBackend', NEW j \in DOMAIN fromBackend', i < j,
               IsReply(fromBackend'[i]), IsReply(fromBackend'[j])
        PROVE  fromBackend'[i].part = "body" /\ IsReady(fromBackend'[j])
    <3>1. i = n + 1 /\ j = n + 2
      BY <1>7, <1>8, <1>9, <2>2
    <3> QED  BY <1>5, <1>8, <3>1
  <2> QED  BY <2>1, <2>2 DEF ReplyInv
<1>17. HeldInv'
  <2>1. HeldReply => FALSE \/ q.by = "pgx"
    BY <1>3, <1>6
  <2>2. q.by = "pgx" => ~HeldReply
    BY <1>6 DEF Facts, WaitingInv, PlaceInv
  <2> QED  BY <1>1, <1>11, <2>1, <2>2 DEF Facts, WaitingInv, HeldInv
<1>18. PlaceInv'
  BY <1>1, <1>3, <1>6, <1>10, <1>11, <1>13 DEF Facts, WaitingInv, PlaceInv
<1>19. CountInv'
  BY <1>1, <1>3, <1>6, <1>10, <1>11, <1>13
     DEF Facts, WaitingInv, CountInv, PlaceInv, Live
<1>20. StatusInv' /\ ToldInv'
  <2>1. ~HeldReady /\ ~HeldReady'
    <3>1. ~HeldReply
      BY <1>3, <1>6 DEF Facts, WaitingInv, PlaceInv
    <3> QED  BY <1>1, <3>1 DEF HeldReady, HeldReply, IsReady, IsReply, Tx
  <2>2. CASE q.by = "client"
    <3>1. n + 2 \in DOMAIN fromBackend'
      BY <1>8
    <3>2. ReadyComing'
      BY <1>5, <1>8, <2>2, <3>1 DEF ReadyComing
    <3>3. \A i \in DOMAIN fromBackend' :
            fromBackend'[i].by = "client" /\ IsReady(fromBackend'[i])
              => fromBackend'[i].part = backendTx'
      BY <1>5, <1>7, <1>9
    <3> QED  BY <2>1, <3>2, <3>3 DEF StatusInv, ToldInv
  <2>3. CASE q.by = "pgx"
    <3>1. ASSUME NEW i \in DOMAIN fromBackend', fromBackend'[i].by = "client"
          PROVE  ~IsReady(fromBackend'[i])
      BY <1>5, <1>7, <1>9, <2>3, <3>1
    <3>2. cmd' # 0
      BY <1>1, <1>6, <2>3
    <3> QED  BY <2>1, <3>1, <3>2 DEF StatusInv, ToldInv
  <2> QED  BY <1>3, <2>2, <2>3
<1> QED
  BY <1>14, <1>15, <1>16, <1>17, <1>18, <1>19, <1>20 DEF WaitingInv

\* A notice is no reply; a backend that has gone takes what it had not read.
LEMMA BackendTellsKeeps ==
  ASSUME Facts, BackendNotifies \/ BackendCloses
  PROVE  WaitingInv'
<1> DEFINE m == Message(0, "client", "notice")
<1>1. /\ UNCHANGED <<fpc, bpc, asked, clientOpen, toProxy, backendTx, held,
                     received, cmd, awaiting, teardown>>
      /\ \/ /\ fromBackend' = Append(fromBackend, m)
            /\ UNCHANGED <<toBackend, backendUp>>
         \/ /\ backendUp' = FALSE /\ toBackend' = <<>>
            /\ UNCHANGED fromBackend
  BY DEF BackendNotifies, BackendCloses, pvars, clientVars, backendVars, cmdVars
<1>2. fromBackend \in Seq(Messages) /\ m.by = "client" /\ m.part = "notice"
  BY DEF Facts, TypeOK, Message
<1> HIDE DEF m
<1>3. ~IsReply(m) /\ ~IsReady(m) /\ m.part # "body"
  BY <1>2 DEF IsReply, IsReady, Tx
<1>4. /\ \A i \in DOMAIN fromBackend :
           i \in DOMAIN fromBackend' /\ fromBackend'[i] = fromBackend[i]
      /\ \A i \in DOMAIN fromBackend' :
           \/ i \in DOMAIN fromBackend /\ fromBackend'[i] = fromBackend[i]
           \/ fromBackend'[i] = m
  BY <1>1, <1>2
<1>5. \A by : Coming(by)' <=> Coming(by)
  BY <1>3, <1>4 DEF Coming
<1>6. BodyComing' <=> BodyComing
  BY <1>3, <1>4 DEF BodyComing
<1>7. AtProxy' = AtProxy /\ HeldReply' = HeldReply /\ \A by : AtBackend(by)' => AtBackend(by)
  BY <1>1 DEF AtProxy, HeldReply, AtBackend
<1>8. ProxyInv' /\ LogInv' /\ ToldInv'
  BY <1>1 DEF Facts, WaitingInv, ProxyInv, LogInv, ToldInv, ReadyComing, HeldReady, Live
<1>9. BackendInv'
  BY <1>1 DEF Facts, WaitingInv, BackendInv
<1>10. ReplyInv'
  BY <1>1, <1>2, <1>3, <1>4 DEF Facts, WaitingInv, ReplyInv
<1>11. HeldInv'
  BY <1>1, <1>5, <1>6, <1>7 DEF Facts, WaitingInv, HeldInv
<1>12. PlaceInv'
  BY <1>1, <1>5, <1>7 DEF Facts, WaitingInv, PlaceInv
<1>13. CountInv'
  BY <1>1, <1>5, <1>6, <1>7 DEF Facts, WaitingInv, CountInv, Live
<1>14. StatusInv'
  BY <1>1, <1>3, <1>4 DEF Facts, WaitingInv, StatusInv, ReadyComing, HeldReady
<1> QED
  BY <1>8, <1>9, <1>10, <1>11, <1>12, <1>13, <1>14 DEF WaitingInv

\* Every step keeps the invariant.
LEMMA WaitingNext == Facts /\ [Next]_vars => WaitingInv'
<1> SUFFICES ASSUME Facts, [Next]_vars PROVE WaitingInv'
  OBVIOUS
<1>1. CASE Client
  BY <1>1, ClientSendsKeeps, ClientLeavesKeeps DEF Client
<1>2. CASE Forwarder
  BY <1>2, ForwardsKeeps, RejectsKeeps, StartsKeeps, HandshakeStepsKeep, QuietStepsKeep,
     QueriesKeeps, CommandReadsKeeps, AnswersKeeps DEF Forwarder
<1>3. CASE Relay
  BY <1>3, HandshakeStepsKeep, RelayReadsKeeps, RelayWritesKeeps, QuietStepsKeep DEF Relay
<1>4. CASE Backend
  BY <1>4, ServesKeeps, BackendTellsKeeps DEF Backend
<1>5. CASE UNCHANGED vars
  <2>1. UNCHANGED <<fpc, bpc, asked, clientOpen, toProxy, toBackend, fromBackend, backendUp,
                    backendTx, held, received, cmd, awaiting, teardown>>
    BY <1>5 DEF vars, pvars, sessionVars, clientVars, wireVars, backendVars, cmdVars
  <2>2. /\ AtBackend("pgx") \/ Coming("pgx") => awaiting'
        /\ cmd # 0 => fpc' \in {"armed", "waiting", "confirmed", "command"}
        /\ held # <<>> => bpc' \in {"writing", "gone"}
        /\ bpc' = "writing" => held # <<>>
        /\ teardown' # "none" => bpc' = "gone"
    BY <2>1 DEF Facts, WaitingInv, PlaceInv, HeldInv
  <2> QED  BY <2>1, <2>2, FrameKeeps DEF Facts
<1> QED
  BY <1>1, <1>2, <1>3, <1>4, <1>5 DEF Next

\* The invariant holds throughout a session whose client waits.
LEMMA SessionWaitingInv == ASSUME Window = 1 PROVE Spec => []WaitingInv
<1>1. WaitingInv /\ TypeOK /\ TypeOK' /\ CommandInv /\ HandshakeInv /\ [Next]_vars
        => WaitingInv'
  BY WaitingNext DEF Facts
<1> QED
  BY <1>1, WaitingInit, SessionTypeCorrect, SessionCommandInv, SessionHandshakeInv, PTL
     DEF Spec

--------------------------------------------------------------------------------
(* What a client that waits may rely on *)

\* A command never reads the backend's answer to a request of the client, nor the
\* relay the answer to a query of a command (proxy.go:329).
THEOREM RepliesReachTheirOwner == ASSUME Window = 1 PROVE Spec => OwnReplies
<1>1. Facts /\ CommandReads
        => Head(fromBackend).by = "pgx" \/ Head(fromBackend).part = "notice"
  BY CommandReadsKeeps
<1>2. Facts /\ RelayReads => Head(fromBackend).by = "client"
  BY RelayReadsKeeps
<1>3. WaitingInv /\ TypeOK /\ TypeOK' /\ CommandInv /\ HandshakeInv /\ [Next]_vars
        => [ /\ CommandReads => \/ Head(fromBackend).by = "pgx"
                                \/ Head(fromBackend).part = "notice"
             /\ RelayReads   => Head(fromBackend).by = "client" ]_vars
  BY <1>1, <1>2 DEF Facts
<1> QED
  BY <1>3, SessionWaitingInv, SessionTypeCorrect, SessionCommandInv, SessionHandshakeInv, PTL
     DEF Spec, OwnReplies

\* Whenever the session is quiet, the last status the client was sent is the backend's,
\* unless a command answered last (proxy.go:430).
THEOREM ClientKnowsStatus == ASSUME Window = 1 PROVE Spec => []StatusTold
<1>1. WaitingInv /\ TypeOK => StatusTold
  <2> SUFFICES ASSUME WaitingInv, TypeOK, Quiet
               PROVE  IF Readies = {} THEN backendTx = "I"
                      ELSE LastReady.by = "gendb" \/ LastReady.part = backendTx
    BY DEF StatusTold
  <2>1. Live /\ held = <<>> /\ ~ReadyComing /\ ~HeldReady
    BY DEF WaitingInv, HeldInv, Quiet, Live, ReadyComing, HeldReady
  <2>0. cmd = 0
    BY DEF WaitingInv, PlaceInv, Quiet
  <2>2. received \in Seq(Messages) /\ asked \in Nat /\ Log(received, asked)
    BY SessionAssumption DEF TypeOK, WaitingInv, LogInv
  <2>3. CASE Readies = {}
    <3>1. Len(received) < 2
      <4> SUFFICES ASSUME Len(received) >= 2 PROVE FALSE
        BY <2>2
      <4>1. 1 \in 1 .. asked /\ 2 * 1 <= Len(received) /\ 2 \in DOMAIN received
        BY <2>2 DEF Log
      <4>2. IsReady(received[2 * 1])
        BY <2>2, <4>1 DEF Log
      <4> QED  BY <2>3, <4>1, <4>2 DEF Readies
    <3> QED  BY <2>0, <2>1, <2>3, <3>1 DEF WaitingInv, ToldInv
  <2>4. CASE Readies # {}
    <3>1. PICK i \in DOMAIN received :
                  /\ IsReady(received[i]) /\ i + 1 >= Len(received)
                  /\ \A j \in Readies : j <= i
      <4>1. PICK a \in DOMAIN received : IsReady(received[a])
        BY <2>4 DEF Readies
      <4>2. PICK k \in 1 .. asked : a = 2 * k
        BY <2>2, <4>1, ReadyPlaces
      <4> DEFINE h == Len(received) \div 2
      <4>3. /\ h \in 1 .. asked /\ 2 * h \in DOMAIN received /\ 2 * h + 1 >= Len(received)
            /\ 2 * h <= Len(received)
        BY <2>2, <4>1, <4>2 DEF Log
      <4> HIDE DEF h
      <4>4. IsReady(received[2 * h])
        BY <2>2, <4>3 DEF Log
      <4>5. ASSUME NEW j \in Readies PROVE j <= 2 * h
        <5>1. j \in DOMAIN received /\ IsReady(received[j])
          BY DEF Readies
        <5>2. PICK l \in 1 .. asked : j = 2 * l
          BY <2>2, <5>1, ReadyPlaces
        <5> QED  BY <2>2, <4>3, <5>1, <5>2
      <4> QED  BY <4>3, <4>4, <4>5
    <3>2. (CHOOSE j \in Readies : \A l \in Readies : l <= j) = i
      <4>1. i \in Readies /\ \A j \in Readies : j \in Nat
        BY <2>2, <3>1 DEF Readies
      <4>2. \A j \in Readies : (\A l \in Readies : l <= j) => j = i
        BY <3>1, <4>1
      <4> QED  BY <3>1, <4>1, <4>2
    <3>3. LastReady = received[i]
      BY <3>2 DEF LastReady
    <3>4. ~(Len(received) < 2)
      <4>1. PICK k \in 1 .. asked : i = 2 * k
        BY <2>2, <3>1, ReadyPlaces
      <4> QED  BY <2>2, <3>1, <4>1
    <3> QED  BY <2>0, <2>1, <2>4, <3>1, <3>3, <3>4 DEF WaitingInv, ToldInv
  <2> QED  BY <2>3, <2>4
<1> QED
  BY <1>1, SessionWaitingInv, SessionTypeCorrect, PTL

--------------------------------------------------------------------------------
(* The session is a QueryPort *)

Parts    == (0 .. MaxRequests) \X {"body", "ready"}
Part(m)  == <<m.id, IF IsReady(m) THEN "ready" ELSE "body">>
Parted(s) == [i \in DOMAIN s |-> Part(s[i])]

\* The parts of a log, one by one.
LEMMA PartedType ==
  ASSUME NEW s \in Seq(Messages)
  PROVE  /\ Parted(s) \in Seq(Parts) /\ Len(Parted(s)) = Len(s)
         /\ \A i \in DOMAIN s : Parted(s)[i] = Part(s[i]) /\ Part(s[i]) \in Parts
<1>1. ASSUME NEW x \in Messages PROVE Part(x) \in Parts
  <2>1. /\ x.id \in 0 .. MaxRequests
        /\ (IF IsReady(x) THEN "ready" ELSE "body") \in {"body", "ready"}
    BY DEF Messages
  <2> QED  BY <2>1 DEF Part, Parts
<1>2. \A i \in DOMAIN s : Part(s[i]) \in Parts
  BY <1>1
<1>3. DOMAIN s = 1 .. Len(s) /\ Len(s) \in Nat
  OBVIOUS
<1> QED
  BY <1>2, <1>3 DEF Parted

\* A message more in the client's log is one more in that of the port.
LEMMA PartedGrows ==
  ASSUME NEW s \in Seq(Messages), NEW m \in Messages
  PROVE  Parted(Append(s, m)) = Append(Parted(s), Part(m))
<1> DEFINE t == Append(s, m)
<1>1. /\ t \in Seq(Messages) /\ Len(t) = Len(s) + 1 /\ DOMAIN t = 1 .. Len(s) + 1
      /\ t[Len(s) + 1] = m /\ \A i \in 1 .. Len(s) : t[i] = s[i]
  OBVIOUS
<1> HIDE DEF t
<1>2. /\ Parted(t) \in Seq(Parts) /\ Len(Parted(t)) = Len(s) + 1
      /\ \A i \in 1 .. Len(s) + 1 : Parted(t)[i] = Part(t[i]) /\ Part(t[i]) \in Parts
  BY <1>1, PartedType
<1>3. Part(m) \in Parts
  BY <1>1, <1>2
<1>4. /\ Append(Parted(s), Part(m)) \in Seq(Parts)
      /\ Len(Append(Parted(s), Part(m))) = Len(s) + 1
      /\ \A i \in 1 .. Len(s) + 1 : Append(Parted(s), Part(m))[i] = Part(t[i])
  BY <1>1, <1>3, PartedType
<1> QED
  BY <1>2, <1>4, SeqEqual DEF t

\* What the log says of the last request.
LEMMA LogEnds ==
  ASSUME NEW s \in Seq(Messages), NEW n \in Nat, n \in 0 .. MaxRequests, Log(s, n)
  PROVE  /\ Len(s) = 2 * n => n = 0 \/ (s # <<>> /\ Part(s[Len(s)]) = <<n, "ready">>)
         /\ Len(s) = 2 * n - 1 => s # <<>> /\ Part(s[Len(s)]) = <<n, "body">>
         /\ Len(s) = 2 * n - 2 => s = <<>> \/ Part(s[Len(s)]) = <<n - 1, "ready">>
<1>1. CASE Len(s) = 2 * n /\ n # 0
  BY <1>1 DEF Log, Part
<1>2. CASE Len(s) = 2 * n - 1
  <2>1. s[2 * n - 1].id = n /\ s[2 * n - 1].part = "body"
    BY <1>2 DEF Log
  <2> QED  BY <1>2, <2>1 DEF Part, IsReady, Tx
<1>3. CASE Len(s) = 2 * n - 2 /\ s # <<>>
  <2> DEFINE h == n - 1
  <2>1. h \in 1 .. n /\ 2 * h <= Len(s) /\ Len(s) = 2 * h
    BY <1>3
  <2> HIDE DEF h
  <2>2. s[Len(s)].id = h /\ IsReady(s[Len(s)])
    BY <2>1 DEF Log
  <2> QED  BY <1>3, <2>2 DEF h, Part
<1> QED
  BY <1>1, <1>2, <1>3

\* Each step is one of the port's, or leaves its variables alone.
LEMMA SessionStepIsPortStep == Facts /\ [Next]_vars => [Port!Next]_(Port!qvars)
<1> SUFFICES ASSUME Facts, [Next]_vars PROVE [Port!Next]_(Port!qvars)
  OBVIOUS
<1> USE DEF Port!Next, Port!Body, Port!Ready
<1>1. /\ received \in Seq(Messages) /\ asked \in Nat /\ asked \in 0 .. MaxRequests
      /\ Log(received, asked) /\ PortLog = Parted(received)
  BY SessionAssumption DEF Facts, TypeOK, WaitingInv, LogInv, PortLog, Parted, Part
<1>2. /\ received # <<>>
           => PortLog # <<>> /\ PortLog[Len(PortLog)] = Part(received[Len(received)])
      /\ received = <<>> => PortLog = <<>>
  <2>1. /\ PortLog \in Seq(Parts) /\ Len(PortLog) = Len(received)
        /\ \A i \in DOMAIN received : PortLog[i] = Part(received[i])
    BY <1>1, PartedType
  <2>2. received # <<>> => Len(received) \in DOMAIN received
    BY <1>1
  <2>3. received = <<>> => PortLog = <<>>
    BY <1>1, <2>1, EmptySeq
  <2> QED  BY <1>1, <2>1, <2>2, <2>3
<1>3. /\ Len(received) = 2 * asked => Port!Answered
      /\ Len(received) = 2 * asked - 1
           => PortLog # <<>> /\ PortLog[Len(PortLog)] = Port!Body(asked)
      /\ Len(received) = 2 * asked - 2
           => /\ ~Port!Answered
              /\ PortLog = <<>> \/ PortLog[Len(PortLog)] # Port!Body(asked)
  BY <1>1, <1>2, LogEnds DEF Port!Answered
<1>4. ASSUME UNCHANGED <<asked, received>> PROVE UNCHANGED Port!qvars
  BY <1>4 DEF Port!qvars, PortLog
<1>5. ASSUME NEW op \in Ops, ClientSends(op) PROVE Port!Ask
  <2>1. Len(received) = 2 * asked
    BY <1>5, NothingOwed
  <2> QED  BY <1>3, <1>5, <2>1 DEF ClientSends, Port!Ask, PortLog
<1>6. ASSUME asked > 0, asked' = asked, Live => Len(received) = 2 * asked - 2,
             SendClient(Reply(asked, "gendb", "I"))
      PROVE  [Port!Next]_(Port!qvars)
  <2>1. CASE Live
    <3>1. PICK body, ready \in Messages :
                 /\ body.id = asked /\ body.part = "body"
                 /\ ready.id = asked /\ IsReady(ready)
                 /\ received' = Append(Append(received, body), ready)
      BY <1>6, <2>1, ProxySends
    <3>2. Part(body) = Port!Body(asked) /\ Part(ready) = Port!Ready(asked)
      BY <3>1 DEF Part, IsReady, Tx
    <3>3. PortLog' = Parted(received')
      BY DEF PortLog, Parted, Part
    <3>4. PortLog' = Append(Append(PortLog, Part(body)), Part(ready))
      <4> DEFINE half == Append(received, body)
      <4>1. half \in Seq(Messages)
        BY <1>1
      <4>2. Parted(half) = Append(PortLog, Part(body))
        BY <1>1, PartedGrows
      <4> HIDE DEF half
      <4>3. Parted(Append(half, ready)) = Append(Parted(half), Part(ready))
        BY <4>1, PartedGrows
      <4> QED  BY <3>1, <3>3, <4>2, <4>3 DEF half
    <3>5. PortLog' = PortLog \o <<Part(body), Part(ready)>>
      <4>1. PortLog \in Seq(Parts)
        BY <1>1, PartedType
      <4>2. Part(body) \in Parts /\ Part(ready) \in Parts
        BY <1>1, <3>2 DEF Parts
      <4> QED  BY <3>4, <4>1, <4>2, AppendTwice
    <3>6. PortLog' = PortLog \o <<Port!Body(asked), Port!Ready(asked)>>
      BY <3>2, <3>5
    <3> QED  BY <1>3, <1>6, <2>1, <3>6 DEF Port!GiveReply
  <2>2. CASE ~Live
    BY <1>4, <1>6, <2>2, ProxySends
  <2> QED  BY <2>1, <2>2
<1>7. ASSUME RejectsCommand PROVE [Port!Next]_(Port!qvars)
  <2>1. /\ Reading /\ toProxy' = Tail(toProxy) /\ Head(toProxy).op = "badcall"
        /\ SendClient(Reply(Head(toProxy).id, "gendb", "I"))
        /\ UNCHANGED <<asked, clientOpen>>
    BY <1>7 DEF RejectsCommand, clientVars
  <2>2. AtProxy /\ Head(toProxy).id = asked /\ asked > 0
    BY <2>1, TakesRequest
  <2> QED  BY <1>6, <2>1, <2>2 DEF Facts, WaitingInv, CountInv
<1>8. ASSUME AnswersCommand PROVE [Port!Next]_(Port!qvars)
  <2>1. cmd # 0 /\ SendClient(Reply(cmd, "gendb", "I")) /\ asked' = asked
    BY <1>8 DEF AnswersCommand, clientVars
  <2>2. cmd = asked /\ asked > 0
    BY <1>1, <2>1 DEF Facts, WaitingInv, PlaceInv
  <2> QED  BY <1>6, <2>1, <2>2 DEF Facts, WaitingInv, CountInv
<1>9. ASSUME RelayWrites PROVE [Port!Next]_(Port!qvars)
  <2> DEFINE m == held[1]
  <2>1. CASE Live /\ IsReply(m)
    <3>1. /\ m \in Messages /\ m.id = asked /\ asked' = asked
          /\ m.part = "body" \/ IsReady(m)
          /\ IsReady(m) => m.part # "body"
          /\ received' = Append(received, m)
          /\ Len(received) = IF m.part = "body" THEN 2 * asked - 2 ELSE 2 * asked - 1
      BY <1>9, <2>1, RelaySends
    <3> HIDE DEF m
    <3>2. PortLog' = Append(PortLog, Part(m))
      <4>1. PortLog' = Parted(received')
        BY DEF PortLog, Parted, Part
      <4> QED  BY <1>1, <3>1, <4>1, PartedGrows
    <3>3. CASE m.part = "body"
      <4>1. Part(m) = Port!Body(asked)
        BY <3>1, <3>3 DEF Part
      <4> QED  BY <1>3, <3>1, <3>2, <3>3, <4>1 DEF Port!GiveBody
    <3>4. CASE IsReady(m)
      <4>1. Part(m) = Port!Ready(asked)
        BY <3>1, <3>4 DEF Part
      <4> QED  BY <1>3, <3>1, <3>2, <3>4, <4>1 DEF Port!GiveReady
    <3> QED  BY <3>1, <3>3, <3>4
  <2>2. CASE ~(Live /\ IsReply(m))
    BY <1>4, <1>9, <2>2, RelaySends
  <2> QED  BY <2>1, <2>2
<1>10. ASSUME CommandNotifies PROVE [Port!Next]_(Port!qvars)
  BY <1>4, <1>10 DEF CommandNotifies, SendClient, Message, clientVars
<1>11. ASSUME UNCHANGED sessionVars PROVE [Port!Next]_(Port!qvars)
  BY <1>4, <1>11 DEF sessionVars, clientVars
<1>12. CASE Client
  BY <1>4, <1>5, <1>12 DEF Client, ClientQuits, ClientVanishes
<1>13. CASE Forwarder
  <2>1. ASSUME ForwardsRequest \/ StartsCommand \/ CommandConnects \/ CommandQueries
                 \/ CommandReads
        PROVE  UNCHANGED <<asked, received>>
    BY <2>1 DEF ForwardsRequest, StartsCommand, CommandConnects, CommandQueries, CommandReads,
                clientVars
  <2>2. ASSUME FinishesPause \/ ResumesRelay \/ ForwarderStops PROVE UNCHANGED sessionVars
    BY <2>2 DEF FinishesPause, ResumesRelay, ForwarderStops
  <2> QED  BY <1>4, <1>7, <1>8, <1>10, <1>11, <1>13, <2>1, <2>2 DEF Forwarder
<1>14. CASE Relay
  <2>1. ASSUME RelayReads \/ Teardown PROVE UNCHANGED <<asked, received>>
    BY <2>1 DEF RelayReads, Teardown, clientVars
  <2>2. ASSUME RelayWaits \/ RelayTimesOut \/ RelayPauses \/ RelayStops
        PROVE  UNCHANGED sessionVars
    BY <2>2 DEF RelayWaits, RelayTimesOut, RelayPauses, RelayStops
  <2> QED  BY <1>4, <1>9, <1>11, <1>14, <2>1, <2>2 DEF Relay
<1>15. CASE Backend
  BY <1>4, <1>15 DEF Backend, BackendServes, BackendNotifies, BackendCloses, clientVars
<1>16. CASE UNCHANGED vars
  BY <1>11, <1>16 DEF vars
<1> QED
  BY <1>12, <1>13, <1>14, <1>15, <1>16 DEF Next

\* To a client that waits the proxy is a server that answers one request at a time,
\* each once, a body before the ReadyForQuery, in order.
THEOREM ImplementsQueryPort == ASSUME Window = 1 PROVE Spec => PortSpec
<1>1. Init => Port!Init
  BY DEF Init, Port!Init, PortLog
<1>2. WaitingInv /\ TypeOK /\ TypeOK' /\ CommandInv /\ HandshakeInv /\ [Next]_vars
        => [Port!Next]_(Port!qvars)
  BY SessionStepIsPortStep DEF Facts
<1> QED
  BY <1>1, <1>2, SessionWaitingInv, SessionTypeCorrect, SessionCommandInv,
     SessionHandshakeInv, PTL DEF Spec, PortSpec, Port!Spec
================================================================================
