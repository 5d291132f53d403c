------------------------------ MODULE PauseResume ------------------------------
(***************************************************************************)
(* How one session of the proxy hands its backend connection from the      *)
(* relay to a GenDB command and back (pkg/proxy/proxy.go: pauseRelay,      *)
(* resumeRelay and the timeout branch of mainLoop).                        *)
(*                                                                         *)
(* Two goroutines: the forwarder (client -> backend, it also runs the      *)
(* commands) and the relay (backend -> client).  A step is one access to   *)
(* what they share: the fields of sess guarded by sess.mu, the read        *)
(* deadline of backendConn, and the two channels made anew for every       *)
(* pause.  pauseConfirm and resumeCh are always made together under the    *)
(* lock, so the pair is named by the number of the pause that made it.     *)
(***************************************************************************)
EXTENDS Naturals

CONSTANT MaxPauses   \* bound on the commands run in a behaviour

ASSUME PauseResumeAssumption == MaxPauses \in Nat

VARIABLES
  fpc,             \* where the forwarder is
  bpc,             \* where the relay is
  relayPaused,     \* sess.relayPaused
  pair,            \* the pair (pauseConfirm, resumeCh) stored in sess
  bPair,           \* the pair the relay copied under the lock
  confirmClosed,   \* the pauses whose pauseConfirm is closed
  resumeClosed,    \* the pauses whose resumeCh is closed
  expired          \* TRUE while the read deadline of backendConn is in the past

pvars == <<fpc, bpc, relayPaused, pair, bPair, confirmClosed, resumeClosed, expired>>

forwarderVars == <<fpc, relayPaused, pair, resumeClosed, expired>>
relayVars     == <<bpc, bPair, confirmClosed>>

FStates == {"relay", "armed", "waiting", "confirmed", "command",
            "resuming", "closing", "gone"}
BStates == {"start", "reading", "timedOut", "confirming", "paused", "writing", "gone"}

\* Every variable has a value the program's fields can hold.
HandshakeTypeOK == /\ fpc \in FStates
                   /\ bpc \in BStates
                   /\ relayPaused \in BOOLEAN
                   /\ pair \in Nat
                   /\ bPair \in Nat
                   /\ confirmClosed \subseteq 1 .. pair
                   /\ resumeClosed \subseteq 1 .. pair
                   /\ expired \in BOOLEAN

HandshakeInit == /\ fpc = "relay" /\ bpc = "start"
                 /\ relayPaused = FALSE
                 /\ pair = 0 /\ bPair = 0
                 /\ confirmClosed = {} /\ resumeClosed = {}
                 /\ expired = FALSE

--------------------------------------------------------------------------------
(* The forwarder *)

\* Mutant: the channels of the first pause are kept for the later ones.
PauseKeepsChannels == /\ fpc = "relay" /\ pair < MaxPauses
                      /\ fpc' = "armed"
                      /\ relayPaused' = TRUE
                      /\ pair' = 1
                      /\ UNCHANGED <<resumeClosed, expired, relayVars>>

\* pauseRelay, the critical section: raise the flag, make both channels.
Pause == /\ fpc = "relay" /\ pair < MaxPauses
         /\ fpc' = "armed"
         /\ relayPaused' = TRUE
         /\ pair' = pair + 1
         /\ UNCHANGED <<resumeClosed, expired, relayVars>>

\* Mutant: pauseRelay forgets to interrupt a blocked Read.
InterruptNothing == /\ fpc = "armed"
                    /\ fpc' = "waiting"
                    /\ UNCHANGED <<relayPaused, pair, resumeClosed, expired, relayVars>>

\* SetReadDeadline(time.Now()): interrupts a Read and fails every later one.
Interrupt == /\ fpc = "armed"
             /\ fpc' = "waiting"
             /\ expired' = TRUE
             /\ UNCHANGED <<relayPaused, pair, resumeClosed, relayVars>>

\* Mutant: the command does not wait for the confirmation.
ConfirmedUnasked == /\ fpc = "waiting"
                    /\ fpc' = "confirmed"
                    /\ UNCHANGED <<relayPaused, pair, resumeClosed, expired, relayVars>>

\* <-sess.pauseConfirm returns once the channel is closed.
Confirmed == /\ fpc = "waiting" /\ pair \in confirmClosed
             /\ fpc' = "confirmed"
             /\ UNCHANGED <<relayPaused, pair, resumeClosed, expired, relayVars>>

\* SetReadDeadline(time.Time{}), the end of pauseRelay.
TakeConn == /\ fpc = "confirmed"
            /\ fpc' = "command"
            /\ expired' = FALSE
            /\ UNCHANGED <<relayPaused, pair, resumeClosed, relayVars>>

\* The command is over: the deferred resumeRelay clears the deadline again.
LeaveConn == /\ fpc = "command"
             /\ fpc' = "resuming"
             /\ expired' = FALSE
             /\ UNCHANGED <<relayPaused, pair, resumeClosed, relayVars>>

\* resumeRelay, the critical section; ch is sess.resumeCh, which only the
\* forwarder replaces, so pair still names it when it is closed.
Unpause == /\ fpc = "resuming"
           /\ fpc' = "closing"
           /\ relayPaused' = FALSE
           /\ UNCHANGED <<pair, resumeClosed, expired, relayVars>>

\* close(ch)
CloseResume == /\ fpc = "closing"
               /\ fpc' = "relay"
               /\ resumeClosed' = resumeClosed \union {pair}
               /\ UNCHANGED <<relayPaused, pair, expired, relayVars>>

\* The client is gone or the backend cannot be written to: the forwarder returns.
ForwarderExits == /\ fpc = "relay"
                  /\ fpc' = "gone"
                  /\ UNCHANGED <<relayPaused, pair, resumeClosed, expired, relayVars>>

--------------------------------------------------------------------------------
(* The relay *)

\* backendConn.Read: an expired deadline fails the call before any data is read.
StartRead == /\ bpc = "start"
             /\ bpc' = IF expired THEN "timedOut" ELSE "reading"
             /\ UNCHANGED <<bPair, confirmClosed, forwarderVars>>

\* Data ends the Read, also when the deadline expires while it arrives.
ReadData == /\ bpc = "reading"
            /\ bpc' = "writing"
            /\ UNCHANGED <<bPair, confirmClosed, forwarderVars>>

ReadTimesOut == /\ bpc = "reading" /\ expired
                /\ bpc' = "timedOut"
                /\ UNCHANGED <<bPair, confirmClosed, forwarderVars>>

\* clientConn.Write(buf[:n]) has succeeded: back to the top of the loop.
WriteClient == /\ bpc = "writing"
               /\ bpc' = "start"
               /\ UNCHANGED <<bPair, confirmClosed, forwarderVars>>

\* Mutant: the channels are not copied while the lock is held.
TimeoutBranchNoCopy == /\ bpc = "timedOut"
                       /\ bpc' = IF relayPaused THEN "confirming" ELSE "start"
                       /\ UNCHANGED <<bPair, confirmClosed, forwarderVars>>

\* The timeout branch, under sess.mu: a pause copies both channels; a timeout
\* nobody asked for is ignored.
TimeoutBranch == /\ bpc = "timedOut"
                 /\ IF relayPaused
                    THEN bpc' = "confirming" /\ bPair' = pair
                    ELSE bpc' = "start" /\ UNCHANGED bPair
                 /\ UNCHANGED <<confirmClosed, forwarderVars>>

\* close(confirm)
Confirm == /\ bpc = "confirming"
           /\ bpc' = "paused"
           /\ confirmClosed' = confirmClosed \union {bPair}
           /\ UNCHANGED <<bPair, forwarderVars>>

\* Mutant: the relay goes on reading as soon as it has confirmed.
ResumeAtOnce == /\ bpc = "paused"
                /\ bpc' = "start"
                /\ UNCHANGED <<bPair, confirmClosed, forwarderVars>>

\* <-resume returns once the channel is closed.
Resume == /\ bpc = "paused" /\ bPair \in resumeClosed
          /\ bpc' = "start"
          /\ UNCHANGED <<bPair, confirmClosed, forwarderVars>>

\* Read returned an error that is no timeout, or Write failed: mainLoop returns.
RelayExits == /\ bpc \in {"reading", "writing"}
              /\ bpc' = "gone"
              /\ UNCHANGED <<bPair, confirmClosed, forwarderVars>>

--------------------------------------------------------------------------------

PausingSide == \/ Pause \/ Interrupt \/ Confirmed \/ TakeConn \/ LeaveConn
               \/ Unpause \/ CloseResume \/ ForwarderExits

RelaySide == \/ StartRead \/ ReadData \/ ReadTimesOut \/ WriteClient
             \/ TimeoutBranch \/ Confirm \/ Resume \/ RelayExits

HandshakeNext == PausingSide \/ RelaySide

\* A goroutine that can take a step eventually takes it.  No fairness for what
\* the peers decide: Pause, ReadData, ForwarderExits and RelayExits.
\* WriteClient is fair because the client reads what it is sent, LeaveConn
\* because a command ends.
HandshakeFairness ==
  /\ WF_pvars(Interrupt) /\ WF_pvars(Confirmed) /\ WF_pvars(TakeConn)
  /\ WF_pvars(LeaveConn) /\ WF_pvars(Unpause) /\ WF_pvars(CloseResume)
  /\ WF_pvars(StartRead) /\ WF_pvars(ReadTimesOut) /\ WF_pvars(WriteClient)
  /\ WF_pvars(TimeoutBranch) /\ WF_pvars(Confirm) /\ WF_pvars(Resume)

HandshakeSafety == HandshakeInit /\ [][HandshakeNext]_pvars

HandshakeSpec == HandshakeSafety /\ HandshakeFairness

--------------------------------------------------------------------------------
(* The inductive invariant.  The flag and the deadline are functions of where   *)
(* the forwarder is; the channels of a pause in progress are open until each is *)
(* closed by its one closer; and the relay's position follows from them.        *)

HasPaused == {"armed", "waiting", "confirmed", "command", "resuming", "closing"}

ForwarderInv ==
  /\ relayPaused <=> (fpc \in HasPaused \ {"closing"})
  /\ expired <=> (fpc \in {"waiting", "confirmed"})
  /\ fpc \in HasPaused => pair > 0 /\ pair \notin resumeClosed
  /\ fpc = "armed" => pair \notin confirmClosed

RelayInv ==
  /\ bpc \in {"timedOut", "confirming"} => fpc = "waiting" /\ pair \notin confirmClosed
  /\ bpc = "confirming" => bPair = pair
  /\ bpc = "paused" => \/ bPair \in resumeClosed
                       \/ bPair = pair /\ fpc \in HasPaused \ {"armed"}
  /\ fpc = "waiting" /\ pair \in confirmClosed => bpc = "paused" /\ bPair = pair
  /\ fpc \in HasPaused \ {"armed", "waiting"} => bpc = "paused" /\ bPair = pair

HandshakeInv == HandshakeTypeOK /\ ForwarderInv /\ RelayInv

--------------------------------------------------------------------------------
(* What must hold *)

\* "Pause the relay so we can safely use backendConn" (proxy.go:329): from the
\* confirmation of a pause until its resumeCh is closed the relay waits for
\* that very pause; and while the command has it no expired deadline is left on it.
RelayWaitsForCommand ==
  /\ fpc \in {"confirmed", "command", "resuming", "closing"}
       => bpc = "paused" /\ bPair = pair
  /\ fpc = "command" => ~expired

\* Closing a closed channel panics and takes the whole proxy down: neither
\* goroutine is ever about to close one that is.
NoDoubleClose == /\ bpc = "confirming" => bPair \notin confirmClosed
                 /\ fpc = "closing" => pair \notin resumeClosed

\* A read only times out for a pause in progress that is not confirmed yet: no
\* deadline of an earlier pause survives to disturb the relay (proxy.go:306, 311).
NoStrayTimeout ==
  bpc = "timedOut" => /\ fpc = "waiting" /\ relayPaused
                      /\ pair \notin confirmClosed

\* A command that began to pause the relay gets the connection, if the relay has
\* not returned; and a relay that has confirmed reads again.
PauseCompletes == /\ (fpc = "armed") ~> (fpc = "command" \/ bpc = "gone")
                  /\ (bpc = "confirming") ~> (bpc \in {"reading", "timedOut"})

\* pauseRelay "waits until the relay goroutine confirms it has paused"
\* (proxy.go:290): the wait ends.
PauseAlwaysCompletes == (fpc = "armed") ~> (fpc = "command")

\* The handshake is an implementation of Handover.
HandoverReader == IF fpc = "command" THEN "command"
                  ELSE IF bpc = "reading" THEN "relay" ELSE "nobody"

HandoverPhase == IF fpc \in {"waiting", "confirmed"} THEN "asked"
                 ELSE IF fpc \in {"command", "resuming", "closing"} THEN "granted" ELSE "idle"

H == INSTANCE Handover WITH reader <- HandoverReader, phase <- HandoverPhase

HandoverSpec == H!Spec

================================================================================
