------------------------------- MODULE Handover -------------------------------
(***************************************************************************)
(* What the pause/resume handshake of a session promises, without saying   *)
(* how.  One connection (the session's backendConn) has two possible       *)
(* readers: the relay goroutine and a GenDB command.  Once the command has *)
(* asked for the connection the relay starts no new read; the command      *)
(* starts reading only when the relay has stopped; and the relay reads     *)
(* again only after the connection has been given back.                    *)
(***************************************************************************)

VARIABLES reader,   \* who may be inside a Read of backendConn
          phase     \* "idle", "asked" by a command, "granted" to it

hvars == <<reader, phase>>

Init == reader = "nobody" /\ phase = "idle"

RelayStarts == /\ reader = "nobody" /\ phase = "idle"
               /\ reader' = "relay"
               /\ UNCHANGED phase

RelayStops == /\ reader = "relay"
              /\ reader' = "nobody"
              /\ UNCHANGED phase

Ask == /\ phase = "idle"
       /\ phase' = "asked"
       /\ UNCHANGED reader

Grant == /\ reader = "nobody" /\ phase = "asked"
         /\ reader' = "command"
         /\ phase' = "granted"

CommandStops == /\ reader = "command"
                /\ reader' = "nobody"
                /\ UNCHANGED phase

GiveBack == /\ reader = "nobody" /\ phase = "granted"
            /\ phase' = "idle"
            /\ UNCHANGED reader

Next == RelayStarts \/ RelayStops \/ Ask \/ Grant \/ CommandStops \/ GiveBack

Spec == Init /\ [][Next]_hvars
================================================================================
