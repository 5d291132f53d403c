------------------------------- MODULE QueryPort -------------------------------
(***************************************************************************)
(* What a client that waits for each reply may rely on, whoever answers:   *)
(* a PostgreSQL backend or the proxy itself.  Every request gets exactly   *)
(* one reply, a body and then a ReadyForQuery, before the next request is  *)
(* sent, and no reply is for another request.                              *)
(***************************************************************************)
EXTENDS Naturals, Sequences

VARIABLES asked,   \* number of requests sent
          log      \* the parts of the replies received: <<request, part>>

qvars == <<asked, log>>

Body(n)  == <<n, "body">>
Ready(n) == <<n, "ready">>

Answered == \/ asked = 0
            \/ log # <<>> /\ log[Len(log)] = Ready(asked)

Init == asked = 0 /\ log = <<>>

Ask == /\ Answered
       /\ asked' = asked + 1
       /\ UNCHANGED log

GiveBody == /\ ~Answered
            /\ log = <<>> \/ log[Len(log)] # Body(asked)
            /\ log' = Append(log, Body(asked))
            /\ UNCHANGED asked

GiveReady == /\ log # <<>> /\ log[Len(log)] = Body(asked)
             /\ log' = Append(log, Ready(asked))
             /\ UNCHANGED asked

GiveReply == /\ ~Answered
             /\ log = <<>> \/ log[Len(log)] # Body(asked)
             /\ log' = log \o <<Body(asked), Ready(asked)>>
             /\ UNCHANGED asked

Next == Ask \/ GiveBody \/ GiveReady \/ GiveReply

Spec == Init /\ [][Next]_qvars
================================================================================
