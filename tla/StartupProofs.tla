------------------------------ MODULE StartupProofs ------------------------------
(***************************************************************************)
(* What a client sees of the start of its connection, for any number of    *)
(* authentication requests and queries, any portions in which messages are *)
(* read ahead, and connections that break anywhere.  The invariant says,   *)
(* for each phase of handleConnection, what may be under way between the   *)
(* database and the client.                                                *)
(***************************************************************************)
EXTENDS Startup, FiniteSetTheorems, SequenceTheorems, TLAPS

Count(s, m) == Cardinality({i \in DOMAIN s : s[i] = m})

\* What the database has sent and the proxy has neither relayed nor passed over.
Line == buffered \o fromServer

Results == {"rows", "current", "error"}
ClientReady == Msg("ready", "client")
SetupReady  == Msg("ready", "setup")
LoginReady  == Msg("ready", "login")

Opens   == {"startup", "denied", "dial"}
LogsIn  == {"login", "answer"}
SetsUp  == {"setup", "drain"}

\* Nobody has logged in: no message but the opening is under way.
OpeningInv ==
  phase \in Opens => /\ server = "none" /\ toServer = <<>> /\ Line = <<>>
                     /\ toProxy # <<>> => /\ phase # "dial"
                                          /\ \E o \in Openings : toProxy = <<o>>

\* The login is a dialogue: one message is under way, but for the end of it.
LoginInv ==
  /\ phase = "login" =>
       \/ server = "none" /\ toServer = <<"startup">> /\ Line = <<>>
       \/ server = "login" /\ toServer = <<>> /\ Line = <<>>
       \/ server = "asking" /\ toServer = <<>> /\ Line = <<Msg("auth", "login")>>
       \/ server = "asking" /\ toServer = <<"answer">> /\ Line = <<>>
       \/ server = "serving" /\ toServer = <<>>
            /\ Line \in {<<Msg("info", "login"), LoginReady>>, <<LoginReady>>}
       \/ server = "refused" /\ toServer = <<>> /\ Line = <<Msg("error", "login")>>
  /\ phase = "answer" => server = "asking" /\ toServer = <<>> /\ Line = <<>>
  /\ phase \in LogsIn => \/ toProxy = <<>>
                         \/ toProxy = <<"answer">> /\ server = "asking" /\ toServer = <<>>

\* So is the setup: a statement, its results, its ReadyForQuery.  What the client sends
\* meanwhile waits.
SetupInv ==
  /\ phase = "setup" => setup < 3 /\ toServer = <<>> /\ Line = <<>>
  /\ phase = "drain" =>
       \/ toServer = <<"setup">> /\ Line = <<>>
       \/ toServer = <<>> /\ \/ Line = <<SetupReady>>
                             \/ \E r \in Results : Line = <<Msg(r, "setup"), SetupReady>>
  /\ phase \in SetsUp => server = "serving" /\ Len(toProxy) <= asked
  /\ phase \in Opens \union LogsIn => setup = 0

\* In the main loop every query is on its way, or its answer is, or the client has it;
\* and of the setup there is at most a ReadyForQuery, after a failure.
MainInv ==
  /\ phase = "relay" =>
       /\ server = "serving" /\ buffered = <<>>
       /\ \A i \in DOMAIN toServer : toServer[i] = "query"
       /\ Times(ClientReady) + Count(fromServer, ClientReady) + Len(toServer) + Len(toProxy)
            <= asked
       /\ Times(LoginReady) + Count(fromServer, LoginReady) <= 1
       /\ \A m \in Messages : m[2] = "setup" =>
            Times(m) + Count(fromServer, m) <= IF failed /\ m = SetupReady THEN 1 ELSE 0
  /\ phase \in SetsUp \union {"relay"} => \A i \in DOMAIN toProxy : toProxy[i] = "query"

\* Before that the client has seen nothing of the setup and no answer to a query, and
\* it has asked none before it was let in.
ReceivedInv ==
  /\ phase \in Opens \union LogsIn \union SetsUp =>
       \A m \in Messages : m[2] \in {"setup", "client"} => Times(m) = 0
  /\ phase \in Opens \union LogsIn => asked = 0 /\ Times(LoginReady) = 0
  /\ phase \in SetsUp => Times(LoginReady) <= 1
  /\ phase = "closed" => RepliesMatch

StartupInv == TypeOK /\ OpeningInv /\ LoginInv /\ SetupInv /\ MainInv /\ ReceivedInv

--------------------------------------------------------------------------------
(* Counting in sequences *)

\* How often a message occurs in a sequence.
LEMMA CountType ==
  ASSUME NEW S, NEW s \in Seq(S), NEW m
  PROVE  Count(s, m) \in Nat /\ IsFiniteSet({i \in DOMAIN s : s[i] = m})
<1>1. IsFiniteSet(1 .. Len(s)) /\ {i \in DOMAIN s : s[i] = m} \subseteq 1 .. Len(s)
  BY FS_Interval
<1> QED
  BY <1>1, FS_Subset, FS_CardinalityType DEF Count

LEMMA CountEmpty == ASSUME NEW m PROVE Count(<<>>, m) = 0
<1>1. {i \in DOMAIN <<>> : <<>>[i] = m} = {}
  OBVIOUS
<1> QED
  BY <1>1, FS_EmptySet DEF Count

LEMMA CountAppend ==
  ASSUME NEW S, NEW s \in Seq(S), NEW x, NEW m
  PROVE  Count(Append(s, x), m) = Count(s, m) + (IF x = m THEN 1 ELSE 0)
<1> DEFINE A == {i \in DOMAIN s : s[i] = m}
           t == Append(s, x)
           B == {i \in DOMAIN t : t[i] = m}
<1>1. /\ Len(s) \in Nat /\ DOMAIN s = 1 .. Len(s) /\ DOMAIN t = 1 .. Len(s) + 1
      /\ t[Len(s) + 1] = x /\ \A i \in 1 .. Len(s) : t[i] = s[i]
  OBVIOUS
<1>2. /\ IsFiniteSet(A) /\ Cardinality(A) \in Nat
      /\ Count(s, m) = Cardinality(A) /\ Count(t, m) = Cardinality(B)
  BY CountType DEF Count
<1>3. CASE x = m
  <2>1. B = A \union {Len(s) + 1} /\ Len(s) + 1 \notin A
    BY <1>1, <1>3
  <2>2. Cardinality(B) = Cardinality(A) + 1
    BY <1>2, <2>1, FS_AddElement
  <2> QED  BY <1>2, <1>3, <2>2
<1>4. CASE x # m
  <2>1. B = A
    BY <1>1, <1>4
  <2> HIDE DEF A, B
  <2> QED  BY <1>2, <1>4, <2>1
<1> QED
  BY <1>3, <1>4

LEMMA CountTail ==
  ASSUME NEW S, NEW s \in Seq(S), s # <<>>, NEW m
  PROVE  Count(s, m) = Count(Tail(s), m) + (IF Head(s) = m THEN 1 ELSE 0)
<1> DEFINE t == Tail(s)
           A == {i \in DOMAIN s : s[i] = m}
           B == {i \in DOMAIN t : t[i] = m}
           C == A \ {1}
<1>1. /\ Len(s) \in Nat \ {0} /\ t \in Seq(S) /\ DOMAIN s = 1 .. Len(s)
      /\ DOMAIN t = 1 .. Len(s) - 1 /\ Head(s) = s[1]
      /\ \A i \in 1 .. Len(s) - 1 : t[i] = s[i + 1]
  BY EmptySeq, HeadTailProperties
<1>2. /\ IsFiniteSet(A) /\ IsFiniteSet(B) /\ Cardinality(A) \in Nat /\ Cardinality(B) \in Nat
      /\ Count(s, m) = Cardinality(A) /\ Count(t, m) = Cardinality(B)
  BY <1>1, CountType DEF Count
<1> HIDE DEF t
<1>3. IsFiniteSet(C) /\ Cardinality(C) = Cardinality(A) - (IF Head(s) = m THEN 1 ELSE 0)
  <2>1. 1 \in A <=> Head(s) = m
    BY <1>1
  <2>2. /\ IsFiniteSet(C)
        /\ Cardinality(C) = IF 1 \in A THEN Cardinality(A) - 1 ELSE Cardinality(A)
    BY <1>2, FS_RemoveElement
  <2> HIDE DEF A, C
  <2> QED  BY <1>2, <2>1, <2>2
<1>4. Cardinality(C) <= Cardinality(B)
  <2> DEFINE f == [i \in C |-> i - 1]
  <2>1. f \in Injection(C, B)
    BY <1>1 DEF Injection, IsInjective
  <2> QED  BY <1>2, <2>1, FS_Injection
<1>5. Cardinality(B) <= Cardinality(C)
  <2> DEFINE g == [i \in B |-> i + 1]
  <2>1. g \in Injection(B, C)
    BY <1>1 DEF Injection, IsInjective
  <2> QED  BY <1>3, <2>1, FS_Injection
<1> QED
  <2>1. Cardinality(C) = Cardinality(B)
    BY <1>2, <1>3, <1>4, <1>5, FS_CardinalityType
  <2> HIDE DEF A, B, C
  <2> QED  BY <1>2, <1>3, <2>1 DEF t

\* The messages of the properties are different messages.
LEMMA Distinct ==
  /\ ClientReady \in Messages /\ SetupReady \in Messages /\ LoginReady \in Messages
  /\ ClientReady[2] = "client" /\ SetupReady[2] = "setup" /\ LoginReady[2] = "login"
  /\ LoginReady # ClientReady /\ SetupReady # ClientReady /\ LoginReady # SetupReady
  /\ Type(ClientReady) = "ready" /\ Type(SetupReady) = "ready" /\ Type(LoginReady) = "ready"
  /\ \A type, exchange : /\ Type(Msg(type, exchange)) = type
                         /\ Msg(type, exchange)[2] = exchange
  /\ \A type \in Results \union {"N", "auth", "info", "ready"} :
       \A exchange \in Exchanges : Msg(type, exchange) \in Messages
BY DEF ClientReady, SetupReady, LoginReady, Messages, Msg, Type, Exchanges, Results

--------------------------------------------------------------------------------
(* The initial state, and what the steps have in common *)

LEMMA StartupInit == Init => StartupInv
<1> SUFFICES ASSUME Init PROVE StartupInv
  OBVIOUS
<1>1. /\ phase = "startup" /\ opening = "other" /\ setup = 0 /\ failed = FALSE
      /\ buffered = <<>> /\ received = <<>> /\ toServer = <<>> /\ fromServer = <<>>
      /\ server = "none" /\ rounds = 0 /\ asked = 0 /\ lost = FALSE
  BY DEF Init
<1>2. PICK o \in Openings : toProxy = <<o>>
  BY DEF Init
<1>3. TypeOK
  <2>1. failed \in BOOLEAN /\ lost \in BOOLEAN
    BY <1>1, Zenon
  <2> QED  BY <1>1, <1>2, <2>1, StartupAssumption DEF TypeOK, Openings
<1>4. \A m : Times(m) = 0
  BY <1>1, CountEmpty DEF Times, Count
<1>5. OpeningInv
  BY <1>1, <1>2 DEF OpeningInv, Line
<1>6. LoginInv /\ SetupInv /\ MainInv
  BY <1>1 DEF LoginInv, SetupInv, MainInv, LogsIn, SetsUp
<1>7. ReceivedInv
  BY <1>1, <1>4 DEF ReceivedInv, SetsUp
<1> QED
  BY <1>3, <1>5, <1>6, <1>7 DEF StartupInv

\* What the client has been told does not change while it is told nothing.
LEMMA NothingReceived == received' = received => \A m : Times(m)' = Times(m)
BY DEF Times

LEMMA ReceivedOne ==
  ASSUME received \in Seq(Messages), NEW x \in Messages, received' = Append(received, x)
  PROVE  /\ received' \in Seq(Messages)
         /\ \A m : Times(m) \in Nat /\ Times(m)' = Times(m) + (IF x = m THEN 1 ELSE 0)
<1>1. received' \in Seq(Messages)
  OBVIOUS
<1>2. ASSUME NEW m PROVE Times(m) \in Nat /\ Times(m)' = Times(m) + (IF x = m THEN 1 ELSE 0)
  <2>1. Count(received, m) \in Nat
    BY CountType
  <2>2. Count(received', m) = Count(received, m) + (IF x = m THEN 1 ELSE 0)
    BY CountAppend
  <2> QED  BY <2>1, <2>2 DEF Times, Count
<1> QED
  BY <1>1, <1>2

LEMMA LineType ==
  ASSUME TypeOK
  PROVE  /\ Line \in Seq(Messages) /\ Len(Line) = Len(buffered) + Len(fromServer)
         /\ Len(buffered) \in Nat /\ Len(fromServer) \in Nat
         /\ Line = <<>> <=> buffered = <<>> /\ fromServer = <<>>
BY ConcatProperties, ConcatEqualIffEmpty DEF TypeOK, Line

\* The next message of a frontend is the next on the line.
LEMMA NextOnLine ==
  ASSUME TypeOK, buffered # <<>>
  PROVE  /\ Line # <<>> /\ Head(buffered) = Head(Line) /\ Head(Line) \in Messages
         /\ Tail(buffered) \in Seq(Messages) /\ Tail(buffered) \o fromServer = Tail(Line)
         /\ Len(Line) = 1 => Tail(buffered) = <<>> /\ fromServer = <<>>
<1> DEFINE t == Tail(buffered) \o fromServer
<1>1. /\ buffered \in Seq(Messages) /\ fromServer \in Seq(Messages) /\ Line \in Seq(Messages)
      /\ Len(Line) = Len(buffered) + Len(fromServer) /\ Len(fromServer) \in Nat
      /\ Len(buffered) \in Nat \ {0} /\ Line # <<>>
      /\ Tail(buffered) \in Seq(Messages) /\ Len(Tail(buffered)) = Len(buffered) - 1
      /\ \A i \in 1 .. Len(buffered) - 1 : Tail(buffered)[i] = buffered[i + 1]
      /\ Head(buffered) = buffered[1] /\ Head(buffered) \in Messages
  BY LineType, EmptySeq, HeadTailProperties DEF TypeOK
<1>2. /\ Head(Line) = Line[1] /\ Tail(Line) \in Seq(Messages)
      /\ Len(Tail(Line)) = Len(Line) - 1
      /\ \A i \in 1 .. Len(Line) - 1 : Tail(Line)[i] = Line[i + 1]
  BY <1>1, HeadTailProperties
<1>3. \A i \in 1 .. Len(Line) : Line[i] = IF i <= Len(buffered) THEN buffered[i]
                                          ELSE fromServer[i - Len(buffered)]
  BY <1>1, ConcatProperties DEF Line
<1>4. /\ t \in Seq(Messages) /\ Len(t) = Len(Line) - 1
      /\ \A i \in 1 .. Len(Line) - 1 : t[i] = IF i <= Len(buffered) - 1
                                              THEN Tail(buffered)[i]
                                              ELSE fromServer[i - (Len(buffered) - 1)]
  <2>1. Len(Tail(buffered)) + Len(fromServer) = Len(Line) - 1
    BY <1>1
  <2> QED  BY <1>1, <2>1, ConcatProperties
<1> HIDE DEF t
<1>5. \A i \in 1 .. Len(Line) - 1 : t[i] = Tail(Line)[i]
  <2> SUFFICES ASSUME NEW i \in 1 .. Len(Line) - 1 PROVE t[i] = Tail(Line)[i]
    OBVIOUS
  <2>1. i + 1 \in 1 .. Len(Line) /\ Tail(Line)[i] = Line[i + 1]
    BY <1>1, <1>2
  <2>2. CASE i <= Len(buffered) - 1
    <3>1. i + 1 <= Len(buffered) /\ Tail(buffered)[i] = buffered[i + 1]
      BY <1>1, <2>2
    <3> QED  BY <1>3, <1>4, <2>1, <2>2, <3>1
  <2>3. CASE ~(i <= Len(buffered) - 1)
    <3>1. ~(i + 1 <= Len(buffered)) /\ i + 1 - Len(buffered) = i - (Len(buffered) - 1)
      BY <1>1, <2>3
    <3> QED  BY <1>3, <1>4, <2>1, <2>3, <3>1
  <2> QED  BY <2>2, <2>3
<1>6. t = Tail(Line)
  BY <1>2, <1>4, <1>5, SeqEqual
<1>7. Line[1] = buffered[1]
  BY <1>1, <1>3
<1>8. Len(Line) = 1 => Tail(buffered) = <<>> /\ fromServer = <<>>
  <2>1. Len(Line) = 1 => Len(Tail(buffered)) = 0 /\ Len(fromServer) = 0
    <3>1. /\ Len(Line) = Len(buffered) + Len(fromServer) /\ Len(fromServer) \in Nat
          /\ Len(buffered) \in Nat \ {0} /\ Len(Tail(buffered)) = Len(buffered) - 1
      BY <1>1, Zenon
    <3>2. \A a \in Nat \ {0}, b \in Nat : a + b = 1 => a - 1 = 0 /\ b = 0
      OBVIOUS
    <3> QED  BY <3>1, <3>2, Zenon
  <2>2. \A s \in Seq(Messages) : Len(s) = 0 => s = <<>>
    BY EmptySeq
  <2> QED  BY <1>1, <2>1, <2>2
<1> QED
  BY <1>1, <1>2, <1>6, <1>7, <1>8 DEF t

\* In every phase, what the client has been sent is as it must be.
LEMMA Matches == StartupInv => RepliesMatch
<1> SUFFICES ASSUME StartupInv, phase # "closed" PROVE RepliesMatch
  BY DEF StartupInv, ReceivedInv
<1>1. \A m : Times(m) \in Nat
  BY CountType DEF StartupInv, TypeOK, Times, Count
<1>2. \A m : Count(fromServer, m) \in Nat
  BY CountType DEF StartupInv, TypeOK
<1>3. CASE phase = "relay"
  <2>1. ASSUME NEW m \in Messages, m[2] = "setup", Times(m) > 0
        PROVE  failed /\ m = SetupReady /\ Times(m) = 1
    BY <1>1, <1>2, <1>3, <2>1 DEF StartupInv, MainInv
  <2>2. Times(ClientReady) <= asked /\ Times(LoginReady) <= 1
    <3>1. Len(toServer) \in Nat /\ Len(toProxy) \in Nat /\ asked \in Nat
      BY DEF StartupInv, TypeOK
    <3> QED  BY <1>1, <1>2, <1>3, <3>1 DEF StartupInv, MainInv
  <2> QED  BY <2>1, <2>2 DEF RepliesMatch, ClientReady, SetupReady, LoginReady
<1>4. CASE phase # "relay"
  <2>1. phase \in Opens \union LogsIn \union SetsUp
    BY <1>4 DEF StartupInv, TypeOK, Opens, LogsIn, SetsUp
  <2>2. \A m \in Messages : m[2] \in {"setup", "client"} => Times(m) = 0
    BY <2>1 DEF StartupInv, ReceivedInv
  <2>3. Times(ClientReady) = 0 /\ asked \in Nat
    BY <2>2, Distinct DEF StartupInv, TypeOK
  <2>4. Times(LoginReady) <= 1
    BY <2>1 DEF StartupInv, ReceivedInv
  <2> QED  BY <2>2, <2>3, <2>4 DEF RepliesMatch, ClientReady, LoginReady
<1> QED
  BY <1>3, <1>4

\* A closed connection: nothing is sent to the client any more.
LEMMA ClosedKeeps ==
  ASSUME StartupInv, TypeOK', phase' = "closed", received' = received, failed' = failed,
         asked' >= asked
  PROVE  StartupInv'
<1>1. RepliesMatch'
  <2>1. RepliesMatch /\ \A m : Times(m)' = Times(m)
    BY Matches, NothingReceived
  <2>2. Times(ClientReady) <= asked'
    <3>1. Times(ClientReady) <= asked
      BY <2>1 DEF RepliesMatch, ClientReady
    <3>2. Times(ClientReady) \in Nat
      <4>1. received \in Seq(Messages)
        BY DEF StartupInv, TypeOK
      <4>2. Count(received, ClientReady) \in Nat
        BY <4>1, CountType
      <4> QED  BY <4>2 DEF Times, Count
    <3>3. asked \in Nat /\ asked' \in Nat
      BY DEF StartupInv, TypeOK
    <3> QED  BY <3>1, <3>2, <3>3
  <2> QED  BY <2>1, <2>2 DEF RepliesMatch, ClientReady
<1> QED
  BY <1>1 DEF StartupInv, OpeningInv, LoginInv, SetupInv, MainInv, ReceivedInv, Opens, LogsIn,
              SetsUp

\* What the database sends when there is nothing on the line is what there is.
LEMMA SendsOnIdleLine ==
  ASSUME TypeOK, Line = <<>>, NEW ms \in Seq(Messages), Sends(ms), buffered' = buffered
  PROVE  Line' = ms
<1>1. buffered = <<>> /\ fromServer = <<>>
  BY LineType
<1>2. fromServer' = ms
  BY <1>1, ConcatEmptySeq DEF Sends
<1>3. Line' = <<>> \o ms
  BY <1>1, <1>2 DEF Line
<1> QED
  BY <1>3, ConcatEmptySeq

--------------------------------------------------------------------------------
(* The steps of the database *)

\* A step of the database in the login: the dialogue goes on.
LEMMA ServerInLogin ==
  ASSUME StartupInv, UNCHANGED <<proxy, toProxy, received, asked, lost>>, TypeOK',
         phase = "login",
         \/ toServer' = <<>> /\ server' = "login" /\ Line' = <<>>
         \/ toServer' = <<>> /\ server' = "asking" /\ Line' = <<Msg("auth", "login")>>
         \/ toServer' = <<>> /\ server' = "serving"
              /\ Line' = <<Msg("info", "login"), LoginReady>>
         \/ toServer' = <<>> /\ server' = "refused" /\ Line' = <<Msg("error", "login")>>,
         toProxy = <<>>
  PROVE  StartupInv'
<1>1. /\ UNCHANGED <<phase, opening, setup, failed, buffered, toProxy, received, asked>>
      /\ \A m : Times(m)' = Times(m)
  BY NothingReceived DEF proxy
<1>2. LoginInv'
  BY <1>1 DEF LoginInv
<1>3. OpeningInv' /\ SetupInv' /\ MainInv'
  BY <1>1 DEF StartupInv, OpeningInv, SetupInv, MainInv, Opens, LogsIn, SetsUp
<1>4. ReceivedInv'
  BY <1>1 DEF StartupInv, ReceivedInv, Opens, LogsIn, SetsUp
<1> QED
  BY <1>2, <1>3, <1>4 DEF StartupInv

LEMMA LoginStepsKeep ==
  ASSUME StartupInv, UNCHANGED <<proxy, toProxy, received, asked, lost>>,
         ReadsStartup \/ RequestsAuth \/ ReadsAnswer \/ LetsIn \/ Refuses
  PROVE  StartupInv'
<1>1. /\ TypeOK
      /\ UNCHANGED <<phase, opening, setup, failed, buffered, toProxy, received, asked>>
      /\ fromServer \in Seq(Messages) /\ Line \in Seq(Messages)
  BY LineType DEF StartupInv, TypeOK, proxy
<1>2. /\ <<Msg("auth", "login")>> \in Seq(Messages)
      /\ <<Msg("info", "login"), LoginReady>> \in Seq(Messages)
      /\ <<Msg("error", "login")>> \in Seq(Messages)
  <2>1. /\ Msg("auth", "login") \in Messages /\ Msg("info", "login") \in Messages
        /\ Msg("error", "login") \in Messages /\ LoginReady \in Messages
    BY Distinct DEF Exchanges, Results
  <2> QED  BY <2>1
<1>3. /\ ReadsStartup => /\ server = "none" /\ toServer # <<>> /\ toServer' = Tail(toServer)
                         /\ server' = "login" /\ fromServer' = fromServer /\ rounds' = rounds
      /\ RequestsAuth => /\ server = "login" /\ Sends(<<Msg("auth", "login")>>)
                         /\ server' = "asking" /\ toServer' = toServer
                         /\ rounds' \in 0 .. MaxRounds
      /\ ReadsAnswer => /\ server = "asking" /\ toServer # <<>> /\ toServer' = Tail(toServer)
                        /\ server' = "login" /\ fromServer' = fromServer /\ rounds' = rounds
      /\ LetsIn => /\ server = "login" /\ Sends(<<Msg("info", "login"), LoginReady>>)
                   /\ server' = "serving" /\ toServer' = toServer /\ rounds' = rounds
      /\ Refuses => /\ server = "login" /\ Sends(<<Msg("error", "login")>>)
                    /\ server' = "refused" /\ toServer' = toServer /\ rounds' = rounds
  BY <1>1, StartupAssumption
     DEF ReadsStartup, RequestsAuth, ReadsAnswer, LetsIn, Refuses, LoginReady, TypeOK
<1>4. TypeOK'
  <2>1. fromServer' \in Seq(Messages)
    BY <1>1, <1>2, <1>3, ConcatProperties DEF Sends
  <2>2. toServer' \in Seq({"startup", "answer", "setup", "query"})
    <3>1. toServer \in Seq({"startup", "answer", "setup", "query"})
      BY <1>1 DEF TypeOK
    <3>2. toServer' = toServer \/ (toServer # <<>> /\ toServer' = Tail(toServer))
      BY <1>3
    <3> QED  BY <3>1, <3>2, HeadTailProperties
  <2>3. /\ server' \in {"none", "login", "asking", "serving", "refused"}
        /\ rounds' \in 0 .. MaxRounds
    BY <1>1, <1>3 DEF TypeOK
  <2> QED  BY <1>1, <2>1, <2>2, <2>3 DEF TypeOK
<1>5. CASE phase = "closed"
  BY <1>1, <1>4, <1>5, ClosedKeeps DEF StartupInv, TypeOK
<1>6. CASE phase # "closed"
  <2>1. phase \notin Opens
    BY <1>3 DEF StartupInv, OpeningInv
  <2>2. phase \notin {"answer", "setup", "drain", "relay"}
    BY <1>3 DEF StartupInv, LoginInv, SetupInv, MainInv, SetsUp
  <2>3. phase = "login"
    BY <1>1, <1>6, <2>1, <2>2 DEF TypeOK, Opens
  <2>4. ReadsStartup => toServer = <<"startup">> /\ Line = <<>>
    BY <1>3, <2>3 DEF StartupInv, LoginInv
  <2>5. ReadsAnswer => toServer = <<"answer">> /\ Line = <<>> /\ toProxy = <<>>
    BY <1>3, <2>3 DEF StartupInv, LoginInv, LogsIn
  <2>6. RequestsAuth \/ LetsIn \/ Refuses => toServer = <<>> /\ Line = <<>>
    BY <1>3, <2>3 DEF StartupInv, LoginInv
  <2>7. ~ReadsAnswer => toProxy = <<>>
    BY <1>3, <2>3 DEF StartupInv, LoginInv, LogsIn
  <2>8. ReadsStartup \/ ReadsAnswer => toServer' = <<>> /\ Line' = <<>> /\ server' = "login"
    <3>1. ReadsStartup \/ ReadsAnswer => Line' = Line
      BY <1>1, <1>3 DEF Line
    <3>2. Tail(<<"startup">>) = <<>> /\ Tail(<<"answer">>) = <<>>
      OBVIOUS
    <3> QED  BY <1>3, <2>4, <2>5, <3>1, <3>2
  <2>9. /\ RequestsAuth => Line' = <<Msg("auth", "login")>>
        /\ LetsIn => Line' = <<Msg("info", "login"), LoginReady>>
        /\ Refuses => Line' = <<Msg("error", "login")>>
    BY <1>1, <1>2, <1>3, <2>6, SendsOnIdleLine
  <2> QED  BY <1>3, <1>4, <2>3, <2>5, <2>6, <2>7, <2>8, <2>9, ServerInLogin
<1> QED
  BY <1>5, <1>6

\* Two messages more in a sequence.
LEMMA CountTwo ==
  ASSUME NEW S, NEW s \in Seq(S), NEW a \in S, NEW b \in S
  PROVE  /\ s \o <<a, b>> = Append(Append(s, a), b)
         /\ \A m : Count(s \o <<a, b>>, m) = Count(s, m) + (IF a = m THEN 1 ELSE 0)
                                               + (IF b = m THEN 1 ELSE 0)
<1>1. s \o <<a, b>> = Append(Append(s, a), b)
  OBVIOUS
<1>2. ASSUME NEW m
      PROVE  Count(s \o <<a, b>>, m) = Count(s, m) + (IF a = m THEN 1 ELSE 0)
                                         + (IF b = m THEN 1 ELSE 0)
  <2> DEFINE t == Append(s, a)
  <2>1. t \in Seq(S)
    OBVIOUS
  <2>2. Count(t, m) = Count(s, m) + (IF a = m THEN 1 ELSE 0)
    BY CountAppend
  <2> HIDE DEF t
  <2>3. Count(Append(t, b), m) = Count(t, m) + (IF b = m THEN 1 ELSE 0)
    BY <2>1, CountAppend
  <2> QED  BY <1>1, <2>2, <2>3 DEF t
<1> QED
  BY <1>1, <1>2

\* The answer to a query takes its place; the answer to the setup is all there is.
LEMMA ExecutesKeeps ==
  ASSUME StartupInv, UNCHANGED <<proxy, toProxy, received, asked, lost>>,
         NEW result \in Results, Executes(result)
  PROVE  StartupInv'
<1> DEFINE exchange == IF Head(toServer) = "setup" THEN "setup" ELSE "client"
           ms == <<Msg(result, exchange), Msg("ready", exchange)>>
<1>1. /\ server = "serving" /\ toServer # <<>> /\ Sends(ms) /\ toServer' = Tail(toServer)
      /\ UNCHANGED <<phase, opening, setup, failed, buffered, toProxy, received, asked, lost,
                     server, rounds>>
  BY DEF Executes, proxy, database
<1>2. /\ TypeOK /\ fromServer \in Seq(Messages)
      /\ toServer \in Seq({"startup", "answer", "setup", "query"})
  BY DEF StartupInv, TypeOK
<1>3. exchange \in {"setup", "client"}
  OBVIOUS
<1>4. Msg(result, exchange) \in Messages /\ Msg("ready", exchange) \in Messages
  BY <1>3, Distinct DEF Exchanges
<1> HIDE DEF exchange
<1>5. ms \in Seq(Messages)
  BY <1>4
<1>6. TypeOK'
  <2>1. fromServer' \in Seq(Messages)
    BY <1>1, <1>2, <1>5, ConcatProperties DEF Sends
  <2>2. toServer' \in Seq({"startup", "answer", "setup", "query"})
    BY <1>1, <1>2, HeadTailProperties
  <2> QED  BY <1>1, <1>2, <2>1, <2>2 DEF TypeOK
<1>7. \A m : Times(m)' = Times(m)
  BY <1>1, NothingReceived
<1>8. CASE phase = "closed"
  BY <1>1, <1>2, <1>6, <1>8, ClosedKeeps DEF TypeOK
<1>9. CASE phase = "drain"
  <2>1. toServer = <<"setup">> /\ Line = <<>>
    BY <1>1, <1>9 DEF StartupInv, SetupInv
  <2>2. exchange = "setup" /\ toServer' = <<>>
    BY <1>1, <2>1 DEF exchange
  <2>3. Line' = <<Msg(result, "setup"), SetupReady>>
    BY <1>1, <1>2, <1>5, <2>1, <2>2, SendsOnIdleLine DEF SetupReady
  <2>4. SetupInv'
    BY <1>1, <1>9, <2>2, <2>3 DEF StartupInv, SetupInv, SetsUp
  <2>5. OpeningInv' /\ LoginInv' /\ MainInv'
    BY <1>1, <1>9 DEF StartupInv, OpeningInv, LoginInv, MainInv, Opens, LogsIn, SetsUp
  <2>6. ReceivedInv'
    BY <1>1, <1>7, <1>9 DEF StartupInv, ReceivedInv, Opens, LogsIn, SetsUp
  <2> QED  BY <1>6, <2>4, <2>5, <2>6 DEF StartupInv
<1>10. CASE phase = "relay"
  <2>1. /\ \A i \in DOMAIN toServer : toServer[i] = "query"
        /\ Times(ClientReady) + Count(fromServer, ClientReady) + Len(toServer) + Len(toProxy)
             <= asked
        /\ Times(LoginReady) + Count(fromServer, LoginReady) <= 1
        /\ \A m \in Messages : m[2] = "setup" =>
             Times(m) + Count(fromServer, m) <= IF failed /\ m = SetupReady THEN 1 ELSE 0
        /\ \A i \in DOMAIN toProxy : toProxy[i] = "query"
        /\ buffered = <<>>
    BY <1>10 DEF StartupInv, MainInv
  <2>2. /\ Len(toServer) \in Nat \ {0} /\ Len(toServer') = Len(toServer) - 1
        /\ \A i \in DOMAIN toServer' : toServer'[i] = "query"
        /\ Head(toServer) = "query"
    BY <1>1, <1>2, <2>1
  <2>3. exchange = "client" /\ ms = <<Msg(result, "client"), ClientReady>>
    BY <2>2 DEF exchange, ClientReady
  <2>4. \A m : /\ Count(fromServer', m) = Count(fromServer, m)
                      + (IF Msg(result, "client") = m THEN 1 ELSE 0)
                      + (IF ClientReady = m THEN 1 ELSE 0)
               /\ Count(fromServer, m) \in Nat
    <3>1. fromServer' = fromServer \o <<Msg(result, "client"), ClientReady>>
      BY <1>1, <2>3 DEF Sends
    <3>2. Msg(result, "client") \in Messages /\ ClientReady \in Messages
      BY <1>4, <2>3, Distinct
    <3>3. ASSUME NEW m
          PROVE  Count(fromServer', m) = Count(fromServer, m)
                      + (IF Msg(result, "client") = m THEN 1 ELSE 0)
                      + (IF ClientReady = m THEN 1 ELSE 0)
      BY <1>2, <3>1, <3>2, CountTwo
    <3>4. ASSUME NEW m PROVE Count(fromServer, m) \in Nat
      BY <1>2, CountType
    <3> QED  BY <3>3, <3>4
  <2>5. Msg(result, "client") # ClientReady
    BY Distinct DEF Results
  <2>6. Count(fromServer', ClientReady) = Count(fromServer, ClientReady) + 1
    BY <2>4, <2>5
  <2>7. \A m : m[2] # "client" => Count(fromServer', m) = Count(fromServer, m)
    BY <2>4, Distinct
  <2>8. Times(ClientReady) \in Nat /\ Len(toProxy) \in Nat /\ asked \in Nat
    <3>1. Count(received, ClientReady) \in Nat
      BY <1>2, CountType DEF TypeOK
    <3> QED  BY <1>2, <3>1 DEF Times, Count, TypeOK
  <2>9. Times(ClientReady) + Count(fromServer', ClientReady) + Len(toServer') + Len(toProxy)
          <= asked
    BY <2>1, <2>2, <2>4, <2>6, <2>8
  <2>10. MainInv'
    BY <1>1, <1>7, <2>1, <2>2, <2>7, <2>9, Distinct DEF MainInv
  <2>11. OpeningInv' /\ LoginInv' /\ SetupInv' /\ ReceivedInv'
    BY <1>1, <1>10 DEF OpeningInv, LoginInv, SetupInv, ReceivedInv, Opens, LogsIn, SetsUp
  <2> QED  BY <1>6, <2>10, <2>11 DEF StartupInv
<1>11. phase \in {"closed", "drain", "relay"}
  BY <1>1, <1>2 DEF StartupInv, TypeOK, OpeningInv, LoginInv, SetupInv, Opens
<1> QED
  BY <1>8, <1>9, <1>10, <1>11

LEMMA ServerKeeps == StartupInv /\ Server => StartupInv'
BY LoginStepsKeep, ExecutesKeeps DEF Server, Results

--------------------------------------------------------------------------------
(* The steps of the client *)

LEMMA ProceedsKeeps ==
  ASSUME StartupInv, NEW o \in Openings, Proceeds(o)
  PROVE  StartupInv'
<1>1. /\ phase = "denied" /\ toProxy = <<>> /\ toProxy' = <<o>>
      /\ UNCHANGED <<phase, opening, setup, failed, buffered, received, toServer, fromServer,
                     server, rounds, asked, lost>>
  BY DEF Proceeds, proxy, database
<1>2. TypeOK'
  <2>1. toProxy' \in Seq(Openings \union {"answer", "query"})
    BY <1>1
  <2> QED  BY <1>1, <2>1 DEF StartupInv, TypeOK
<1>3. \A m : Times(m)' = Times(m)
  BY <1>1, NothingReceived
<1>4. OpeningInv'
  BY <1>1 DEF StartupInv, OpeningInv, Line
<1>5. LoginInv' /\ SetupInv' /\ MainInv'
  BY <1>1 DEF StartupInv, LoginInv, SetupInv, MainInv, Opens, LogsIn, SetsUp
<1>6. ReceivedInv'
  BY <1>1, <1>3 DEF StartupInv, ReceivedInv, SetsUp
<1> QED
  BY <1>2, <1>4, <1>5, <1>6 DEF StartupInv

LEMMA AnswersRequestKeeps ==
  ASSUME StartupInv, AnswersRequest
  PROVE  StartupInv'
<1>1. /\ phase \in LogsIn /\ server = "asking" /\ toProxy = <<>> /\ toProxy' = <<"answer">>
      /\ "answer" \notin Range(toServer)
      /\ UNCHANGED <<phase, opening, setup, failed, buffered, received, toServer, fromServer,
                     server, rounds, asked, lost>>
  BY DEF AnswersRequest, proxy, database, LogsIn
<1>2. TypeOK'
  <2>1. toProxy' \in Seq(Openings \union {"answer", "query"})
    BY <1>1
  <2> QED  BY <1>1, <2>1 DEF StartupInv, TypeOK
<1>3. \A m : Times(m)' = Times(m)
  BY <1>1, NothingReceived
<1>4. toServer = <<>>
  <2>1. toServer = <<>> \/ toServer = <<"answer">>
    BY <1>1 DEF StartupInv, LoginInv, LogsIn
  <2>2. toServer = <<"answer">> => "answer" \in Range(toServer)
    BY DEF Range
  <2> QED  BY <1>1, <2>1, <2>2
<1>5. LoginInv'
  BY <1>1, <1>4 DEF StartupInv, LoginInv, LogsIn, Line
<1>6. OpeningInv' /\ SetupInv' /\ MainInv'
  BY <1>1 DEF StartupInv, OpeningInv, SetupInv, MainInv, LogsIn, SetsUp, Opens
<1>7. ReceivedInv'
  BY <1>1, <1>3 DEF StartupInv, ReceivedInv, SetsUp, LogsIn
<1> QED
  BY <1>2, <1>5, <1>6, <1>7 DEF StartupInv

LEMMA AsksQueryKeeps ==
  ASSUME StartupInv, AsksQuery
  PROVE  StartupInv'
<1>1. /\ Times(LoginReady) = 1 /\ asked < MaxQueries
      /\ toProxy' = Append(toProxy, "query") /\ asked' = asked + 1
      /\ UNCHANGED <<phase, opening, setup, failed, buffered, received, toServer, fromServer,
                     server, rounds, lost>>
  BY DEF AsksQuery, proxy, database, LoginReady
<1>2. /\ TypeOK /\ toProxy \in Seq(Openings \union {"answer", "query"}) /\ asked \in Nat
      /\ Len(toProxy) \in Nat
  BY DEF StartupInv, TypeOK
<1>3. TypeOK'
  <2>1. toProxy' \in Seq(Openings \union {"answer", "query"}) /\ asked' \in 0 .. MaxQueries
    BY <1>1, <1>2, StartupAssumption DEF TypeOK
  <2> QED  BY <1>1, <1>2, <2>1 DEF TypeOK
<1>4. \A m : Times(m)' = Times(m)
  BY <1>1, NothingReceived
<1>5. phase \notin Opens \union LogsIn
  BY <1>1 DEF StartupInv, ReceivedInv
<1>6. CASE phase = "closed"
  BY <1>1, <1>2, <1>3, <1>6, ClosedKeeps
<1>7. CASE phase # "closed"
  <2>1. phase \in SetsUp \union {"relay"}
    BY <1>2, <1>5, <1>7 DEF TypeOK, Opens, LogsIn, SetsUp
  <2>2. /\ Len(toProxy') = Len(toProxy) + 1
        /\ (\A i \in DOMAIN toProxy : toProxy[i] = "query")
             => \A i \in DOMAIN toProxy' : toProxy'[i] = "query"
    BY <1>1, <1>2
  <2>3. SetupInv'
    BY <1>1, <1>2, <2>2 DEF StartupInv, SetupInv, SetsUp, Line
  <2>4. MainInv'
    <3>1. ASSUME phase = "relay"
          PROVE  Times(ClientReady) + Count(fromServer, ClientReady) + Len(toServer)
                   + Len(toProxy') <= asked'
      <4>1. /\ Times(ClientReady) \in Nat /\ Count(fromServer, ClientReady) \in Nat
            /\ Len(toServer) \in Nat
        <5>1. Count(received, ClientReady) \in Nat /\ Count(fromServer, ClientReady) \in Nat
          BY <1>2, CountType DEF TypeOK
        <5> QED  BY <1>2, <5>1 DEF Times, Count, TypeOK
      <4>2. Times(ClientReady) + Count(fromServer, ClientReady) + Len(toServer)
              + Len(toProxy) <= asked
        BY <3>1 DEF StartupInv, MainInv
      <4> QED  BY <1>1, <1>2, <2>2, <4>1, <4>2
    <3> QED  BY <1>1, <1>4, <2>1, <2>2, <3>1 DEF StartupInv, MainInv
  <2>5. OpeningInv' /\ LoginInv'
    BY <1>1, <2>1 DEF OpeningInv, LoginInv, Opens, LogsIn, SetsUp
  <2>6. ReceivedInv'
    BY <1>1, <1>4, <2>1 DEF StartupInv, ReceivedInv, Opens, LogsIn, SetsUp
  <2> QED  BY <1>3, <2>3, <2>4, <2>5, <2>6 DEF StartupInv
<1> QED
  BY <1>6, <1>7

--------------------------------------------------------------------------------
(* The steps of handleConnection up to the login *)

LEMMA ReadsOpeningKeeps ==
  ASSUME StartupInv, ReadsOpening
  PROVE  StartupInv'
<1>1. /\ phase \in {"startup", "denied"} /\ toProxy # <<>>
      /\ opening' = Head(toProxy) /\ toProxy' = Tail(toProxy) /\ phase' \in {"denied", "dial"}
      /\ received' = received \/ received' = Append(received, Msg("N", "login"))
      /\ UNCHANGED <<setup, failed, buffered, toServer, fromServer, server, rounds, asked,
                     lost>>
  BY DEF ReadsOpening, ServerUnchanged, database
<1>2. /\ TypeOK /\ received \in Seq(Messages)
      /\ toProxy \in Seq(Openings \union {"answer", "query"})
  BY DEF StartupInv, TypeOK
<1>3. toProxy' = <<>> /\ opening' \in Openings
  <2>1. PICK o \in Openings : toProxy = <<o>>
    BY <1>1 DEF StartupInv, OpeningInv, Opens
  <2> QED  BY <1>1, <2>1
<1>4. Msg("N", "login") \in Messages /\ Msg("N", "login")[2] = "login"
      /\ Msg("N", "login") # LoginReady
  BY Distinct DEF Exchanges
<1>5. /\ received' \in Seq(Messages)
      /\ \A m : m[2] \in {"setup", "client"} \/ m = LoginReady => Times(m)' = Times(m)
  <2>1. CASE received' = received
    BY <1>2, <2>1, NothingReceived
  <2>2. CASE received' = Append(received, Msg("N", "login"))
    BY <1>2, <1>4, <2>2, ReceivedOne
  <2> QED  BY <1>1, <2>1, <2>2
<1>6. TypeOK'
  BY <1>1, <1>2, <1>3, <1>5 DEF TypeOK
<1>7. OpeningInv'
  BY <1>1, <1>3 DEF StartupInv, OpeningInv, Opens, Line
<1>8. LoginInv' /\ SetupInv' /\ MainInv'
  BY <1>1 DEF StartupInv, LoginInv, SetupInv, MainInv, Opens, LogsIn, SetsUp
<1>9. ReceivedInv'
  BY <1>1, <1>5, Distinct DEF StartupInv, ReceivedInv, Opens, SetsUp
<1> QED
  BY <1>6, <1>7, <1>8, <1>9 DEF StartupInv

LEMMA DialsKeeps ==
  ASSUME StartupInv, Dials
  PROVE  StartupInv'
<1>1. /\ phase = "dial"
      /\ \/ phase' = "login" /\ toServer' = Append(toServer, "startup")
         \/ phase' = "closed" /\ toServer' = toServer
      /\ UNCHANGED <<opening, setup, failed, buffered, toProxy, received, fromServer, server,
                     rounds, asked, lost>>
  BY DEF Dials, ClientUnchanged, ServerUnchanged, database
<1>2. /\ TypeOK /\ server = "none" /\ toServer = <<>> /\ Line = <<>> /\ toProxy = <<>>
      /\ asked \in Nat
  BY <1>1 DEF StartupInv, OpeningInv, Opens, TypeOK
<1>3. TypeOK'
  <2>1. toServer' \in Seq({"startup", "answer", "setup", "query"})
    <3>1. toServer' = <<"startup">> \/ toServer' = <<>>
      BY <1>1, <1>2
    <3>2. /\ <<"startup">> \in Seq({"startup", "answer", "setup", "query"})
          /\ <<>> \in Seq({"startup", "answer", "setup", "query"})
      OBVIOUS
    <3> QED  BY <3>1, <3>2, Zenon
  <2> QED  BY <1>1, <1>2, <2>1 DEF TypeOK
<1>4. \A m : Times(m)' = Times(m)
  BY <1>1, NothingReceived
<1>5. CASE phase' = "login"
  <2>1. toServer' = <<"startup">> /\ Line' = Line
    BY <1>1, <1>2, <1>5 DEF Line
  <2>2. LoginInv'
    BY <1>1, <1>2, <1>5, <2>1 DEF LoginInv, LogsIn
  <2>3. OpeningInv' /\ SetupInv' /\ MainInv'
    BY <1>1, <1>5 DEF StartupInv, OpeningInv, SetupInv, MainInv, Opens, LogsIn, SetsUp
  <2>4. ReceivedInv'
    BY <1>1, <1>4, <1>5 DEF StartupInv, ReceivedInv, Opens, LogsIn, SetsUp
  <2> QED  BY <1>3, <2>2, <2>3, <2>4 DEF StartupInv
<1>6. CASE phase' = "closed"
  BY <1>1, <1>2, <1>3, <1>6, ClosedKeeps
<1> QED
  BY <1>1, <1>5, <1>6

\* sendError tells the client that it is ready, which it is told only once then too.
LEMMA DialFailsKeeps ==
  ASSUME StartupInv, DialFails
  PROVE  StartupInv'
<1> DEFINE e == Msg("error", "login")
<1>1. /\ phase = "dial" /\ phase' = "closed" /\ lost' = TRUE
      /\ received' = received \o <<e, LoginReady>>
      /\ UNCHANGED <<opening, setup, failed, buffered, toProxy, toServer, fromServer, server,
                     rounds, asked>>
  BY DEF DialFails, ClientUnchanged, database, LoginReady
<1>2. TypeOK /\ received \in Seq(Messages) /\ asked \in Nat
  BY DEF StartupInv, TypeOK
<1>3. e \in Messages /\ LoginReady \in Messages /\ e[2] = "login" /\ LoginReady[2] = "login"
      /\ e # LoginReady
  BY Distinct DEF Exchanges, Results
<1> HIDE DEF e
<1>4. \A m : Times(m)' = Times(m) + (IF e = m THEN 1 ELSE 0) + (IF LoginReady = m THEN 1 ELSE 0)
  <2>1. \A m : Count(received \o <<e, LoginReady>>, m)
                = Count(received, m) + (IF e = m THEN 1 ELSE 0)
                    + (IF LoginReady = m THEN 1 ELSE 0)
    BY <1>2, <1>3, CountTwo
  <2> QED  BY <1>1, <2>1 DEF Times, Count
<1>5. TypeOK'
  <2>1. received' \in Seq(Messages)
    BY <1>1, <1>2, <1>3
  <2> QED  BY <1>1, <1>2, <2>1 DEF TypeOK
<1>6. RepliesMatch'
  <2>1. /\ \A m \in Messages : m[2] \in {"setup", "client"} => Times(m) = 0
        /\ Times(LoginReady) = 0
    BY <1>1 DEF StartupInv, ReceivedInv, Opens
  <2>2. /\ \A m \in Messages : m[2] \in {"setup", "client"} => Times(m)' = 0
        /\ Times(LoginReady)' = 1
    BY <1>3, <1>4, <2>1
  <2>3. Times(ClientReady)' = 0
    BY <2>2, Distinct
  <2> QED  BY <1>1, <1>2, <2>2, <2>3 DEF RepliesMatch, ClientReady, LoginReady
<1> QED
  BY <1>1, <1>5, <1>6 DEF StartupInv, OpeningInv, LoginInv, SetupInv, MainInv, ReceivedInv,
                          Opens, LogsIn, SetsUp

\* Reading ahead moves messages along the line.
LEMMA ReadsAheadKeeps ==
  ASSUME StartupInv, ReadsAhead
  PROVE  StartupInv'
<1>1. PICK n \in 1 .. Len(fromServer) :
        /\ buffered' = SubSeq(fromServer, 1, n)
        /\ fromServer' = SubSeq(fromServer, n + 1, Len(fromServer))
  BY DEF ReadsAhead
<1>2. /\ phase \in {"login", "drain"} /\ buffered = <<>>
      /\ UNCHANGED <<phase, opening, setup, failed, toProxy, received, toServer, server,
                     rounds, asked, lost>>
  BY DEF ReadsAhead, ClientUnchanged, database
<1>3. TypeOK /\ fromServer \in Seq(Messages) /\ Len(fromServer) \in Nat
  BY DEF StartupInv, TypeOK
<1>4. Line' = Line
  <2>1. SubSeq(fromServer, 1, n) \o SubSeq(fromServer, n + 1, Len(fromServer))
          = SubSeq(fromServer, 1, Len(fromServer))
    BY <1>3, ConcatAdjacentSubSeq
  <2>2. SubSeq(fromServer, 1, Len(fromServer)) = fromServer
    BY <1>3, SubSeqFull
  <2>3. <<>> \o fromServer = fromServer
    BY <1>3, ConcatEmptySeq
  <2> QED  BY <1>1, <1>2, <2>1, <2>2, <2>3 DEF Line
<1>5. TypeOK'
  <2>1. buffered' \in Seq(Messages) /\ fromServer' \in Seq(Messages)
    BY <1>1, <1>3
  <2> QED  BY <1>2, <1>3, <2>1 DEF TypeOK
<1>6. OpeningInv' /\ LoginInv' /\ SetupInv'
  BY <1>2, <1>4 DEF StartupInv, OpeningInv, LoginInv, SetupInv, Opens, LogsIn, SetsUp
<1>7. MainInv' /\ ReceivedInv'
  BY <1>2, NothingReceived DEF StartupInv, MainInv, ReceivedInv, Opens, LogsIn, SetsUp
<1> QED
  BY <1>5, <1>6, <1>7 DEF StartupInv

\* The ReadyForQuery of the login is the last of it.
LEMMA RelaysLoginKeeps ==
  ASSUME StartupInv, RelaysLogin
  PROVE  StartupInv'
<1> DEFINE x == Head(buffered)
<1>1. /\ phase = "login" /\ buffered # <<>> /\ received' = Append(received, x)
      /\ phase' = CASE Type(x) = "ready" -> "setup"
                    [] Type(x) = "error" -> "closed"
                    [] Type(x) = "auth"  -> "answer"
                    [] OTHER -> "login"
      /\ buffered' = IF phase' = "setup" THEN <<>> ELSE Tail(buffered)
      /\ UNCHANGED <<opening, setup, failed, toProxy, toServer, fromServer, server, rounds,
                     asked, lost>>
  BY DEF RelaysLogin, ClientUnchanged, ServerUnchanged, database
<1>2. /\ TypeOK /\ received \in Seq(Messages) /\ setup \in 0 .. 3 /\ asked \in Nat
  BY DEF StartupInv, TypeOK
<1>3. /\ Line # <<>> /\ x = Head(Line) /\ x \in Messages
      /\ Tail(buffered) \in Seq(Messages) /\ Tail(buffered) \o fromServer = Tail(Line)
      /\ Len(Line) = 1 => Tail(buffered) = <<>> /\ fromServer = <<>>
  BY <1>1, <1>2, NextOnLine
<1> HIDE DEF x
<1>4. /\ received' \in Seq(Messages)
      /\ \A m : Times(m) \in Nat /\ Times(m)' = Times(m) + (IF x = m THEN 1 ELSE 0)
  BY <1>1, <1>2, <1>3, ReceivedOne
<1>5. /\ \A m \in Messages : m[2] \in {"setup", "client"} => Times(m) = 0
      /\ asked = 0 /\ Times(LoginReady) = 0
  BY <1>1 DEF StartupInv, ReceivedInv, LogsIn
<1>6. \/ server = "asking" /\ toServer = <<>> /\ Line = <<Msg("auth", "login")>>
      \/ server = "serving" /\ toServer = <<>>
           /\ Line \in {<<Msg("info", "login"), LoginReady>>, <<LoginReady>>}
      \/ server = "refused" /\ toServer = <<>> /\ Line = <<Msg("error", "login")>>
  BY <1>1, <1>3 DEF StartupInv, LoginInv
<1>7. x[2] = "login" /\ x \in {Msg("auth", "login"), Msg("info", "login"), LoginReady,
                               Msg("error", "login")}
  BY <1>3, <1>6, Distinct
<1>8. /\ \A m \in Messages : m[2] \in {"setup", "client"} => Times(m)' = 0
      /\ Times(LoginReady)' <= 1 /\ (x # LoginReady => Times(LoginReady)' = 0)
  BY <1>4, <1>5, <1>7
<1>9. toProxy = <<>> \/ (toProxy = <<"answer">> /\ server = "asking")
  BY <1>1 DEF StartupInv, LoginInv, LogsIn
<1>10. CASE x = LoginReady
  <2>1. phase' = "setup" /\ buffered' = <<>>
    BY <1>1, <1>10, Distinct
  <2>2. server = "serving" /\ toServer = <<>> /\ Line = <<LoginReady>>
    BY <1>3, <1>6, <1>10, Distinct
  <2>3. fromServer = <<>> /\ Line' = <<>>
    <3>1. fromServer = <<>>
      BY <1>3, <2>2
    <3> QED  BY <1>1, <2>1, <3>1 DEF Line
  <2>4. toProxy = <<>>
    BY <1>9, <2>2
  <2>5. TypeOK'
    BY <1>1, <1>2, <1>4, <2>1 DEF TypeOK
  <2>6. SetupInv'
    <3>1. setup = 0
      BY <1>1 DEF StartupInv, SetupInv, LogsIn
    <3> QED  BY <1>1, <1>5, <2>1, <2>2, <2>3, <2>4, <3>1
             DEF SetupInv, Opens, LogsIn, SetsUp
  <2>7. OpeningInv' /\ LoginInv' /\ MainInv'
    BY <1>1, <2>1, <2>4 DEF OpeningInv, LoginInv, MainInv, Opens, LogsIn, SetsUp
  <2>8. ReceivedInv'
    BY <1>8, <2>1 DEF ReceivedInv, Opens, LogsIn, SetsUp
  <2> QED  BY <2>5, <2>6, <2>7, <2>8 DEF StartupInv
<1>11. CASE x = Msg("error", "login")
  <2>1. phase' = "closed" /\ buffered' = Tail(buffered) /\ x # LoginReady
    BY <1>1, <1>11, Distinct
  <2>2. TypeOK'
    BY <1>1, <1>2, <1>3, <1>4, <2>1 DEF TypeOK
  <2>3. RepliesMatch'
    <3>1. Times(ClientReady)' = 0
      BY <1>8, Distinct
    <3> QED  BY <1>1, <1>2, <1>8, <3>1 DEF RepliesMatch, ClientReady, LoginReady
  <2> QED  BY <2>1, <2>2, <2>3 DEF StartupInv, OpeningInv, LoginInv, SetupInv, MainInv,
                                   ReceivedInv, Opens, LogsIn, SetsUp
<1>12. CASE x \in {Msg("auth", "login"), Msg("info", "login")}
  <2>1. /\ phase' = IF x = Msg("auth", "login") THEN "answer" ELSE "login"
        /\ buffered' = Tail(buffered) /\ x # LoginReady
    BY <1>1, <1>12, Distinct
  <2>2. TypeOK'
    BY <1>1, <1>2, <1>3, <1>4, <2>1 DEF TypeOK
  <2>3. Line' = Tail(Line)
    BY <1>1, <1>3, <2>1 DEF Line
  <2>4. LoginInv'
    <3>1. CASE x = Msg("auth", "login")
      <4>1. server = "asking" /\ toServer = <<>> /\ Line = <<x>>
        BY <1>3, <1>6, <3>1, Distinct
      <4> QED  BY <1>1, <1>9, <2>1, <2>3, <3>1, <4>1 DEF LoginInv, LogsIn
    <3>2. CASE x = Msg("info", "login")
      <4>1. server = "serving" /\ toServer = <<>> /\ Line = <<x, LoginReady>>
        BY <1>3, <1>6, <3>2, Distinct
      <4>2. phase' = "login" /\ Line' = <<LoginReady>>
        BY <2>1, <2>3, <3>2, <4>1, Distinct
      <4> QED  BY <1>1, <1>9, <4>1, <4>2 DEF LoginInv, LogsIn
    <3> QED  BY <1>12, <3>1, <3>2
  <2>5. OpeningInv' /\ SetupInv' /\ MainInv'
    BY <1>1, <2>1 DEF StartupInv, OpeningInv, SetupInv, MainInv, Opens, LogsIn, SetsUp
  <2>6. ReceivedInv'
    BY <1>1, <1>5, <1>8, <2>1 DEF ReceivedInv, Opens, LogsIn, SetsUp
  <2> QED  BY <2>2, <2>4, <2>5, <2>6 DEF StartupInv
<1> QED
  BY <1>7, <1>10, <1>11, <1>12

LEMMA RelaysAnswerKeeps ==
  ASSUME StartupInv, RelaysAnswer
  PROVE  StartupInv'
<1>1. /\ phase = "answer" /\ toProxy # <<>> /\ phase' = "login"
      /\ toServer' = Append(toServer, Head(toProxy)) /\ toProxy' = Tail(toProxy)
      /\ UNCHANGED <<opening, setup, failed, buffered, received, asked, fromServer, server,
                     rounds, lost>>
  BY DEF RelaysAnswer, ServerUnchanged, database
<1>2. /\ TypeOK /\ server = "asking" /\ toServer = <<>> /\ Line = <<>>
      /\ toProxy = <<"answer">>
  BY <1>1 DEF StartupInv, LoginInv, LogsIn
<1>3. toServer' = <<"answer">> /\ toProxy' = <<>> /\ Line' = <<>>
  BY <1>1, <1>2 DEF Line
<1>4. TypeOK'
  BY <1>1, <1>2, <1>3 DEF TypeOK
<1>5. LoginInv'
  BY <1>1, <1>2, <1>3 DEF LoginInv, LogsIn
<1>6. OpeningInv' /\ SetupInv' /\ MainInv'
  BY <1>1 DEF StartupInv, OpeningInv, SetupInv, MainInv, Opens, LogsIn, SetsUp
<1>7. ReceivedInv'
  BY <1>1, NothingReceived DEF StartupInv, ReceivedInv, Opens, LogsIn, SetsUp
<1> QED
  BY <1>4, <1>5, <1>6, <1>7 DEF StartupInv

--------------------------------------------------------------------------------
(* The steps of the setup *)

LEMMA SendsSetupKeeps ==
  ASSUME StartupInv, SendsSetup
  PROVE  StartupInv'
<1>1. /\ phase = "setup" /\ phase' = "drain"
      /\ toServer' = Append(toServer, "setup") /\ setup' = setup + 1
      /\ UNCHANGED <<opening, failed, buffered, received, toProxy, asked, fromServer, server,
                     rounds, lost>>
  BY DEF SendsSetup, ClientUnchanged, ServerUnchanged, database
<1>2. TypeOK /\ setup < 3 /\ toServer = <<>> /\ Line = <<>>
  BY <1>1 DEF StartupInv, SetupInv
<1>3. toServer' = <<"setup">> /\ Line' = <<>> /\ setup' \in 0 .. 3
  BY <1>1, <1>2 DEF Line, TypeOK
<1>4. TypeOK'
  BY <1>1, <1>2, <1>3 DEF TypeOK
<1>5. SetupInv'
  BY <1>1, <1>3 DEF StartupInv, SetupInv, Opens, LogsIn, SetsUp
<1>6. OpeningInv' /\ LoginInv' /\ MainInv'
  BY <1>1 DEF StartupInv, OpeningInv, LoginInv, MainInv, Opens, LogsIn, SetsUp
<1>7. ReceivedInv'
  BY <1>1, NothingReceived DEF StartupInv, ReceivedInv, Opens, LogsIn, SetsUp
<1> QED
  BY <1>4, <1>5, <1>6, <1>7 DEF StartupInv

\* What a drain finds first.
LEMMA DrainFinds ==
  ASSUME StartupInv, phase = "drain", buffered # <<>>
  PROVE  /\ Tail(buffered) \in Seq(Messages) /\ Tail(buffered) \o fromServer = Tail(Line)
         /\ toServer = <<>> /\ server = "serving" /\ Len(toProxy) <= asked
         /\ \/ Head(buffered) = SetupReady /\ Tail(Line) = <<>> /\ fromServer = <<>>
            \/ \E r \in Results :
                 /\ Head(buffered) = Msg(r, "setup") /\ Line = <<Msg(r, "setup"), SetupReady>>
                 /\ Tail(Line) = <<SetupReady>>
<1>1. /\ Line # <<>> /\ Head(buffered) = Head(Line)
      /\ Tail(buffered) \in Seq(Messages) /\ Tail(buffered) \o fromServer = Tail(Line)
      /\ Len(Line) = 1 => Tail(buffered) = <<>> /\ fromServer = <<>>
  BY NextOnLine DEF StartupInv
<1>2. /\ toServer = <<>> /\ server = "serving" /\ Len(toProxy) <= asked
      /\ \/ Line = <<SetupReady>>
         \/ \E r \in Results : Line = <<Msg(r, "setup"), SetupReady>>
  BY <1>1 DEF StartupInv, SetupInv, SetsUp
<1>3. CASE Line = <<SetupReady>>
  BY <1>1, <1>2, <1>3
<1>4. ASSUME NEW r \in Results, Line = <<Msg(r, "setup"), SetupReady>>
      PROVE  Head(Line) = Msg(r, "setup") /\ Tail(Line) = <<SetupReady>>
  BY <1>4
<1> QED
  BY <1>1, <1>2, <1>3, <1>4

\* When a statement is read to its end, or partly, the setup goes on.
LEMMA DrainingOn ==
  ASSUME StartupInv, phase = "drain", buffered # <<>>, buffered' = Tail(buffered),
         failed' = failed, DrainUnchanged, setup' \in 0 .. 3,
         \/ phase' = "drain" /\ Tail(Line) = <<SetupReady>>
         \/ phase' = "setup" /\ Tail(Line) = <<>> /\ setup' < 3
  PROVE  StartupInv'
<1>1. /\ Tail(buffered) \in Seq(Messages) /\ Tail(buffered) \o fromServer = Tail(Line)
      /\ toServer = <<>> /\ server = "serving" /\ Len(toProxy) <= asked
  BY DrainFinds
<1>2. UNCHANGED <<opening, received, toServer, toProxy, asked, fromServer, server, rounds,
                  lost>>
  BY DEF DrainUnchanged, ClientUnchanged, ServerUnchanged, database
<1>3. Line' = Tail(Line)
  BY <1>1, <1>2 DEF Line
<1>4. TypeOK'
  BY <1>1, <1>2 DEF StartupInv, TypeOK
<1>5. SetupInv'
  BY <1>1, <1>2, <1>3 DEF SetupInv, Opens, LogsIn, SetsUp
<1>6. OpeningInv' /\ LoginInv' /\ MainInv'
  BY <1>2 DEF StartupInv, OpeningInv, LoginInv, MainInv, Opens, LogsIn, SetsUp
<1>7. ReceivedInv'
  BY <1>2, NothingReceived DEF StartupInv, ReceivedInv, Opens, LogsIn, SetsUp
<1> QED
  BY <1>4, <1>5, <1>6, <1>7 DEF StartupInv

\* The main loop starts with nothing of the setup under way but, after a failure, its
\* ReadyForQuery.
LEMMA GoingOver ==
  ASSUME StartupInv, phase = "drain", GoesOver, DrainUnchanged, setup' = setup,
         toServer = <<>>, server = "serving", Len(toProxy) <= asked,
         \/ fromServer = <<>> /\ failed' = failed
         \/ fromServer \in {<<>>, <<SetupReady>>} /\ failed' = TRUE
  PROVE  StartupInv'
<1>1. /\ phase' = "relay" /\ buffered' = <<>>
      /\ UNCHANGED <<opening, received, toServer, toProxy, asked, fromServer, server, rounds,
                     lost>>
  BY DEF GoesOver, DrainUnchanged, ClientUnchanged, ServerUnchanged, database
<1>2. TypeOK'
  <2>1. failed' \in BOOLEAN
    BY Zenon DEF StartupInv, TypeOK
  <2> QED  BY <1>1, <2>1 DEF StartupInv, TypeOK
<1>3. /\ \A m \in Messages : m[2] \in {"setup", "client"} => Times(m)' = 0
      /\ Times(LoginReady)' <= 1 /\ Times(LoginReady)' \in Nat
  <2>1. \A m : Times(m)' = Times(m)
    BY <1>1, NothingReceived
  <2>2. /\ \A m \in Messages : m[2] \in {"setup", "client"} => Times(m) = 0
        /\ Times(LoginReady) <= 1
    BY DEF StartupInv, ReceivedInv, SetsUp
  <2>3. Count(received, LoginReady) \in Nat
    BY CountType DEF StartupInv, TypeOK
  <2> QED  BY <2>1, <2>2, <2>3 DEF Times, Count
<1>4. \A m : Count(<<SetupReady>>, m) = IF SetupReady = m THEN 1 ELSE 0
  <2> TAKE m
  <2>1. Append(<<>>, SetupReady) = <<SetupReady>> /\ <<>> \in Seq(Messages)
    OBVIOUS
  <2>2. \A s \in Seq(Messages) :
          Count(Append(s, SetupReady), m) = Count(s, m) + (IF SetupReady = m THEN 1 ELSE 0)
    BY CountAppend
  <2>3. Count(<<SetupReady>>, m) = Count(<<>>, m) + (IF SetupReady = m THEN 1 ELSE 0)
    BY <2>1, <2>2, Zenon
  <2> QED  BY <2>3, CountEmpty
<1>5. \A m : Count(fromServer', m) = 0
               \/ (failed' = TRUE /\ m = SetupReady /\ Count(fromServer', m) = 1)
  BY <1>1, <1>4, CountEmpty
<1>6. /\ Count(fromServer', ClientReady) = 0 /\ Count(fromServer', LoginReady) = 0
      /\ Times(ClientReady)' = 0 /\ Len(toServer) = 0 /\ Len(toProxy) \in Nat
  BY <1>3, <1>5, Distinct DEF StartupInv, TypeOK
<1>7. MainInv'
  <2>1. \A m \in Messages : m[2] = "setup" =>
          Times(m)' + Count(fromServer', m) <= IF failed' /\ m = SetupReady THEN 1 ELSE 0
    BY <1>3, <1>5
  <2>2. \A i \in DOMAIN toProxy : toProxy[i] = "query"
    BY DEF StartupInv, MainInv, SetsUp
  <2>3. Times(ClientReady)' + Count(fromServer', ClientReady) + Len(toServer) + Len(toProxy)
          <= asked
    BY <1>6
  <2>4. Times(LoginReady)' + Count(fromServer', LoginReady) <= 1
    BY <1>3, <1>6
  <2> QED  BY <1>1, <2>1, <2>2, <2>3, <2>4 DEF MainInv
<1>8. OpeningInv' /\ LoginInv' /\ SetupInv' /\ ReceivedInv'
  BY <1>1 DEF OpeningInv, LoginInv, SetupInv, ReceivedInv, Opens, LogsIn, SetsUp
<1> QED
  BY <1>2, <1>7, <1>8 DEF StartupInv

LEMMA SkipsResultsKeeps ==
  ASSUME StartupInv, SkipsResults
  PROVE  StartupInv'
<1>1. /\ phase = "drain" /\ buffered # <<>> /\ Type(Head(buffered)) # "ready"
      /\ buffered' = Tail(buffered) /\ phase' = phase /\ failed' = failed /\ DrainUnchanged
      /\ setup' \in {3, setup}
  BY DEF SkipsResults
<1>2. Tail(Line) = <<SetupReady>>
  BY <1>1, DrainFinds, Distinct
<1>3. setup' \in 0 .. 3
  BY <1>1 DEF StartupInv, TypeOK
<1> QED
  BY <1>1, <1>2, <1>3, DrainingOn

LEMMA StatementReadyKeeps ==
  ASSUME StartupInv, StatementReady
  PROVE  StartupInv'
<1>1. /\ phase = "drain" /\ buffered # <<>> /\ Type(Head(buffered)) = "ready"
      /\ UNCHANGED <<setup, failed>> /\ DrainUnchanged
      /\ IF setup = 3 THEN GoesOver ELSE phase' = "setup" /\ buffered' = Tail(buffered)
  BY DEF StatementReady
<1>2. Tail(Line) = <<>> /\ fromServer = <<>>
  <2>1. \A r \in Results : Head(buffered) # Msg(r, "setup")
    BY <1>1, Distinct DEF Results
  <2> QED  BY <1>1, <2>1, DrainFinds
<1>3. CASE setup = 3
  BY <1>1, <1>2, <1>3, DrainFinds, GoingOver
<1>4. CASE setup # 3
  <2>1. setup' \in 0 .. 3 /\ setup' < 3
    BY <1>1, <1>4 DEF StartupInv, TypeOK
  <2> QED  BY <1>1, <1>2, <1>4, <2>1, DrainingOn
<1> QED
  BY <1>3, <1>4

LEMMA StatementFailsKeeps ==
  ASSUME StartupInv, StatementFails
  PROVE  StartupInv'
<1>1. /\ phase = "drain" /\ buffered # <<>> /\ Type(Head(buffered)) = "error"
      /\ failed' = TRUE /\ GoesOver /\ setup' = setup /\ DrainUnchanged
  BY DEF StatementFails
<1>2. /\ Tail(buffered) \in Seq(Messages) /\ Tail(buffered) \o fromServer = Tail(Line)
      /\ Tail(Line) = <<SetupReady>>
      /\ toServer = <<>> /\ server = "serving" /\ Len(toProxy) <= asked
  <2>1. Head(buffered) # SetupReady
    BY <1>1, Distinct
  <2> QED  BY <1>1, <2>1, DrainFinds
<1>3. fromServer \in {<<>>, <<SetupReady>>}
  <2> DEFINE t == Tail(buffered)
  <2>1. fromServer \in Seq(Messages) /\ t \in Seq(Messages) /\ t \o fromServer = <<SetupReady>>
    BY <1>2 DEF StartupInv, TypeOK
  <2> HIDE DEF t
  <2>2. CASE t = <<>>
    BY <2>1, <2>2, ConcatEmptySeq
  <2>3. CASE t # <<>>
    <3>1. Len(t) + Len(fromServer) = 1
      <4>1. Len(t \o fromServer) = 1
        BY <2>1
      <4> QED  BY <2>1, <4>1, ConcatProperties
    <3>2. Len(t) \in Nat \ {0} /\ Len(fromServer) \in Nat
      BY <2>1, <2>3, EmptySeq
    <3>3. Len(fromServer) = 0
      BY <3>1, <3>2
    <3> QED  BY <2>1, <3>3, EmptySeq
  <2> QED  BY <2>2, <2>3
<1> QED
  BY <1>1, <1>2, <1>3, GoingOver

--------------------------------------------------------------------------------
(* The steps of the main loop, and the invariant *)

LEMMA ForwardsKeeps ==
  ASSUME StartupInv, Forwards
  PROVE  StartupInv'
<1>1. /\ phase = "relay" /\ toProxy # <<>>
      /\ toServer' = Append(toServer, Head(toProxy)) /\ toProxy' = Tail(toProxy)
      /\ UNCHANGED <<phase, opening, setup, failed, buffered, received, asked, fromServer,
                     server, rounds, lost>>
  BY DEF Forwards, ServerUnchanged, proxy, database
<1>2. /\ TypeOK /\ toProxy \in Seq(Openings \union {"answer", "query"})
      /\ toServer \in Seq({"startup", "answer", "setup", "query"})
  BY DEF StartupInv, TypeOK
<1>3. /\ \A i \in DOMAIN toServer : toServer[i] = "query"
      /\ \A i \in DOMAIN toProxy : toProxy[i] = "query"
  BY <1>1 DEF StartupInv, MainInv
<1>4. /\ Head(toProxy) = "query" /\ Len(toServer') = Len(toServer) + 1
      /\ Len(toProxy') = Len(toProxy) - 1 /\ Len(toProxy) \in Nat /\ Len(toServer) \in Nat
  BY <1>1, <1>2, <1>3
<1>5. /\ \A i \in DOMAIN toServer' : toServer'[i] = "query"
      /\ \A i \in DOMAIN toProxy' : toProxy'[i] = "query"
  BY <1>1, <1>2, <1>3, <1>4
<1>6. TypeOK'
  <2>1. toProxy' \in Seq(Openings \union {"answer", "query"})
    BY <1>1, <1>2, HeadTailProperties
  <2>2. toServer' \in Seq({"startup", "answer", "setup", "query"})
    BY <1>1, <1>2, <1>4
  <2> QED  BY <1>1, <1>2, <2>1, <2>2 DEF TypeOK
<1>7. MainInv'
  <2>1. Times(ClientReady) \in Nat /\ Count(fromServer, ClientReady) \in Nat
    <3>1. Count(received, ClientReady) \in Nat /\ Count(fromServer, ClientReady) \in Nat
      BY <1>2, CountType DEF TypeOK
    <3> QED  BY <3>1 DEF Times, Count
  <2>2. Times(ClientReady) + Count(fromServer, ClientReady) + Len(toServer) + Len(toProxy)
          <= asked
    BY <1>1 DEF StartupInv, MainInv
  <2>3. Times(ClientReady) + Count(fromServer, ClientReady) + Len(toServer') + Len(toProxy')
          <= asked
    BY <1>4, <2>1, <2>2
  <2> QED  BY <1>1, <1>5, <2>3, NothingReceived DEF StartupInv, MainInv
<1>8. OpeningInv' /\ LoginInv' /\ SetupInv' /\ ReceivedInv'
  BY <1>1 DEF OpeningInv, LoginInv, SetupInv, ReceivedInv, Opens, LogsIn, SetsUp
<1> QED
  BY <1>6, <1>7, <1>8 DEF StartupInv

\* A message relayed is one more received and one less to come.
LEMMA RelaysKeeps ==
  ASSUME StartupInv, Relays
  PROVE  StartupInv'
<1> DEFINE x == Head(fromServer)
<1>1. /\ phase = "relay" /\ fromServer # <<>>
      /\ received' = Append(received, x) /\ fromServer' = Tail(fromServer)
      /\ UNCHANGED <<phase, opening, setup, failed, buffered, toServer, toProxy, asked,
                     server, rounds, lost>>
  BY DEF Relays, ClientUnchanged, proxy, database
<1>2. TypeOK /\ received \in Seq(Messages) /\ fromServer \in Seq(Messages)
  BY DEF StartupInv, TypeOK
<1>3. x \in Messages /\ fromServer' \in Seq(Messages)
  BY <1>1, <1>2, HeadTailProperties
<1>4. /\ received' \in Seq(Messages)
      /\ \A m : Times(m) \in Nat /\ Times(m)' = Times(m) + (IF x = m THEN 1 ELSE 0)
  BY <1>1, <1>2, <1>3, ReceivedOne
<1>5. \A m : /\ Count(fromServer', m) \in Nat
             /\ Count(fromServer, m) = Count(fromServer', m) + (IF x = m THEN 1 ELSE 0)
  BY <1>1, <1>2, <1>3, CountTail, CountType
<1>6. \A m : Times(m)' + Count(fromServer', m) = Times(m) + Count(fromServer, m)
  BY <1>4, <1>5
<1>7. TypeOK'
  BY <1>1, <1>2, <1>3, <1>4 DEF TypeOK
<1>8. MainInv'
  <2>1. Times(ClientReady)' + Count(fromServer', ClientReady) + Len(toServer) + Len(toProxy)
          <= asked
    BY <1>1, <1>6 DEF StartupInv, MainInv
  <2>2. \A m \in Messages : m[2] = "setup" =>
          Times(m)' + Count(fromServer', m) <= IF failed /\ m = SetupReady THEN 1 ELSE 0
    BY <1>1, <1>6 DEF StartupInv, MainInv
  <2>3. Times(LoginReady)' + Count(fromServer', LoginReady) <= 1
    BY <1>1, <1>6 DEF StartupInv, MainInv
  <2> QED  BY <1>1, <2>1, <2>2, <2>3 DEF StartupInv, MainInv
<1>9. OpeningInv' /\ LoginInv' /\ SetupInv' /\ ReceivedInv'
  BY <1>1 DEF OpeningInv, LoginInv, SetupInv, ReceivedInv, Opens, LogsIn, SetsUp
<1> QED
  BY <1>7, <1>8, <1>9 DEF StartupInv

LEMMA BreaksKeeps ==
  ASSUME StartupInv, Breaks
  PROVE  StartupInv'
<1>1. /\ phase' = "closed" /\ lost' = TRUE
      /\ UNCHANGED <<opening, setup, failed, buffered, toProxy, received, toServer, fromServer,
                     server, rounds, asked>>
  BY DEF Breaks, database
<1>2. TypeOK' /\ asked' >= asked
  BY <1>1 DEF StartupInv, TypeOK
<1> QED
  BY <1>1, <1>2, ClosedKeeps

LEMMA StartupKept == StartupInv /\ [Next]_vars => StartupInv'
<1> SUFFICES ASSUME StartupInv, [Next]_vars PROVE StartupInv'
  OBVIOUS
<1>1. ASSUME NEW o \in Openings, Proceeds(o) PROVE StartupInv'
  BY <1>1, ProceedsKeeps
<1>2. CASE AnswersRequest \/ AsksQuery
  BY <1>2, AnswersRequestKeeps, AsksQueryKeeps
<1>3. CASE Server
  BY <1>3, ServerKeeps
<1>4. CASE Session
  BY <1>4, ReadsOpeningKeeps, DialsKeeps, DialFailsKeeps, ReadsAheadKeeps, RelaysLoginKeeps,
     RelaysAnswerKeeps, SendsSetupKeeps, SkipsResultsKeeps, StatementReadyKeeps,
     StatementFailsKeeps DEF Session
<1>5. CASE Forwards \/ Relays \/ Breaks
  BY <1>5, ForwardsKeeps, RelaysKeeps, BreaksKeeps
<1>6. CASE UNCHANGED vars
  <2>1. /\ UNCHANGED <<phase, opening, setup, failed, buffered, toProxy, received, toServer,
                       fromServer, server, rounds, asked, lost>>
        /\ \A m : Times(m)' = Times(m)
    BY <1>6, NothingReceived DEF vars, proxy, database
  <2>2. TypeOK' /\ OpeningInv' /\ LoginInv' /\ SetupInv'
    <3>1. Line' = Line
      BY <2>1 DEF Line
    <3>2. TypeOK'
      BY <2>1 DEF StartupInv, TypeOK
    <3>3. OpeningInv'
      BY <2>1, <3>1 DEF StartupInv, OpeningInv
    <3>4. LoginInv'
      BY <2>1, <3>1 DEF StartupInv, LoginInv
    <3>5. SetupInv'
      BY <2>1, <3>1 DEF StartupInv, SetupInv
    <3> QED  BY <3>2, <3>3, <3>4, <3>5
  <2>3. MainInv'
    BY <2>1 DEF StartupInv, MainInv
  <2>4. ReceivedInv'
    BY <2>1 DEF StartupInv, ReceivedInv, RepliesMatch
  <2> QED  BY <2>2, <2>3, <2>4 DEF StartupInv
<1> QED
  BY <1>1, <1>2, <1>3, <1>4, <1>5, <1>6 DEF Next

LEMMA StartupInvariant == Spec => []StartupInv
BY StartupInit, StartupKept, PTL DEF Spec

--------------------------------------------------------------------------------
(* What the client may rely on *)

\* Every variable keeps its type: nobody is sent a message meant for somebody else.
THEOREM StartupTypeCorrect == Spec => []TypeOK
<1>1. StartupInv => TypeOK
  BY DEF StartupInv
<1> QED
  BY <1>1, StartupInvariant, PTL

\* The client's conversation is its own, whatever the setup of its connection meets with.
THEOREM RepliesAreTheClients == Spec => []RepliesMatch
BY Matches, StartupInvariant, PTL
================================================================================
