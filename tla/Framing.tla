--------------------------------- MODULE Framing --------------------------------
(***************************************************************************)
(* What the forwarder of mainLoop makes of the client's byte stream        *)
(* (pkg/proxy/proxy.go: the Client -> Backend goroutine, extractQuery,     *)
(* drainExtendedQuery, extractParseQuery).  It looks at the first message  *)
(* of each chunk clientConn.Read returns, and only at that: a GenDB        *)
(* command is executed and the chunk dropped, anything else is relayed.    *)
(*                                                                         *)
(* The stream is a sequence of pieces, and chunks end between any two.  A  *)
(* message is its five-byte head, the type and the length, and the rest;   *)
(* of a Query and a Parse, what tells a GenDB command, up to its prefix,   *)
(* is a piece of its own, the text.  Sync and Flush are a head alone.      *)
(* Messages come in batches, the client's requests, and a piece knows its  *)
(* place in its batch.  Abstractions: a chunk that begins in the middle of *)
(* a message is not taken for a Query or a Parse, and a whole message fits *)
(* the 4096 bytes of drainBuf.                                             *)
(***************************************************************************)
EXTENDS Naturals, FiniteSets, Sequences, Functions

CONSTANTS Kinds,       \* the kinds of batch the client sends
          MaxBatches,  \* bound on the batches
          Window       \* batches sent ahead of their answers: 1 is a client that waits

\* The batches by kind, piece by piece, a head by the type of its message: a query, a
\* CALL as a query, either of them in the extended protocol, a CALL prepared and later
\* executed, a CALL parsed with Flush for Sync.
Batch == [query    |-> <<"Q", "text", "rest">>,
          call     |-> <<"Q", "text", "rest">>,
          extended |-> <<"P", "text", "rest", "B", "rest", "E", "rest", "S">>,
          extcall  |-> <<"P", "text", "rest", "B", "rest", "E", "rest", "S">>,
          prepare  |-> <<"P", "text", "rest", "D", "rest", "S">>,
          execute  |-> <<"B", "rest", "E", "rest", "S">>,
          flush    |-> <<"P", "text", "rest", "H">>]

ASSUME FramingAssumption == /\ Kinds \subseteq DOMAIN Batch
                            /\ MaxBatches \in Nat /\ Window \in Nat \ {0}

VARIABLES sent,       \* the kinds of the batches sent, in order
          stream,     \* pieces sent and not yet read
          toBackend,  \* pieces relayed to the backend
          executed,   \* batches whose command was handed to handleGenDBCommand
          draining,   \* the batch whose Sync drainExtendedQuery waits for, 0 for none
          torn,       \* ghost: a chunk ended inside a message, or a drain before its Sync came
          early       \* ghost: a command was handed over with a message half read

vars == <<sent, stream, toBackend, executed, draining, torn, early>>

Bare == {"S", "H"}          \* messages that are a head alone
Inner == {"text", "rest"}   \* what is not a head
Types == {"Q", "P", "B", "D", "E"} \union Inner \union Bare
Piece(b, kind, i) == [batch |-> b, place |-> i, type |-> Batch[kind][i]]
PiecesOf(b, kind) == [i \in DOMAIN Batch[kind] |-> Piece(b, kind, i)]

\* A command is known by its text, which the Bind and Execute of a prepared one lack.
IsCommand(b) == sent[b] \in {"call", "extcall", "prepare", "flush"}

PieceOf(batches) == [batch : batches, place : Nat \ {0}, type : Types]

TypeOK == /\ sent \in Seq(Kinds) /\ Len(sent) <= MaxBatches
          /\ stream \in Seq(PieceOf(DOMAIN sent)) /\ toBackend \in Seq(PieceOf(DOMAIN sent))
          /\ executed \in Seq(DOMAIN sent)
          /\ draining \in 0 .. Len(sent) /\ torn \in BOOLEAN /\ early \in BOOLEAN

Init == /\ sent = <<>> /\ stream = <<>> /\ toBackend = <<>>
        /\ executed = <<>> /\ draining = 0 /\ torn = FALSE /\ early = FALSE

LastPiece(b) == Piece(b, sent[b], Len(Batch[sent[b]]))
Answered(b) == b \in Range(executed) \/ LastPiece(b) \in Range(toBackend)

\* The client sends a batch at once; it executes what it has prepared.
ClientSends(kind) ==
  /\ Len(sent) < MaxBatches
  /\ Cardinality({b \in DOMAIN sent : ~Answered(b)}) < Window
  /\ kind = "execute" => "prepare" \in Range(sent)
  /\ sent' = Append(sent, kind)
  /\ stream' = stream \o PiecesOf(Len(sent'), kind)
  /\ UNCHANGED <<toBackend, executed, draining, torn, early>>

\* The next chunk will begin inside a message.
Cut(pieces) == pieces # <<>> /\ pieces[1].type \in Inner

\* clientConn.Read returns some of what has arrived: TCP keeps no boundaries.
Consume(n) == /\ stream' = SubSeq(stream, n + 1, Len(stream))
              /\ torn' = (torn \/ Cut(stream'))

\* handleGenDBCommand, with the text found in the message so far.
Executes(b) == /\ executed' = Append(executed, b)
               /\ early' = (early \/ Cut(stream'))

\* Mutant: every Query and every Parse is taken for a GenDB command.
StartsAnything(data, type) == /\ Len(data) > 1
                              /\ data[1].type = type

\* len(data) > 5 && data[0] is the type of a message with a query, and the query
\* extractQuery or extractParseQuery finds in what has been read of it has the GenDB prefix.
StartsCommand(data, type) == /\ Len(data) > 1
                             /\ data[1].type = type
                             /\ IsCommand(data[1].batch)

\* The walk over the messages of a buffer finds a Sync if it starts at a message; otherwise
\* it takes some bytes for a head, and there is no telling what it finds.
HasSync(data) == \E i \in DOMAIN data : data[i].type = "S"
SyncFound(data) == IF data[1].type \in Inner THEN BOOLEAN ELSE {HasSync(data)}

\* A Query with a GenDB command: executed; the rest of the chunk, too, is dropped.
ExecutesQuery(n) ==
  LET data == SubSeq(stream, 1, n) IN
    /\ draining = 0 /\ StartsCommand(data, "Q")
    /\ Consume(n) /\ Executes(data[1].batch)
    /\ UNCHANGED <<sent, toBackend, draining>>

\* Mutant: the rest of the extended protocol is not drained.
ExecutesParseAtOnce(n) ==
  LET data == SubSeq(stream, 1, n) IN
    /\ draining = 0 /\ StartsCommand(data, "P")
    /\ Consume(n) /\ Executes(data[1].batch)
    /\ UNCHANGED <<sent, toBackend, draining>>

\* A Parse with a GenDB command: executed once a Sync is found, in this chunk or
\* in a later one; all these chunks are dropped.
ExecutesParse(n) ==
  LET data == SubSeq(stream, 1, n) IN
    /\ draining = 0 /\ StartsCommand(data, "P")
    /\ Consume(n)
    /\ IF HasSync(data)
       THEN Executes(data[1].batch) /\ UNCHANGED draining
       ELSE draining' = data[1].batch /\ UNCHANGED <<executed, early>>
    /\ UNCHANGED <<sent, toBackend>>

\* Mutant: the drain goes on after the Sync.
DrainsOn(n) ==
  LET data == SubSeq(stream, 1, n) IN
    /\ draining # 0
    /\ Consume(n)
    /\ IF HasSync(data) THEN Executes(draining) ELSE UNCHANGED <<executed, early>>
    /\ UNCHANGED <<sent, toBackend, draining>>

Drains(n) ==
  LET data == SubSeq(stream, 1, n) IN
    /\ draining # 0
    /\ Consume(n)
    /\ \E found \in SyncFound(data) :
         IF found THEN Executes(draining) /\ draining' = 0
         ELSE UNCHANGED <<executed, early, draining>>
    /\ UNCHANGED <<sent, toBackend>>

\* Mutant: no deadline is set, so Read never times out.
DrainHasNoDeadline == /\ FALSE
                      /\ UNCHANGED vars

\* Five seconds without data: the drain gives up, the command is executed.  What the
\* client has sent may still be on its way.
DrainTimesOut ==
  /\ draining # 0 /\ draining' = 0
  /\ torn' = (torn \/ stream # <<>>)
  /\ UNCHANGED <<sent, stream, toBackend>>
  /\ Executes(draining)

\* Mutant: the type byte that was looked at is not relayed with the rest.
RelaysRest(n) ==
  LET data == SubSeq(stream, 1, n) IN
    /\ draining = 0 /\ ~StartsCommand(data, "Q") /\ ~StartsCommand(data, "P")
    /\ toBackend' = toBackend \o Tail(data)
    /\ Consume(n)
    /\ UNCHANGED <<sent, executed, draining, early>>

\* Anything else goes to the backend as it is.
Relays(n) ==
  LET data == SubSeq(stream, 1, n) IN
    /\ draining = 0 /\ ~StartsCommand(data, "Q") /\ ~StartsCommand(data, "P")
    /\ toBackend' = toBackend \o data
    /\ Consume(n)
    /\ UNCHANGED <<sent, executed, draining, early>>

Reads == \E n \in 1 .. Len(stream) : ExecutesQuery(n) \/ ExecutesParse(n) \/ Drains(n) \/ Relays(n)

Next == (\E kind \in Kinds : ClientSends(kind)) \/ Reads \/ DrainTimesOut

\* The forwarder reads what has arrived, and the timer of the drain runs out.
Spec == Init /\ [][Next]_vars /\ WF_vars(Reads) /\ WF_vars(DrainTimesOut)

--------------------------------------------------------------------------------
(* What must hold *)

Drained == stream = <<>> /\ draining = 0

\* "prevent them from leaking to the backend" (proxy.go:231, 604): no piece of a
\* GenDB command, in either protocol, reaches the backend of a client that waits,
\* unless the network tore a message apart or held up a Sync.  What executes a command
\* that was prepared in an earlier batch is not among them: it does reach the backend.
NoLeak == \/ torn
          \/ \A i \in DOMAIN toBackend : ~IsCommand(toBackend[i].batch)

\* The backend can parse what it is sent, whole messages one after the other, however the
\* chunks were cut: each piece that is not a head follows the one before it in its
\* message, each that does not end its message is followed by the next.  Until a command is
\* handed over that has not been read to the end of its message: what is left of that is
\* relayed (proxy.go:240), and the backend takes text for a head.
BackendAligned ==
  \/ early
  \/ /\ ~Cut(toBackend)
     /\ \A i \in 1 .. Len(toBackend) - 1 :
          LET p == toBackend[i]
              q == toBackend[i + 1]
          IN  q.type \in Inner \/ p.type \notin Bare \union {"rest"}
                => q.type \in Inner /\ q.batch = p.batch /\ q.place = p.place + 1

Before(p, q) == p.batch < q.batch \/ (p.batch = q.batch /\ p.place < q.place)

\* "the raw bytes are forwarded to the database" (docs/guide/proxy.md:56): what has
\* reached the backend is in the order sent, nothing twice, and once everything is
\* read all that the client sent and is no GenDB command has reached it.
NothingLost ==
  /\ \A i, j \in DOMAIN toBackend : i < j => Before(toBackend[i], toBackend[j])
  /\ Drained => \A b \in DOMAIN sent :
       ~IsCommand(b) => Range(PiecesOf(b, sent[b])) \subseteq Range(toBackend)

\* No batch is executed twice or out of order, and once everything is read each GenDB
\* command has been executed, by the drain or by its timeout, and nothing else has.
\* One that the network tore apart may have been relayed instead.
EachCommandOnce ==
  /\ \A i, j \in DOMAIN executed : i < j => executed[i] < executed[j]
  /\ Drained /\ ~torn => Range(executed) = {b \in DOMAIN sent : IsCommand(b)}

\* An intercepted command never waits forever for a Sync that does not come.
DrainEnds == (draining # 0) ~> (draining = 0)
================================================================================
