----------------------------- MODULE FramingProofs -----------------------------
(***************************************************************************)
(* What the forwarder makes of the byte stream of a client, for any number *)
(* of batches of any kinds, cut into chunks anywhere.  That the backend is *)
(* sent whole messages until a command is handed over too early holds for  *)
(* any client (AnyInv); the other promises are made to one that waits for  *)
(* each answer (Window = 1), for which only the last batch may be          *)
(* unanswered (WaitInv).                                                   *)
(***************************************************************************)
EXTENDS Framing, FiniteSetTheorems, SequenceTheorems, TLAPS

Cur     == Len(sent)                  \* the last batch sent
Size(b) == Len(Batch[sent[b]])
P(b, i) == Piece(b, sent[b], i)
Ends(p) == p.type \in Bare \union {"rest"}   \* p is the end of a message

\* p is a piece of a batch that was sent.
Valid(p) == /\ p.batch \in DOMAIN sent /\ p.place \in 1 .. Size(p.batch)
            /\ p = P(p.batch, p.place)

\* q is what the client sends next after p.
Follows(p, q) == \/ q.batch = p.batch /\ q.place = p.place + 1
                 \/ q.batch = p.batch + 1 /\ q.place = 1 /\ p.place = Size(p.batch)

\* p comes after the head of batch b.
Behind(p, b) == b < p.batch \/ (b = p.batch /\ 1 < p.place)

\* What is not read yet is the end of what was sent, without a gap.
StreamInv ==
  /\ \A i \in DOMAIN stream : Valid(stream[i])
  /\ \A i \in 1 .. Len(stream) - 1 : Follows(stream[i], stream[i + 1])
  /\ \A i, j \in DOMAIN stream : i < j => Before(stream[i], stream[j])
  /\ stream # <<>> => stream[Len(stream)] = P(Cur, Size(Cur))

\* The backend has pieces of what was read, in order.
BackendInv ==
  /\ \A i \in DOMAIN toBackend : Valid(toBackend[i])
  /\ \A i, j \in DOMAIN toBackend : i < j => Before(toBackend[i], toBackend[j])
  /\ \A i \in DOMAIN toBackend, j \in DOMAIN stream : Before(toBackend[i], stream[j])

\* Commands are executed in order, none before its head was read; the one being drained is
\* the next, and nothing of it or behind it is at the backend.
CommandInv ==
  /\ \A i, j \in DOMAIN executed : i < j => executed[i] < executed[j]
  /\ \A i \in DOMAIN executed : IsCommand(executed[i])
  /\ \A i \in DOMAIN executed, j \in DOMAIN stream : Behind(stream[j], executed[i])
  /\ draining # 0 =>
       /\ draining \in DOMAIN sent /\ IsCommand(draining)
       /\ \A i \in DOMAIN executed : executed[i] < draining
       /\ \A j \in DOMAIN stream : Behind(stream[j], draining)
       /\ \A i \in DOMAIN toBackend : toBackend[i].batch < draining

\* Until a command is handed over too early, the backend is at the end of a message, or the
\* next piece to be read is the one it waits for.
Waiting == /\ toBackend # <<>>
           /\ LET p == toBackend[Len(toBackend)] IN
                stream[1].batch = p.batch /\ stream[1].place = p.place + 1
AtEnd == toBackend # <<>> => Ends(toBackend[Len(toBackend)])
Linked(p, q) == q.type \in Inner \/ ~Ends(p)
                  => q.type \in Inner /\ q.batch = p.batch /\ q.place = p.place + 1
Whole == /\ ~Cut(toBackend)
         /\ \A i \in 1 .. Len(toBackend) - 1 : Linked(toBackend[i], toBackend[i + 1])
AlignedInv == ~early => /\ Whole
                        /\ IF draining = 0 /\ Cut(stream) THEN Waiting ELSE AtEnd

AnyInv == TypeOK /\ StreamInv /\ BackendInv /\ CommandInv /\ AlignedInv

--------------------------------------------------------------------------------
(* The shape of a batch *)

\* A batch begins with a head; an inner piece follows each piece that does not end its
\* message, and only such a piece; it ends with the end of a message.  A Query or a Parse
\* can only be its first piece, a Query is all there is, and a Sync is the last piece.
Shaped(s) ==
  /\ s \in Seq(Types) /\ Len(s) >= 2
  /\ s[1] \notin Inner /\ s[2] \in Inner
  /\ s[Len(s)] \in Bare \union {"rest"}
  /\ \A i \in 1 .. Len(s) - 1 : s[i + 1] \in Inner <=> s[i] \notin Bare \union {"rest"}
  /\ \A i \in 1 .. Len(s) : /\ s[i] = "S" => i = Len(s)
                            /\ s[i] \in {"Q", "P"} => i = 1
  /\ s[1] = "Q" => Len(s) = 3 /\ s[3] \in Inner

LEMMA Shapes ==
  ASSUME NEW kind \in DOMAIN Batch
  PROVE  /\ Shaped(Batch[kind])
         /\ kind \in {"call", "extcall", "prepare", "flush"} => Batch[kind][1] \in {"Q", "P"}
<1>1. Shaped(<<"Q", "text", "rest">>)
  BY DEF Shaped, Types, Bare, Inner
<1>2. Shaped(<<"P", "text", "rest", "B", "rest", "E", "rest", "S">>)
  BY DEF Shaped, Types, Bare, Inner
<1>3. Shaped(<<"P", "text", "rest", "D", "rest", "S">>)
  BY DEF Shaped, Types, Bare, Inner
<1>4. Shaped(<<"B", "rest", "E", "rest", "S">>)
  BY DEF Shaped, Types, Bare, Inner
<1>5. Shaped(<<"P", "text", "rest", "H">>)
  BY DEF Shaped, Types, Bare, Inner
<1>6. kind \in {"query", "call", "extended", "extcall", "prepare", "execute", "flush"}
  BY DEF Batch
<1>7. /\ Batch["query"] = <<"Q", "text", "rest">> /\ Batch["call"] = <<"Q", "text", "rest">>
      /\ Batch["extended"] = <<"P", "text", "rest", "B", "rest", "E", "rest", "S">>
      /\ Batch["extcall"] = <<"P", "text", "rest", "B", "rest", "E", "rest", "S">>
      /\ Batch["prepare"] = <<"P", "text", "rest", "D", "rest", "S">>
      /\ Batch["execute"] = <<"B", "rest", "E", "rest", "S">>
      /\ Batch["flush"] = <<"P", "text", "rest", "H">>
  BY DEF Batch
<1>8. Shaped(Batch[kind])
  BY <1>1, <1>2, <1>3, <1>4, <1>5, <1>6, <1>7
<1>9. kind \in {"call", "extcall", "prepare", "flush"} => Batch[kind][1] \in {"Q", "P"}
  BY <1>7
<1> QED
  BY <1>8, <1>9

--------------------------------------------------------------------------------
(* Types *)

\* The pieces of a batch that can be sent.
LEMMA PiecesType ==
  ASSUME NEW kind \in Kinds, NEW b \in Nat
  PROVE  /\ kind \in DOMAIN Batch /\ Shaped(Batch[kind])
         /\ Len(PiecesOf(b, kind)) = Len(Batch[kind])
         /\ DOMAIN PiecesOf(b, kind) = 1 .. Len(Batch[kind])
         /\ \A i \in 1 .. Len(Batch[kind]) : PiecesOf(b, kind)[i] = Piece(b, kind, i)
         /\ \A S : b \in S => PiecesOf(b, kind) \in Seq(PieceOf(S))
<1>1. kind \in DOMAIN Batch /\ Shaped(Batch[kind])
  BY FramingAssumption, Shapes
<1> DEFINE s == Batch[kind]
<1>2. s \in Seq(Types) /\ DOMAIN s = 1 .. Len(s) /\ Len(s) \in Nat
  BY <1>1 DEF Shaped
<1> HIDE DEF s
<1>3. PiecesOf(b, kind) = [i \in 1 .. Len(s) |-> Piece(b, kind, i)]
  BY <1>2 DEF PiecesOf, s
<1>4. ASSUME NEW S, b \in S
      PROVE  PiecesOf(b, kind) \in Seq(PieceOf(S))
  <2>1. \A i \in 1 .. Len(s) : Piece(b, kind, i) \in PieceOf(S)
    BY <1>2, <1>4 DEF Piece, PieceOf, s
  <2> QED  BY <1>2, <1>3, <2>1
<1>5. Len(PiecesOf(b, kind)) = Len(s)
  BY <1>2, <1>3
<1> QED
  BY <1>1, <1>2, <1>3, <1>4, <1>5 DEF s

\* Every variable keeps its type.
LEMMA FramingType == Init => TypeOK
<1> SUFFICES ASSUME Init PROVE TypeOK
  OBVIOUS
<1>1. torn \in BOOLEAN /\ early \in BOOLEAN
  BY Zenon DEF Init
<1> QED  BY <1>1, FramingAssumption DEF Init, TypeOK

LEMMA FramingTypeNext == TypeOK /\ [Next]_vars => TypeOK'
<1> SUFFICES ASSUME TypeOK, [Next]_vars PROVE TypeOK'
  OBVIOUS
<1> DEFINE R == PieceOf(DOMAIN sent)
<1>1. ASSUME NEW kind \in Kinds, ClientSends(kind) PROVE TypeOK'
  <2>1. /\ sent' = Append(sent, kind) /\ Len(sent) < MaxBatches
        /\ stream' = stream \o PiecesOf(Len(sent'), kind)
        /\ UNCHANGED <<toBackend, executed, draining, torn, early>>
    BY <1>1 DEF ClientSends
  <2>2. /\ sent' \in Seq(Kinds) /\ Len(sent') = Len(sent) + 1 /\ Len(sent) \in Nat
        /\ DOMAIN sent = 1 .. Len(sent) /\ DOMAIN sent' = 1 .. Len(sent')
    BY <2>1 DEF TypeOK
  <2> DEFINE Q == PieceOf(DOMAIN sent')
  <2>3. R \subseteq Q /\ DOMAIN sent \subseteq DOMAIN sent'
    BY <2>2 DEF PieceOf
  <2>4. PiecesOf(Len(sent'), kind) \in Seq(Q)
    <3>1. Len(sent') \in Nat /\ Len(sent') \in DOMAIN sent'
      BY <2>2
    <3> QED  BY <3>1, PiecesType
  <2>5. stream \in Seq(R) /\ toBackend \in Seq(R) /\ executed \in Seq(DOMAIN sent)
    BY DEF TypeOK
  <2> HIDE DEF R, Q
  <2>6. stream \in Seq(Q) /\ toBackend \in Seq(Q) /\ executed \in Seq(DOMAIN sent')
    BY <2>3, <2>5
  <2>7. stream' \in Seq(Q)
    BY <2>1, <2>4, <2>6
  <2>8. draining' \in 0 .. Len(sent') /\ torn' \in BOOLEAN /\ early' \in BOOLEAN
    BY <2>1, <2>2 DEF TypeOK
  <2> QED  BY <2>1, <2>2, <2>6, <2>7, <2>8, FramingAssumption DEF TypeOK, Q
<1>2. ASSUME NEW n \in 1 .. Len(stream),
             ExecutesQuery(n) \/ ExecutesParse(n) \/ Drains(n) \/ Relays(n)
      PROVE  TypeOK'
  <2> DEFINE data == SubSeq(stream, 1, n)
  <2>1. /\ stream \in Seq(R) /\ toBackend \in Seq(R) /\ executed \in Seq(DOMAIN sent)
        /\ draining \in 0 .. Len(sent) /\ torn \in BOOLEAN /\ early \in BOOLEAN
    BY DEF TypeOK
  <2>2. sent' = sent /\ Consume(n)
    BY <1>2 DEF ExecutesQuery, ExecutesParse, Drains, Relays
  <2> HIDE DEF R
  <2>3. stream' \in Seq(R)
    BY <2>1, <2>2 DEF Consume
  <2>4. torn' \in BOOLEAN
    BY <2>1, <2>2, Zenon DEF Consume
  <2>5. data \in Seq(R) /\ data[1] \in R
    BY <2>1
  <2>6. data[1].batch \in DOMAIN sent
    BY <2>5 DEF R, PieceOf
  <2> HIDE DEF data
  <2>7. toBackend' = toBackend \/ toBackend' = toBackend \o data
    BY <1>2 DEF ExecutesQuery, ExecutesParse, Drains, Relays, data
  <2>8. toBackend' \in Seq(R)
    <3>1. toBackend \o data \in Seq(R)
      BY <2>1, <2>5
    <3> QED  BY <2>1, <2>7, <3>1
  <2>9. /\ draining' \in {0, draining, data[1].batch}
        /\ \/ executed' = executed
           \/ executed' = Append(executed, data[1].batch)
           \/ draining # 0 /\ executed' = Append(executed, draining)
    <3>1. CASE ExecutesQuery(n) \/ ExecutesParse(n)
      BY <3>1 DEF ExecutesQuery, ExecutesParse, Executes, data
    <3>2. CASE Drains(n)
      BY <3>2 DEF Drains, Executes, data
    <3>3. CASE Relays(n)
      BY <3>3 DEF Relays
    <3> QED  BY <1>2, <3>1, <3>2, <3>3
  <2>10. DOMAIN sent = 1 .. Len(sent) /\ Len(sent) \in Nat
    BY DEF TypeOK
  <2>11. executed' \in Seq(DOMAIN sent) /\ draining' \in 0 .. Len(sent)
    <3>1. Append(executed, data[1].batch) \in Seq(DOMAIN sent)
      BY <2>1, <2>6
    <3>2. draining # 0 => Append(executed, draining) \in Seq(DOMAIN sent)
      BY <2>1, <2>10
    <3>3. draining' \in 0 .. Len(sent)
      BY <2>1, <2>6, <2>9, <2>10
    <3> QED  BY <2>1, <2>9, <3>1, <3>2, <3>3
  <2>12. early' \in BOOLEAN
    <3>1. early' = early \/ early' = (early \/ Cut(stream'))
      BY <1>2, Zenon DEF ExecutesQuery, ExecutesParse, Drains, Relays, Executes
    <3> QED  BY <2>1, <3>1, Zenon
  <2> QED  BY <2>2, <2>3, <2>4, <2>8, <2>11, <2>12, FramingAssumption DEF TypeOK, R
<1>3. ASSUME DrainTimesOut PROVE TypeOK'
  <2>1. draining # 0 /\ draining' = 0 /\ UNCHANGED <<sent, stream, toBackend>>
    BY <1>3 DEF DrainTimesOut
  <2>2. executed' = Append(executed, draining)
    BY <1>3 DEF DrainTimesOut, Executes
  <2>3. torn' \in BOOLEAN /\ early' \in BOOLEAN
    BY <1>3, Zenon DEF DrainTimesOut, Executes, TypeOK
  <2>4. draining \in DOMAIN sent /\ executed \in Seq(DOMAIN sent) /\ 0 \in 0 .. Len(sent)
    BY <2>1 DEF TypeOK
  <2>5. executed' \in Seq(DOMAIN sent)
    BY <2>2, <2>4
  <2> QED  BY <2>1, <2>3, <2>4, <2>5, FramingAssumption DEF TypeOK
<1>4. CASE UNCHANGED vars
  BY <1>4 DEF vars, TypeOK
<1> QED
  BY <1>1, <1>2, <1>3, <1>4 DEF Next, Reads

\* The types hold however many batches the client sends ahead.
THEOREM FramingTypeCorrect == Spec => []TypeOK
  BY FramingType, FramingTypeNext, PTL DEF Spec

--------------------------------------------------------------------------------
(* Pieces and chunks *)

\* A batch that was sent has a shape; its pieces are of it.
LEMMA SentShape ==
  ASSUME TypeOK, NEW b \in DOMAIN sent
  PROVE  /\ Shaped(Batch[sent[b]]) /\ b \in Nat /\ b # 0
         /\ Size(b) \in Nat /\ Size(b) >= 2
         /\ \A i : /\ P(b, i).batch = b /\ P(b, i).place = i
                   /\ P(b, i).type = Batch[sent[b]][i]
         /\ \A i \in 1 .. Size(b) : Valid(P(b, i))
         /\ IsCommand(b) => P(b, 1).type \in {"Q", "P"}
<1>1. sent[b] \in DOMAIN Batch /\ b \in Nat /\ b # 0
  BY FramingAssumption DEF TypeOK
<1>2. Shaped(Batch[sent[b]])
  BY <1>1, Shapes
<1>3. \A i : /\ P(b, i).batch = b /\ P(b, i).place = i
             /\ P(b, i).type = Batch[sent[b]][i]
  BY DEF P, Piece
<1>4. IsCommand(b) => P(b, 1).type \in {"Q", "P"}
  BY <1>1, <1>3, Shapes DEF IsCommand
<1>5. \A i \in 1 .. Size(b) : Valid(P(b, i))
  BY <1>3 DEF Valid
<1> QED
  BY <1>1, <1>2, <1>3, <1>4, <1>5 DEF Size, Shaped

\* What a piece's type says of its place.
LEMMA PieceShape ==
  ASSUME TypeOK, NEW p, Valid(p)
  PROVE  /\ p.batch \in 1 .. Cur /\ p.place \in Nat /\ p.place >= 1
         /\ p.place <= Size(p.batch)
         /\ p.place = 1 => p.type \notin Inner
         /\ p.place = Size(p.batch) => Ends(p)
         /\ p.type \in {"Q", "P"} => p.place = 1
         /\ p.type = "S" => p.place = Size(p.batch)
         /\ IsCommand(p.batch) /\ p.place = 1 => p.type \in {"Q", "P"}
<1>1. /\ Shaped(Batch[sent[p.batch]]) /\ Size(p.batch) \in Nat
      /\ p.type = Batch[sent[p.batch]][p.place]
      /\ IsCommand(p.batch) => P(p.batch, 1).type \in {"Q", "P"}
  BY SentShape DEF Valid
<1>2. p.batch \in 1 .. Cur /\ p.place \in 1 .. Size(p.batch)
  BY DEF Valid, TypeOK, Cur
<1>3. IsCommand(p.batch) /\ p.place = 1 => p.type \in {"Q", "P"}
  BY <1>1 DEF Valid
<1> QED
  BY <1>1, <1>2, <1>3 DEF Shaped, Size, Ends

\* And of two pieces that follow each other: the second is inside a message if the first
\* does not end one, which is then the same.
LEMMA FollowShape ==
  ASSUME TypeOK, NEW p, NEW q, Valid(p), Valid(q), Follows(p, q)
  PROVE  /\ q.type \in Inner <=> ~Ends(p)
         /\ q.type \in Inner => q.batch = p.batch /\ q.place = p.place + 1
<1>1. CASE q.batch = p.batch /\ q.place = p.place + 1
  <2>0. p.batch \in DOMAIN sent /\ p = P(p.batch, p.place) /\ q = P(p.batch, p.place + 1)
    BY <1>1 DEF Valid
  <2>1. /\ Shaped(Batch[sent[p.batch]]) /\ Size(p.batch) \in Nat
        /\ p.type = Batch[sent[p.batch]][p.place]
        /\ q.type = Batch[sent[p.batch]][p.place + 1]
    BY <2>0, SentShape
  <2>2. p.place \in 1 .. Len(Batch[sent[p.batch]]) - 1
    BY <1>1, <2>1 DEF Valid, Size
  <2> QED  BY <1>1, <2>1, <2>2 DEF Shaped, Ends
<1>2. CASE q.batch = p.batch + 1 /\ q.place = 1 /\ p.place = Size(p.batch)
  BY <1>2, PieceShape
<1> QED
  BY <1>1, <1>2 DEF Follows

\* What SubSeq leaves of a sequence behind its first n elements.
LEMMA Suffix ==
  ASSUME NEW S, NEW s \in Seq(S), NEW n \in 1 .. Len(s)
  PROVE  LET r == SubSeq(s, n + 1, Len(s)) IN
         /\ r \in Seq(S) /\ Len(r) = Len(s) - n
         /\ \A i \in 1 .. Len(s) - n : r[i] = s[i + n]
         /\ r = <<>> <=> n = Len(s)
<1>1. Len(s) \in Nat /\ n \in Nat /\ n >= 1 /\ n <= Len(s)
  OBVIOUS
<1>2. \A i \in n + 1 .. Len(s) : s[i] \in S
  BY <1>1
<1> DEFINE m == n + 1
           l == Len(s)
           r == SubSeq(s, m, l)
<1>3. m \in Int /\ l \in Int
  BY <1>1
<1>4. \A i \in m .. l : s[i] \in S
  BY <1>2
<1> HIDE DEF m, l
<1>5. /\ r \in Seq(S)
      /\ Len(r) = IF m <= l THEN l - m + 1 ELSE 0
      /\ \A i \in 1 .. l - m + 1 : r[i] = s[m + i - 1]
  BY <1>3, <1>4, SubSeqProperties
<1> HIDE DEF r
<1>6. r = <<>> <=> Len(r) = 0
  BY <1>5, EmptySeq
<1>7. Len(r) = l - n /\ \A i \in 1 .. l - n : r[i] = s[i + n]
  BY <1>1, <1>5 DEF m, l
<1> QED
  BY <1>1, <1>5, <1>6, <1>7 DEF r, m, l

\* A chunk is the beginning of what has not been read.
LEMMA Chunk ==
  ASSUME TypeOK, NEW n \in 1 .. Len(stream), Consume(n)
  PROVE  LET data == SubSeq(stream, 1, n) IN
         /\ Len(stream) \in Nat /\ n \in Nat /\ n >= 1 /\ n <= Len(stream)
         /\ stream # <<>> /\ DOMAIN stream = 1 .. Len(stream)
         /\ Len(data) = n /\ DOMAIN data = 1 .. n
         /\ \A i \in 1 .. n : data[i] = stream[i]
         /\ Len(stream') = Len(stream) - n /\ DOMAIN stream' = 1 .. Len(stream) - n
         /\ \A i \in 1 .. Len(stream) - n : stream'[i] = stream[i + n]
         /\ stream' = <<>> <=> n = Len(stream)
<1>1. stream \in Seq(PieceOf(DOMAIN sent))
  BY DEF TypeOK
<1>2. stream' = SubSeq(stream, n + 1, Len(stream))
  BY DEF Consume
<1> DEFINE R == PieceOf(DOMAIN sent)
           data == SubSeq(stream, 1, n)
<1> HIDE DEF R
<1>3. /\ Len(stream) \in Nat /\ n \in Nat /\ n >= 1 /\ n <= Len(stream)
      /\ stream # <<>> /\ DOMAIN stream = 1 .. Len(stream)
  BY <1>1
<1>4. Len(data) = n /\ DOMAIN data = 1 .. n /\ \A i \in 1 .. n : data[i] = stream[i]
  BY <1>1, <1>3
<1>5. /\ stream' \in Seq(R) /\ Len(stream') = Len(stream) - n
      /\ \A i \in 1 .. Len(stream) - n : stream'[i] = stream[i + n]
      /\ stream' = <<>> <=> n = Len(stream)
  BY <1>1, <1>2, Suffix DEF R
<1>6. DOMAIN stream' = 1 .. Len(stream) - n
  BY <1>5, LenProperties
<1> QED
  BY <1>3, <1>4, <1>5, <1>6

--------------------------------------------------------------------------------
(* Any client *)

\* What the client sends comes behind what has not been read.
LEMMA Sends ==
  ASSUME TypeOK, NEW kind \in Kinds, ClientSends(kind)
  PROVE  LET c == Cur + 1
             l == Len(stream)
             k == Len(Batch[kind]) IN
         /\ Cur \in Nat /\ l \in Nat /\ k \in Nat /\ k >= 2 /\ Shaped(Batch[kind])
         /\ DOMAIN sent = 1 .. Cur /\ DOMAIN sent' = 1 .. c /\ Len(sent') = c
         /\ sent'[c] = kind /\ \A b \in DOMAIN sent : sent'[b] = sent[b]
         /\ DOMAIN stream = 1 .. l /\ DOMAIN stream' = 1 .. l + k /\ Len(stream') = l + k
         /\ stream' # <<>>
         /\ \A i \in 1 .. l : stream'[i] = stream[i]
         /\ \A i \in l + 1 .. l + k : stream'[i] = Piece(c, kind, i - l)
<1> DEFINE c == Cur + 1
           l == Len(stream)
           k == Len(Batch[kind])
           new == PiecesOf(c, kind)
<1>1. /\ sent' = Append(sent, kind) /\ sent \in Seq(Kinds)
      /\ stream' = stream \o PiecesOf(Len(sent'), kind)
  BY DEF ClientSends, TypeOK
<1>2. /\ Cur \in Nat /\ DOMAIN sent = 1 .. Cur /\ DOMAIN sent' = 1 .. c /\ Len(sent') = c
      /\ sent'[c] = kind /\ \A b \in DOMAIN sent : sent'[b] = sent[b]
  BY <1>1 DEF Cur
<1>3. /\ c \in Nat /\ kind \in DOMAIN Batch /\ Shaped(Batch[kind])
      /\ Len(new) = k /\ \A i \in 1 .. k : new[i] = Piece(c, kind, i)
  BY <1>2, PiecesType
<1>4. k \in Nat /\ k >= 2
  BY <1>3 DEF Shaped
<1> DEFINE R == PieceOf(DOMAIN sent')
<1>5. new \in Seq(R)
  BY <1>2, <1>3, PiecesType
<1>6. stream \in Seq(R)
  <2>1. PieceOf(DOMAIN sent) \subseteq R /\ stream \in Seq(PieceOf(DOMAIN sent))
    BY <1>2 DEF PieceOf, TypeOK
  <2> HIDE DEF R
  <2> QED  BY <2>1
<1> HIDE DEF R, new, k, c
<1>7. stream' = stream \o new
  BY <1>1, <1>2 DEF new
<1>8. /\ l \in Nat /\ DOMAIN stream = 1 .. l /\ DOMAIN stream' = 1 .. l + k
      /\ Len(stream') = l + k /\ \A i \in 1 .. l : stream'[i] = stream[i]
      /\ \A i \in l + 1 .. l + k : stream'[i] = new[i - l]
  <2>1. /\ stream' \in Seq(R) /\ Len(stream') = Len(stream) + Len(new)
        /\ \A i \in 1 .. Len(stream) + Len(new) :
             stream'[i] = IF i <= Len(stream) THEN stream[i] ELSE new[i - Len(stream)]
    BY <1>5, <1>6, <1>7, ConcatProperties
  <2>2. l \in Nat /\ DOMAIN stream = 1 .. l /\ DOMAIN stream' = 1 .. Len(stream')
    BY <1>6, <2>1, LenProperties
  <2> QED  BY <1>3, <1>4, <2>1, <2>2
<1>9. \A i \in l + 1 .. l + k : stream'[i] = Piece(c, kind, i - l)
  <2>1. \A i \in l + 1 .. l + k : i - l \in 1 .. k
    BY <1>4, <1>8
  <2> QED  BY <1>3, <1>8, <2>1
<1>10. stream' # <<>>
  BY <1>4, <1>8
<1> QED
  BY <1>2, <1>3, <1>4, <1>8, <1>9, <1>10 DEF c, k

\* What a read does, whatever it finds.
LEMMA ReadStep ==
  ASSUME NEW n \in 1 .. Len(stream),
         ExecutesQuery(n) \/ ExecutesParse(n) \/ Drains(n) \/ Relays(n)
  PROVE  sent' = sent /\ Consume(n)
BY DEF ExecutesQuery, ExecutesParse, Drains, Relays

\* Reads drop the front of the stream, the client adds to its end.
LEMMA StreamInvNext == TypeOK /\ StreamInv /\ [Next]_vars => StreamInv'
<1> SUFFICES ASSUME TypeOK, StreamInv, [Next]_vars PROVE StreamInv'
  OBVIOUS
<1>1. ASSUME NEW kind \in Kinds, ClientSends(kind) PROVE StreamInv'
  <2> DEFINE c == Cur + 1
             l == Len(stream)
             k == Len(Batch[kind])
  <2>1. /\ Cur \in Nat /\ l \in Nat /\ k \in Nat /\ k >= 2
        /\ DOMAIN sent = 1 .. Cur /\ DOMAIN sent' = 1 .. c /\ Len(sent') = c
        /\ sent'[c] = kind /\ \A b \in DOMAIN sent : sent'[b] = sent[b]
        /\ DOMAIN stream = 1 .. l /\ DOMAIN stream' = 1 .. l + k /\ Len(stream') = l + k
        /\ \A i \in 1 .. l : stream'[i] = stream[i]
        /\ \A i \in l + 1 .. l + k : stream'[i] = Piece(c, kind, i - l)
    BY <1>1, Sends
  <2> HIDE DEF k, l
  <2>2. \A i \in 1 .. l : Valid(stream[i]) /\ stream[i].batch \in 1 .. Cur
    BY <2>1 DEF StreamInv, Valid
  <2>3. \A i \in l + 1 .. l + k : /\ stream'[i].batch = c /\ stream'[i].place = i - l
                                  /\ stream'[i] = Piece(c, kind, i - l)
    BY <2>1 DEF Piece
  <2>4. \A i \in DOMAIN stream' :
          /\ stream'[i].batch \in DOMAIN sent'
          /\ stream'[i].place \in 1 .. Len(Batch[sent'[stream'[i].batch]])
          /\ stream'[i] = Piece(stream'[i].batch, sent'[stream'[i].batch], stream'[i].place)
    <3> TAKE i \in DOMAIN stream'
    <3>1. CASE i \in 1 .. l
      BY <2>1, <2>2, <3>1 DEF Valid, P, Size
    <3>2. CASE i \in l + 1 .. l + k
      BY <2>1, <2>3, <3>2 DEF k
    <3> QED  BY <2>1, <3>1, <3>2
  <2>5. l # 0 => stream[l].batch = Cur /\ stream[l].place = Len(Batch[sent[Cur]])
    BY <2>1 DEF StreamInv, P, Size, Piece, l
  <2>6. \A i \in 1 .. Len(stream') - 1 :
          LET p == stream'[i]
              q == stream'[i + 1] IN
          \/ q.batch = p.batch /\ q.place = p.place + 1
          \/ q.batch = p.batch + 1 /\ q.place = 1 /\ p.place = Len(Batch[sent'[p.batch]])
    <3> TAKE i \in 1 .. Len(stream') - 1
    <3>1. CASE i \in 1 .. l - 1
      <4>1. /\ stream'[i] = stream[i] /\ stream'[i + 1] = stream[i + 1]
            /\ Follows(stream[i], stream[i + 1]) /\ stream[i].batch \in DOMAIN sent
        BY <2>1, <2>2, <3>1 DEF StreamInv, l
      <4> QED  BY <2>1, <4>1 DEF Follows, Size
    <3>2. CASE i = l
      <4>1. /\ l # 0 /\ i \in 1 .. l
            /\ l + 1 \in l + 1 .. l + k /\ (l + 1) - l = 1
        BY <2>1, <3>2
      <4>2. stream'[i].batch = Cur /\ stream'[i].place = Len(Batch[sent[Cur]])
        BY <2>1, <2>5, <3>2, <4>1
      <4>3. stream'[l + 1].batch = c /\ stream'[l + 1].place = 1
        <5>1. stream'[l + 1].batch = c /\ stream'[l + 1].place = (l + 1) - l
          BY <2>3, <4>1
        <5> QED  BY <4>1, <5>1
      <4>4. sent'[Cur] = sent[Cur]
        BY <2>1, <2>2, <2>5, <3>2, <4>1
      <4> QED  BY <3>2, <4>2, <4>3, <4>4
    <3>3. CASE i \in l + 1 .. l + k - 1
      <4>1. /\ i \in l + 1 .. l + k /\ i + 1 \in l + 1 .. l + k
            /\ i \in Int /\ (i + 1) - l = (i - l) + 1
        BY <2>1, <3>3
      <4>2. stream'[i].batch = c /\ stream'[i].place = i - l
        BY <2>3, <4>1
      <4>3. stream'[i + 1].batch = c /\ stream'[i + 1].place = (i + 1) - l
        BY <2>3, <4>1
      <4> QED  BY <4>1, <4>2, <4>3
    <3> QED  BY <2>1, <3>1, <3>2, <3>3
  <2>7. \A i, j \in DOMAIN stream' : i < j => Before(stream'[i], stream'[j])
    <3> TAKE i, j \in DOMAIN stream'
    <3>1. CASE i \in 1 .. l /\ j \in 1 .. l
      BY <2>1, <3>1 DEF StreamInv
    <3>2. CASE i \in 1 .. l /\ j \in l + 1 .. l + k
      BY <2>1, <2>2, <2>3, <3>2 DEF Before
    <3>3. CASE i \in l + 1 .. l + k
      BY <2>1, <2>3, <3>3 DEF Before
    <3> QED  BY <2>1, <3>1, <3>2, <3>3
  <2>8. stream'[Len(stream')] = Piece(c, sent'[c], Len(Batch[sent'[c]]))
    BY <2>1 DEF k
  <2> QED
    BY <2>1, <2>4, <2>6, <2>7, <2>8 DEF StreamInv, Valid, Follows, P, Size, Cur
<1>2. ASSUME NEW n \in 1 .. Len(stream), sent' = sent, Consume(n) PROVE StreamInv'
  <2> DEFINE l == Len(stream)
  <2>1. /\ l \in Nat /\ n \in Nat /\ n >= 1 /\ n <= l /\ stream # <<>>
        /\ DOMAIN stream = 1 .. l /\ DOMAIN stream' = 1 .. l - n /\ Len(stream') = l - n
        /\ \A i \in 1 .. l - n : stream'[i] = stream[i + n]
        /\ stream' = <<>> <=> n = l
    BY <1>2, Chunk
  <2>2. stream[l] = P(Cur, Size(Cur))
    BY <2>1 DEF StreamInv
  <2> HIDE DEF l
  <2>3. \A i \in 1 .. l - n : i + n \in DOMAIN stream
    BY <2>1
  <2>4. \A i \in DOMAIN stream' : Valid(stream'[i])
    BY <2>1, <2>3 DEF StreamInv
  <2>5. \A i \in 1 .. Len(stream') - 1 : Follows(stream'[i], stream'[i + 1])
    <3> TAKE i \in 1 .. Len(stream') - 1
    <3>1. /\ i + n \in 1 .. l - 1 /\ (i + 1) + n = (i + n) + 1
          /\ i \in 1 .. l - n /\ i + 1 \in 1 .. l - n
      BY <2>1
    <3>2. Follows(stream[i + n], stream[(i + n) + 1])
      BY <3>1 DEF StreamInv, l
    <3> QED  BY <2>1, <3>1, <3>2
  <2>6. \A i, j \in DOMAIN stream' : i < j => Before(stream'[i], stream'[j])
    <3> TAKE i, j \in DOMAIN stream'
    <3> HAVE i < j
    <3>1. i + n \in DOMAIN stream /\ j + n \in DOMAIN stream /\ i + n < j + n
      BY <2>1
    <3>2. Before(stream[i + n], stream[j + n])
      BY <3>1 DEF StreamInv
    <3> QED  BY <2>1, <3>2
  <2>7. stream' # <<>> => stream'[Len(stream')] = P(Cur, Size(Cur))
    BY <2>1, <2>2
  <2> QED
    BY <1>2, <2>4, <2>5, <2>6, <2>7 DEF StreamInv, Valid, Follows, P, Size, Cur
<1>3. ASSUME UNCHANGED <<sent, stream>> PROVE StreamInv'
  BY <1>3 DEF StreamInv, Valid, Follows, P, Size, Cur
<1>4. CASE DrainTimesOut \/ UNCHANGED vars
  BY <1>3, <1>4 DEF DrainTimesOut, vars
<1> QED
  BY <1>1, <1>2, <1>4, ReadStep DEF Next, Reads

\* What is relayed goes to the end of what the backend has.
LEMMA Relayed ==
  ASSUME TypeOK, NEW n \in 1 .. Len(stream), Relays(n)
  PROVE  LET m == Len(toBackend) IN
         /\ draining = 0 /\ UNCHANGED <<sent, executed, draining, early>>
         /\ m \in Nat /\ DOMAIN toBackend = 1 .. m
         /\ DOMAIN toBackend' = 1 .. m + n /\ Len(toBackend') = m + n /\ toBackend' # <<>>
         /\ \A i \in 1 .. m : toBackend'[i] = toBackend[i]
         /\ \A i \in m + 1 .. m + n : i - m \in 1 .. n /\ toBackend'[i] = stream[i - m]
<1> DEFINE R == PieceOf(DOMAIN sent)
           data == SubSeq(stream, 1, n)
           m == Len(toBackend)
<1>1. stream \in Seq(R) /\ toBackend \in Seq(R)
  BY DEF TypeOK
<1>2. /\ draining = 0 /\ UNCHANGED <<sent, executed, draining, early>>
      /\ toBackend' = toBackend \o data
  BY DEF Relays
<1> HIDE DEF R
<1>3. n \in Nat /\ n >= 1 /\ Len(data) = n /\ \A i \in 1 .. n : data[i] = stream[i]
  BY <1>1
<1>4. data \in Seq(R)
  BY <1>1
<1> HIDE DEF data
<1>5. /\ toBackend' \in Seq(R) /\ Len(toBackend') = Len(toBackend) + Len(data)
      /\ \A i \in 1 .. Len(toBackend) + Len(data) :
           toBackend'[i] = IF i <= Len(toBackend) THEN toBackend[i] ELSE data[i - Len(toBackend)]
  BY <1>1, <1>2, <1>4, ConcatProperties
<1>6. m \in Nat /\ DOMAIN toBackend = 1 .. m /\ DOMAIN toBackend' = 1 .. m + n
  BY <1>1, <1>3, <1>5, LenProperties
<1>7. \A i \in m + 1 .. m + n : i - m \in 1 .. n /\ toBackend'[i] = stream[i - m]
  BY <1>3, <1>5, <1>6
<1>8. toBackend' # <<>>
  BY <1>3, <1>5, <1>6
<1> QED
  BY <1>2, <1>3, <1>5, <1>6, <1>7, <1>8

\* The backend's pieces stay behind what is still to be read.
LEMMA BackendInvNext ==
  TypeOK /\ StreamInv /\ BackendInv /\ [Next]_vars => BackendInv'
<1> SUFFICES ASSUME TypeOK, StreamInv, BackendInv, [Next]_vars PROVE BackendInv'
  OBVIOUS
<1>1. ASSUME NEW kind \in Kinds, ClientSends(kind) PROVE BackendInv'
  <2> DEFINE c == Cur + 1
             l == Len(stream)
             k == Len(Batch[kind])
  <2>1. /\ Cur \in Nat /\ l \in Nat /\ k \in Nat
        /\ DOMAIN sent = 1 .. Cur /\ DOMAIN sent' = 1 .. c
        /\ \A b \in DOMAIN sent : sent'[b] = sent[b]
        /\ DOMAIN stream = 1 .. l /\ DOMAIN stream' = 1 .. l + k
        /\ \A i \in 1 .. l : stream'[i] = stream[i]
        /\ \A i \in l + 1 .. l + k : stream'[i] = Piece(c, kind, i - l)
    BY <1>1, Sends
  <2>2. toBackend' = toBackend
    BY <1>1 DEF ClientSends
  <2> HIDE DEF k, l
  <2>3. \A i \in DOMAIN toBackend : Valid(toBackend[i]) /\ toBackend[i].batch \in 1 .. Cur
    BY <2>1 DEF BackendInv, Valid
  <2>4. \A i \in DOMAIN toBackend :
          LET p == toBackend[i] IN
          /\ p.batch \in DOMAIN sent' /\ p.place \in 1 .. Len(Batch[sent'[p.batch]])
          /\ p = Piece(p.batch, sent'[p.batch], p.place)
    BY <2>1, <2>3 DEF Valid, P, Size
  <2>5. \A i \in DOMAIN toBackend, j \in DOMAIN stream' : Before(toBackend[i], stream'[j])
    <3> TAKE i \in DOMAIN toBackend, j \in DOMAIN stream'
    <3>1. CASE j \in 1 .. l
      BY <2>1, <3>1 DEF BackendInv
    <3>2. CASE j \in l + 1 .. l + k
      <4>1. stream'[j] = Piece(c, kind, j - l)
        BY <2>1, <3>2
      <4>2. stream'[j].batch = c
        BY <4>1 DEF Piece
      <4> QED  BY <2>1, <2>3, <4>2 DEF Before
    <3> QED  BY <2>1, <3>1, <3>2
  <2>6. \A i, j \in DOMAIN toBackend : i < j => Before(toBackend[i], toBackend[j])
    BY DEF BackendInv
  <2> QED  BY <2>2, <2>4, <2>5, <2>6 DEF BackendInv, Valid, P, Size
<1>2. ASSUME NEW n \in 1 .. Len(stream), sent' = sent, toBackend' = toBackend, Consume(n)
      PROVE  BackendInv'
  <2> DEFINE l == Len(stream)
  <2>0. /\ l \in Nat /\ n \in Nat /\ DOMAIN stream = 1 .. l /\ DOMAIN stream' = 1 .. l - n
        /\ \A i \in 1 .. l - n : stream'[i] = stream[i + n]
    BY <1>2, Chunk
  <2> HIDE DEF l
  <2>1. \A j \in DOMAIN stream' : j + n \in DOMAIN stream /\ stream'[j] = stream[j + n]
    BY <2>0
  <2>2. \A i \in DOMAIN toBackend, j \in DOMAIN stream' : Before(toBackend[i], stream'[j])
    BY <2>1 DEF BackendInv
  <2> QED  BY <1>2, <2>2 DEF BackendInv, Valid, P, Size
<1>3. ASSUME NEW n \in 1 .. Len(stream), Relays(n) PROVE BackendInv'
  <2> DEFINE m == Len(toBackend)
             l == Len(stream)
  <2>1. /\ m \in Nat /\ DOMAIN toBackend = 1 .. m /\ DOMAIN toBackend' = 1 .. m + n
        /\ \A i \in 1 .. m : toBackend'[i] = toBackend[i]
        /\ \A i \in m + 1 .. m + n : i - m \in 1 .. n /\ toBackend'[i] = stream[i - m]
    BY <1>3, Relayed
  <2>2. /\ l \in Nat /\ n \in Nat /\ n <= l
        /\ DOMAIN stream = 1 .. l /\ DOMAIN stream' = 1 .. l - n
        /\ \A i \in 1 .. l - n : stream'[i] = stream[i + n]
        /\ sent' = sent
    BY <1>3, ReadStep, Chunk
  <2> HIDE DEF m, l
  <2>0. \A i \in m + 1 .. m + n : i - m \in DOMAIN stream
    BY <2>1, <2>2
  <2>3. \A i \in DOMAIN toBackend' : Valid(toBackend'[i])
    <3> TAKE i \in DOMAIN toBackend'
    <3>1. CASE i \in 1 .. m
      BY <2>1, <3>1 DEF BackendInv
    <3>2. CASE i \in m + 1 .. m + n
      BY <2>0, <2>1, <3>2 DEF StreamInv
    <3> QED  BY <2>1, <2>2, <3>1, <3>2
  <2>4. \A i, j \in DOMAIN toBackend' : i < j => Before(toBackend'[i], toBackend'[j])
    <3> TAKE i, j \in DOMAIN toBackend'
    <3> HAVE i < j
    <3>1. CASE i \in 1 .. m /\ j \in 1 .. m
      BY <2>1, <3>1 DEF BackendInv
    <3>2. CASE i \in 1 .. m /\ j \in m + 1 .. m + n
      BY <2>1, <2>2, <3>2 DEF BackendInv
    <3>3. CASE i \in m + 1 .. m + n /\ j \in m + 1 .. m + n
      <4>1. i - m \in DOMAIN stream /\ j - m \in DOMAIN stream /\ i - m < j - m
        BY <2>0, <2>1, <2>2, <3>3
      <4>2. Before(stream[i - m], stream[j - m])
        BY <4>1 DEF StreamInv
      <4> QED  BY <2>1, <3>3, <4>2
    <3> QED  BY <2>1, <2>2, <3>1, <3>2, <3>3
  <2>5. \A i \in DOMAIN toBackend', j \in DOMAIN stream' : Before(toBackend'[i], stream'[j])
    <3> TAKE i \in DOMAIN toBackend', j \in DOMAIN stream'
    <3>1. stream'[j] = stream[j + n] /\ j + n \in DOMAIN stream /\ j >= 1
      BY <2>2
    <3>2. CASE i \in 1 .. m
      BY <2>1, <3>1, <3>2 DEF BackendInv
    <3>3. CASE i \in m + 1 .. m + n
      <4>1. i - m \in DOMAIN stream /\ i - m < j + n /\ toBackend'[i] = stream[i - m]
        BY <2>1, <2>2, <3>3
      <4> QED  BY <3>1, <4>1 DEF StreamInv
    <3> QED  BY <2>1, <2>2, <3>2, <3>3
  <2> QED  BY <2>2, <2>3, <2>4, <2>5 DEF BackendInv, Valid, P, Size
<1>4. CASE DrainTimesOut \/ UNCHANGED vars
  <2>1. UNCHANGED <<sent, stream, toBackend>>
    BY <1>4 DEF DrainTimesOut, vars
  <2> QED  BY <2>1 DEF BackendInv, Valid, P, Size
<1>5. ASSUME NEW n \in 1 .. Len(stream), ExecutesQuery(n) \/ ExecutesParse(n) \/ Drains(n)
      PROVE  BackendInv'
  <2>1. toBackend' = toBackend
    BY <1>5 DEF ExecutesQuery, ExecutesParse, Drains
  <2> QED  BY <1>2, <1>5, <2>1, ReadStep
<1> QED
  BY <1>1, <1>3, <1>4, <1>5 DEF Next, Reads

\* A chunk that starts a command begins at its first piece: what was executed came before
\* it, and so did what the backend has.
LEMMA Start ==
  ASSUME TypeOK, StreamInv, BackendInv, CommandInv,
         NEW n \in 1 .. Len(stream), NEW type \in {"Q", "P"}, Consume(n),
         StartsCommand(SubSeq(stream, 1, n), type)
  PROVE  LET b == SubSeq(stream, 1, n)[1].batch IN
         /\ b \in DOMAIN sent /\ b # 0 /\ IsCommand(b)
         /\ stream[1] = P(b, 1) /\ stream[1].type = type
         /\ n > 1 /\ ~Cut(stream)
         /\ \A i \in DOMAIN executed : executed[i] < b
         /\ \A j \in DOMAIN stream' : Behind(stream'[j], b)
         /\ \A i \in DOMAIN toBackend : toBackend[i].batch < b
<1> DEFINE data == SubSeq(stream, 1, n)
           l == Len(stream)
           b == stream[1].batch
<1>1. /\ l \in Nat /\ n \in Nat /\ n >= 1 /\ n <= l /\ DOMAIN stream = 1 .. l
      /\ DOMAIN stream' = 1 .. l - n /\ data[1] = stream[1] /\ Len(data) = n
      /\ \A i \in 1 .. l - n : stream'[i] = stream[i + n]
  BY Chunk
<1>2. n > 1 /\ stream[1].type = type /\ IsCommand(b)
  BY <1>1 DEF StartsCommand
<1> HIDE DEF data, l
<1>3. 1 \in DOMAIN stream /\ Valid(stream[1])
  BY <1>1 DEF StreamInv
<1>4. b \in DOMAIN sent /\ b \in Nat /\ b # 0 /\ stream[1].place = 1 /\ stream[1] = P(b, 1)
  BY <1>2, <1>3, SentShape, PieceShape DEF Valid
<1>5. ~Cut(stream)
  BY <1>2 DEF Cut, Inner
<1>6. \A i \in DOMAIN executed : executed[i] < b
  BY <1>3, <1>4 DEF CommandInv, Behind
<1>7. \A j \in DOMAIN stream' : Behind(stream'[j], b)
  <2> TAKE j \in DOMAIN stream'
  <2>1. /\ stream'[j] = stream[j + n] /\ j + n \in DOMAIN stream /\ 1 < j + n
        /\ 1 \in DOMAIN stream
    BY <1>1
  <2>2. Before(stream[1], stream[j + n])
    BY <2>1 DEF StreamInv
  <2> QED  BY <1>4, <2>1, <2>2 DEF Before, Behind
<1>8. \A i \in DOMAIN toBackend : toBackend[i].batch < b
  <2> TAKE i \in DOMAIN toBackend
  <2>1. Before(toBackend[i], stream[1]) /\ Valid(toBackend[i])
    BY <1>3 DEF BackendInv
  <2>2. toBackend[i].place \in Nat /\ toBackend[i].place >= 1
    BY <2>1, PieceShape
  <2> QED  BY <1>4, <2>1, <2>2 DEF Before
<1> QED
  BY <1>1, <1>2, <1>4, <1>5, <1>6, <1>7, <1>8 DEF data

\* A command handed over is the next in order, and what is behind it has been read or comes
\* behind its head.
LEMMA Hands ==
  ASSUME TypeOK, CommandInv, sent' = sent, NEW b \in DOMAIN sent,
         IsCommand(b), executed' = Append(executed, b), draining' = 0,
         \A i \in DOMAIN executed : executed[i] < b,
         \A j \in DOMAIN stream' : Behind(stream'[j], b),
         \A i \in DOMAIN executed, j \in DOMAIN stream' : Behind(stream'[j], executed[i])
  PROVE  CommandInv'
<1> DEFINE e == Len(executed)
           f == executed'
<1>1. executed \in Seq(DOMAIN sent)
  BY DEF TypeOK
<1>2. /\ e \in Nat /\ DOMAIN executed = 1 .. e /\ DOMAIN f = 1 .. e + 1
      /\ f[e + 1] = b /\ \A i \in 1 .. e : f[i] = executed[i]
  BY <1>1
<1> HIDE DEF e, f
<1>3. \A i, j \in DOMAIN f : i < j => f[i] < f[j]
  <2> TAKE i, j \in DOMAIN f
  <2> HAVE i < j
  <2>1. i \in 1 .. e
    BY <1>2
  <2>2. CASE j \in 1 .. e
    BY <1>2, <2>1, <2>2 DEF CommandInv
  <2>3. CASE j = e + 1
    BY <1>2, <2>1, <2>3
  <2> QED  BY <1>2, <2>2, <2>3
<1>4. \A i \in DOMAIN f : IsCommand(f[i])
  BY <1>2 DEF CommandInv
<1>5. \A i \in DOMAIN f, j \in DOMAIN stream' : Behind(stream'[j], f[i])
  BY <1>2
<1> QED
  BY <1>3, <1>4, <1>5 DEF CommandInv, IsCommand, Behind, f

\* Commands stay in order.
LEMMA CommandInvNext ==
  TypeOK /\ StreamInv /\ BackendInv /\ CommandInv /\ [Next]_vars => CommandInv'
<1> SUFFICES ASSUME TypeOK, StreamInv, BackendInv, CommandInv, [Next]_vars
             PROVE  CommandInv'
  OBVIOUS
<1>1. ASSUME NEW kind \in Kinds, ClientSends(kind) PROVE CommandInv'
  <2> DEFINE c == Cur + 1
             l == Len(stream)
             k == Len(Batch[kind])
  <2>1. /\ Cur \in Nat /\ l \in Nat /\ k \in Nat
        /\ DOMAIN sent = 1 .. Cur /\ DOMAIN sent' = 1 .. c
        /\ \A b \in DOMAIN sent : sent'[b] = sent[b]
        /\ DOMAIN stream = 1 .. l /\ DOMAIN stream' = 1 .. l + k
        /\ \A i \in 1 .. l : stream'[i] = stream[i]
        /\ \A i \in l + 1 .. l + k : stream'[i] = Piece(c, kind, i - l)
    BY <1>1, Sends
  <2>2. UNCHANGED <<executed, draining, toBackend>>
    BY <1>1 DEF ClientSends
  <2> HIDE DEF k, l
  <2>3. \A i \in l + 1 .. l + k : /\ stream'[i].batch = c /\ stream'[i].place = i - l
                                  /\ stream'[i] = Piece(c, kind, i - l)
    BY <2>1 DEF Piece
  <2>4. \A b \in DOMAIN sent : \A j \in l + 1 .. l + k : Behind(stream'[j], b)
    BY <2>1, <2>3 DEF Behind
  <2>5. \A i \in DOMAIN executed : executed[i] \in DOMAIN sent
    <3>1. executed \in Seq(DOMAIN sent)
      BY DEF TypeOK
    <3> QED  BY <3>1
  <2>6. \A i \in DOMAIN executed : sent'[executed[i]] \in {"call", "extcall", "prepare", "flush"}
    BY <2>1, <2>5 DEF CommandInv, IsCommand
  <2>7. \A i \in DOMAIN executed, j \in DOMAIN stream' : Behind(stream'[j], executed[i])
    <3> TAKE i \in DOMAIN executed, j \in DOMAIN stream'
    <3>1. CASE j \in 1 .. l
      BY <2>1, <3>1 DEF CommandInv
    <3>2. CASE j \in l + 1 .. l + k
      BY <2>4, <2>5, <3>2
    <3> QED  BY <2>1, <3>1, <3>2
  <2>8. draining # 0 =>
          /\ draining \in DOMAIN sent'
          /\ sent'[draining] \in {"call", "extcall", "prepare", "flush"}
          /\ \A i \in DOMAIN executed : executed[i] < draining
          /\ \A j \in DOMAIN stream' : Behind(stream'[j], draining)
          /\ \A i \in DOMAIN toBackend : toBackend[i].batch < draining
    <3> HAVE draining # 0
    <3>1. draining \in DOMAIN sent
      BY DEF CommandInv
    <3>2. \A j \in DOMAIN stream' : Behind(stream'[j], draining)
      <4> TAKE j \in DOMAIN stream'
      <4>1. CASE j \in 1 .. l
        BY <2>1, <4>1 DEF CommandInv
      <4>2. CASE j \in l + 1 .. l + k
        BY <2>4, <3>1, <4>2
      <4> QED  BY <2>1, <4>1, <4>2
    <3>3. draining \in DOMAIN sent' /\ sent'[draining] \in {"call", "extcall", "prepare", "flush"}
      BY <2>1, <3>1 DEF CommandInv, IsCommand
    <3> QED  BY <3>2, <3>3 DEF CommandInv
  <2>9. \A i, j \in DOMAIN executed : i < j => executed[i] < executed[j]
    BY DEF CommandInv
  <2> QED  BY <2>2, <2>6, <2>7, <2>8, <2>9 DEF CommandInv, IsCommand, Behind
<1>2. ASSUME NEW n \in 1 .. Len(stream), Consume(n)
      PROVE  \A b : (\A j \in DOMAIN stream : Behind(stream[j], b))
                      => \A j \in DOMAIN stream' : Behind(stream'[j], b)
  <2> DEFINE l == Len(stream)
  <2>1. /\ l \in Nat /\ n \in Nat /\ DOMAIN stream = 1 .. l /\ DOMAIN stream' = 1 .. l - n
        /\ \A i \in 1 .. l - n : stream'[i] = stream[i + n]
    BY <1>2, Chunk
  <2> HIDE DEF l
  <2>2. \A j \in DOMAIN stream' : j + n \in DOMAIN stream /\ stream'[j] = stream[j + n]
    BY <2>1
  <2> QED  BY <2>2
<1>3. ASSUME NEW n \in 1 .. Len(stream), Consume(n)
      PROVE  \A i \in DOMAIN executed, j \in DOMAIN stream' : Behind(stream'[j], executed[i])
  BY <1>2, <1>3 DEF CommandInv
<1>4. ASSUME NEW n \in 1 .. Len(stream), ExecutesQuery(n) PROVE CommandInv'
  <2> DEFINE b == SubSeq(stream, 1, n)[1].batch
  <2>1. /\ draining' = 0 /\ StartsCommand(SubSeq(stream, 1, n), "Q")
        /\ executed' = Append(executed, b) /\ sent' = sent /\ Consume(n)
    BY <1>4 DEF ExecutesQuery, Executes
  <2>2. /\ b \in DOMAIN sent /\ IsCommand(b)
        /\ \A i \in DOMAIN executed : executed[i] < b
        /\ \A j \in DOMAIN stream' : Behind(stream'[j], b)
    BY <2>1, Start
  <2> HIDE DEF b
  <2>3. \A i \in DOMAIN executed, j \in DOMAIN stream' : Behind(stream'[j], executed[i])
    BY <1>3, <2>1
  <2> QED  BY <2>1, <2>2, <2>3, Hands
<1>5. ASSUME NEW n \in 1 .. Len(stream), ExecutesParse(n) PROVE CommandInv'
  <2> DEFINE b == SubSeq(stream, 1, n)[1].batch
  <2>1. /\ draining = 0 /\ StartsCommand(SubSeq(stream, 1, n), "P")
        /\ sent' = sent /\ toBackend' = toBackend /\ Consume(n)
        /\ \/ executed' = Append(executed, b) /\ draining' = draining
           \/ draining' = b /\ executed' = executed
    BY <1>5 DEF ExecutesParse, Executes
  <2>2. /\ b \in DOMAIN sent /\ IsCommand(b)
        /\ \A i \in DOMAIN executed : executed[i] < b
        /\ \A j \in DOMAIN stream' : Behind(stream'[j], b)
        /\ \A i \in DOMAIN toBackend : toBackend[i].batch < b
    BY <2>1, Start
  <2> HIDE DEF b
  <2>3. \A i \in DOMAIN executed, j \in DOMAIN stream' : Behind(stream'[j], executed[i])
    BY <1>3, <2>1
  <2>4. CASE executed' = Append(executed, b) /\ draining' = draining
    BY <2>1, <2>2, <2>3, <2>4, Hands
  <2>5. CASE draining' = b /\ executed' = executed
    BY <2>1, <2>2, <2>3, <2>5 DEF CommandInv, IsCommand, Behind
  <2> QED  BY <2>1, <2>4, <2>5
<1>6. ASSUME draining # 0, sent' = sent, executed' = Append(executed, draining), draining' = 0,
             \A j \in DOMAIN stream' : Behind(stream'[j], draining),
             \A i \in DOMAIN executed, j \in DOMAIN stream' : Behind(stream'[j], executed[i])
      PROVE  CommandInv'
  <2>1. /\ draining \in DOMAIN sent /\ IsCommand(draining)
        /\ \A i \in DOMAIN executed : executed[i] < draining
    BY <1>6 DEF CommandInv
  <2> QED  BY <1>6, <2>1, Hands
<1>7. ASSUME NEW n \in 1 .. Len(stream), Drains(n) PROVE CommandInv'
  <2>1. /\ draining # 0 /\ sent' = sent /\ toBackend' = toBackend /\ Consume(n)
        /\ \/ executed' = Append(executed, draining) /\ draining' = 0
           \/ draining' = draining /\ executed' = executed
    BY <1>7 DEF Drains, Executes
  <2>2. /\ \A j \in DOMAIN stream' : Behind(stream'[j], draining)
        /\ \A i \in DOMAIN executed, j \in DOMAIN stream' : Behind(stream'[j], executed[i])
    BY <1>2, <1>3, <2>1 DEF CommandInv
  <2>3. CASE executed' = Append(executed, draining) /\ draining' = 0
    BY <1>6, <2>1, <2>2, <2>3
  <2>4. CASE draining' = draining /\ executed' = executed
    BY <2>1, <2>2, <2>4 DEF CommandInv, IsCommand, Behind
  <2> QED  BY <2>1, <2>3, <2>4
<1>8. ASSUME NEW n \in 1 .. Len(stream), Relays(n) PROVE CommandInv'
  <2>1. /\ sent' = sent /\ UNCHANGED <<executed, draining>> /\ draining = 0 /\ Consume(n)
    BY <1>8 DEF Relays
  <2>2. \A i \in DOMAIN executed, j \in DOMAIN stream' : Behind(stream'[j], executed[i])
    BY <1>3, <2>1
  <2> QED  BY <2>1, <2>2 DEF CommandInv, IsCommand, Behind
<1>9. CASE DrainTimesOut
  <2>1. /\ draining # 0 /\ UNCHANGED <<sent, stream>>
        /\ executed' = Append(executed, draining) /\ draining' = 0
    BY <1>9 DEF DrainTimesOut, Executes
  <2>2. /\ \A j \in DOMAIN stream' : Behind(stream'[j], draining)
        /\ \A i \in DOMAIN executed, j \in DOMAIN stream' : Behind(stream'[j], executed[i])
    BY <2>1 DEF CommandInv
  <2> QED  BY <1>6, <2>1, <2>2
<1>10. CASE UNCHANGED vars
  BY <1>10 DEF vars, CommandInv, IsCommand, Behind
<1> QED
  BY <1>1, <1>4, <1>5, <1>7, <1>8, <1>9, <1>10 DEF Next, Reads

\* The pieces of one message reach the backend together, or the command is handed over early.
LEMMA AlignedInvNext == AnyInv /\ [Next]_vars => AlignedInv'
<1> SUFFICES ASSUME AnyInv, [Next]_vars, ~early'
             PROVE  (Whole /\ IF draining = 0 /\ Cut(stream) THEN Waiting ELSE AtEnd)'
  BY DEF AlignedInv
<1> USE DEF AnyInv
<1>1. ~early
  BY DEF Next, Reads, ClientSends, ExecutesQuery, ExecutesParse, Drains, Relays,
         DrainTimesOut, Executes, vars
<1>2. Whole /\ IF draining = 0 /\ Cut(stream) THEN Waiting ELSE AtEnd
  BY <1>1 DEF AlignedInv
\* A step that relays nothing, after which nothing is waited for.
<1>3. ASSUME toBackend' = toBackend, AtEnd, draining' # 0 \/ ~Cut(stream')
      PROVE  (Whole /\ IF draining = 0 /\ Cut(stream) THEN Waiting ELSE AtEnd)'
  <2>1. Whole' /\ AtEnd'
    BY <1>2, <1>3 DEF Whole, Linked, Ends, Cut, AtEnd
  <2>2. ~(draining = 0 /\ Cut(stream))'
    BY <1>3
  <2> QED  BY <2>1, <2>2
<1>4. ASSUME NEW kind \in Kinds, ClientSends(kind)
      PROVE  (Whole /\ IF draining = 0 /\ Cut(stream) THEN Waiting ELSE AtEnd)'
  <2> DEFINE c == Cur + 1
             l == Len(stream)
             k == Len(Batch[kind])
  <2>1. /\ l \in Nat /\ k \in Nat /\ k >= 2 /\ Shaped(Batch[kind])
        /\ DOMAIN stream = 1 .. l
        /\ \A i \in 1 .. l : stream'[i] = stream[i]
        /\ \A i \in l + 1 .. l + k : stream'[i] = Piece(c, kind, i - l)
        /\ stream' # <<>>
    BY <1>4, Sends
  <2>2. toBackend' = toBackend /\ draining' = draining
    BY <1>4 DEF ClientSends
  <2>3. stream \in Seq(PieceOf(DOMAIN sent))
    BY DEF TypeOK
  <2>4. CASE stream # <<>>
    <3>1. stream'[1] = stream[1]
      BY <2>1, <2>3, <2>4
    <3>2. Cut(stream') <=> Cut(stream)
      BY <2>1, <2>4, <3>1 DEF Cut
    <3> QED  BY <1>2, <2>2, <3>1, <3>2 DEF Whole, Linked, Ends, Cut, AtEnd, Waiting
  <2>5. CASE stream = <<>>
    <3>1. l = 0
      BY <2>5
    <3>2. stream'[1] = Piece(c, kind, 1)
      BY <2>1, <3>1
    <3>3. stream'[1].type = Batch[kind][1]
      BY <3>2 DEF Piece
    <3>4. ~Cut(stream') /\ ~Cut(stream)
      BY <2>1, <2>5, <3>3 DEF Cut, Shaped
    <3> QED  BY <1>2, <1>3, <2>2, <3>4
  <2> QED  BY <2>4, <2>5
<1>5. ASSUME NEW n \in 1 .. Len(stream), ExecutesQuery(n)
      PROVE  (Whole /\ IF draining = 0 /\ Cut(stream) THEN Waiting ELSE AtEnd)'
  <2>1. /\ toBackend' = toBackend /\ Consume(n) /\ StartsCommand(SubSeq(stream, 1, n), "Q")
        /\ early' = (early \/ Cut(stream'))
    BY <1>5 DEF ExecutesQuery, Executes
  <2>2. ~Cut(stream) /\ ~Cut(stream')
    BY <2>1, Start
  <2> QED  BY <1>2, <1>3, <2>1, <2>2
<1>6. ASSUME NEW n \in 1 .. Len(stream), ExecutesParse(n)
      PROVE  (Whole /\ IF draining = 0 /\ Cut(stream) THEN Waiting ELSE AtEnd)'
  <2> DEFINE b == SubSeq(stream, 1, n)[1].batch
  <2>1. /\ toBackend' = toBackend /\ Consume(n) /\ StartsCommand(SubSeq(stream, 1, n), "P")
        /\ early' = (early \/ Cut(stream')) \/ draining' = b
    BY <1>6 DEF ExecutesParse, Executes
  <2>2. ~Cut(stream) /\ b # 0
    BY <2>1, Start
  <2>3. draining' # 0 \/ ~Cut(stream')
    BY <2>1, <2>2
  <2> QED  BY <1>2, <1>3, <2>1, <2>2, <2>3
<1>7. ASSUME NEW n \in 1 .. Len(stream), Drains(n)
      PROVE  (Whole /\ IF draining = 0 /\ Cut(stream) THEN Waiting ELSE AtEnd)'
  <2>1. /\ toBackend' = toBackend /\ draining # 0
        /\ early' = (early \/ Cut(stream')) \/ draining' = draining
    BY <1>7 DEF Drains, Executes
  <2>2. draining' # 0 \/ ~Cut(stream')
    BY <2>1
  <2> QED  BY <1>2, <1>3, <2>1, <2>2
<1>8. CASE DrainTimesOut
  <2>1. /\ toBackend' = toBackend /\ draining # 0 /\ early' = (early \/ Cut(stream'))
    BY <1>8 DEF DrainTimesOut, Executes
  <2> QED  BY <1>2, <1>3, <2>1
<1>9. ASSUME NEW n \in 1 .. Len(stream), Relays(n)
      PROVE  (Whole /\ IF draining = 0 /\ Cut(stream) THEN Waiting ELSE AtEnd)'
  <2> DEFINE m == Len(toBackend)
             l == Len(stream)
  <2>1. /\ m \in Nat /\ Len(toBackend') = m + n /\ toBackend' # <<>> /\ draining = 0
        /\ \A i \in 1 .. m : toBackend'[i] = toBackend[i]
        /\ \A i \in m + 1 .. m + n : i - m \in 1 .. n /\ toBackend'[i] = stream[i - m]
    BY <1>9, Relayed
  <2>2. /\ l \in Nat /\ n \in Nat /\ n >= 1 /\ n <= l /\ stream # <<>>
        /\ DOMAIN stream = 1 .. l /\ Len(stream') = l - n
        /\ \A i \in 1 .. l - n : stream'[i] = stream[i + n]
        /\ stream' = <<>> <=> n = l
    BY <1>9, ReadStep, Chunk
  <2>3. stream[l] = P(Cur, Size(Cur))
    BY <2>2 DEF StreamInv
  <2> HIDE DEF m, l
  <2>4. \A i \in 1 .. l - 1 : LET p == stream[i]
                                  q == stream[i + 1] IN
          /\ q.type \in Inner <=> ~Ends(p)
          /\ q.type \in Inner => q.batch = p.batch /\ q.place = p.place + 1
    <3> TAKE i \in 1 .. l - 1
    <3>0. i \in DOMAIN stream /\ i + 1 \in DOMAIN stream
      BY <2>2
    <3>1. /\ Valid(stream[i]) /\ Valid(stream[i + 1]) /\ Follows(stream[i], stream[i + 1])
      BY <3>0 DEF StreamInv, l
    <3> QED  BY <3>1, FollowShape
  <2>5. m # 0 <=> toBackend # <<>>
    <3>1. toBackend \in Seq(PieceOf(DOMAIN sent))
      BY DEF TypeOK
    <3> QED  BY <3>1 DEF m
  <2>6. m # 0 => toBackend[m] = toBackend[Len(toBackend)]
    BY DEF m
  \* The first piece the backend has is a head.
  <2>7. toBackend'[1].type \notin Inner
    <3>1. CASE m = 0
      <4>1. ~Cut(stream) /\ toBackend'[1] = stream[1]
        BY <1>2, <2>1, <2>2, <2>5, <3>1 DEF Waiting
      <4> QED  BY <2>2, <4>1 DEF Cut
    <3>2. CASE m # 0
      <4>1. toBackend'[1] = toBackend[1] /\ toBackend # <<>>
        BY <2>1, <2>5, <3>2
      <4> QED  BY <1>2, <4>1 DEF Whole, Cut
    <3> QED  BY <3>1, <3>2
  <2>8. \A i \in 1 .. m + n - 1 : Linked(toBackend'[i], toBackend'[i + 1])
    <3> TAKE i \in 1 .. m + n - 1
    <3>1. CASE i \in 1 .. m - 1
      <4>1. toBackend'[i] = toBackend[i] /\ toBackend'[i + 1] = toBackend[i + 1]
        BY <2>1, <3>1
      <4> QED  BY <1>2, <3>1, <4>1 DEF Whole, m
    <3>2. CASE i = m
      <4>1. toBackend'[i] = toBackend[m] /\ toBackend'[i + 1] = stream[1] /\ m # 0
        BY <2>1, <2>2, <3>2
      <4>2. CASE Cut(stream)
        BY <1>2, <2>1, <2>6, <4>1, <4>2 DEF Waiting, Linked, Cut
      <4>3. CASE ~Cut(stream)
        <5>1. Ends(toBackend[m]) /\ stream[1].type \notin Inner
          BY <1>2, <2>2, <2>5, <2>6, <4>1, <4>3 DEF AtEnd, Cut
        <5> QED  BY <4>1, <5>1 DEF Linked
      <4> QED  BY <4>2, <4>3
    <3>3. CASE i \in m + 1 .. m + n - 1
      <4>1. /\ toBackend'[i] = stream[i - m] /\ toBackend'[i + 1] = stream[(i - m) + 1]
            /\ i - m \in 1 .. l - 1
        <5>1. i + 1 \in m + 1 .. m + n /\ (i + 1) - m = (i - m) + 1
          BY <2>1, <2>2, <3>3
        <5>2. toBackend'[i + 1] = stream[(i + 1) - m]
          BY <2>1, <5>1
        <5> QED  BY <2>1, <2>2, <3>3, <5>1, <5>2
      <4> QED  BY <2>4, <4>1 DEF Linked
    <3> QED  BY <2>1, <2>2, <3>1, <3>2, <3>3
  <2>9. Whole'
    BY <2>1, <2>7, <2>8 DEF Whole, Cut, Linked, Ends
  <2>10. /\ toBackend'[Len(toBackend')] = stream[n] /\ n \in DOMAIN stream
         /\ stream' # <<>> => n \in 1 .. l - 1 /\ stream'[1] = stream[n + 1]
    <3>1. m + n \in m + 1 .. m + n /\ (m + n) - m = n
      BY <2>1, <2>2
    <3> QED  BY <2>1, <2>2, <3>1
  <2>11. CASE Cut(stream')
    <3>1. stream' # <<>> /\ stream'[1].type \in Inner
      BY <2>11 DEF Cut
    <3>2. Waiting'
      BY <2>1, <2>4, <2>10, <3>1 DEF Waiting
    <3> QED  BY <1>9, <2>1, <2>9, <2>11, <3>2 DEF Relays
  <2>12. CASE ~Cut(stream')
    <3>1. Ends(stream[n])
      <4>1. CASE stream' = <<>>
        <5>1. Valid(stream[n]) /\ stream[n] = P(Cur, Size(Cur))
          BY <2>2, <2>3, <2>10, <4>1 DEF StreamInv
        <5>2. stream[n].place = Size(stream[n].batch)
          BY <5>1 DEF P, Piece
        <5> QED  BY <5>1, <5>2, PieceShape
      <4>2. CASE stream' # <<>>
        BY <2>4, <2>10, <2>12, <4>2 DEF Cut
      <4> QED  BY <4>1, <4>2
    <3>2. AtEnd'
      BY <2>10, <3>1 DEF AtEnd, Ends
    <3> QED  BY <2>9, <2>12, <3>2
  <2> QED  BY <2>11, <2>12
<1>10. CASE UNCHANGED vars
  BY <1>2, <1>10 DEF vars, Whole, Linked, Ends, Cut, AtEnd, Waiting
<1> QED
  BY <1>4, <1>5, <1>6, <1>7, <1>8, <1>9, <1>10 DEF Next, Reads

\* All of it holds in every state, however far ahead the client sends.
LEMMA AnyInvAlways == Spec => []AnyInv
<1>1. Init => AnyInv
  <2> SUFFICES ASSUME Init PROVE AnyInv
    OBVIOUS
  <2>1. sent = <<>> /\ stream = <<>> /\ toBackend = <<>> /\ executed = <<>> /\ draining = 0
    BY DEF Init
  <2>2. StreamInv /\ BackendInv /\ CommandInv
    BY <2>1 DEF StreamInv, BackendInv, CommandInv
  <2>3. AlignedInv
    BY <2>1 DEF AlignedInv, Whole, Cut, AtEnd
  <2> QED  BY <2>2, <2>3, FramingType DEF AnyInv
<1>2. AnyInv /\ [Next]_vars => AnyInv'
  BY FramingTypeNext, StreamInvNext, BackendInvNext, CommandInvNext, AlignedInvNext DEF AnyInv
<1> QED
  BY <1>1, <1>2, PTL DEF Spec

\* The backend is sent one message after the other, each of them whole, however the network
\* cuts what the client sends, within a message's text too, however far ahead the client
\* sends and whatever drains are given up.  Only a command handed over with a message half
\* read ends that.
THEOREM BackendStaysAligned == Spec => []BackendAligned
<1>1. AnyInv => BackendAligned
  BY Zenon DEF AnyInv, AlignedInv, Whole, Linked, Ends, BackendAligned
<1> QED  BY <1>1, AnyInvAlways, PTL

--------------------------------------------------------------------------------
(* A client that waits *)

\* All but the last batch are answered, and a drain is the last one's.
AnsweredInv == /\ \A b \in DOMAIN sent : b # Cur => Answered(b)
               /\ draining \in {0, Cur}

\* What is no command is on its way or at the backend.
KeptInv == \A b \in DOMAIN sent :
             ~IsCommand(b) => \A k \in 1 .. Size(b) : P(b, k) \in Range(toBackend) \union Range(stream)

\* While the network tears nothing apart, reads begin at a message, and a command is either
\* still to be read, being drained, or executed: no piece of it is at the backend, none is
\* left of one that was executed.
IntactInv ==
  ~torn => /\ ~Cut(stream)
           /\ \A i \in DOMAIN toBackend : ~IsCommand(toBackend[i].batch)
           /\ \A i \in DOMAIN executed, j \in DOMAIN stream : stream[j].batch # executed[i]
           /\ \A b \in DOMAIN sent : IsCommand(b) =>
                b \in Range(executed) \/ draining = b \/ P(b, 1) \in Range(stream)

WaitInv == AnsweredInv /\ KeptInv /\ IntactInv

\* Every piece not read is of a batch that was sent, and one of the last batch is not
\* followed by one of another.
LEMMA Pieces ==
  ASSUME AnyInv
  PROVE  /\ Cur \in Nat /\ DOMAIN sent = 1 .. Cur
         /\ \A j \in DOMAIN stream : /\ stream[j].batch \in 1 .. Cur
                                     /\ stream[j].place \in Nat /\ stream[j].place >= 1
                                     /\ stream[j].place <= Size(stream[j].batch)
                                     /\ stream[j] = P(stream[j].batch, stream[j].place)
         /\ \A b \in DOMAIN sent : LastPiece(b) = P(b, Size(b)) /\ Size(b) \in Nat /\ Size(b) >= 2
         /\ \A b \in DOMAIN sent : \A i : P(b, i).batch = b /\ P(b, i).place = i
<1>1. TypeOK /\ StreamInv
  BY DEF AnyInv
<1>2. Cur \in Nat /\ DOMAIN sent = 1 .. Cur
  BY <1>1 DEF TypeOK, Cur
<1>3. \A j \in DOMAIN stream : Valid(stream[j])
  BY <1>1 DEF StreamInv
<1>4. \A j \in DOMAIN stream : stream[j] = P(stream[j].batch, stream[j].place)
  BY <1>3 DEF Valid
<1>5. \A b \in DOMAIN sent : LastPiece(b) = P(b, Size(b))
  BY DEF LastPiece, P, Size
<1> QED
  BY <1>1, <1>2, <1>3, <1>4, <1>5, PieceShape, SentShape

\* A piece to be read of a batch that is answered: the batch was executed.
LEMMA Behindhand ==
  ASSUME AnyInv, NEW j \in DOMAIN stream, Answered(stream[j].batch)
  PROVE  stream[j].batch \in Range(executed)
<1> DEFINE b == stream[j].batch
<1>1. /\ b \in DOMAIN sent /\ LastPiece(b).batch = b /\ LastPiece(b).place = Size(b)
      /\ stream[j].place \in Nat /\ stream[j].place <= Size(b) /\ Size(b) \in Nat
      /\ b \in Nat
  BY Pieces
<1>2. ASSUME LastPiece(b) \in Range(toBackend) PROVE FALSE
  <2>1. PICK i \in DOMAIN toBackend : toBackend[i] = LastPiece(b)
    BY <1>2 DEF Range
  <2>2. Before(LastPiece(b), stream[j])
    BY <2>1 DEF AnyInv, BackendInv
  <2> QED  BY <1>1, <2>2 DEF Before
<1> QED
  BY <1>2 DEF Answered

\* A command that a chunk starts is the last batch, and the rest of the stream is its own.
LEMMA StartsLast ==
  ASSUME AnyInv, AnsweredInv, NEW n \in 1 .. Len(stream), NEW type \in {"Q", "P"}, Consume(n),
         StartsCommand(SubSeq(stream, 1, n), type)
  PROVE  /\ SubSeq(stream, 1, n)[1].batch = Cur /\ Cur \in DOMAIN sent /\ IsCommand(Cur)
         /\ \A j \in DOMAIN stream : stream[j].batch = Cur
         /\ \A j \in DOMAIN stream' : stream'[j].place > 1 /\ stream'[j].place \in Nat
<1> DEFINE b == SubSeq(stream, 1, n)[1].batch
<1>1. /\ b \in DOMAIN sent /\ IsCommand(b) /\ stream[1] = P(b, 1) /\ b # 0
      /\ \A i \in DOMAIN executed : executed[i] < b
      /\ \A i \in DOMAIN toBackend : toBackend[i].batch < b
      /\ \A j \in DOMAIN stream' : Behind(stream'[j], b)
  BY Start DEF AnyInv
<1> HIDE DEF b
<1>2. b \in Nat /\ 1 \in DOMAIN stream /\ DOMAIN stream = 1 .. Len(stream) /\ Len(stream) \in Nat
  <2>1. DOMAIN sent = 1 .. Cur /\ Cur \in Nat
    BY Pieces
  <2>2. stream \in Seq(PieceOf(DOMAIN sent))
    BY DEF AnyInv, TypeOK
  <2> QED  BY <1>1, <2>1, <2>2
<1>3. stream[1].batch = b
  BY <1>1, Pieces
<1>4. b = Cur
  <2> SUFFICES ASSUME b # Cur PROVE FALSE
    OBVIOUS
  <2>1. b \in Range(executed)
    BY <1>1, <1>2, <1>3, Behindhand DEF AnsweredInv
  <2>2. PICK i \in DOMAIN executed : executed[i] = b
    BY <2>1 DEF Range
  <2> QED  BY <1>1, <1>2, <2>2
<1>5. \A j \in DOMAIN stream : stream[j].batch = Cur
  <2> TAKE j \in DOMAIN stream
  <2>1. stream[j].batch \in 1 .. Cur /\ Cur \in Nat
    BY Pieces
  <2>2. j = 1 \/ Before(stream[1], stream[j])
    BY <1>2 DEF AnyInv, StreamInv
  <2> QED  BY <1>2, <1>3, <1>4, <2>1, <2>2 DEF Before
<1>6. \A j \in DOMAIN stream' : stream'[j].place > 1 /\ stream'[j].place \in Nat
  <2> TAKE j \in DOMAIN stream'
  <2> DEFINE l == Len(stream)
  <2>1. /\ l \in Nat /\ n \in Nat /\ DOMAIN stream = 1 .. l /\ DOMAIN stream' = 1 .. l - n
        /\ \A i \in 1 .. l - n : stream'[i] = stream[i + n]
    BY Chunk DEF AnyInv
  <2> HIDE DEF l
  <2>2. j + n \in DOMAIN stream /\ stream'[j] = stream[j + n]
    BY <2>1
  <2>3. stream'[j].batch = Cur /\ Behind(stream'[j], Cur) /\ stream'[j].place \in Nat
    BY <1>1, <1>4, <1>5, <2>2, Pieces
  <2> QED  BY <1>2, <1>4, <2>3 DEF Behind
<1> QED
  BY <1>1, <1>4, <1>5, <1>6 DEF b

\* A step that takes the command in the last batch: what it drops is that command's.
LEMMA Taken ==
  ASSUME AnyInv, WaitInv, sent' = sent, toBackend' = toBackend,
         Cur \in DOMAIN sent, IsCommand(Cur),
         \A j \in DOMAIN stream : stream[j].batch = Cur,
         \A j \in DOMAIN stream' : stream'[j] \in Range(stream),
         \/ draining' = 0 /\ executed' = Append(executed, Cur)
         \/ draining' = Cur /\ executed' = executed,
         ~torn' => ~torn /\ ~Cut(stream') /\ (draining' = 0 => stream' = <<>>)
  PROVE  WaitInv'
<1> USE DEF WaitInv
<1>1. executed \in Seq(DOMAIN sent) /\ Cur \in Nat /\ Cur # 0
  BY Pieces DEF AnyInv, TypeOK
<1>2. Range(executed) \subseteq Range(executed') /\ Range(executed') \subseteq Range(executed) \union {Cur}
  BY <1>1 DEF Range
<1>3. executed' # executed => Cur \in Range(executed')
  <2>1. CASE executed' = Append(executed, Cur)
    <3>1. /\ Len(executed) + 1 \in DOMAIN executed' /\ executed'[Len(executed) + 1] = Cur
      BY <1>1, <2>1
    <3> QED  BY <3>1 DEF Range
  <2> QED  BY <2>1
<1>4. AnsweredInv'
  <2>1. \A b \in DOMAIN sent : b # Cur => b \in Range(executed') \/ LastPiece(b) \in Range(toBackend)
    BY <1>2 DEF AnsweredInv, Answered
  <2> QED  BY <2>1 DEF AnsweredInv, Answered, Cur, LastPiece, Range
<1>5. KeptInv'
  <2>1. \A b \in DOMAIN sent :
          ~IsCommand(b) => \A k \in 1 .. Size(b) : P(b, k) \in Range(toBackend)
    <3> TAKE b \in DOMAIN sent
    <3> HAVE ~IsCommand(b)
    <3> TAKE k \in 1 .. Size(b)
    <3>1. P(b, k) \in Range(toBackend) \union Range(stream)
      BY DEF KeptInv
    <3>2. P(b, k) \notin Range(stream)
      <4>1. P(b, k).batch = b /\ b # Cur
        BY Pieces
      <4> QED  BY <4>1 DEF Range
    <3> QED  BY <3>1, <3>2
  <2> QED  BY <2>1 DEF KeptInv, IsCommand, P, Size, Range
<1>6. IntactInv'
  <2> SUFFICES ASSUME ~torn'
               PROVE  /\ ~Cut(stream')
                      /\ \A i \in DOMAIN toBackend : ~IsCommand(toBackend[i].batch)
                      /\ \A i \in DOMAIN executed', j \in DOMAIN stream' :
                           stream'[j].batch # executed'[i]
                      /\ \A b \in DOMAIN sent : IsCommand(b) =>
                           b \in Range(executed') \/ draining' = b \/ P(b, 1) \in Range(stream')
    BY DEF IntactInv, IsCommand, P
  <2>1. ~torn /\ ~Cut(stream') /\ (draining' = 0 => stream' = <<>>)
    OBVIOUS
  <2>2. \A i \in DOMAIN executed', j \in DOMAIN stream' : stream'[j].batch # executed'[i]
    <3>1. CASE stream' = <<>>
      BY <3>1
    <3>2. CASE executed' = executed
      <4>1. \A j \in DOMAIN stream' : \E k \in DOMAIN stream : stream'[j] = stream[k]
        BY DEF Range
      <4> QED  BY <2>1, <3>2, <4>1 DEF IntactInv
    <3> QED  BY <2>1, <3>1, <3>2
  <2>3. \A b \in DOMAIN sent : IsCommand(b) => b \in Range(executed') \/ draining' = b
    <3> TAKE b \in DOMAIN sent
    <3> HAVE IsCommand(b)
    <3>1. CASE b = Cur
      BY <1>1, <1>3, <3>1
    <3>2. CASE b # Cur
      <4>1. b \in Range(executed) \/ draining = b \/ P(b, 1) \in Range(stream)
        BY <2>1 DEF IntactInv
      <4>2. draining # b
        <5>1. b # 0
          BY Pieces
        <5> QED  BY <3>2, <5>1 DEF AnsweredInv
      <4>3. P(b, 1) \notin Range(stream)
        <5>1. P(b, 1).batch = b
          BY Pieces
        <5> QED  BY <3>2, <5>1 DEF Range
      <4> QED  BY <1>2, <4>1, <4>2, <4>3
    <3> QED  BY <3>1, <3>2
  <2> QED  BY <2>1, <2>2, <2>3 DEF IntactInv
<1> QED
  BY <1>4, <1>5, <1>6

\* What a read leaves was there before.
LEMMA Left ==
  ASSUME AnyInv, NEW n \in 1 .. Len(stream), Consume(n)
  PROVE  /\ Len(stream) \in Nat /\ DOMAIN stream = 1 .. Len(stream)
         /\ n \in Nat /\ n >= 1 /\ n <= Len(stream) /\ 1 \in DOMAIN stream
         /\ \A j \in DOMAIN stream' :
              j + n \in DOMAIN stream /\ j + n > n /\ stream'[j] = stream[j + n]
         /\ \A j \in DOMAIN stream' : stream'[j] \in Range(stream)
         /\ stream' # <<>> => /\ 1 \in DOMAIN stream' /\ n + 1 \in DOMAIN stream
                              /\ stream'[1] = stream[n + 1]
<1> DEFINE l == Len(stream)
<1>1. /\ l \in Nat /\ n \in Nat /\ n >= 1 /\ n <= l
      /\ DOMAIN stream = 1 .. l /\ DOMAIN stream' = 1 .. l - n
      /\ \A i \in 1 .. l - n : stream'[i] = stream[i + n]
      /\ stream' = <<>> <=> n = l
  BY Chunk DEF AnyInv
<1> HIDE DEF l
<1>2. \A j \in DOMAIN stream' :
        j + n \in DOMAIN stream /\ j + n > n /\ stream'[j] = stream[j + n]
  BY <1>1
<1>3. \A j \in DOMAIN stream' : stream'[j] \in Range(stream)
  BY <1>2 DEF Range
<1>4. stream' # <<>> => /\ 1 \in DOMAIN stream' /\ n + 1 \in DOMAIN stream
                        /\ stream'[1] = stream[n + 1]
  BY <1>1
<1>5. 1 \in DOMAIN stream
  BY <1>1
<1> QED
  BY <1>1, <1>2, <1>3, <1>4, <1>5 DEF l

\* Nothing is left of the last batch once its Sync has been read.
LEMMA SyncEnds ==
  ASSUME AnyInv, NEW n \in 1 .. Len(stream), Consume(n),
         \A j \in DOMAIN stream : stream[j].batch = Cur,
         HasSync(SubSeq(stream, 1, n))
  PROVE  stream' = <<>>
<1> SUFFICES ASSUME stream' # <<>> PROVE FALSE
  OBVIOUS
<1> DEFINE data == SubSeq(stream, 1, n)
<1>1. DOMAIN data = 1 .. n /\ \A i \in 1 .. n : data[i] = stream[i]
  BY Chunk DEF AnyInv
<1>2. PICK i \in 1 .. n : stream[i].type = "S"
  BY <1>1 DEF HasSync
<1>3. /\ i \in DOMAIN stream /\ n + 1 \in DOMAIN stream /\ i < n + 1
  BY Left
<1>4. Valid(stream[i]) /\ Before(stream[i], stream[n + 1])
  BY <1>3 DEF AnyInv, StreamInv
<1>5. stream[i].place = Size(stream[i].batch)
  BY <1>2, <1>4, PieceShape DEF AnyInv
<1> QED
  BY <1>3, <1>4, <1>5, Pieces DEF Before

\* Nothing is left of a Query that has been read if what follows begins at a message.
LEMMA QueryEnds ==
  ASSUME AnyInv, NEW n \in 1 .. Len(stream), Consume(n), ~Cut(stream'), Cur \in DOMAIN sent,
         stream[1] = P(Cur, 1), stream[1].type = "Q",
         \A j \in DOMAIN stream : stream[j].batch = Cur,
         \A j \in DOMAIN stream' : stream'[j].place > 1 /\ stream'[j].place \in Nat
  PROVE  stream' = <<>>
<1> SUFFICES ASSUME stream' # <<>> PROVE FALSE
  OBVIOUS
<1>1. /\ 1 \in DOMAIN stream' /\ n + 1 \in DOMAIN stream /\ stream'[1] = stream[n + 1]
  BY Left
<1> DEFINE p == stream'[1]
           s == Batch[sent[Cur]]
<1>2. /\ p.place > 1 /\ p.place \in Nat /\ p.place <= Size(Cur) /\ p = P(Cur, p.place)
  BY <1>1, Pieces
<1>3. p.type = s[p.place] /\ s[1] = "Q"
  BY <1>2 DEF P, Piece
<1>4. Shaped(s) /\ Size(Cur) = Len(s)
  BY SentShape DEF AnyInv, Size
<1> HIDE DEF s, p
<1>5. Size(Cur) = 3 /\ s[2] \in Inner /\ s[3] \in Inner
  BY <1>3, <1>4 DEF Shaped
<1>6. p.place \in {2, 3}
  BY <1>2, <1>5
<1>7. p.type \in Inner
  BY <1>3, <1>5, <1>6
<1> QED
  BY <1>7 DEF Cut, p

\* The client waits: a new batch finds all others answered and no drain going on.
LEMMA SendsWait ==
  ASSUME Window = 1, AnyInv, WaitInv, NEW kind \in Kinds, ClientSends(kind) PROVE WaitInv'
<1> USE DEF WaitInv
<1> DEFINE c == Cur + 1
           l == Len(stream)
           k == Len(Batch[kind])
<1>1. /\ Cur \in Nat /\ l \in Nat /\ k \in Nat /\ k >= 2 /\ Shaped(Batch[kind])
      /\ DOMAIN sent = 1 .. Cur /\ DOMAIN sent' = 1 .. c /\ Len(sent') = c
      /\ sent'[c] = kind /\ \A b \in DOMAIN sent : sent'[b] = sent[b]
      /\ DOMAIN stream = 1 .. l /\ DOMAIN stream' = 1 .. l + k /\ stream' # <<>>
      /\ \A i \in 1 .. l : stream'[i] = stream[i]
      /\ \A i \in l + 1 .. l + k : stream'[i] = Piece(c, kind, i - l)
  BY Sends DEF AnyInv
<1>2. UNCHANGED <<toBackend, executed, draining, torn>>
  BY DEF ClientSends
<1> HIDE DEF k, l
<1>3. \A b \in DOMAIN sent : Answered(b)
  <2> DEFINE S == {b \in DOMAIN sent : ~Answered(b)}
  <2>1. Cardinality(S) < 1
    BY DEF ClientSends
  <2>2. IsFiniteSet(S)
    <3>1. IsFiniteSet(1 .. Cur)
      BY <1>1, FS_Interval
    <3>2. S \subseteq 1 .. Cur
      BY <1>1
    <3> QED  BY <3>1, <3>2, FS_Subset
  <2> HIDE DEF S
  <2>3. Cardinality(S) \in Nat
    BY <2>2, FS_CardinalityType
  <2>4. S = {}
    BY <2>1, <2>2, <2>3, FS_EmptySet
  <2> QED  BY <2>4 DEF S
<1>4. draining = 0
  <2> SUFFICES ASSUME draining # 0 PROVE FALSE
    OBVIOUS
  <2>1. /\ draining \in DOMAIN sent /\ draining \in Nat
        /\ \A i \in DOMAIN executed : executed[i] < draining
        /\ \A i \in DOMAIN toBackend : toBackend[i].batch < draining
    BY <1>1 DEF AnyInv, CommandInv
  <2>2. LastPiece(draining).batch = draining
    BY <2>1, Pieces
  <2>3. draining \notin Range(executed)
    BY <2>1 DEF Range
  <2>4. LastPiece(draining) \notin Range(toBackend)
    BY <2>1, <2>2 DEF Range
  <2> QED  BY <1>3, <2>1, <2>3, <2>4 DEF Answered
<1>5. AnsweredInv'
  <2>1. \A b \in 1 .. c : b # c => b \in DOMAIN sent
    BY <1>1
  <2>2. \A b \in DOMAIN sent :
          b \in Range(executed) \/ Piece(b, sent'[b], Len(Batch[sent'[b]])) \in Range(toBackend)
    BY <1>1, <1>3 DEF Answered, LastPiece
  <2> QED  BY <1>1, <1>2, <1>4, <2>1, <2>2 DEF AnsweredInv, Answered, LastPiece, Cur
<1>6. Range(stream) \subseteq Range(stream')
  <2>1. \A i \in DOMAIN stream : i \in DOMAIN stream' /\ stream'[i] = stream[i]
    BY <1>1
  <2> QED  BY <2>1 DEF Range
<1>7. \A i \in 1 .. k : Piece(c, kind, i) \in Range(stream')
  <2> TAKE i \in 1 .. k
  <2>1. l + i \in DOMAIN stream' /\ stream'[l + i] = Piece(c, kind, i)
    <3>1. l + i \in l + 1 .. l + k /\ (l + i) - l = i
      BY <1>1
    <3> QED  BY <1>1, <3>1
  <2> QED  BY <2>1 DEF Range
<1>8. KeptInv'
  <2> SUFFICES ASSUME NEW b \in 1 .. c,
                      ~(sent'[b] \in {"call", "extcall", "prepare", "flush"}),
                      NEW i \in 1 .. Len(Batch[sent'[b]])
               PROVE  Piece(b, sent'[b], i) \in Range(toBackend) \union Range(stream')
    BY <1>1, <1>2 DEF KeptInv, IsCommand, P, Size, Range
  <2>1. CASE b = c
    BY <1>1, <1>7, <2>1 DEF k
  <2>2. CASE b # c
    <3>1. b \in DOMAIN sent /\ sent'[b] = sent[b]
      BY <1>1, <2>2
    <3> QED  BY <1>6, <3>1 DEF KeptInv, IsCommand, P, Size
  <2> QED  BY <2>1, <2>2
<1>9. IntactInv'
  <2> SUFFICES ASSUME ~torn
               PROVE  /\ ~Cut(stream')
                      /\ \A i \in DOMAIN toBackend :
                           sent'[toBackend[i].batch] \notin {"call", "extcall", "prepare", "flush"}
                      /\ \A i \in DOMAIN executed, j \in DOMAIN stream' :
                           stream'[j].batch # executed[i]
                      /\ \A b \in 1 .. c :
                           sent'[b] \in {"call", "extcall", "prepare", "flush"} =>
                             b \in Range(executed) \/ Piece(b, sent'[b], 1) \in Range(stream')
    BY <1>1, <1>2 DEF IntactInv, IsCommand, P, Cut
  <2>1. ~Cut(stream')
    <3>1. CASE stream = <<>>
      <4>1. l = 0
        BY <3>1 DEF l
      <4>2. stream'[1] = Piece(c, kind, 1)
        BY <1>1, <4>1
      <4>3. stream'[1].type \notin Inner
        BY <1>1, <4>2 DEF Piece, Shaped
      <4> QED  BY <4>3 DEF Cut
    <3>2. CASE stream # <<>>
      <4>1. 1 \in DOMAIN stream
        <5>1. stream \in Seq(PieceOf(DOMAIN sent))
          BY DEF AnyInv, TypeOK
        <5> QED  BY <3>2, <5>1
      <4> QED  BY <1>1, <3>2, <4>1 DEF Cut, IntactInv
    <3> QED  BY <3>1, <3>2
  <2>2. \A i \in DOMAIN toBackend :
          sent'[toBackend[i].batch] \notin {"call", "extcall", "prepare", "flush"}
    BY <1>1 DEF IntactInv, IsCommand, AnyInv, BackendInv, Valid
  <2>3. \A i \in DOMAIN executed, j \in DOMAIN stream' : stream'[j].batch # executed[i]
    <3> TAKE i \in DOMAIN executed, j \in DOMAIN stream'
    <3>1. CASE j \in 1 .. l
      BY <1>1, <3>1 DEF IntactInv
    <3>2. CASE j \in l + 1 .. l + k
      <4>1. stream'[j] = Piece(c, kind, j - l)
        BY <1>1, <3>2
      <4>2. stream'[j].batch = c
        BY <4>1 DEF Piece
      <4>3. executed[i] \in 1 .. Cur
        <5>1. executed \in Seq(DOMAIN sent)
          BY DEF AnyInv, TypeOK
        <5> QED  BY <1>1, <5>1
      <4> QED  BY <1>1, <4>2, <4>3
    <3> QED  BY <1>1, <3>1, <3>2
  <2>4. \A b \in 1 .. c : sent'[b] \in {"call", "extcall", "prepare", "flush"} =>
          b \in Range(executed) \/ Piece(b, sent'[b], 1) \in Range(stream')
    <3> TAKE b \in 1 .. c
    <3> HAVE sent'[b] \in {"call", "extcall", "prepare", "flush"}
    <3>1. CASE b = c
      BY <1>1, <1>7, <3>1
    <3>2. CASE b # c
      <4>1. b \in DOMAIN sent /\ sent'[b] = sent[b] /\ b # 0
        BY <1>1, <3>2
      <4> QED  BY <1>4, <1>6, <4>1 DEF IntactInv, IsCommand, P
    <3> QED  BY <3>1, <3>2
  <2> QED  BY <2>1, <2>2, <2>3, <2>4
<1> QED
  BY <1>5, <1>8, <1>9

\* What is relayed while the network tears nothing apart is of no command.
LEMMA RelaysNone ==
  ASSUME AnyInv, WaitInv, NEW n \in 1 .. Len(stream), Relays(n), ~torn, ~Cut(stream'),
         NEW j \in DOMAIN stream
  PROVE  ~IsCommand(stream[j].batch)
<1> SUFFICES ASSUME IsCommand(stream[j].batch) PROVE FALSE
  OBVIOUS
<1> USE DEF WaitInv
<1> DEFINE b == stream[j].batch
<1>1. Consume(n) /\ draining = 0
  BY DEF Relays
<1>2. /\ Cur \in Nat /\ DOMAIN sent = 1 .. Cur /\ b \in DOMAIN sent
      /\ \A i : P(b, i).batch = b /\ P(b, i).place = i
  BY Pieces
<1>3. \A i \in DOMAIN stream : stream[i].batch \notin Range(executed)
  BY DEF IntactInv, Range
<1>4. \A i \in DOMAIN stream : stream[i].batch = Cur
  BY <1>3, Behindhand, Pieces DEF AnsweredInv
<1>5. b = Cur
  BY <1>4
<1> HIDE DEF b
<1>6. PICK k \in DOMAIN stream : stream[k] = P(Cur, 1)
  <2>1. P(b, 1) \in Range(stream)
    BY <1>1, <1>2, <1>3, <1>5 DEF IntactInv, b
  <2> QED  BY <1>5, <2>1 DEF Range
<1>7. stream[1] = P(Cur, 1)
  <2> SUFFICES ASSUME k # 1 PROVE FALSE
    BY <1>6
  <2>1. 1 \in DOMAIN stream /\ 1 < k
    BY <1>1, Left
  <2>2. Before(stream[1], stream[k])
    BY <2>1 DEF AnyInv, StreamInv
  <2>3. /\ stream[1].batch = Cur /\ stream[1].place \in Nat /\ stream[1].place >= 1
        /\ stream[k].batch = Cur /\ stream[k].place = 1
    BY <1>2, <1>4, <1>5, <1>6, <2>1, Pieces
  <2> QED  BY <1>2, <2>2, <2>3 DEF Before
<1>8. stream[1].type \in {"Q", "P"} /\ IsCommand(stream[1].batch)
  BY <1>2, <1>5, <1>7, SentShape DEF AnyInv, b
<1>9. n = 1
  <2> DEFINE data == SubSeq(stream, 1, n)
  <2>1. Len(data) = n /\ data[1] = stream[1]
    BY <1>1, Chunk DEF AnyInv
  <2>2. ~StartsCommand(data, "Q") /\ ~StartsCommand(data, "P")
    BY DEF Relays
  <2> QED  BY <1>8, <2>1, <2>2 DEF StartsCommand
<1>10. stream' # <<>>
  <2> SUFFICES ASSUME stream' = <<>> PROVE FALSE
    OBVIOUS
  <2>1. n = Len(stream) /\ stream # <<>>
    BY <1>1, Chunk DEF AnyInv
  <2>2. stream[1] = P(Cur, Size(Cur))
    BY <1>9, <2>1 DEF AnyInv, StreamInv
  <2> QED  BY <1>2, <1>5, <1>7, <2>2, Pieces
<1>11. 2 \in DOMAIN stream /\ stream'[1] = stream[2] /\ 1 \in 1 .. Len(stream) - 1
  BY <1>1, <1>9, <1>10, Left
<1>12. stream[2].type \in Inner
  <2>1. /\ Valid(stream[1]) /\ Valid(stream[2]) /\ Follows(stream[1], stream[2])
    <3>1. 1 \in DOMAIN stream
      BY <1>1, Left
    <3> QED  BY <1>11, <3>1 DEF AnyInv, StreamInv
  <2>2. ~Ends(stream[1])
    BY <1>8 DEF Ends, Bare
  <2> QED  BY <2>1, <2>2, FollowShape DEF AnyInv
<1> QED
  BY <1>10, <1>11, <1>12 DEF Cut

\* Nothing is lost on the way while the client waits.
LEMMA WaitInvNext == Window = 1 /\ AnyInv /\ WaitInv /\ [Next]_vars => WaitInv'
<1> SUFFICES ASSUME Window = 1, AnyInv, WaitInv, [Next]_vars PROVE WaitInv'
  OBVIOUS
<1>1. ASSUME NEW n \in 1 .. Len(stream), ExecutesQuery(n) PROVE WaitInv'
  <2> DEFINE b == SubSeq(stream, 1, n)[1].batch
  <2>1. /\ draining = 0 /\ StartsCommand(SubSeq(stream, 1, n), "Q")
        /\ UNCHANGED <<sent, toBackend, draining>>
        /\ executed' = Append(executed, b) /\ Consume(n)
    BY <1>1 DEF ExecutesQuery, Executes
  <2>2. /\ b = Cur /\ Cur \in DOMAIN sent /\ IsCommand(Cur)
        /\ \A j \in DOMAIN stream : stream[j].batch = Cur
        /\ \A j \in DOMAIN stream' : stream'[j].place > 1 /\ stream'[j].place \in Nat
    BY <2>1, StartsLast DEF WaitInv
  <2>3. stream[1] = P(b, 1) /\ stream[1].type = "Q"
    BY <2>1, Start DEF AnyInv
  <2>4. ~torn' => ~torn /\ ~Cut(stream')
    BY <2>1 DEF Consume
  <2>5. ~Cut(stream') => stream' = <<>>
    BY <2>1, <2>2, <2>3, QueryEnds
  <2>6. \A j \in DOMAIN stream' : stream'[j] \in Range(stream)
    BY <2>1, Left
  <2> HIDE DEF b
  <2> QED  BY <2>1, <2>2, <2>4, <2>5, <2>6, Taken
<1>2. ASSUME NEW n \in 1 .. Len(stream), ExecutesParse(n) PROVE WaitInv'
  <2> DEFINE b == SubSeq(stream, 1, n)[1].batch
  <2>1. /\ draining = 0 /\ StartsCommand(SubSeq(stream, 1, n), "P")
        /\ UNCHANGED <<sent, toBackend>> /\ Consume(n)
        /\ \/ /\ HasSync(SubSeq(stream, 1, n))
              /\ executed' = Append(executed, b) /\ draining' = draining
           \/ draining' = b /\ executed' = executed
    BY <1>2 DEF ExecutesParse, Executes
  <2>2. /\ b = Cur /\ Cur \in DOMAIN sent /\ IsCommand(Cur)
        /\ \A j \in DOMAIN stream : stream[j].batch = Cur
    BY <2>1, StartsLast DEF WaitInv
  <2>3. ~torn' => ~torn /\ ~Cut(stream')
    BY <2>1 DEF Consume
  <2>4. \A j \in DOMAIN stream' : stream'[j] \in Range(stream)
    BY <2>1, Left
  <2>5. Cur # 0
    BY <2>2, Pieces
  <2>6. CASE HasSync(SubSeq(stream, 1, n)) /\ executed' = Append(executed, b) /\ draining' = draining
    <3>1. stream' = <<>>
      BY <2>1, <2>2, <2>6, SyncEnds
    <3> QED  BY <2>1, <2>2, <2>3, <2>4, <2>6, <3>1, Taken
  <2>7. CASE draining' = b /\ executed' = executed
    BY <2>1, <2>2, <2>3, <2>4, <2>5, <2>7, Taken
  <2> QED  BY <2>1, <2>6, <2>7
<1>3. ASSUME draining # 0
      PROVE  /\ draining = Cur /\ Cur \in DOMAIN sent /\ IsCommand(Cur) /\ Cur # 0
             /\ \A j \in DOMAIN stream : stream[j].batch = Cur
  <2>1. draining = Cur /\ Cur \in DOMAIN sent /\ IsCommand(Cur)
    BY <1>3 DEF WaitInv, AnsweredInv, AnyInv, CommandInv
  <2>2. \A j \in DOMAIN stream : Behind(stream[j], Cur)
    BY <1>3, <2>1 DEF AnyInv, CommandInv
  <2>3. \A j \in DOMAIN stream : stream[j].batch = Cur
    BY <2>2, Pieces DEF Behind
  <2> QED  BY <1>3, <2>1, <2>3
<1>4. ASSUME NEW n \in 1 .. Len(stream), Drains(n) PROVE WaitInv'
  <2> DEFINE data == SubSeq(stream, 1, n)
  <2>1. /\ draining # 0 /\ UNCHANGED <<sent, toBackend>> /\ Consume(n)
    BY <1>4 DEF Drains
  <2>2. \E found \in SyncFound(data) :
          \/ found /\ executed' = Append(executed, draining) /\ draining' = 0
          \/ executed' = executed /\ draining' = draining
    BY <1>4, Zenon DEF Drains, Executes
  <2>3. /\ draining = Cur /\ Cur \in DOMAIN sent /\ IsCommand(Cur) /\ Cur # 0
        /\ \A j \in DOMAIN stream : stream[j].batch = Cur
    BY <1>3, <2>1
  <2>4. ~torn' => ~torn /\ ~Cut(stream')
    BY <2>1 DEF Consume
  <2>5. \A j \in DOMAIN stream' : stream'[j] \in Range(stream)
    BY <2>1, Left
  <2>6. ~torn => SyncFound(data) = {HasSync(data)}
    <3>1. ~torn => ~Cut(stream)
      BY DEF WaitInv, IntactInv
    <3>2. data[1] = stream[1] /\ stream # <<>>
      BY <2>1, Chunk DEF AnyInv
    <3> QED  BY <3>1, <3>2 DEF SyncFound, Cut
  <2>7. HasSync(data) => stream' = <<>>
    BY <2>1, <2>3, SyncEnds
  <2> HIDE DEF data
  <2>8. \/ (~torn => HasSync(data)) /\ executed' = Append(executed, draining) /\ draining' = 0
        \/ executed' = executed /\ draining' = draining
    BY <2>2, <2>6
  <2> QED  BY <2>1, <2>3, <2>4, <2>5, <2>7, <2>8, Taken
<1>5. CASE DrainTimesOut
  <2>1. /\ draining # 0 /\ draining' = 0 /\ UNCHANGED <<sent, stream, toBackend>>
        /\ executed' = Append(executed, draining)
        /\ ~torn' => ~torn /\ stream = <<>>
    BY <1>5 DEF DrainTimesOut, Executes
  <2>2. /\ draining = Cur /\ Cur \in DOMAIN sent /\ IsCommand(Cur)
        /\ \A j \in DOMAIN stream : stream[j].batch = Cur
    BY <1>3, <2>1
  <2>3. \A j \in DOMAIN stream' : stream'[j] \in Range(stream)
    BY <2>1 DEF Range
  <2>4. ~torn' => ~torn /\ ~Cut(stream') /\ stream' = <<>>
    BY <2>1 DEF Cut
  <2> QED  BY <2>1, <2>2, <2>3, <2>4, Taken
<1>6. ASSUME NEW n \in 1 .. Len(stream), Relays(n) PROVE WaitInv'
  <2> DEFINE m == Len(toBackend)
  <2>1. /\ draining = 0 /\ UNCHANGED <<sent, executed, draining>>
        /\ m \in Nat /\ DOMAIN toBackend = 1 .. m /\ DOMAIN toBackend' = 1 .. m + n
        /\ \A i \in 1 .. m : toBackend'[i] = toBackend[i]
        /\ \A i \in m + 1 .. m + n : i - m \in 1 .. n /\ toBackend'[i] = stream[i - m]
    BY <1>6, Relayed DEF AnyInv
  <2>2. Consume(n)
    BY <1>6 DEF Relays
  <2>3. /\ Len(stream) \in Nat /\ DOMAIN stream = 1 .. Len(stream)
        /\ n \in Nat /\ n >= 1 /\ n <= Len(stream)
        /\ \A j \in DOMAIN stream' : stream'[j] \in Range(stream)
    BY <2>2, Left
  <2>4. Range(toBackend) \subseteq Range(toBackend')
    <3>1. \A i \in DOMAIN toBackend : i \in DOMAIN toBackend' /\ toBackend'[i] = toBackend[i]
      BY <2>1, <2>3
    <3> QED  BY <3>1 DEF Range
  <2> HIDE DEF m
  <2>5. Range(stream) \subseteq Range(toBackend') \union Range(stream')
    <3> SUFFICES ASSUME NEW j \in DOMAIN stream
                 PROVE  stream[j] \in Range(toBackend') \union Range(stream')
      BY DEF Range
    <3>1. CASE j <= n
      <4>1. m + j \in DOMAIN toBackend' /\ toBackend'[m + j] = stream[j]
        <5>1. m + j \in m + 1 .. m + n /\ (m + j) - m = j
          BY <2>1, <2>3, <3>1
        <5> QED  BY <2>1, <2>3, <5>1
      <4> QED  BY <4>1 DEF Range
    <3>2. CASE j > n
      <4>1. j - n \in DOMAIN stream' /\ stream'[j - n] = stream[j]
        <5> DEFINE l == Len(stream)
        <5>1. /\ DOMAIN stream' = 1 .. l - n /\ \A i \in 1 .. l - n : stream'[i] = stream[i + n]
          BY <2>2, Chunk DEF AnyInv
        <5> HIDE DEF l
        <5>2. l \in Nat /\ j \in 1 .. l
          BY <2>3 DEF l
        <5>3. j - n \in 1 .. l - n /\ (j - n) + n = j
          BY <2>3, <3>2, <5>2
        <5> QED  BY <5>1, <5>3
      <4> QED  BY <4>1 DEF Range
    <3> QED  BY <2>3, <3>1, <3>2
  <2>6. AnsweredInv'
    <3>1. \A b \in DOMAIN sent :
            b # Cur => b \in Range(executed) \/ LastPiece(b) \in Range(toBackend')
      BY <2>4 DEF WaitInv, AnsweredInv, Answered
    <3> QED  BY <2>1, <3>1 DEF AnsweredInv, Answered, LastPiece, Cur
  <2>7. KeptInv'
    <3>1. \A b \in DOMAIN sent : ~IsCommand(b) =>
            \A k \in 1 .. Size(b) : P(b, k) \in Range(toBackend') \union Range(stream')
      BY <2>4, <2>5 DEF WaitInv, KeptInv
    <3> QED  BY <2>1, <3>1 DEF KeptInv, IsCommand, P, Size
  <2>8. IntactInv'
    <3> SUFFICES ASSUME ~torn'
                 PROVE  /\ ~Cut(stream')
                        /\ \A i \in DOMAIN toBackend' : ~IsCommand(toBackend'[i].batch)
                        /\ \A i \in DOMAIN executed, j \in DOMAIN stream' :
                             stream'[j].batch # executed[i]
                        /\ \A b \in DOMAIN sent : IsCommand(b) => b \in Range(executed)
      BY <2>1 DEF IntactInv, IsCommand
    <3>1. ~torn /\ ~Cut(stream')
      BY <2>2 DEF Consume
    <3>2. \A j \in DOMAIN stream : ~IsCommand(stream[j].batch)
      BY <1>6, <3>1, RelaysNone
    <3>3. \A i \in DOMAIN toBackend' : ~IsCommand(toBackend'[i].batch)
      <4> TAKE i \in DOMAIN toBackend'
      <4>1. CASE i \in 1 .. m
        BY <2>1, <3>1, <4>1 DEF WaitInv, IntactInv
      <4>2. CASE i \in m + 1 .. m + n
        <5>1. i - m \in 1 .. n /\ toBackend'[i] = stream[i - m]
          BY <2>1, <4>2
        <5>2. i - m \in DOMAIN stream
          BY <2>3, <5>1
        <5> QED  BY <3>2, <5>1, <5>2
      <4> QED  BY <2>1, <2>3, <4>1, <4>2
    <3>4. \A i \in DOMAIN executed, j \in DOMAIN stream' : stream'[j].batch # executed[i]
      BY <2>3, <3>1 DEF WaitInv, IntactInv, Range
    <3>5. \A b \in DOMAIN sent : IsCommand(b) => b \in Range(executed)
      <4> TAKE b \in DOMAIN sent
      <4> HAVE IsCommand(b)
      <4>1. P(b, 1) \notin Range(stream)
        <5>1. P(b, 1).batch = b
          BY Pieces
        <5> QED  BY <3>2, <5>1 DEF Range
      <4>2. b # 0
        BY Pieces
      <4> QED  BY <2>1, <3>1, <4>1, <4>2 DEF WaitInv, IntactInv
    <3> QED  BY <3>1, <3>3, <3>4, <3>5
  <2> QED  BY <2>6, <2>7, <2>8 DEF WaitInv
<1>7. CASE UNCHANGED vars
  BY <1>7 DEF vars, WaitInv, AnsweredInv, Answered, LastPiece, KeptInv, IntactInv, IsCommand,
          P, Size, Cur, Cut, Range
<1> QED
  BY <1>1, <1>2, <1>4, <1>5, <1>6, <1>7, SendsWait DEF Next, Reads

\* And so it is in every state.
LEMMA WaitInvAlways == Window = 1 => (Spec => [](AnyInv /\ WaitInv))
<1> SUFFICES ASSUME Window = 1 PROVE Spec => [](AnyInv /\ WaitInv)
  OBVIOUS
<1>1. Init => WaitInv
  BY DEF Init, WaitInv, AnsweredInv, KeptInv, IntactInv, Cut
<1>2. AnyInv /\ WaitInv /\ [Next]_vars => WaitInv'
  BY WaitInvNext
<1> QED
  BY <1>1, <1>2, AnyInvAlways, PTL DEF Spec

\* No piece of a GenDB command of a client that waits reaches the backend, unless the network
\* tore a message apart or held up a Sync.
THEOREM NothingLeaks == Window = 1 => (Spec => []NoLeak)
<1> SUFFICES ASSUME Window = 1 PROVE Spec => []NoLeak
  OBVIOUS
<1>1. WaitInv => NoLeak
  BY DEF WaitInv, IntactInv, NoLeak
<1> QED  BY <1>1, WaitInvAlways, PTL

\* What a client that waits sends and is no command reaches the backend, all of it, once and
\* in order.
THEOREM NothingIsLost == Window = 1 => (Spec => []NothingLost)
<1> SUFFICES ASSUME Window = 1 PROVE Spec => []NothingLost
  OBVIOUS
<1>1. AnyInv /\ WaitInv => NothingLost
  <2> SUFFICES ASSUME AnyInv, WaitInv PROVE NothingLost
    OBVIOUS
  <2>1. \A i, j \in DOMAIN toBackend : i < j => Before(toBackend[i], toBackend[j])
    BY DEF AnyInv, BackendInv
  <2>2. ASSUME Drained, NEW b \in DOMAIN sent, ~IsCommand(b)
        PROVE  Range(PiecesOf(b, sent[b])) \subseteq Range(toBackend)
    <3>1. Range(stream) = {}
      BY <2>2 DEF Drained, Range
    <3>2. \A k \in 1 .. Size(b) : P(b, k) \in Range(toBackend)
      BY <2>2, <3>1 DEF WaitInv, KeptInv
    <3>3. DOMAIN Batch[sent[b]] = 1 .. Size(b)
      BY <2>2, SentShape DEF AnyInv, Shaped, Size
    <3>4. Range(PiecesOf(b, sent[b])) = {P(b, k) : k \in 1 .. Size(b)}
      BY <3>3 DEF Range, PiecesOf, P
    <3> QED  BY <3>2, <3>4
  <2> QED  BY <2>1, <2>2 DEF NothingLost
<1> QED  BY <1>1, WaitInvAlways, PTL

\* Each GenDB command of a client that waits is executed once, and nothing else is.
THEOREM EachCommandIsExecutedOnce == Window = 1 => (Spec => []EachCommandOnce)
<1> SUFFICES ASSUME Window = 1 PROVE Spec => []EachCommandOnce
  OBVIOUS
<1>1. AnyInv /\ WaitInv => EachCommandOnce
  <2> SUFFICES ASSUME AnyInv, WaitInv PROVE EachCommandOnce
    OBVIOUS
  <2>1. \A i, j \in DOMAIN executed : i < j => executed[i] < executed[j]
    BY DEF AnyInv, CommandInv
  <2>2. Range(executed) \subseteq {b \in DOMAIN sent : IsCommand(b)}
    <3>1. executed \in Seq(DOMAIN sent)
      BY DEF AnyInv, TypeOK
    <3>2. \A i \in DOMAIN executed : executed[i] \in DOMAIN sent /\ IsCommand(executed[i])
      BY <3>1 DEF AnyInv, CommandInv
    <3> QED  BY <3>2 DEF Range
  <2>3. ASSUME Drained, ~torn, NEW b \in DOMAIN sent, IsCommand(b) PROVE b \in Range(executed)
    <3>1. Range(stream) = {} /\ draining = 0 /\ b # 0
      BY <2>3, Pieces DEF Drained, Range
    <3> QED  BY <2>3, <3>1 DEF WaitInv, IntactInv
  <2> QED  BY <2>1, <2>2, <2>3 DEF EachCommandOnce
<1> QED  BY <1>1, WaitInvAlways, PTL
================================================================================
