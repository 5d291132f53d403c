----------------------------- MODULE GeneratorProofs -----------------------------
(***************************************************************************)
(* Theorems about Generator, for any table, any responses of the LLM and   *)
(* any number of calls: the rows of a call never have one key as texts,    *)
(* and there are never more of them than were asked for.                   *)
(***************************************************************************)
EXTENDS Generator, SequenceTheorems, TLAPS

\* The keys of row r for the unique indexes u: KeysOf without the state.
KeysIn(u, r) == {KeyOf(index, r) : index \in u}

\* The tracker has seen the keys of all that is kept, and no two rows have one in common.
TrackInv == /\ \A i \in DOMAIN kept : KeysIn(shape.unique, kept[i]) \subseteq seen
            /\ \A i, j \in DOMAIN kept :
                 i # j => KeysIn(shape.unique, kept[i])
                            \intersect KeysIn(shape.unique, kept[j]) = {}

\* Rows kept, rows lost and rows still to look at add up to no more than was asked for; in
\* a retry, rows to look at are at most the rows lost.
CountInv == ~over =>
  /\ lost >= 0 /\ Len(kept) + lost <= RowCount
  /\ pc = "idle" => attempt = 0
  /\ attempt = 0 /\ pc \in {"idle", "wait"} => kept = <<>> /\ lost = 0
  /\ pc = "wait" => asked = IF attempt = 0 THEN RowCount ELSE lost
  /\ pc = "sift" => IF attempt = 0 THEN Len(kept) + lost + Len(batch) <= RowCount
                                   ELSE Len(batch) <= lost

IInv == TypeOK /\ TrackInv /\ CountInv

\* What an answer is coerced to may be in a row, and so may nil.
LEMMA WhatRowsHold == /\ Null \in GoValues
                      /\ \A r \in AnswerRows : \A c \in DOMAIN r : Coerced(r)[c] \in GoValues
<1> DEFINE held(r) == {Coerced(r)[c] : c \in DOMAIN r}
           answers == UNION {held(r) : r \in AnswerRows}
<1>1. GoValues = answers \union (UNION {Valid[f] : f \in DOMAIN Valid}) \union {Null}
  BY DEF GoValues
<1>2. ASSUME NEW r \in AnswerRows, NEW c \in DOMAIN r
      PROVE  Coerced(r)[c] \in answers
  <2>1. held(r) \in {held(s) : s \in AnswerRows}
    OBVIOUS
  <2>2. Coerced(r)[c] \in held(r)
    OBVIOUS
  <2> HIDE DEF held
  <2> QED
    BY <2>1, <2>2
<1> HIDE DEF answers
<1> QED
  BY <1>1, <1>2

\* What a column stores of a Go value, and what the database fills in, may be in the table.
LEMMA WhatCellsHold == /\ \A c \in Columns, v \in GoValues : Stored(c, v) \in Cells
                       /\ \A c \in Columns : Null \in Cells
                       /\ Default \in Cells
<1>1. \A c \in Columns, v \in GoValues : Stored(c, v) \in Cells
  BY DEF Cells
<1>2. \A c \in Columns : Null \in Cells
  <2>1. \A c \in Columns : Stored(c, Null) = Null
    BY GeneratorAssumption
  <2> QED
    BY <1>1, <2>1, WhatRowsHold
<1> QED
  BY <1>1, <1>2 DEF Cells

\* A coerced and repaired row is a row.
LEMMA RepairedIsRow ==
  ASSUME NEW r \in AnswerRows, NEW pick \in Picks
  PROVE  Repaired(Coerced(r), pick) \in Rows
<1>1. pick \in [DOMAIN valid -> GoValues]
  BY DEF Picks
<1>2. DOMAIN r \in SUBSET Columns
  BY GeneratorAssumption
<1>3. \A c \in DOMAIN r : Coerced(r)[c] \in GoValues
  BY WhatRowsHold
<1>4. DOMAIN Coerced(r) = DOMAIN r
  BY DEF Coerced
<1>5. Repaired(Coerced(r), pick) \in [DOMAIN r -> GoValues]
  BY <1>1, <1>3, <1>4 DEF Repaired
<1> QED
  BY <1>2, <1>5 DEF Rows

\* What a row is in the table.
LEMMA InTableIsRow ==
  ASSUME NEW r \in Rows
  PROVE  InTable(r) \in [Columns -> Cells]
<1>1. Default \in Cells /\ \A c \in Columns : Null \in Cells
  BY WhatCellsHold
<1>2. \A c \in Columns : Value(r, c) \in GoValues
  BY WhatRowsHold DEF Value, Rows
<1>3. \A c \in Columns : Stored(c, Value(r, c)) \in Cells
  BY <1>2, WhatCellsHold
<1> QED
  BY <1>1, <1>3 DEF InTable

\* The invariant holds at the start.
LEMMA InitIInv == Init => IInv
<1> SUFFICES ASSUME Init
             PROVE  IInv
  OBVIOUS
<1> USE GeneratorAssumption DEF Init
<1>1. got \in [{Client} -> Nat]
  BY DEF Source!Init
<1>t. <<>> \in Seq(Rows) /\ <<>> \in Seq(AnswerRows)
  OBVIOUS
<1>b. over \in BOOLEAN
  OBVIOUS
<1>2. TypeOK
  BY <1>1, <1>b, <1>t DEF TypeOK
<1>3. TrackInv
  BY DEF TrackInv
<1>4. CountInv
  BY DEF CountInv
<1> QED
  BY <1>2, <1>3, <1>4 DEF IInv

\* When a call returns nothing is kept.
LEMMA EndsIInv ==
  ASSUME IInv, NEW how \in {"none", "done", "error", "refused"}, Ends(how), shape' = shape,
         stored' \subseteq [Columns -> Cells], others' = others
  PROVE  IInv'
<1> USE GeneratorAssumption DEF IInv, Ends
<1>t. <<>> \in Seq(Rows) /\ <<>> \in Seq(AnswerRows)
  OBVIOUS
<1>b. over' \in BOOLEAN
  OBVIOUS
<1>g. got' = got /\ calls' = calls
  BY DEF client
<1>1. TypeOK'
  BY <1>b, <1>g, <1>t DEF TypeOK
<1>2. TrackInv'
  BY DEF TrackInv
<1>3. CountInv'
  BY DEF CountInv
<1> QED
  BY <1>1, <1>2, <1>3

\* Requests are for rows that are missing.
LEMMA RequestIInv ==
  ASSUME IInv, Begins \/ Retries
  PROVE  IInv'
<1> USE GeneratorAssumption DEF IInv
<1>1. CASE Begins
  <2>1. got' \in [{Client} -> Nat]
    BY <1>1 DEF Begins, Requests, Source!Asks, TypeOK
  <2>2. TypeOK'
    BY <1>1, <2>1 DEF Begins, Requests, TypeOK, table, sifting
  <2>3. TrackInv'
    BY <1>1 DEF Begins, TrackInv, table, sifting
  <2>4. CountInv'
    BY <1>1 DEF Begins, Requests, CountInv, table, sifting
  <2> QED
    BY <2>2, <2>3, <2>4
<1>2. CASE Retries
  <2>1. got' \in [{Client} -> Nat]
    BY <1>2 DEF Retries, Requests, Source!Asks, TypeOK
  <2>2. TypeOK'
    BY <1>2, <2>1 DEF Retries, Requests, TypeOK, table, sifting
  <2>3. TrackInv'
    BY <1>2 DEF Retries, TrackInv, table, sifting
  <2>4. CountInv'
    BY <1>2 DEF Retries, Requests, CountInv, TypeOK, table, sifting
  <2> QED
    BY <2>2, <2>3, <2>4
<1> QED
  BY <1>1, <1>2

\* A response that is not too long has at most the rows that are missing.
LEMMA ReceiveIInv ==
  ASSUME IInv, Receives
  PROVE  IInv'
<1> USE GeneratorAssumption DEF IInv, Receives
<1>1. got[Client] \in Nat
  BY DEF TypeOK
<1>2. batch' \in Seq(AnswerRows) /\ Len(batch') = got[Client]
  BY <1>1
<1>3. TypeOK'
  BY <1>2 DEF TypeOK, table, sifting, client
<1>4. TrackInv'
  BY DEF TrackInv, table, sifting
<1>5. Len(kept) \in Nat /\ kept' = kept /\ lost' = lost /\ asked \in Nat
  BY DEF TypeOK, sifting
<1>6. ~over' => ~over /\ ~(got[Client] > asked)
  OBVIOUS
<1>7. CountInv'
  BY <1>1, <1>2, <1>5, <1>6 DEF CountInv, TypeOK
<1> QED
  BY <1>3, <1>4, <1>7

\* The steps that touch neither what is kept nor what is counted.
LEMMA QuietIInv ==
  ASSUME IInv, kept' = kept, seen' = seen, lost' = lost, shape' = shape,
         attempt' = attempt, over' = over, asked' = asked, got' \in [{Client} -> Nat],
         stored' \subseteq [Columns -> Cells], result' = result,
         calls' = calls, others' \in 0 .. MaxOthers,
         \/ pc' = pc /\ batch' = batch
         \/ pc' = "copy" /\ batch' = batch
         \/ pc = "sift" /\ pc' = pc /\ attempt # 0 /\ batch # <<>> /\ batch' = Tail(batch)
  PROVE  IInv'
<1>t. batch \in Seq(AnswerRows)
  BY DEF IInv, TypeOK
<1>1. batch' \in Seq(AnswerRows) /\ (batch' = batch \/ Len(batch') = Len(batch) - 1)
  BY <1>t
<1> USE GeneratorAssumption DEF IInv
<1>2. TypeOK'
  BY <1>1 DEF TypeOK
<1>3. TrackInv'
  BY DEF TrackInv
<1>4. CountInv'
  BY <1>1 DEF CountInv, TypeOK
<1> QED
  BY <1>2, <1>3, <1>4

\* A row is kept only if the tracker has seen none of its keys.
LEMMA KeepIInv ==
  ASSUME IInv, NEW pick \in Picks, Keeps(pick)
  PROVE  IInv'
<1> DEFINE r == Repaired(Coerced(Head(batch)), pick)
           u == shape.unique
<1> USE GeneratorAssumption DEF IInv
<1>1. /\ pc = "sift" /\ pc' = "sift" /\ batch # <<>> /\ batch' = Tail(batch)
      /\ shape' = shape /\ stored' = stored /\ others' = others
      /\ attempt' = attempt /\ asked' = asked /\ over' = over /\ result' = result
      /\ calls' = calls /\ got' = got
      /\ kept' = Append(kept, r)
      /\ lost' = IF attempt = 0 THEN lost ELSE lost - 1
  BY DEF Keeps, Takes, table, client
<1>2. KeysIn(u, r) \intersect seen = {} /\ seen' = seen \union KeysIn(u, r)
  BY DEF Keeps, IsUnique, KeysOf, KeysIn
<1>3. Head(batch) \in AnswerRows /\ batch' \in Seq(AnswerRows) /\ Len(batch) \in Nat
      /\ Len(batch') = Len(batch) - 1
  BY <1>1 DEF TypeOK
<1>4. r \in Rows
  BY <1>3, RepairedIsRow
<1> HIDE DEF r
<1>5. /\ kept \in Seq(Rows) /\ kept' \in Seq(Rows) /\ Len(kept') = Len(kept) + 1
      /\ DOMAIN kept' = DOMAIN kept \union {Len(kept) + 1}
      /\ \A i \in DOMAIN kept : kept'[i] = kept[i] /\ i # Len(kept) + 1
      /\ kept'[Len(kept) + 1] = r
  <2>1. kept \in Seq(Rows)
    BY DEF TypeOK
  <2> QED
    BY <1>1, <1>4, <2>1
<1>6. TypeOK'
  BY <1>1, <1>3, <1>5 DEF TypeOK
<1>7. TrackInv'
  <2>1. \A i \in DOMAIN kept' : KeysIn(u, kept'[i]) \subseteq seen'
    BY <1>2, <1>5 DEF TrackInv
  <2>2. \A i \in DOMAIN kept : KeysIn(u, kept'[i]) \intersect KeysIn(u, r) = {}
    BY <1>2, <1>5 DEF TrackInv
  <2>3. ASSUME NEW i \in DOMAIN kept', NEW j \in DOMAIN kept', i # j
        PROVE  KeysIn(u, kept'[i]) \intersect KeysIn(u, kept'[j]) = {}
    <3>1. CASE i \in DOMAIN kept /\ j \in DOMAIN kept
      BY <1>5, <2>3, <3>1 DEF TrackInv
    <3>2. CASE i \in DOMAIN kept /\ j = Len(kept) + 1
      BY <1>5, <2>2, <3>2
    <3>3. CASE i = Len(kept) + 1 /\ j \in DOMAIN kept
      BY <1>5, <2>2, <3>3
    <3> QED
      BY <1>5, <2>3, <3>1, <3>2, <3>3
  <2> QED
    BY <1>1, <2>1, <2>3 DEF TrackInv
<1>8. CountInv'
  BY <1>1, <1>3, <1>5 DEF CountInv, TypeOK
<1> QED
  BY <1>6, <1>7, <1>8

\* A row that is dropped is one more to ask for again, unless it comes from a retry.
LEMMA DropIInv ==
  ASSUME IInv, NEW pick \in Picks, Drops(pick)
  PROVE  IInv'
<1> USE GeneratorAssumption DEF IInv
<1>1. /\ pc = "sift" /\ pc' = "sift" /\ batch # <<>> /\ batch' = Tail(batch)
      /\ shape' = shape /\ stored' = stored /\ others' = others
      /\ attempt' = attempt /\ asked' = asked /\ over' = over /\ result' = result
      /\ calls' = calls /\ got' = got /\ kept' = kept /\ seen' = seen
      /\ lost' = IF attempt = 0 THEN lost + 1 ELSE lost
  BY DEF Drops, Takes, table, client
<1>2. batch' \in Seq(AnswerRows) /\ Len(batch) \in Nat /\ Len(batch') = Len(batch) - 1
  BY <1>1 DEF TypeOK
<1>3. TypeOK'
  BY <1>1, <1>2 DEF TypeOK
<1>4. TrackInv'
  BY <1>1 DEF TrackInv
<1>5. Len(kept) \in Nat
  BY DEF TypeOK
<1>6. CountInv'
  BY <1>1, <1>2, <1>5 DEF CountInv, TypeOK
<1> QED
  BY <1>3, <1>4, <1>6

\* What is inserted are rows of the table.
LEMMA CopyIInv ==
  ASSUME IInv, Copies \/ CopyRefused \/ CopyFails
  PROVE  IInv'
<1>1. \A i \in DOMAIN kept : InTable(kept[i]) \in [Columns -> Cells]
  BY InTableIsRow DEF IInv, TypeOK
<1>2. stored' \subseteq [Columns -> Cells]
  BY <1>1 DEF IInv, TypeOK, Copies, CopyRefused, CopyFails, table
<1>3. shape' = shape /\ others' = others /\ \E how \in {"done", "error", "refused"} : Ends(how)
  BY DEF Copies, CopyRefused, CopyFails, table
<1> QED
  BY <1>2, <1>3, EndsIInv

\* Every step preserves the invariant.
LEMMA StepIInv == IInv /\ [Next]_vars => IInv'
<1> SUFFICES ASSUME IInv, [Next]_vars
             PROVE  IInv'
  OBVIOUS
<1>t. got \in [{Client} -> Nat] /\ others \in 0 .. MaxOthers
      /\ stored \subseteq [Columns -> Cells]
  BY DEF IInv, TypeOK
<1>1. CASE Begins \/ Retries
  BY <1>1, RequestIInv
<1>2. CASE Receives
  BY <1>2, ReceiveIInv
<1>3. CASE ReceivesError
  <2>1. CASE attempt = 0
    <3>1. Ends("error") /\ shape' = shape /\ stored' = stored /\ others' = others
      BY <1>3, <2>1 DEF ReceivesError, table
    <3> QED
      BY <1>t, <3>1, EndsIInv
  <2>2. CASE attempt # 0
    BY <1>3, <1>t, <2>2, QuietIInv DEF ReceivesError, table, sifting, client
  <2> QED
    BY <2>1, <2>2
<1>4. CASE FailsToCoerce
  <2>1. CASE attempt = 0
    <3>1. Ends("error") /\ shape' = shape /\ stored' = stored /\ others' = others
      BY <1>4, <2>1 DEF FailsToCoerce, table
    <3> QED
      BY <1>t, <3>1, EndsIInv
  <2>2. CASE attempt # 0
    BY <1>4, <1>t, <2>2, QuietIInv DEF FailsToCoerce, table, sifting, client
  <2> QED
    BY <2>1, <2>2
<1>5. CASE \E pick \in Picks : Keeps(pick) \/ Drops(pick)
  BY <1>5, KeepIInv, DropIInv
<1>6. CASE StopsSifting
  BY <1>6, <1>t, QuietIInv DEF StopsSifting, table, sifting, client
<1>7. CASE Copies \/ CopyRefused \/ CopyFails
  BY <1>7, CopyIInv
<1>8. CASE Answered
  <2>1. got' \in [{Client} -> Nat]
    BY <1>8, <1>t, GeneratorAssumption
    DEF Answered, Source!Answers, Source!Fails, Source!Serves
  <2> QED
    BY <1>8, <1>t, <2>1, QuietIInv DEF Answered, table, sifting
<1>9. CASE OthersInsert
  <2>1. stored' \subseteq [Columns -> Cells]
    BY <1>9, <1>t, GeneratorAssumption DEF OthersInsert
  <2>2. others' \in 0 .. MaxOthers
    BY <1>9, <1>t, GeneratorAssumption DEF OthersInsert
  <2> QED
    BY <1>9, <1>t, <2>1, <2>2, QuietIInv DEF OthersInsert, sifting, client
<1>10. CASE UNCHANGED vars
  BY <1>10, <1>t, QuietIInv DEF vars, table, sifting, client
<1> QED
  BY <1>1, <1>2, <1>3, <1>4, <1>5, <1>6, <1>7, <1>8, <1>9, <1>10 DEF Next, Generates

\* The inductive invariant: types, what the tracker knows, what the counters promise.
THEOREM GeneratorInvariant == Spec => []IInv
<1>1. Init => IInv
  BY InitIInv
<1>2. IInv /\ [Next]_vars => IInv'
  BY StepIInv
<1> QED
  BY <1>1, <1>2, PTL DEF Spec

\* Two rows that are kept differ in their keys, and therefore in the text of some column of
\* the index; if they clash all the same that column has one value for both.
LEMMA TrackedRowsFit == IInv => OwnRowsFit
<1> SUFFICES ASSUME IInv, NEW cols \in Indexes, NEW i \in DOMAIN kept, NEW j \in DOMAIN kept,
                    i # j, Clash(cols, InTable(kept[i]), InTable(kept[j]))
             PROVE  \E c \in cols :
                      /\ Value(kept[i], c) # Value(kept[j], c)
                      /\ Stored(c, Value(kept[i], c)) = Stored(c, Value(kept[j], c))
  BY DEF OwnRowsFit
<1>1. PICK index \in shape.unique : cols = {index[x] : x \in DOMAIN index}
  BY DEF Indexes
<1>2. \A x \in DOMAIN index : index[x] \in Columns /\ index[x] \in cols
  BY <1>1, GeneratorAssumption DEF IInv, TypeOK, ShapeOK
<1>3. /\ KeyOf(index, kept[i]) \in KeysIn(shape.unique, kept[i])
      /\ KeyOf(index, kept[j]) \in KeysIn(shape.unique, kept[j])
  BY DEF KeysIn
<1>4. KeyOf(index, kept[i]) # KeyOf(index, kept[j])
  BY <1>3 DEF IInv, TrackInv
<1>5. PICK x \in DOMAIN index : Value(kept[i], index[x]) # Value(kept[j], index[x])
  BY <1>4 DEF KeyOf
<1> DEFINE c == index[x]
<1>6. c \in Columns /\ c \in cols
  BY <1>2
<1>7. InTable(kept[i])[c] = InTable(kept[j])[c] /\ InTable(kept[i])[c] \notin {Null, Default}
  BY <1>6 DEF Clash
<1>8. Stored(c, Value(kept[i], c)) = Stored(c, Value(kept[j], c))
  BY <1>6, <1>7 DEF InTable
<1> QED
  BY <1>5, <1>6, <1>8

\* For any table, any coercion, any responses and any rows of other sessions: two rows of one
\* call whose key COPY takes for the same differ in their texts (unique.go).
THEOREM OwnRowsFitButForTexts == Spec => []OwnRowsFit
<1>1. IInv => OwnRowsFit
  BY TrackedRowsFit
<1> QED
  BY <1>1, GeneratorInvariant, PTL

\* For any number of rows asked for, and however many are lost and asked for again, COPY
\* never gets more of them than that, as long as no response is too long (generator.go:228).
THEOREM RowsAsPromised == Spec => []RowsPromised
<1>1. IInv => RowsPromised
  BY GeneratorAssumption DEF IInv, TypeOK, CountInv, RowsPromised
<1> QED
  BY <1>1, GeneratorInvariant, PTL
================================================================================
