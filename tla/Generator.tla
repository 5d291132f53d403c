-------------------------------- MODULE Generator --------------------------------
(***************************************************************************)
(* Generate (pkg/generator/generator.go) for one table, as handleGenerate  *)
(* calls it: ask the LLM client for rows, coerce them, repair foreign      *)
(* keys, sift out what would break a unique index (uniqueTracker), ask     *)
(* again for the rows lost to that, and COPY the rest into the synthetic   *)
(* table, to which other sessions add rows at any time.                    *)
(*                                                                         *)
(* A value is one thing in the answer of the LLM, another as the Go value  *)
(* it is coerced to, and a third in the table.  Two Go values are the same *)
(* to Generate if fmt prints them alike, so that a Go value stands here    *)
(* for its text; PostgreSQL may take two texts for one value (a uuid in    *)
(* upper and in lower case, two times of a day in a date column).          *)
(*                                                                         *)
(* Abstractions: the LLM client is its promise, RowSource; a row is a      *)
(* function from the columns the LLM gave it; the loops over the rows of a *)
(* response are taken row by row, which nothing outside can see.           *)
(***************************************************************************)
EXTENDS Integers, Sequences, FiniteSets

CONSTANTS Columns,
          Null, Bad,   \* the missing value, and the outcome of a coercion that fails
          Default,     \* what the database fills in: a number or UUID of its own
          GoValue(_, _),  \* what the answer for a column is coerced to (coerceValue)
          Stored(_, _),   \* the value a column takes a Go value for
          Shapes,      \* what the table may be like, see ShapeOK
          Valid,       \* per foreign key column, the keys of the real parent as Go values
          AnswerRows,  \* rows the LLM may return
          OtherRows,   \* rows other sessions may add
          RowCount,    \* rows asked for
          Chunk,       \* rows asked for at a time (chunkSize)
          Sizes,       \* how many rows a response may have
          MaxCalls, MaxOthers  \* bounds of the model: calls, rows of others

Client == "generator"

\* unique: the columns of each unique index, the primary key's excepted; primary: those of
\* the primary key; skipped: columns the database fills in; parents: per foreign key
\* column, the keys in the synthetic parent table.
ShapeOK(s) == /\ s.unique \subseteq Seq(Columns) /\ s.primary \subseteq Columns
              /\ s.skipped \subseteq Columns \ DOMAIN Valid
              /\ DOMAIN s.parents = DOMAIN Valid

\* A row as Generate has it once it is coerced: coerceRow.
Coerced(r) == [c \in DOMAIN r |-> GoValue(c, r[c])]

\* Go values, the rows made of them, and what a column of the table may hold.
GoValues == (UNION {{Coerced(r)[c] : c \in DOMAIN r} : r \in AnswerRows})
            \union (UNION {Valid[f] : f \in DOMAIN Valid}) \union {Null}
Rows == UNION {[cols -> GoValues] : cols \in SUBSET Columns}
Cells == {Stored(c, v) : c \in Columns, v \in GoValues}
         \union (UNION {{r[c] : c \in DOMAIN r} : r \in OtherRows}) \union {Default}

ASSUME GeneratorAssumption ==
  /\ RowCount \in Nat \ {0} /\ Chunk \in Nat \ {0} /\ Sizes \subseteq Nat
  /\ MaxCalls \in Nat /\ MaxOthers \in Nat
  /\ \A s \in Shapes : ShapeOK(s)
  /\ DOMAIN Valid \subseteq Columns
  /\ \A r \in AnswerRows : DOMAIN r \subseteq Columns
  /\ OtherRows \subseteq [Columns -> Cells]
  /\ Null # Bad /\ Default \notin {Null, Bad}
  /\ \A c \in Columns : GoValue(c, Null) = Null /\ Stored(c, Null) = Null
  /\ \A f \in DOMAIN Valid : Valid[f] \intersect {Null, Bad, Default} = {}

VARIABLES shape,     \* what the table is like
          stored,    \* rows of the synthetic table
          pc,        \* where Generate is
          valid,     \* foreign key values it goes by (fkValues)
          batch,     \* rows of the response still to be gone through
          kept,      \* rows kept so far (uniqueRows)
          seen,      \* keys of those (uniqueTracker.seen)
          lost,      \* rows to be asked for again
          attempt,   \* 0 for the first response, then the retry
          asked,     \* rows last asked for
          over,      \* ghost: a response had more rows than were asked for
          result,    \* of the last call: "none", "done", "error" or "refused"
          calls, others,
          owed, got, outcome  \* the LLM client

table == <<shape, stored, others>>
sifting == <<kept, seen, lost>>
client == <<owed, got, outcome>>
vars == <<table, pc, valid, batch, sifting, attempt, asked, over, result, calls, client>>

Source == INSTANCE RowSource WITH
  Callers <- {Client}, RowCounts <- 1 .. RowCount

TypeOK == /\ shape \in Shapes /\ stored \subseteq [Columns -> Cells]
          /\ pc \in {"idle", "wait", "sift", "copy"}
          /\ batch \in Seq(AnswerRows) /\ lost \in Int
          /\ attempt \in 0 .. 2 /\ asked \in Nat /\ over \in BOOLEAN
          /\ kept \in Seq(Rows) /\ got \in [{Client} -> Nat]
          /\ result \in {"none", "done", "error", "refused"}
          /\ calls \in 0 .. MaxCalls /\ others \in 0 .. MaxOthers

Init == /\ shape \in Shapes /\ stored = {} /\ others = 0
        /\ pc = "idle" /\ valid = <<>> /\ batch = <<>>
        /\ kept = <<>> /\ seen = {} /\ lost = 0
        /\ attempt = 0 /\ asked = 0 /\ over = FALSE /\ result = "none" /\ calls = 0
        /\ Source!Init

--------------------------------------------------------------------------------
(* Asking *)

Requests(n) == /\ pc' = "wait" /\ asked' = n
               /\ Source!Asks(Client, Source!Batches(n))

\* The keys come from the real parent: each call of Generate is for one table alone, so that
\* keys generated for its parents are not known to it.  A failed query is passed over.
Begins ==
  /\ pc = "idle" /\ calls < MaxCalls
  /\ calls' = calls + 1
  /\ \E known \in SUBSET {f \in DOMAIN Valid : Valid[f] # {}} :
       valid' = [f \in known |-> Valid[f]]
  /\ result' = "none"
  /\ Requests(RowCount)
  /\ UNCHANGED <<table, batch, sifting, attempt, over>>

\* The call of Generate returns.
Ends(how) == /\ pc' = "idle" /\ result' = how
             /\ batch' = <<>> /\ kept' = <<>> /\ seen' = {} /\ lost' = 0
             /\ attempt' = 0 /\ over' = FALSE /\ valid' = <<>> /\ asked' = 0
             /\ UNCHANGED <<calls, client>>

Receives == /\ pc = "wait" /\ outcome[Client] = "rows"
            /\ batch' \in [1 .. got[Client] -> AnswerRows]
            /\ over' = (over \/ got[Client] > asked)
            /\ pc' = "sift"
            /\ UNCHANGED <<table, valid, sifting, attempt, asked, result, calls, client>>

\* Without a first response there is nothing; without a second, what was kept will do.
ReceivesError == /\ pc = "wait" /\ outcome[Client] = "error"
                 /\ IF attempt = 0
                    THEN Ends("error")
                    ELSE /\ pc' = "copy"
                         /\ UNCHANGED <<valid, batch, sifting, attempt, asked, over, result,
                                        calls, client>>
                 /\ UNCHANGED table

--------------------------------------------------------------------------------
(* Sifting *)

\* What a row has for a column: nil if it has nothing.
Value(r, c) == IF c \in DOMAIN r THEN r[c] ELSE Null

\* The texts makeKey joins: they do not tell which index they are a key of.
KeyOf(index, r) == [i \in DOMAIN index |-> Value(r, index[i])]
KeysOf(r) == {KeyOf(index, r) : index \in shape.unique}

Coerces(r) == \A c \in DOMAIN r : Coerced(r)[c] # Bad

\* A value that prints like no valid key, NULL included, gives way to any key that is.
Picks == {pick \in [DOMAIN valid -> GoValues] : \A f \in DOMAIN valid : pick[f] \in valid[f]}
Repaired(r, pick) == [c \in DOMAIN r |-> IF c \in DOMAIN valid /\ r[c] \notin valid[c]
                                         THEN pick[c] ELSE r[c]]

\* A row of the first response that cannot be coerced fails the call; in a later one it is
\* passed over.
FailsToCoerce == /\ pc = "sift" /\ batch # <<>> /\ ~Coerces(Head(batch))
                 /\ IF attempt = 0
                    THEN Ends("error")
                    ELSE /\ batch' = Tail(batch)
                         /\ UNCHANGED <<pc, valid, sifting, attempt, asked, over, result,
                                        calls, client>>
                 /\ UNCHANGED table

Takes == /\ pc = "sift" /\ batch # <<>> /\ Coerces(Head(batch))
         /\ batch' = Tail(batch)
         /\ UNCHANGED <<table, pc, valid, attempt, asked, over, result, calls, client>>

IsUnique(r) == KeysOf(r) \intersect seen = {}

\* Mutant: the keys are noted as they came, before the foreign keys are repaired.
KeepsUnrepaired(pick) == LET r == Repaired(Coerced(Head(batch)), pick) IN
  /\ Takes /\ IsUnique(r)
  /\ kept' = Append(kept, r) /\ seen' = seen \union KeysOf(Coerced(Head(batch)))
  /\ lost' = IF attempt = 0 THEN lost ELSE lost - 1

\* Mutant: rows got back do not count.
KeepsUncounted(pick) == LET r == Repaired(Coerced(Head(batch)), pick) IN
  /\ Takes /\ IsUnique(r)
  /\ kept' = Append(kept, r) /\ seen' = seen \union KeysOf(r)
  /\ UNCHANGED lost

Keeps(pick) == LET r == Repaired(Coerced(Head(batch)), pick) IN
  /\ Takes /\ IsUnique(r)
  /\ kept' = Append(kept, r) /\ seen' = seen \union KeysOf(r)
  /\ lost' = IF attempt = 0 THEN lost ELSE lost - 1

Drops(pick) == /\ Takes /\ ~IsUnique(Repaired(Coerced(Head(batch)), pick))
               /\ lost' = IF attempt = 0 THEN lost + 1 ELSE lost
               /\ UNCHANGED <<kept, seen>>

\* Mutant: lost rows are asked for until they have come.
RetriesOn == /\ pc = "sift" /\ batch = <<>> /\ lost > 0
             /\ attempt' = IF attempt < 2 THEN attempt + 1 ELSE 2
             /\ Requests(lost)
             /\ UNCHANGED <<table, valid, batch, sifting, over, result, calls>>

\* Lost rows are asked for again, twice at most.
Retries == /\ pc = "sift" /\ batch = <<>> /\ lost > 0 /\ attempt < 2
           /\ attempt' = attempt + 1
           /\ Requests(lost)
           /\ UNCHANGED <<table, valid, batch, sifting, over, result, calls>>

StopsSifting == /\ pc = "sift" /\ batch = <<>> /\ (lost <= 0 \/ attempt = 2)
                /\ pc' = "copy"
                /\ UNCHANGED <<table, valid, batch, sifting, attempt, asked, over, result,
                               calls, client>>

--------------------------------------------------------------------------------
(* Inserting *)

\* Columns that COPY names: those some row has, without the skipped ones.
Copied == UNION {DOMAIN kept[i] : i \in DOMAIN kept} \ shape.skipped

InTable(r) == [c \in Columns |-> IF c \in Copied THEN Stored(c, Value(r, c))
                                 ELSE IF c \in shape.skipped THEN Default ELSE Null]

\* The unique indexes of the table, as PostgreSQL has them: a NULL differs from all else.
Indexes == {{index[i] : i \in DOMAIN index} : index \in shape.unique}
Clash(cols, a, b) == cols # {} /\ \A c \in cols : a[c] = b[c] /\ a[c] \notin {Null, Default}

\* The table has no place for row r.
Unfit(r) == \/ \E s \in stored, cols \in Indexes \union {shape.primary} : Clash(cols, r, s)
            \/ \E c \in shape.primary : r[c] = Null
            \/ \E f \in DOMAIN Valid : r[f] \notin shape.parents[f] \union {Null}

TwiceIn(cols) == \E i, j \in DOMAIN kept :
                   i # j /\ Clash(cols, InTable(kept[i]), InTable(kept[j]))

Refused == \/ \E i \in DOMAIN kept : Unfit(InTable(kept[i]))
           \/ \E cols \in Indexes \union {shape.primary} : TwiceIn(cols)

\* Without a row or a column there is nothing to insert.
Copies == /\ pc = "copy" /\ (Copied = {} \/ ~Refused)
          /\ stored' = IF Copied = {} THEN stored
                       ELSE stored \union {InTable(kept[i]) : i \in DOMAIN kept}
          /\ Ends("done")
          /\ UNCHANGED <<shape, others>>

\* One row that does not fit keeps all of them out.
CopyRefused == /\ pc = "copy" /\ Copied # {} /\ Refused
               /\ Ends("refused")
               /\ UNCHANGED table

\* CHECK constraints, a lost connection.
CopyFails == /\ pc = "copy" /\ Copied # {}
             /\ Ends("error")
             /\ UNCHANGED table

Answered == /\ Source!Answers(Client)
            /\ UNCHANGED <<table, pc, valid, batch, sifting, attempt, asked, over, result,
                           calls>>

\* Another session inserts a row, by generate_data or otherwise.
OthersInsert == \E r \in OtherRows :
                  /\ others < MaxOthers /\ ~Unfit(r)
                  /\ stored' = stored \union {r} /\ others' = others + 1
                  /\ UNCHANGED <<shape, pc, valid, batch, sifting, attempt, asked, over,
                                 result, calls, client>>

Generates == \/ Receives \/ ReceivesError \/ FailsToCoerce
             \/ \E pick \in Picks : Keeps(pick) \/ Drops(pick)
             \/ Retries \/ StopsSifting \/ Copies \/ CopyRefused \/ CopyFails

Next == Begins \/ Generates \/ Answered \/ OthersInsert

Spec == Init /\ [][Next]_vars /\ WF_vars(Generates) /\ WF_vars(Answered)

--------------------------------------------------------------------------------
(* What must hold *)

\* If two rows of one call have the key of a tracked index in common, so that COPY is
\* refused for them, then some column of it has taken two texts for one value: coercion,
\* repairs, retries and all, the tracker (unique.go) lets no other two rows pass.
OwnRowsFit == pc = "copy" =>
  \A cols \in Indexes, i, j \in DOMAIN kept :
    i # j /\ Clash(cols, InTable(kept[i]), InTable(kept[j])) =>
      \E c \in cols : /\ Value(kept[i], c) # Value(kept[j], c)
                      /\ Stored(c, Value(kept[i], c)) = Stored(c, Value(kept[j], c))

\* The rows of a call are at most those asked for, retries of lost rows included, unless a
\* response had more rows than its request.
RowsPromised == pc = "copy" /\ ~over => Len(kept) <= RowCount

\* "FK column values are populated by randomly selecting from the referenced table's
\* already-generated primary key values" (docs/getting-started/how-it-works.md:66): with the
\* keys known, every row to be inserted refers to a row of the synthetic parent table, or to
\* none.  The code (generator.go:143) goes by the keys of the real one.
KeysResolved == pc = "copy" /\ DOMAIN valid = DOMAIN Valid =>
                  \A i \in DOMAIN kept, f \in DOMAIN Valid :
                    InTable(kept[i])[f] \in shape.parents[f] \union {Null}

\* A call of generate_data comes to an end, however often rows are lost.
GenerateEnds == pc # "idle" ~> pc = "idle"
================================================================================
