----------------------------------- MODULE Sync ---------------------------------
(***************************************************************************)
(* CALL gendb.sync() (cmd/gendb/serve.go, handleSync; FillColumn of        *)
(* pkg/generator): a synthetic table is brought back in step with a real   *)
(* one that its owners alter at any time.  Sync looks at both once, at the *)
(* real one in several queries between which it may change, and then works *)
(* through the differences, one statement after the other, without a       *)
(* transaction: a statement that fails ends the call and leaves what was   *)
(* done before it.                                                         *)
(*                                                                         *)
(* Abstractions.  One synthetic table, without foreign keys: the others of *)
(* the list share nothing with it, except that a failure ends the call for *)
(* all.  A column's type, nullability and default go with its name.  Only  *)
(* one session changes the synthetic table, so that the queries that       *)
(* inspect it are one step; generate_data's inspection of the real one is  *)
(* one step too.  The queries for foreign keys and CHECKs are left out.    *)
(* The real table has at least one column as long as it exists.            *)
(***************************************************************************)
EXTENDS Naturals, FiniteSets, Functions

CONSTANTS Columns,      \* names of columns
          Key,          \* those of the primary key
          NotNull,      \* those declared NOT NULL
          Automatic,    \* generated, serial, nextval or gen_random_uuid: never added by sync
          Names,        \* names of indexes, in the order of relname
          Shapes,       \* what indexes may be defined: [on |-> columns, unique |-> BOOLEAN]
          MaxAlters,    \* bound on the changes of the real table
          MayFail,      \* whether the LLM may fail or answer with nothing, and queries may fail
          MayView       \* whether return_generated is used

ASSUME SyncAssumption ==
  /\ Key \subseteq Columns /\ NotNull \subseteq Columns /\ Automatic \subseteq Columns
  /\ Names \subseteq Nat /\ IsFiniteSet(Names) /\ MaxAlters \in Nat
  /\ Shapes \subseteq [on : (SUBSET Columns) \ {{}}, unique : BOOLEAN]
  /\ MayFail \in BOOLEAN /\ MayView \in BOOLEAN

VARIABLES real,     \* the real table: its columns and, by name, its indexes
          syn,      \* the synthetic table, with what is known of its rows
          viewed,   \* some session's temporary view selects from it
          pc,       \* where handleSync is
          src,      \* origTable: the real table as sync saw it
          todo,     \* what is left of the differences sync found
          col,      \* the column being added: a set of at most one
          outcome,  \* how the last call ended, for the client and for gendb.history
          alters,   \* number of changes of the real table
          held,     \* what the real table has had without a break since the call began,
                    \* nothing once a query about it has failed (for the properties)
          seen      \* what it has had at some time since then (for the properties)

vars == <<real, syn, viewed, pc, src, todo, col, outcome, alters, held, seen>>
envVars == <<real, viewed, alters, held, seen>>

Indexes == UNION {[N -> Shapes] : N \in SUBSET Names}
Tables == [cols : SUBSET Columns, idx : Indexes]
SyntheticTables == [made : BOOLEAN,           \* it exists, if only without columns
                    cols : SUBSET Columns, idx : Indexes, key : {{}, Key},
                    notNull : SUBSET NotNull, rows : BOOLEAN,
                    blank : SUBSET Columns,   \* NULL or empty in rows sync added them to
                    dups : SUBSET Columns]    \* with a value repeated
Work == [drop : SUBSET Columns, add : SUBSET Columns, dropIdx : SUBSET Names,
         makeIdx : SUBSET Names, key : {{}, Key}, new : SUBSET Columns, twins : BOOLEAN]

NoTable == [cols |-> {}, idx |-> <<>>]
NoSynthetic == [made |-> FALSE, cols |-> {}, idx |-> <<>>, key |-> {}, notNull |-> {},
                rows |-> FALSE, blank |-> {}, dups |-> {}]
Nothing == [drop |-> {}, add |-> {}, dropIdx |-> {}, makeIdx |-> {}, key |-> {}, new |-> {},
            twins |-> FALSE]

Spans == [cols : SUBSET Columns, idx : SUBSET Shapes]
NoSpan == [cols |-> {}, idx |-> {}]
Now(t) == [cols |-> t.cols, idx |-> Range(t.idx)]

\* The real table is gone when it has no columns.
Exists(t) == t.cols # {}

TypeOK ==
  /\ real \in Tables /\ src \in Tables /\ syn \in SyntheticTables
  /\ syn.notNull \cap syn.blank = {}   \* what PostgreSQL guarantees
  /\ \A n \in DOMAIN syn.idx : syn.idx[n].on \subseteq syn.cols
  /\ viewed \in BOOLEAN /\ (viewed => syn.made) /\ (syn.made \/ syn.cols = {})
  /\ pc \in {"idle", "source", "columns", "indexes", "orphan", "synthetic", "work", "fill",
             "notnull"}
  /\ todo \in Work
  /\ col \in SUBSET Columns /\ \A c, d \in col : c = d
  /\ col # {} <=> pc \in {"fill", "notnull"}
  /\ outcome \in {"none", "ok", "error"} /\ alters \in 0 .. MaxAlters
  /\ held \in Spans /\ seen \in Spans

Init == /\ real = [cols |-> Columns \ Automatic, idx |-> <<>>] /\ syn = NoSynthetic
        /\ viewed = FALSE /\ pc = "idle" /\ src = NoTable /\ todo = Nothing
        /\ col = {} /\ outcome = "none" /\ alters = 0
        /\ held = NoSpan /\ seen = NoSpan

With(idx, n, s) == [m \in DOMAIN idx \union {n} |-> IF m = n THEN s ELSE idx[m]]

\* Dropping a column takes the indexes on it along.
IndexesWithout(idx, c) == Restrict(idx, {n \in DOMAIN idx : c \notin idx[n].on})

--------------------------------------------------------------------------------
(* The real table's owners, and the other commands *)

Alters(t) == /\ alters < MaxAlters
             /\ real' = t /\ alters' = alters + 1
             /\ held' = [cols |-> held.cols \cap t.cols, idx |-> held.idx \cap Range(t.idx)]
             /\ seen' = IF pc = "idle" THEN seen
                        ELSE [cols |-> seen.cols \union t.cols,
                              idx |-> seen.idx \union Range(t.idx)]
             /\ UNCHANGED <<syn, viewed, pc, src, todo, col, outcome>>

AddsRealColumn(c) == /\ Exists(real) /\ c \notin real.cols
                     /\ Alters([real EXCEPT !.cols = @ \union {c}])

DropsRealColumn(c) == /\ c \in real.cols /\ real.cols # {c}
                      /\ Alters([cols |-> real.cols \ {c}, idx |-> IndexesWithout(real.idx, c)])

CreatesRealIndex(n, s) == /\ n \notin DOMAIN real.idx /\ s.on \subseteq real.cols
                          /\ Alters([real EXCEPT !.idx = With(@, n, s)])

DropsRealIndex(n) == /\ n \in DOMAIN real.idx
                     /\ Alters([real EXCEPT !.idx = Restrict(@, DOMAIN @ \ {n})])

DropsRealTable == Exists(real) /\ Alters(NoTable)
CreatesRealTable == ~Exists(real) /\ Alters([cols |-> Columns \ Automatic, idx |-> <<>>])

\* generate_data on a table that has no synthetic one: the reconstructed DDL, and rows
\* that may repeat a value in columns under no unique index.
Generates ==
  /\ pc = "idle" /\ Exists(real) /\ ~syn.made
  /\ \E rows \in BOOLEAN, again \in BOOLEAN :
       syn' = [made |-> TRUE, cols |-> real.cols, idx |-> real.idx,
               key |-> IF Key \subseteq real.cols THEN Key ELSE {},
               notNull |-> NotNull \cap real.cols, rows |-> rows, blank |-> {},
               dups |-> IF rows /\ again
                        THEN real.cols \ (Key \union
                               UNION {s.on : s \in {x \in Range(real.idx) : x.unique}})
                        ELSE {}]
  /\ UNCHANGED <<envVars, pc, src, todo, col, outcome>>

\* return_generated and return_actual, by any session.
Views == /\ MayView /\ viewed' = (~viewed /\ syn.made) /\ viewed' # viewed
         /\ UNCHANGED <<real, syn, alters, held, seen, pc, src, todo, col, outcome>>

--------------------------------------------------------------------------------
(* handleSync *)

\* The call returns: with an error, at once, or at the end of its loop.  Both are
\* recorded in gendb.history.
Ends(status) == /\ pc' = "idle" /\ outcome' = status
                /\ src' = NoTable /\ todo' = Nothing /\ col' = {}
                /\ held' = NoSpan /\ seen' = NoSpan
                /\ UNCHANGED <<real, viewed, alters>>
Fails == Ends("error") /\ UNCHANGED syn

\* The query over information_schema.tables and the name filters.
ListsTables ==
  /\ pc = "idle"
  /\ IF syn.made
     THEN /\ pc' = "source" /\ outcome' = "none" /\ held' = Now(real) /\ seen' = Now(real)
          /\ UNCHANGED <<real, viewed, alters, syn, src, todo, col>>
     ELSE Ends("ok") /\ UNCHANGED syn

\* InspectTable of the source, a query at a time: is there such a table?  If there is
\* none, the synthetic table is an orphan.
FindsSource ==
  /\ pc = "source"
  /\ pc' = IF Exists(real) THEN "columns" ELSE "orphan"
  /\ UNCHANGED <<envVars, syn, src, todo, col, outcome>>

\* getColumns: no columns and no error if the table has gone since.
ReadsColumns ==
  /\ pc = "columns" /\ pc' = "indexes" /\ src' = [cols |-> real.cols, idx |-> <<>>]
  /\ UNCHANGED <<envVars, syn, todo, col, outcome>>

\* getIndexes: those of the table as it is by then.
ReadsIndexes ==
  /\ pc = "indexes" /\ pc' = "synthetic" /\ src' = [src EXCEPT !.idx = real.idx]
  /\ UNCHANGED <<envVars, syn, todo, col, outcome>>

\* A query about the source fails, or its answer cannot be read (a NULL where a string is
\* expected): any error of InspectTable makes the synthetic table an orphan.
SourceQueryFails ==
  /\ MayFail /\ pc \in {"source", "columns", "indexes"}
  /\ pc' = "orphan" /\ src' = NoTable /\ held' = NoSpan
  /\ UNCHANGED <<real, viewed, alters, seen, syn, todo, col, outcome>>

\* A failing query about the synthetic tables ends the call.
SyntheticQueryFails == MayFail /\ pc \in {"idle", "synthetic"} /\ Fails

\* DROP TABLE without CASCADE; the loop goes on to the next table, here to its end.
DropsOrphan ==
  /\ pc = "orphan"
  /\ IF viewed THEN Fails ELSE Ends("ok") /\ syn' = NoSynthetic

\* indexSignature: what an index does, whatever its name.  Mutant: uniqueness is left out.
SignatureOfColumns(i) == i.on
Signature(i) == <<i.on, i.unique>>
Signatures(idx) == {Signature(i) : i \in Range(idx)}

\* The maps keyed by signature: of two indexes with the same one the last name stays.
LastOf(idx) == {n \in DOMAIN idx :
                  \A m \in DOMAIN idx : Signature(idx[m]) = Signature(idx[n]) => m <= n}

\* The differences, given the columns to drop and to add.  (new and twins are for the
\* properties: the columns to add, and whether a map lost an index.)
Differences(drop, add) ==
  [drop    |-> drop, add |-> add, new |-> add, key |-> syn.key,
   dropIdx |-> {n \in LastOf(syn.idx) : Signature(syn.idx[n]) \notin Signatures(src.idx)},
   makeIdx |-> {n \in LastOf(src.idx) : Signature(src.idx[n]) \notin Signatures(syn.idx)},
   twins   |-> LastOf(syn.idx) # DOMAIN syn.idx]

InspectsSyntheticFor(differences) ==
  /\ pc = "synthetic" /\ pc' = "work" /\ todo' = differences
  /\ UNCHANGED <<envVars, syn, src, col, outcome>>

\* Mutants: no column is dropped; all columns are, and made anew.
InspectsSyntheticKeepsAll ==
  InspectsSyntheticFor(Differences({}, (src.cols \ Automatic) \ syn.cols))
InspectsSyntheticRecreates == InspectsSyntheticFor(Differences(syn.cols, src.cols))

\* InspectTable of the synthetic table, and everything derived from it: columns to drop
\* and to add, indexes to drop and to create, the primary key for FillColumn.
InspectsSynthetic ==
  InspectsSyntheticFor(Differences(syn.cols \ src.cols, (src.cols \ Automatic) \ syn.cols))

\* ALTER TABLE ... DROP COLUMN: refused while a view selects the column.
DropsColumn(c) ==
  /\ pc = "work" /\ c \in todo.drop
  /\ IF viewed THEN Fails
     ELSE /\ syn' = [syn EXCEPT !.cols = @ \ {c}, !.idx = IndexesWithout(@, c),
                                !.key = IF c \in @ THEN {} ELSE @, !.notNull = @ \ {c},
                                !.blank = @ \ {c}, !.dups = @ \ {c}]
          /\ todo' = [todo EXCEPT !.drop = @ \ {c}]
          /\ UNCHANGED <<envVars, pc, src, col, outcome>>

\* ALTER TABLE ... ADD COLUMN: NULL in every row.
AddsColumn(c) ==
  /\ pc = "work" /\ todo.drop = {} /\ c \in todo.add
  /\ syn' = [syn EXCEPT !.cols = @ \union {c},
                        !.blank = IF syn.rows THEN @ \union {c} ELSE @]
  /\ col' = {c} /\ todo' = [todo EXCEPT !.add = @ \ {c}] /\ pc' = "fill"
  /\ UNCHANGED <<envVars, src, outcome>>

\* FillColumn: as many values as there are rows from the LLM.  It may fail; the primary
\* key it selects may have been dropped above; no value leaves the column as it is; without
\* a primary key every row gets the first value.
FillsColumn ==
  /\ pc = "fill"
  /\ \/ syn.rows /\ (MayFail \/ ~(todo.key \subseteq syn.cols)) /\ Fails
     \/ /\ syn.rows => todo.key \subseteq syn.cols
        /\ \/ syn.rows /\ (\E dup \in BOOLEAN :
                /\ (todo.key = {} => dup)
                /\ syn' = [syn EXCEPT !.blank = @ \ col,
                                      !.dups = IF dup THEN @ \union col ELSE @])
           \/ (~syn.rows \/ MayFail) /\ UNCHANGED syn
        /\ pc' = "notnull"
        /\ UNCHANGED <<envVars, src, todo, col, outcome>>

\* Mutants: SET NOT NULL is left to the next sync when the column is blank; the column
\* stays the current one.
SetsNotNullIfPossible ==
  /\ pc = "notnull" /\ pc' = "work" /\ col' = {}
  /\ syn' = [syn EXCEPT !.notNull = @ \union ((col \cap NotNull) \ syn.blank)]
  /\ UNCHANGED <<envVars, src, todo, outcome>>
SetsNotNullOnly ==
  /\ pc = "notnull" /\ pc' = "work" /\ col \cap NotNull \cap syn.blank = {}
  /\ syn' = [syn EXCEPT !.notNull = @ \union (col \cap NotNull)]
  /\ UNCHANGED <<envVars, src, todo, col, outcome>>

\* ALTER COLUMN ... SET NOT NULL: refused while the column has a NULL.
SetsNotNull ==
  /\ pc = "notnull"
  /\ IF col \cap NotNull \cap syn.blank # {} THEN Fails
     ELSE /\ pc' = "work" /\ col' = {}
          /\ syn' = [syn EXCEPT !.notNull = @ \union (col \cap NotNull)]
          /\ UNCHANGED <<envVars, src, todo, outcome>>

\* DROP INDEX: it may have gone with a column.
DropsIndex(n) ==
  /\ pc = "work" /\ todo.drop = {} /\ todo.add = {} /\ n \in todo.dropIdx
  /\ IF n \notin DOMAIN syn.idx THEN Fails
     ELSE /\ syn' = [syn EXCEPT !.idx = Restrict(@, DOMAIN @ \ {n})]
          /\ todo' = [todo EXCEPT !.dropIdx = @ \ {n}]
          /\ UNCHANGED <<envVars, pc, src, col, outcome>>

\* CREATE INDEX can be done: the name is free, the columns are there, and a unique
\* index finds no two equal rows.
CanCreate(n, s) == /\ n \notin DOMAIN syn.idx /\ s.on \subseteq syn.cols
                   /\ ~(s.unique /\ s.on \subseteq syn.dups)

\* Mutant: indexes may be created before the obsolete ones are dropped.
CreatesIndexFirst(n) ==
  /\ pc = "work" /\ todo.drop = {} /\ todo.add = {} /\ n \in todo.makeIdx
  /\ IF ~CanCreate(n, src.idx[n]) THEN Fails
     ELSE /\ syn' = [syn EXCEPT !.idx = With(@, n, src.idx[n])]
          /\ todo' = [todo EXCEPT !.makeIdx = @ \ {n}]
          /\ UNCHANGED <<envVars, pc, src, col, outcome>>

CreatesIndex(n) ==
  /\ pc = "work" /\ todo.drop = {} /\ todo.add = {} /\ todo.dropIdx = {} /\ n \in todo.makeIdx
  /\ IF ~CanCreate(n, src.idx[n]) THEN Fails
     ELSE /\ syn' = [syn EXCEPT !.idx = With(@, n, src.idx[n])]
          /\ todo' = [todo EXCEPT !.makeIdx = @ \ {n}]
          /\ UNCHANGED <<envVars, pc, src, col, outcome>>

\* The end of the loop over the tables.
Finishes ==
  /\ pc = "work" /\ todo.drop = {} /\ todo.add = {} /\ todo.dropIdx = {} /\ todo.makeIdx = {}
  /\ Ends("ok") /\ UNCHANGED syn

--------------------------------------------------------------------------------

Owners == \/ \E c \in Columns : AddsRealColumn(c) \/ DropsRealColumn(c)
          \/ \E n \in Names : DropsRealIndex(n) \/ \E s \in Shapes : CreatesRealIndex(n, s)
          \/ DropsRealTable \/ CreatesRealTable

Syncs == \/ ListsTables \/ FindsSource \/ ReadsColumns \/ ReadsIndexes
         \/ SourceQueryFails \/ SyntheticQueryFails \/ DropsOrphan \/ InspectsSynthetic
         \/ \E c \in Columns : DropsColumn(c) \/ AddsColumn(c)
         \/ FillsColumn \/ SetsNotNull
         \/ \E n \in Names : DropsIndex(n) \/ CreatesIndex(n)
         \/ Finishes

Next == Owners \/ Generates \/ Views \/ Syncs

\* sync is called again and again, each call runs to its end, and the queries about the
\* synthetic tables do not fail for ever.
Spec == /\ Init /\ [][Next]_vars /\ WF_vars(Syncs)
        /\ SF_vars(ListsTables) /\ SF_vars(InspectsSynthetic)

--------------------------------------------------------------------------------
(* What must hold *)

\* A sync that reports success leaves every column that the real table has had since the
\* call began, and none that it has not had at any time since: whatever its owners do in
\* between the queries and statements, and whatever an earlier sync left undone.  Columns
\* that fill themselves may be missing.
SyncedColumns ==
  [][Finishes => held.cols \ Automatic \subseteq syn.cols /\ syn.cols \subseteq seen.cols]_vars

\* And in the same sense an index for each of the real table's, with the same columns and
\* uniqueness, and no other, unless the synthetic table had two that do the same; although
\* columns and indexes are read in separate queries.
SyncedIndexes ==
  [][Finishes => /\ held.idx \subseteq Range(syn.idx)
                 /\ Range(syn.idx) \subseteq seen.idx \/ todo.twins]_vars

\* Sync repairs tables, it does not regenerate them (against gendb-sql.md:83): as long as
\* no query about the real table has failed, a synthetic table is not dropped if the real
\* one has been there since the call began, nor is a column that the real one has had, and
\* a column that has its values never loses them.
DataKept ==
  [][Syncs => /\ held.cols # {} /\ syn.made => syn'.made
              /\ held.cols \cap syn.cols \subseteq syn'.cols
              /\ syn'.blank \cap syn.cols \subseteq syn.blank]_vars

\* A column the same call has added is finished when it reports success: NOT NULL if
\* the real one is.
NewColumnsComplete == [][Finishes => todo.new \cap NotNull \subseteq syn.notNull]_vars

\* Nothing stands in the way for good: no view, no index of the real table on a column that
\* sync never adds or on repeated values, no name taken by an index that stays.
Feasible ==
  /\ ~viewed
  /\ \A n \in DOMAIN real.idx :
       LET s == real.idx[n] IN
         /\ s.on \cap Automatic \subseteq syn.cols
         /\ ~(s.unique /\ s.on \subseteq syn.dups)
         /\ n \in DOMAIN syn.idx => syn.idx[n] = s \/ syn.idx[n] \notin Range(real.idx)

InStep == \/ ~syn.made
          \/ /\ Exists(real) /\ real.cols \ Automatic \subseteq syn.cols /\ syn.cols \subseteq real.cols
             /\ Range(real.idx) = Range(syn.idx)

\* Repeating sync brings the tables in step, however its earlier calls failed, once the
\* owners leave the real table alone and if nothing is in the way.
SyncConverges == <>[]Feasible => []<>InStep
================================================================================
