------------------------------- MODULE SyncProofs -------------------------------
(***************************************************************************)
(* What a call of sync that reports success has done to the columns and    *)
(* the indexes, for any tables and whatever their owners do meanwhile.     *)
(***************************************************************************)
EXTENDS Sync, FiniteSetTheorems, WellFoundedInduction, TLAPS

USE DEF Tables, SyntheticTables, Work, Spans

\* The call has looked at both tables and is working off the differences.
Working == pc \in {"work", "fill", "notnull"}

\* Indexes are on columns of their table, only columns of the table are NOT NULL,
\* and a call works on a table that is there.
TablesInv == /\ \A n \in DOMAIN real.idx : real.idx[n].on \subseteq real.cols
             /\ syn.notNull \subseteq syn.cols
             /\ pc # "idle" => syn.made

\* What the call still has to do is exactly what is missing or too much.
ColumnsInv ==
  Working => /\ src.cols \ Automatic \subseteq syn.cols \union todo.add
             /\ syn.cols \subseteq src.cols \union todo.drop
             /\ todo.add \subseteq src.cols /\ todo.add \cap syn.cols = {}
             /\ todo.drop \cap src.cols = {}
             /\ todo.makeIdx \subseteq DOMAIN src.idx
             /\ col \subseteq src.cols \cap syn.cols
             /\ todo.new \subseteq src.cols
             /\ todo.new \cap NotNull \subseteq syn.notNull \union todo.add \union col

IInv == TypeOK /\ TablesInv /\ ColumnsInv

--------------------------------------------------------------------------------
(* Indexes by name *)

\* An index definition by name stays one when names are taken away.
LEMMA RestrictIndexes ==
  ASSUME NEW idx \in Indexes, NEW S \in SUBSET DOMAIN idx
  PROVE  /\ Restrict(idx, S) \in Indexes
         /\ DOMAIN Restrict(idx, S) = S
         /\ \A n \in S : Restrict(idx, S)[n] = idx[n]
<1>1. PICK N \in SUBSET Names : idx \in [N -> Shapes]
  BY DEF Indexes
<1>2. Restrict(idx, S) \in [S -> Shapes] /\ S \in SUBSET Names
  BY <1>1 DEF Restrict
<1>3. Restrict(idx, S) \in Indexes
  BY <1>2, Zenon DEF Indexes
<1> QED BY <1>3 DEF Restrict

\* And when one is added.
LEMMA WithIndex ==
  ASSUME NEW idx \in Indexes, NEW n \in Names, NEW s \in Shapes
  PROVE  /\ With(idx, n, s) \in Indexes
         /\ DOMAIN With(idx, n, s) = DOMAIN idx \union {n}
         /\ \A m \in DOMAIN With(idx, n, s) :
              With(idx, n, s)[m] = IF m = n THEN s ELSE idx[m]
<1>1. PICK N \in SUBSET Names : idx \in [N -> Shapes]
  BY DEF Indexes
<1>2. With(idx, n, s) \in [N \union {n} -> Shapes]
  BY <1>1 DEF With
<1>3. N \union {n} \in SUBSET Names
  BY <1>1
<1>4. With(idx, n, s) \in Indexes
  BY <1>2, <1>3, Zenon DEF Indexes
<1>5. DOMAIN idx = N
  BY <1>1
<1> QED BY <1>4, <1>5 DEF With

\* Dropping a column leaves the indexes on the other columns.
LEMMA DropColumnIndexes ==
  ASSUME NEW idx \in Indexes, NEW C, NEW c,
         \A n \in DOMAIN idx : idx[n].on \subseteq C
  PROVE  /\ IndexesWithout(idx, c) \in Indexes
         /\ \A n \in DOMAIN IndexesWithout(idx, c) :
              IndexesWithout(idx, c)[n].on \subseteq C \ {c}
<1> DEFINE S == {n \in DOMAIN idx : c \notin idx[n].on}
<1>1. S \in SUBSET DOMAIN idx
  OBVIOUS
<1> QED BY <1>1, RestrictIndexes DEF IndexesWithout

\* No index at all.
LEMMA NoIndexes == <<>> \in Indexes /\ DOMAIN <<>> = {}
<1>1. <<>> \in [{} -> Shapes]
  OBVIOUS
<1>2. {} \in SUBSET Names
  OBVIOUS
<1> QED BY <1>1, <1>2, Zenon DEF Indexes

\* The empty records are what TypeOK says of the variables that hold them.
LEMMA EmptyRecords ==
  /\ [cols |-> Columns \ Automatic, idx |-> <<>>] \in Tables
  /\ DOMAIN [cols |-> Columns \ Automatic, idx |-> <<>>].idx = {}
  /\ NoTable \in Tables
  /\ NoSynthetic \in SyntheticTables
  /\ NoSynthetic.cols = {} /\ NoSynthetic.notNull = {} /\ NoSynthetic.blank = {}
  /\ DOMAIN NoSynthetic.idx = {} /\ ~NoSynthetic.made
  /\ Nothing \in Work /\ NoSpan \in Spans
<1> DEFINE E == <<>>
<1>1. E \in Indexes /\ DOMAIN E = {}
  BY NoIndexes
<1>2. NoTable = [cols |-> {}, idx |-> E]
  BY DEF NoTable
<1>3. NoSynthetic = [made |-> FALSE, cols |-> {}, idx |-> E, key |-> {}, notNull |-> {},
                     rows |-> FALSE, blank |-> {}, dups |-> {}]
  BY DEF NoSynthetic
<1>4. [cols |-> Columns \ Automatic, idx |-> <<>>] = [cols |-> Columns \ Automatic, idx |-> E]
  OBVIOUS
<1> HIDE DEF E
<1> QED BY <1>1, <1>2, <1>3, <1>4 DEF Nothing, NoSpan

\* What a table has now is made of columns and shapes.
LEMMA NowIsSpan == ASSUME NEW t \in Tables PROVE Now(t) \in Spans
<1>1. PICK N \in SUBSET Names : t.idx \in [N -> Shapes]
  BY DEF Indexes
<1>2. Range(t.idx) \subseteq Shapes
  BY <1>1 DEF Range
<1> QED BY <1>2 DEF Now

--------------------------------------------------------------------------------
(* The inductive invariant *)

\* No call runs and nothing is left of the last one.
LEMMA EndsIInv ==
  ASSUME IInv, NEW status \in {"none", "ok", "error"}, Ends(status),
         \/ UNCHANGED syn
         \/ syn' = NoSynthetic /\ ~viewed
  PROVE  IInv'
<1> USE EmptyRecords DEF IInv, Ends, envVars
<1>1. TypeOK'
  BY DEF TypeOK, Exists
<1>2. TablesInv' /\ ColumnsInv'
  BY DEF TablesInv, ColumnsInv, Working
<1> QED BY <1>1, <1>2

\* The initial state: no synthetic table, no index.
LEMMA InitIInv == Init => IInv
<1> SUFFICES ASSUME Init PROVE IInv
  OBVIOUS
<1> USE SyncAssumption, EmptyRecords DEF Init
<1>1. TypeOK
  <2>1. real \in Tables
    OBVIOUS
  <2>2. alters \in 0 .. MaxAlters
    OBVIOUS
  <2> QED BY <2>1, <2>2 DEF TypeOK, Exists
<1>2. TablesInv /\ ColumnsInv
  BY DEF TablesInv, ColumnsInv, Working
<1> QED BY <1>1, <1>2 DEF IInv

\* A change of the real table keeps the invariant if the new one is a table.
LEMMA AltersIInv ==
  ASSUME IInv, NEW t \in Tables, Alters(t),
         \A n \in DOMAIN t.idx : t.idx[n].on \subseteq t.cols
  PROVE  IInv'
<1> USE SyncAssumption DEF IInv, Alters
<1>1. TypeOK'
  <2>1. Range(t.idx) \subseteq Shapes
    BY NowIsSpan DEF Now
  <2>2. held' \in Spans /\ seen' \in Spans
    BY <2>1 DEF TypeOK
  <2> QED BY <2>2 DEF TypeOK
<1>2. TablesInv' /\ ColumnsInv'
  BY DEF TablesInv, ColumnsInv, Working
<1> QED BY <1>1, <1>2

\* The owners of the real table, whatever they do.
LEMMA OwnersIInv == IInv /\ Owners => IInv'
<1> SUFFICES ASSUME IInv, Owners PROVE IInv'
  OBVIOUS
<1>1. real = [cols |-> real.cols, idx |-> real.idx] /\ real.cols \subseteq Columns
        /\ real.idx \in Indexes /\ \A n \in DOMAIN real.idx : real.idx[n].on \subseteq real.cols
  BY DEF IInv, TypeOK, TablesInv
<1>2. ASSUME NEW c \in Columns, AddsRealColumn(c) PROVE IInv'
  BY <1>1, <1>2, AltersIInv DEF AddsRealColumn
<1>3. ASSUME NEW c \in Columns, DropsRealColumn(c) PROVE IInv'
  BY <1>1, <1>3, DropColumnIndexes, AltersIInv DEF DropsRealColumn
<1>4. ASSUME NEW n \in Names, DropsRealIndex(n) PROVE IInv'
  BY <1>1, <1>4, RestrictIndexes, AltersIInv DEF DropsRealIndex
<1>5. ASSUME NEW n \in Names, NEW s \in Shapes, CreatesRealIndex(n, s) PROVE IInv'
  <2>1. With(real.idx, n, s) \in Indexes
    BY <1>1, WithIndex
  <2>2. \A m \in DOMAIN With(real.idx, n, s) :
           With(real.idx, n, s)[m].on \subseteq real.cols
    <3> SUFFICES ASSUME NEW m \in DOMAIN With(real.idx, n, s)
                 PROVE  With(real.idx, n, s)[m].on \subseteq real.cols
      OBVIOUS
    <3>1. /\ DOMAIN With(real.idx, n, s) = DOMAIN real.idx \union {n}
          /\ With(real.idx, n, s)[m] = IF m = n THEN s ELSE real.idx[m]
      BY <1>1, WithIndex
    <3>2. s.on \subseteq real.cols
      BY <1>5 DEF CreatesRealIndex
    <3> QED BY <1>1, <3>1, <3>2
  <2> DEFINE t == [cols |-> real.cols, idx |-> With(real.idx, n, s)]
  <2>3. [real EXCEPT !.idx = With(real.idx, n, s)] = t
    BY <1>1
  <2>4. Alters(t)
    BY <1>5, <2>3 DEF CreatesRealIndex
  <2>5. t \in Tables
    BY <1>1, <2>1
  <2>6. \A m \in DOMAIN t.idx : t.idx[m].on \subseteq t.cols
    BY <2>2
  <2> HIDE DEF t
  <2> QED BY <2>4, <2>5, <2>6, AltersIInv
<1>6. ASSUME DropsRealTable PROVE IInv'
  BY <1>6, NoIndexes, AltersIInv DEF DropsRealTable, NoTable
<1>7. ASSUME CreatesRealTable PROVE IInv'
  BY <1>7, NoIndexes, AltersIInv DEF CreatesRealTable
<1> QED BY <1>2, <1>3, <1>4, <1>5, <1>6, <1>7 DEF Owners

\* generate_data makes a table of the real table's columns and indexes.
LEMMA GeneratesIInv == IInv /\ Generates => IInv'
<1> SUFFICES ASSUME IInv, Generates PROVE IInv'
  OBVIOUS
<1> USE DEF Generates, envVars
<1>1. /\ syn'.cols = real.cols /\ syn'.idx = real.idx /\ syn'.notNull = NotNull \cap real.cols
      /\ syn'.blank = {} /\ syn'.made
      /\ syn' \in SyntheticTables
  <2> PICK rows \in BOOLEAN, again \in BOOLEAN :
         syn' = [made |-> TRUE, cols |-> real.cols, idx |-> real.idx,
                 key |-> IF Key \subseteq real.cols THEN Key ELSE {},
                 notNull |-> NotNull \cap real.cols, rows |-> rows, blank |-> {},
                 dups |-> IF rows /\ again
                          THEN real.cols \ (Key \union
                                  UNION {s.on : s \in {x \in Range(real.idx) : x.unique}})
                          ELSE {}]
    OBVIOUS
  <2>1. real.cols \subseteq Columns /\ real.idx \in Indexes
    BY DEF IInv, TypeOK
  <2> QED BY <2>1
<1>2. TypeOK' /\ TablesInv'
  BY <1>1 DEF IInv, TypeOK, TablesInv, Exists
<1>3. ColumnsInv'
  BY DEF ColumnsInv, Working
<1> QED BY <1>2, <1>3 DEF IInv

\* Temporary views leave the tables alone.
LEMMA ViewsIInv == IInv /\ Views => IInv'
  BY DEF Views, IInv, TypeOK, TablesInv, ColumnsInv, Working, Exists

--------------------------------------------------------------------------------
(* The steps of a call *)

LEMMA ListsTablesIInv == IInv /\ ListsTables => IInv'
<1> SUFFICES ASSUME IInv, ListsTables PROVE IInv'
  OBVIOUS
<1>1. CASE syn.made
  <2>1. Now(real) \in Spans
    BY NowIsSpan DEF IInv, TypeOK
  <2> QED BY <1>1, <2>1 DEF ListsTables, IInv, TypeOK, TablesInv, ColumnsInv, Working
<1>2. CASE ~syn.made
  BY <1>2, EndsIInv DEF ListsTables
<1> QED BY <1>1, <1>2

\* The queries about the source change nothing but what is known of it.
LEMMA InspectIInv ==
  ASSUME IInv, pc \in {"source", "columns", "indexes"},
         pc' \in {"columns", "indexes", "orphan", "synthetic"}, src' \in Tables,
         held' \in Spans,
         UNCHANGED <<real, viewed, alters, seen, syn, todo, col, outcome>>
  PROVE  IInv'
<1> USE DEF IInv
<1>1. TypeOK'
  BY DEF TypeOK
<1>2. TablesInv' /\ ColumnsInv'
  BY DEF TablesInv, ColumnsInv, Working
<1> QED BY <1>1, <1>2

LEMMA InspectsSourceIInv ==
  IInv /\ (FindsSource \/ ReadsColumns \/ ReadsIndexes \/ SourceQueryFails) => IInv'
<1> SUFFICES ASSUME IInv, FindsSource \/ ReadsColumns \/ ReadsIndexes \/ SourceQueryFails
             PROVE  IInv'
  OBVIOUS
<1> USE DEF envVars
<1>1. /\ real \in Tables /\ src \in Tables /\ held \in Spans
      /\ NoTable \in Tables /\ NoSpan \in Spans
  BY EmptyRecords DEF IInv, TypeOK
<1>2. CASE FindsSource
  BY <1>1, <1>2, InspectIInv DEF FindsSource
<1>3. CASE ReadsColumns
  <2> DEFINE E == <<>>
  <2>1. E \in Indexes
    BY NoIndexes
  <2>2. src' = [cols |-> real.cols, idx |-> E]
    BY <1>3 DEF ReadsColumns
  <2> HIDE DEF E
  <2>3. src' \in Tables
    BY <1>1, <2>1, <2>2
  <2> QED BY <1>1, <1>3, <2>3, InspectIInv DEF ReadsColumns
<1>4. CASE ReadsIndexes
  BY <1>1, <1>4, InspectIInv DEF ReadsIndexes
<1>5. CASE SourceQueryFails
  BY <1>1, <1>5, InspectIInv DEF SourceQueryFails
<1> QED BY <1>2, <1>3, <1>4, <1>5

LEMMA DropsOrphanIInv == IInv /\ DropsOrphan => IInv'
<1> SUFFICES ASSUME IInv, DropsOrphan PROVE IInv'
  OBVIOUS
<1> QED BY EndsIInv DEF DropsOrphan, Fails

\* The differences say what is missing and what is too much.
LEMMA InspectsSyntheticIInv == IInv /\ InspectsSynthetic => IInv'
<1> SUFFICES ASSUME IInv, InspectsSynthetic PROVE IInv'
  OBVIOUS
<1> DEFINE d == Differences(syn.cols \ src.cols, (src.cols \ Automatic) \ syn.cols)
<1>1. /\ pc' = "work" /\ todo' = d /\ pc = "synthetic"
      /\ UNCHANGED <<envVars, syn, src, col, outcome>>
  BY Zenon DEF InspectsSynthetic, InspectsSyntheticFor
<1>2. /\ d.drop = syn.cols \ src.cols /\ d.add = (src.cols \ Automatic) \ syn.cols
      /\ d.new = d.add /\ d.makeIdx \subseteq DOMAIN src.idx
      /\ d \in Work
  <2>1. LastOf(syn.idx) \subseteq Names /\ LastOf(src.idx) \subseteq Names
    BY DEF LastOf, IInv, TypeOK, Indexes
  <2>2. LastOf(src.idx) \subseteq DOMAIN src.idx
    BY DEF LastOf
  <2>3. syn.cols \subseteq Columns /\ src.cols \subseteq Columns /\ syn.key \in {{}, Key}
    BY DEF IInv, TypeOK
  <2> QED BY <2>1, <2>2, <2>3 DEF Differences
<1> HIDE DEF d
<1>3. TypeOK'
  BY <1>1, <1>2 DEF IInv, TypeOK, envVars, Exists
<1>4. TablesInv'
  BY <1>1 DEF IInv, TablesInv, envVars
<1>5. ColumnsInv'
  BY <1>1, <1>2 DEF IInv, TypeOK, ColumnsInv, envVars
<1> QED BY <1>3, <1>4, <1>5 DEF IInv

LEMMA AddsColumnIInv == ASSUME IInv, NEW c \in Columns, AddsColumn(c) PROVE IInv'
<1> USE DEF AddsColumn, IInv, envVars
<1>1. TypeOK'
  <2>1. syn.idx \in Indexes /\ syn.cols \subseteq Columns /\ col = {} /\ c \notin syn.cols
    BY DEF TypeOK, ColumnsInv, Working
  <2>2. /\ syn' \in SyntheticTables
        /\ syn'.cols = syn.cols \union {c} /\ syn'.idx = syn.idx
        /\ syn'.notNull = syn.notNull /\ syn'.blank \subseteq syn.blank \union {c}
        /\ syn'.made = syn.made /\ (syn.made \/ syn.cols = {})
    BY DEF TypeOK
  <2>3. todo' \in Work
    BY DEF TypeOK
  <2>4. syn'.notNull \cap syn'.blank = {}
    BY <2>1, <2>2 DEF TypeOK, TablesInv
  <2>5. \A n \in DOMAIN syn'.idx : syn'.idx[n].on \subseteq syn'.cols
    BY <2>2 DEF TypeOK
  <2>6. syn.made
    BY DEF TablesInv
  <2> HIDE DEF SyntheticTables, Work
  <2> QED BY <2>2, <2>3, <2>4, <2>5, <2>6 DEF TypeOK
<1>2. TablesInv' /\ ColumnsInv'
  BY DEF TypeOK, TablesInv, ColumnsInv, Working
<1> QED BY <1>1, <1>2

LEMMA FillsColumnIInv == IInv /\ FillsColumn => IInv'
<1> SUFFICES ASSUME IInv, FillsColumn PROVE IInv'
  OBVIOUS
<1>1. CASE Fails
  BY <1>1, EndsIInv DEF Fails
<1>2. CASE /\ pc = "fill" /\ pc' = "notnull" /\ UNCHANGED <<envVars, src, todo, col, outcome>>
           /\ \/ \E dup \in BOOLEAN :
                   syn' = [syn EXCEPT !.blank = @ \ col,
                                      !.dups = IF dup THEN @ \union col ELSE @]
              \/ UNCHANGED syn
  <2>1. TypeOK'
    <3>1. /\ syn' \in SyntheticTables
          /\ syn'.cols = syn.cols /\ syn'.idx = syn.idx /\ syn'.notNull = syn.notNull
          /\ syn'.blank \subseteq syn.blank /\ syn'.made = syn.made
      <4>1. CASE UNCHANGED syn
        BY <4>1 DEF IInv, TypeOK
      <4>2. ASSUME NEW dup \in BOOLEAN,
                   syn' = [syn EXCEPT !.blank = @ \ col,
                                      !.dups = IF dup THEN @ \union col ELSE @]
            PROVE  /\ syn' \in SyntheticTables
                   /\ syn'.cols = syn.cols /\ syn'.idx = syn.idx
                   /\ syn'.notNull = syn.notNull /\ syn'.blank \subseteq syn.blank
                   /\ syn'.made = syn.made
        <5> DEFINE d == IF dup THEN syn.dups \union col ELSE syn.dups
        <5>1. syn' = [syn EXCEPT !.blank = @ \ col, !.dups = d]
          BY <4>2
        <5>2. d \in SUBSET Columns
          BY DEF IInv, TypeOK
        <5> HIDE DEF d
        <5> QED BY <5>1, <5>2 DEF IInv, TypeOK
      <4> QED BY <1>2, <4>1, <4>2
    <3>2. /\ syn'.notNull \cap syn'.blank = {}
          /\ \A n \in DOMAIN syn'.idx : syn'.idx[n].on \subseteq syn'.cols
      BY <3>1 DEF IInv, TypeOK
    <3>3. viewed' \in BOOLEAN /\ (viewed' => syn'.made) /\ (syn'.made \/ syn'.cols = {})
      BY <1>2, <3>1 DEF IInv, TypeOK, envVars
    <3>4. col' # {} <=> pc' \in {"fill", "notnull"}
      BY <1>2 DEF IInv, TypeOK
    <3> HIDE DEF SyntheticTables
    <3> QED BY <1>2, <3>1, <3>2, <3>3, <3>4 DEF IInv, TypeOK, envVars, Exists
  <2>2. TablesInv' /\ ColumnsInv'
    BY <1>2 DEF IInv, TypeOK, TablesInv, ColumnsInv, Working, envVars
  <2> QED BY <2>1, <2>2 DEF IInv
<1> QED BY <1>1, <1>2 DEF FillsColumn

LEMMA SetsNotNullIInv == IInv /\ SetsNotNull => IInv'
<1> SUFFICES ASSUME IInv, SetsNotNull PROVE IInv'
  OBVIOUS
<1>1. CASE Fails
  BY <1>1, EndsIInv DEF Fails
<1>2. CASE /\ pc = "notnull" /\ pc' = "work" /\ col' = {} /\ col \cap NotNull \cap syn.blank = {}
           /\ syn' = [syn EXCEPT !.notNull = @ \union (col \cap NotNull)]
           /\ UNCHANGED <<envVars, src, todo, outcome>>
  <2>1. syn' \in SyntheticTables /\ syn'.cols = syn.cols /\ syn'.idx = syn.idx
          /\ syn'.notNull = syn.notNull \union (col \cap NotNull) /\ syn'.blank = syn.blank
    BY <1>2 DEF IInv, TypeOK
  <2> HIDE DEF SyntheticTables
  <2>2. TypeOK'
    BY <1>2, <2>1 DEF IInv, TypeOK, envVars, Exists
  <2>3. col \subseteq syn.cols
    BY <1>2 DEF IInv, ColumnsInv, Working
  <2>4. TablesInv' /\ ColumnsInv'
    BY <1>2, <2>1, <2>3 DEF IInv, TypeOK, TablesInv, ColumnsInv, Working, envVars
  <2> QED BY <2>2, <2>4 DEF IInv
<1> QED BY <1>1, <1>2 DEF SetsNotNull

\* A column goes, and the indexes on it.
LEMMA DropsColumnIInv == ASSUME IInv, NEW c \in Columns, DropsColumn(c) PROVE IInv'
<1>1. CASE Fails
  BY <1>1, EndsIInv DEF Fails
<1>2. CASE ~viewed
  <2> USE <1>2 DEF DropsColumn, envVars, IInv
  <2>1. /\ syn'.cols = syn.cols \ {c} /\ syn'.idx = IndexesWithout(syn.idx, c)
        /\ syn'.notNull = syn.notNull \ {c} /\ syn'.blank = syn.blank \ {c}
        /\ syn' \in SyntheticTables /\ syn'.made = syn.made
    <3>1. IndexesWithout(syn.idx, c) \in Indexes
      BY DropColumnIndexes DEF TypeOK
    <3> DEFINE k == IF c \in syn.key THEN {} ELSE syn.key
               x == IndexesWithout(syn.idx, c)
    <3>2. k \in {{}, Key}
      BY DEF TypeOK
    <3>3. syn' = [syn EXCEPT !.cols = @ \ {c}, !.idx = x, !.key = k, !.notNull = @ \ {c},
                             !.blank = @ \ {c}, !.dups = @ \ {c}]
      OBVIOUS
    <3> HIDE DEF k, x
    <3>4. x \in Indexes
      BY <3>1 DEF x
    <3>5. /\ syn'.cols = syn.cols \ {c} /\ syn'.idx = x /\ syn'.notNull = syn.notNull \ {c}
          /\ syn'.blank = syn.blank \ {c} /\ syn' \in SyntheticTables
          /\ syn'.made = syn.made
      BY <3>2, <3>3, <3>4 DEF TypeOK
    <3> QED BY <3>5 DEF x
  <2>2. \A n \in DOMAIN syn'.idx : syn'.idx[n].on \subseteq syn'.cols
    BY <2>1, DropColumnIndexes DEF TypeOK
  <2>3. todo' \in Work /\ pc = "work" /\ pc' = "work" /\ col' = col /\ c \in todo.drop
          /\ todo' = [todo EXCEPT !.drop = @ \ {c}]
    BY DEF TypeOK
  <2>4. TypeOK'
    <3> HIDE DEF SyntheticTables, Work
    <3> QED BY <2>1, <2>2, <2>3 DEF TypeOK, Exists
  <2>5. TablesInv' /\ ColumnsInv'
    BY <2>1, <2>3 DEF TypeOK, TablesInv, ColumnsInv, Working
  <2> QED BY <2>4, <2>5
<1> QED BY <1>1, <1>2 DEF DropsColumn

\* Indexes that are all on columns of the table may be put in place of its own.
LEMMA IndexStepIInv ==
  ASSUME IInv, NEW x \in Indexes, NEW w \in Work,
         pc = "work", syn' = [syn EXCEPT !.idx = x],
         \A n \in DOMAIN x : x[n].on \subseteq syn.cols,
         todo' = w, w.drop = todo.drop, w.add = todo.add, w.new = todo.new,
         w.makeIdx \subseteq todo.makeIdx,
         UNCHANGED <<envVars, pc, src, col, outcome>>
  PROVE  IInv'
<1>1. /\ syn' \in SyntheticTables /\ syn'.cols = syn.cols /\ syn'.idx = x
      /\ syn'.notNull = syn.notNull /\ syn'.blank = syn.blank
  BY DEF IInv, TypeOK
<1> HIDE DEF SyntheticTables, Work
<1>2. TypeOK'
  BY <1>1 DEF IInv, TypeOK, envVars, Exists
<1>3. TablesInv' /\ ColumnsInv'
  BY <1>1 DEF IInv, TypeOK, TablesInv, ColumnsInv, Working, envVars
<1> QED BY <1>2, <1>3 DEF IInv

LEMMA DropsIndexIInv == ASSUME IInv, NEW n \in Names, DropsIndex(n) PROVE IInv'
<1>1. CASE Fails
  BY <1>1, EndsIInv DEF Fails
<1>2. CASE n \in DOMAIN syn.idx
  <2> DEFINE x == Restrict(syn.idx, DOMAIN syn.idx \ {n})
             w == [todo EXCEPT !.dropIdx = @ \ {n}]
  <2>1. /\ pc = "work" /\ syn' = [syn EXCEPT !.idx = x] /\ todo' = w
        /\ UNCHANGED <<envVars, pc, src, col, outcome>>
    BY <1>2 DEF DropsIndex
  <2>2. syn.idx \in Indexes /\ \A m \in DOMAIN syn.idx : syn.idx[m].on \subseteq syn.cols
    BY DEF IInv, TypeOK
  <2>3. x \in Indexes /\ \A m \in DOMAIN x : x[m].on \subseteq syn.cols
    BY <2>2, RestrictIndexes
  <2>4. /\ w \in Work /\ w.drop = todo.drop /\ w.add = todo.add /\ w.new = todo.new
        /\ w.makeIdx = todo.makeIdx
    BY DEF IInv, TypeOK
  <2> HIDE DEF x, w
  <2> QED BY <2>1, <2>3, <2>4, IndexStepIInv
<1> QED BY <1>1, <1>2 DEF DropsIndex

LEMMA CreatesIndexIInv == ASSUME IInv, NEW n \in Names, CreatesIndex(n) PROVE IInv'
<1>1. CASE Fails
  BY <1>1, EndsIInv DEF Fails
<1>2. CASE CanCreate(n, src.idx[n])
  <2> DEFINE t == src.idx[n]
             x == With(syn.idx, n, t)
             w == [todo EXCEPT !.makeIdx = @ \ {n}]
  <2>1. /\ pc = "work" /\ syn' = [syn EXCEPT !.idx = x] /\ todo' = w
        /\ UNCHANGED <<envVars, pc, src, col, outcome>>
    BY <1>2 DEF CreatesIndex
  <2>2. syn.idx \in Indexes /\ \A m \in DOMAIN syn.idx : syn.idx[m].on \subseteq syn.cols
    BY DEF IInv, TypeOK
  <2>3. t \in Shapes
    <3>1. n \in DOMAIN src.idx /\ src.idx \in Indexes
      BY DEF CreatesIndex, IInv, TypeOK, ColumnsInv, Working
    <3> QED BY <3>1 DEF Indexes
  <2>4. t.on \subseteq syn.cols
    BY <1>2 DEF CanCreate
  <2> HIDE DEF t
  <2>5. x \in Indexes
    BY <2>2, <2>3, WithIndex
  <2>6. \A m \in DOMAIN x : x[m].on \subseteq syn.cols
    <3> SUFFICES ASSUME NEW m \in DOMAIN x PROVE x[m].on \subseteq syn.cols
      OBVIOUS
    <3>1. DOMAIN x = DOMAIN syn.idx \union {n} /\ x[m] = IF m = n THEN t ELSE syn.idx[m]
      BY DEF With
    <3> QED BY <2>2, <2>4, <3>1
  <2>7. /\ w \in Work /\ w.drop = todo.drop /\ w.add = todo.add /\ w.new = todo.new
        /\ w.makeIdx \subseteq todo.makeIdx
    BY DEF IInv, TypeOK
  <2> HIDE DEF x, w
  <2> QED BY <2>1, <2>5, <2>6, <2>7, IndexStepIInv
<1> QED BY <1>1, <1>2 DEF CreatesIndex

LEMMA SyncsIInv == IInv /\ Syncs => IInv'
<1> SUFFICES ASSUME IInv, Syncs PROVE IInv'
  OBVIOUS
<1>1. CASE Finishes
  BY <1>1, EndsIInv DEF Finishes
<1>2. CASE SyntheticQueryFails
  BY <1>2, EndsIInv DEF SyntheticQueryFails, Fails
<1> QED BY <1>1, <1>2, ListsTablesIInv, InspectsSourceIInv, DropsOrphanIInv, InspectsSyntheticIInv,
           DropsColumnIInv, AddsColumnIInv, FillsColumnIInv, SetsNotNullIInv, DropsIndexIInv,
           CreatesIndexIInv
        DEF Syncs

LEMMA NextIInv == IInv /\ [Next]_vars => IInv'
<1> SUFFICES ASSUME IInv, [Next]_vars PROVE IInv'
  OBVIOUS
<1>1. CASE UNCHANGED vars
  BY <1>1 DEF vars, IInv, TypeOK, TablesInv, ColumnsInv, Working, Exists
<1> QED BY <1>1, OwnersIInv, GeneratesIInv, ViewsIInv, SyncsIInv DEF Next

THEOREM Invariance == Spec => []IInv
<1> QED BY InitIInv, NextIInv, PTL DEF Spec

--------------------------------------------------------------------------------
(* What sync promises about columns *)

\* Every value stays within its type; in particular a NOT NULL column of a synthetic table
\* has no blank row, and no index is left on a column that is gone.
THEOREM TypeCorrect == Spec => []TypeOK
<1>1. IInv => TypeOK
  BY DEF IInv
<1> QED BY <1>1, Invariance, PTL

\* The differences are worked out from what the real table was found to be, and that lies
\* between what it has had all along and what it has had at some time.
SpanInv ==
  /\ pc # "idle" => /\ held.cols \subseteq real.cols /\ real.cols \subseteq seen.cols
                    /\ held.idx \subseteq Range(real.idx) /\ Range(real.idx) \subseteq seen.idx
  /\ \A s \in held.idx : s.on \subseteq held.cols
  /\ pc = "orphan" => held.cols = {}
  /\ pc = "indexes" \/ pc = "synthetic" \/ Working =>
       held.cols \subseteq src.cols /\ src.cols \subseteq seen.cols
  /\ pc = "synthetic" \/ Working =>
       held.idx \subseteq Range(src.idx) /\ Range(src.idx) \subseteq seen.idx

\* Whatever the owners do makes the one smaller and the other larger.
LEMMA OwnersSpan == IInv /\ SpanInv /\ Owners => SpanInv'
<1> SUFFICES ASSUME IInv, SpanInv, Owners PROVE SpanInv'
  OBVIOUS
<1>1. /\ UNCHANGED <<pc, src>>
      /\ held' = [cols |-> held.cols \cap real'.cols, idx |-> held.idx \cap Range(real'.idx)]
      /\ seen' = IF pc = "idle" THEN seen
                 ELSE [cols |-> seen.cols \union real'.cols,
                       idx |-> seen.idx \union Range(real'.idx)]
  BY DEF Owners, AddsRealColumn, DropsRealColumn, CreatesRealIndex, DropsRealIndex,
         DropsRealTable, CreatesRealTable, Alters
<1>2. \A s \in Range(real'.idx) : s.on \subseteq real'.cols
  <2>1. TablesInv'
    BY OwnersIInv DEF IInv
  <2> QED BY <2>1 DEF TablesInv, Range
<1>3. Working' <=> Working
  BY <1>1 DEF Working
<1>4. /\ held'.cols = held.cols \cap real'.cols
      /\ held'.idx = held.idx \cap Range(real'.idx)
      /\ pc # "idle" => /\ seen'.cols = seen.cols \union real'.cols
                        /\ seen'.idx = seen.idx \union Range(real'.idx)
  BY <1>1
<1>5. Working => pc # "idle"
  BY DEF Working
<1> QED BY <1>1, <1>2, <1>3, <1>4, <1>5 DEF SpanInv

\* A step of the call that learns nothing about the real table.
LEMMA SpanKept ==
  ASSUME SpanInv, UNCHANGED <<real, held, seen, src>>, pc # "idle",
         pc' = "orphan" => held.cols = {} \/ pc = "orphan",
         pc' \in {"indexes", "synthetic", "work", "fill", "notnull"} =>
           \/ pc' = pc
           \/ pc \in {"synthetic", "work", "fill", "notnull"} /\ pc' \in {"work", "fill", "notnull"}
  PROVE  SpanInv'
BY DEF SpanInv, Working

\* The end of a call.
LEMMA SpanEnds == ASSUME pc' = "idle", held' = NoSpan PROVE SpanInv'
BY DEF SpanInv, Working, NoSpan

LEMMA NextSpan == IInv /\ SpanInv /\ [Next]_vars => SpanInv'
<1> SUFFICES ASSUME IInv, SpanInv, [Next]_vars PROVE SpanInv'
  OBVIOUS
<1> USE DEF envVars
<1>1. CASE Owners
  BY <1>1, OwnersSpan
<1>2. CASE Generates \/ Views \/ UNCHANGED vars
  BY <1>2 DEF Generates, Views, vars, SpanInv, Working
<1>3. ASSUME Fails \/ Ends("ok") PROVE SpanInv'
  BY <1>3, SpanEnds DEF Fails, Ends
<1>4. CASE ListsTables
  <2>1. CASE syn.made
    <3>1. /\ pc' = "source" /\ held' = Now(real) /\ seen' = Now(real) /\ real' = real
      BY <1>4, <2>1 DEF ListsTables
    <3>2. \A t \in Range(real.idx) : t.on \subseteq real.cols
      BY DEF IInv, TablesInv, Range
    <3> QED BY <3>1, <3>2 DEF Now, SpanInv, Working
  <2> QED BY <1>3, <1>4, <2>1 DEF ListsTables
<1>5. CASE FindsSource
  <2>1. pc = "source" /\ pc' \in {"columns", "orphan"}
          /\ UNCHANGED <<real, held, seen, src>>
          /\ (pc' = "orphan" => real.cols = {})
    BY <1>5 DEF FindsSource, Exists
  <2>2. pc' = "orphan" => held.cols = {}
    BY <2>1 DEF SpanInv
  <2> QED BY <2>1, <2>2, SpanKept
<1>6. CASE ReadsColumns
  <2>1. /\ pc = "columns" /\ pc' = "indexes" /\ src'.cols = real.cols
        /\ UNCHANGED <<real, held, seen>>
    BY <1>6 DEF ReadsColumns
  <2> QED BY <2>1 DEF SpanInv, Working
<1>7. CASE ReadsIndexes
  <2>1. /\ pc = "indexes" /\ pc' = "synthetic"
        /\ src'.cols = src.cols /\ src'.idx = real.idx
        /\ UNCHANGED <<real, held, seen>>
    BY <1>7 DEF ReadsIndexes, IInv, TypeOK
  <2> QED BY <2>1 DEF SpanInv, Working
<1>8. CASE SourceQueryFails
  <2>1. /\ pc \in {"source", "columns", "indexes"} /\ pc' = "orphan"
        /\ held' = NoSpan /\ UNCHANGED <<real, seen>>
    BY <1>8 DEF SourceQueryFails
  <2> QED BY <2>1 DEF SpanInv, Working, NoSpan
<1>9. CASE InspectsSynthetic
  <2>1. pc = "synthetic" /\ pc' = "work" /\ UNCHANGED <<real, held, seen, src>>
    BY <1>9 DEF InspectsSynthetic, InspectsSyntheticFor
  <2> QED BY <2>1, SpanKept
<1>10. ASSUME NEW c \in Columns, DropsColumn(c) \/ AddsColumn(c) PROVE SpanInv'
  BY <1>3, <1>10, SpanKept DEF DropsColumn, AddsColumn
<1>11. CASE FillsColumn \/ SetsNotNull
  BY <1>3, <1>11, SpanKept DEF FillsColumn, SetsNotNull
<1>12. ASSUME NEW n \in Names, DropsIndex(n) \/ CreatesIndex(n) PROVE SpanInv'
  BY <1>3, <1>12, SpanKept DEF DropsIndex, CreatesIndex
<1>13. CASE DropsOrphan \/ Finishes \/ SyntheticQueryFails
  BY <1>3, <1>13 DEF DropsOrphan, Finishes, SyntheticQueryFails
<1> QED BY <1>1, <1>2, <1>4, <1>5, <1>6, <1>7, <1>8, <1>9, <1>10, <1>11, <1>12, <1>13
        DEF Next, Syncs

LEMMA SpanInvariance == Spec => []SpanInv
<1>1. Init => SpanInv
  BY DEF Init, SpanInv, Working, NoSpan
<1> QED BY <1>1, NextSpan, Invariance, PTL DEF Spec

\* handleSync that reaches its end has left every column the real table has had since the
\* call began, up to those that fill themselves, and none that it has not had at some time
\* since, whatever happened between its queries (serve.go, handleSync).
THEOREM ColumnsSynced == Spec => SyncedColumns
<1>1. IInv /\ SpanInv /\ Finishes =>
        held.cols \ Automatic \subseteq syn.cols /\ syn.cols \subseteq seen.cols
  BY DEF IInv, ColumnsInv, SpanInv, Working, Finishes
<1> QED BY <1>1, Invariance, SpanInvariance, PTL DEF SyncedColumns

\* And each column it has added is NOT NULL if the real one is (serve.go:402-412).
THEOREM NewColumnsFinished == Spec => NewColumnsComplete
<1>1. IInv /\ Finishes => todo.new \cap NotNull \subseteq syn.notNull
  BY DEF IInv, TypeOK, ColumnsInv, Working, Finishes
<1> QED BY <1>1, Invariance, PTL DEF NewColumnsComplete

\* No step of sync drops a column that the real table has had since the call began, the
\* table of one that has been there, or takes its values from a column, unless a query
\* about the real table has failed (serve.go:340-412).
THEOREM NoDataLost == Spec => DataKept
<1> DEFINE P == /\ held.cols # {} /\ syn.made => syn'.made
                /\ held.cols \cap syn.cols \subseteq syn'.cols
                /\ syn'.blank \cap syn.cols \subseteq syn.blank
<1>1. ASSUME IInv, SpanInv, Syncs PROVE P
  <2>1. CASE UNCHANGED syn
    BY <2>1 DEF IInv, TypeOK
  <2>2. CASE DropsOrphan
    <3>1. held.cols = {}
      BY <1>1, <2>2 DEF DropsOrphan, SpanInv
    <3> QED BY <2>1, <2>2, <3>1, EmptyRecords DEF DropsOrphan, Fails
  <2>3. ASSUME NEW c \in Columns, DropsColumn(c) PROVE P
    <3>1. CASE Fails
      BY <2>1, <3>1 DEF Fails
    <3>2. CASE /\ syn'.cols = syn.cols \ {c} /\ syn'.blank = syn.blank \ {c}
               /\ c \in todo.drop /\ pc = "work" /\ syn'.made = syn.made
      BY <3>2, <1>1 DEF IInv, TypeOK, ColumnsInv, SpanInv, Working
    <3>3. CASE ~Fails
      <4>1. syn \in SyntheticTables
        BY <1>1 DEF IInv, TypeOK
      <4>2. /\ syn'.cols = syn.cols \ {c} /\ syn'.blank = syn.blank \ {c}
            /\ syn'.made = syn.made
        BY <2>3, <3>3, <4>1 DEF DropsColumn
      <4>3. c \in todo.drop /\ pc = "work"
        BY <2>3 DEF DropsColumn
      <4> QED BY <3>2, <4>2, <4>3
    <3> QED BY <3>1, <3>3
  <2>4. ASSUME NEW c \in Columns, AddsColumn(c) PROVE P
    BY <2>4, <1>1 DEF AddsColumn, IInv, TypeOK, ColumnsInv, Working
  <2>5. CASE FillsColumn
    <3>1. \/ UNCHANGED syn
          \/ \E dup \in BOOLEAN :
               syn' = [syn EXCEPT !.blank = @ \ col,
                                  !.dups = IF dup THEN @ \union col ELSE @]
      BY <2>5 DEF FillsColumn, Fails
    <3>2. CASE ~UNCHANGED syn
      <4>1. syn'.cols = syn.cols /\ syn'.blank = syn.blank \ col /\ syn'.made = syn.made
        BY <3>1, <3>2, <1>1 DEF IInv, TypeOK
      <4> QED BY <4>1 DEF IInv, TypeOK
    <3> QED BY <2>1, <3>2
  <2>6. CASE SetsNotNull
    BY <2>1, <2>6, <1>1 DEF SetsNotNull, Fails, IInv, TypeOK
  <2>7. ASSUME NEW n \in Names, DropsIndex(n) \/ CreatesIndex(n) PROVE P
    BY <2>1, <2>7, <1>1 DEF DropsIndex, CreatesIndex, Fails, IInv, TypeOK
  <2>8. CASE \/ ListsTables \/ FindsSource \/ ReadsColumns \/ ReadsIndexes
            \/ SourceQueryFails \/ SyntheticQueryFails \/ InspectsSynthetic \/ Finishes
    BY <2>1, <2>8 DEF ListsTables, FindsSource, ReadsColumns, ReadsIndexes, SourceQueryFails,
                      SyntheticQueryFails, Fails, InspectsSynthetic, InspectsSyntheticFor,
                      Finishes
  <2> QED BY <1>1, <2>2, <2>3, <2>4, <2>5, <2>6, <2>7, <2>8 DEF Syncs
<1> HIDE DEF P
<1>2. IInv /\ SpanInv /\ [Next]_vars => [Syncs => P]_vars
  BY <1>1
<1> QED BY <1>2, Invariance, SpanInvariance, PTL DEF DataKept, Spec, P

--------------------------------------------------------------------------------
(* What sync promises about indexes *)

\* A finite set of numbers has a greatest: of the sets of what is above an element, one
\* is smallest, and it is empty.
LEMMA Greatest ==
  ASSUME NEW T \in SUBSET Nat, IsFiniteSet(T), T # {}
  PROVE  \E x \in T : \A y \in T : y <= x
<1> DEFINE Above(x) == {y \in T : x < y}
           R == StrictSubsetOrdering(T)
           A == {Above(x) : x \in T}
<1>1. IsWellFoundedOn(R, FiniteSubsetsOf(T))
  BY FS_StrictSubsetOrderingWellFounded
<1>2. A \subseteq FiniteSubsetsOf(T) /\ A # {}
  <2> SUFFICES ASSUME NEW x \in T PROVE Above(x) \in FiniteSubsetsOf(T)
    OBVIOUS
  <2>1. Above(x) \subseteq T
    OBVIOUS
  <2>2. IsFiniteSet(Above(x))
    BY <2>1, FS_Subset
  <2> QED BY <2>1, <2>2 DEF FiniteSubsetsOf
<1>3. \E S \in A : \A U \in A : <<U, S>> \notin R
  <2> HIDE DEF A, R
  <2> QED BY <1>1, <1>2, WFMin
<1>4. PICK x \in T : \A y \in T : <<Above(y), Above(x)>> \notin R
  BY <1>3
<1>5. \A y \in T : y <= x
  <2> SUFFICES ASSUME NEW y \in T, x < y PROVE FALSE
    <3>1. \A y \in T : x \in Nat /\ y \in Nat
      OBVIOUS
    <3> HIDE DEF A, R
    <3> QED BY <3>1
  <2>1. Above(y) \subseteq Above(x) /\ y \in Above(x) /\ y \notin Above(y)
    <3>1. x \in Nat /\ y \in Nat /\ ~(y < y) /\ \A z \in T : y < z => x < z
      OBVIOUS
    <3> QED BY <3>1
  <2>2. <<Above(y), Above(x)>> \in R
    <3>1. Above(x) \in SUBSET T /\ Above(y) \in SUBSET T /\ Above(y) # Above(x)
      BY <2>1
    <3> QED BY <2>1, <3>1, Zenon DEF StrictSubsetOrdering
  <2> QED BY <1>4, <2>2
<1> QED BY <1>5

\* The real table's indexes, but those on columns that came after its columns were read, are
\* there or still to be made; what is to be dropped is none of
\* them; and what is neither one of them nor to be dropped does the same as another.
IndexesInv ==
  Working =>
    /\ \A n \in DOMAIN src.idx : \/ ~(src.idx[n].on \subseteq src.cols)
                                 \/ src.idx[n] \in Range(syn.idx)
                                 \/ \E m \in todo.makeIdx : src.idx[m] = src.idx[n]
    /\ \A n \in DOMAIN syn.idx \cap todo.dropIdx : syn.idx[n] \notin Range(src.idx)
    /\ todo.twins \/ \A n \in DOMAIN syn.idx : \/ syn.idx[n] \in Range(src.idx)
                                               \/ n \in todo.dropIdx

\* The members of an index definition's range are what it says of its names.
LEMMA InRange == ASSUME NEW f, NEW v PROVE v \in Range(f) <=> \E n \in DOMAIN f : v = f[n]
BY DEF Range

\* Indexes with the same signature are the same but for their names.
LEMMA SignatureIsAll ==
  ASSUME NEW i \in Shapes, NEW j \in Shapes
  PROVE  Signature(i) = Signature(j) <=> i = j
<1>1. i \in [on : (SUBSET Columns) \ {{}}, unique : BOOLEAN]
        /\ j \in [on : (SUBSET Columns) \ {{}}, unique : BOOLEAN]
  BY SyncAssumption
<1> QED BY <1>1 DEF Signature

\* The maps keyed by signature have a name for every index.
LEMMA LastOfCovers ==
  ASSUME NEW idx \in Indexes, NEW n \in DOMAIN idx
  PROVE  \E m \in LastOf(idx) : idx[m] = idx[n]
<1>1. PICK N \in SUBSET Names : idx \in [N -> Shapes]
  BY DEF Indexes
<1> DEFINE T == {m \in DOMAIN idx : idx[m] = idx[n]}
<1>2. DOMAIN idx = N /\ n \in T
  BY <1>1
<1>3. T \in SUBSET Nat /\ IsFiniteSet(T)
  <2>1. T \subseteq Names
    BY <1>1
  <2> QED BY <2>1, SyncAssumption, FS_Subset
<1>4. PICK m \in T : \A k \in T : k <= m
  BY <1>2, <1>3, Greatest
<1>5. \A k \in DOMAIN idx : Signature(idx[k]) = Signature(idx[m]) => k \in T
  <2> SUFFICES ASSUME NEW k \in DOMAIN idx, Signature(idx[k]) = Signature(idx[m])
               PROVE  k \in T
    OBVIOUS
  <2>1. idx[k] \in Shapes /\ idx[m] \in Shapes
    BY <1>1
  <2>2. idx[k] = idx[m]
    BY <2>1, SignatureIsAll
  <2> QED BY <2>2
<1>6. m \in LastOf(idx)
  BY <1>4, <1>5 DEF LastOf
<1> QED BY <1>6

\* A step that leaves the indexes, and what is to be done about them, alone.
LEMMA IndexesKept ==
  ASSUME IndexesInv, syn'.idx = syn.idx, src' = src,
         todo'.dropIdx = todo.dropIdx, todo'.makeIdx = todo.makeIdx,
         todo'.twins = todo.twins, Working' => Working
  PROVE  IndexesInv'
BY DEF IndexesInv

\* A step after which no differences are being worked off.
LEMMA IndexesIdle == ASSUME ~Working' PROVE IndexesInv'
BY DEF IndexesInv

\* The differences, by the names that stay in the maps.
LEMMA InspectsSyntheticIndexes == IInv /\ IndexesInv /\ InspectsSynthetic => IndexesInv'
<1> SUFFICES ASSUME IInv, IndexesInv, InspectsSynthetic PROVE IndexesInv'
  OBVIOUS
<1> DEFINE d == Differences(syn.cols \ src.cols, (src.cols \ Automatic) \ syn.cols)
<1>1. todo' = d /\ UNCHANGED <<syn, src>>
  BY Zenon DEF InspectsSynthetic, InspectsSyntheticFor
<1>2. /\ d.dropIdx = {n \in LastOf(syn.idx) : Signature(syn.idx[n]) \notin Signatures(src.idx)}
      /\ d.makeIdx = {n \in LastOf(src.idx) : Signature(src.idx[n]) \notin Signatures(syn.idx)}
      /\ d.twins = (LastOf(syn.idx) # DOMAIN syn.idx)
  BY DEF Differences
<1> HIDE DEF d
<1>3. src.idx \in Indexes /\ syn.idx \in Indexes
  BY DEF IInv, TypeOK
<1>4. ASSUME NEW x \in Indexes, NEW y \in Indexes, NEW n \in DOMAIN x
      PROVE  Signature(x[n]) \in Signatures(y) <=> x[n] \in Range(y)
  <2>1. x[n] \in Shapes /\ \A m \in DOMAIN y : y[m] \in Shapes
    BY DEF Indexes
  <2>2. \A m \in DOMAIN y : Signature(x[n]) = Signature(y[m]) <=> x[n] = y[m]
    BY <2>1, SignatureIsAll
  <2> QED BY <2>2 DEF Signatures, Range
<1>5. ASSUME NEW n \in DOMAIN src.idx, src.idx[n] \notin Range(syn.idx)
      PROVE  \E m \in d.makeIdx : src.idx[m] = src.idx[n]
  <2>1. PICK m \in LastOf(src.idx) : src.idx[m] = src.idx[n]
    BY <1>3, LastOfCovers
  <2>2. m \in DOMAIN src.idx
    BY DEF LastOf
  <2>3. Signature(src.idx[m]) \notin Signatures(syn.idx)
    BY <1>3, <1>4, <1>5, <2>1, <2>2
  <2> QED BY <1>2, <2>1, <2>3
<1>6. ASSUME NEW n \in DOMAIN syn.idx, n \in d.dropIdx PROVE syn.idx[n] \notin Range(src.idx)
  BY <1>2, <1>3, <1>4, <1>6
<1>7. ASSUME ~d.twins, NEW n \in DOMAIN syn.idx, syn.idx[n] \notin Range(src.idx)
      PROVE  n \in d.dropIdx
  <2>1. n \in LastOf(syn.idx)
    BY <1>2, <1>7
  <2> QED BY <1>2, <1>3, <1>4, <1>7, <2>1
<1> QED BY <1>1, <1>5, <1>6, <1>7 DEF IndexesInv

\* The columns that go are none that an index of the real table is on.
LEMMA DropsColumnIndexes ==
  ASSUME IInv, IndexesInv, NEW c \in Columns, DropsColumn(c), ~Fails PROVE IndexesInv'
<1> DEFINE x == IndexesWithout(syn.idx, c)
<1>1. /\ syn'.idx = x /\ src' = src /\ c \in todo.drop /\ Working
      /\ todo'.dropIdx = todo.dropIdx /\ todo'.makeIdx = todo.makeIdx
      /\ todo'.twins = todo.twins
  <2>1. syn \in SyntheticTables /\ todo \in Work
    BY DEF IInv, TypeOK
  <2>2. syn'.idx = x
    BY <2>1 DEF DropsColumn
  <2>3. src' = src /\ c \in todo.drop /\ Working
    BY DEF DropsColumn, Working
  <2>4. /\ todo'.dropIdx = todo.dropIdx /\ todo'.makeIdx = todo.makeIdx
        /\ todo'.twins = todo.twins
    BY <2>1 DEF DropsColumn
  <2> QED BY <2>2, <2>3, <2>4
<1>2. /\ syn.idx \in Indexes
      /\ {n \in DOMAIN syn.idx : c \notin syn.idx[n].on} \in SUBSET DOMAIN syn.idx
  BY DEF IInv, TypeOK
<1>3. /\ DOMAIN x = {n \in DOMAIN syn.idx : c \notin syn.idx[n].on}
      /\ \A n \in DOMAIN x : x[n] = syn.idx[n]
  BY <1>2, RestrictIndexes DEF IndexesWithout
<1> HIDE DEF x
<1>4. \A n \in DOMAIN src.idx : src.idx[n].on \subseteq src.cols => c \notin src.idx[n].on
  BY <1>1 DEF IInv, ColumnsInv
<1>5. ASSUME NEW n \in DOMAIN src.idx, src.idx[n] \in Range(syn.idx),
             src.idx[n].on \subseteq src.cols
      PROVE  src.idx[n] \in Range(x)
  <2>1. PICK m \in DOMAIN syn.idx : src.idx[n] = syn.idx[m]
    BY <1>5, InRange
  <2>2. m \in DOMAIN x /\ src.idx[n] = x[m]
    BY <1>3, <1>4, <1>5, <2>1
  <2> QED BY <2>2, InRange
<1> QED BY <1>1, <1>3, <1>5 DEF IndexesInv

\* The indexes that go are none of the real table's.
LEMMA DropsIndexIndexes ==
  ASSUME IInv, IndexesInv, NEW k \in Names, DropsIndex(k), ~Fails PROVE IndexesInv'
<1> DEFINE x == Restrict(syn.idx, DOMAIN syn.idx \ {k})
<1>1. /\ syn'.idx = x /\ src' = src /\ k \in todo.dropIdx /\ Working
      /\ k \in DOMAIN syn.idx
      /\ todo'.dropIdx = todo.dropIdx \ {k} /\ todo'.makeIdx = todo.makeIdx
      /\ todo'.twins = todo.twins
  BY DEF DropsIndex, IInv, TypeOK, Working
<1>2. /\ DOMAIN x = DOMAIN syn.idx \ {k}
      /\ \A n \in DOMAIN x : x[n] = syn.idx[n]
  BY RestrictIndexes DEF IInv, TypeOK
<1> HIDE DEF x
<1>3. syn.idx[k] \notin Range(src.idx)
  BY <1>1 DEF IndexesInv
<1>4. ASSUME NEW n \in DOMAIN src.idx, src.idx[n] \in Range(syn.idx)
      PROVE  src.idx[n] \in Range(x)
  <2>1. PICK m \in DOMAIN syn.idx : src.idx[n] = syn.idx[m]
    BY <1>4, InRange
  <2>2. src.idx[n] \in Range(src.idx)
    BY InRange
  <2>3. m \in DOMAIN x /\ src.idx[n] = x[m]
    BY <1>2, <1>3, <2>1, <2>2
  <2> QED BY <2>3, InRange
<1> QED BY <1>1, <1>2, <1>4 DEF IndexesInv

\* An index that is made is one of the real table's; all obsolete ones have gone before.
LEMMA CreatesIndexIndexes ==
  ASSUME IInv, IndexesInv, NEW k \in Names, CreatesIndex(k), ~Fails PROVE IndexesInv'
<1> DEFINE t == src.idx[k]
           x == With(syn.idx, k, t)
<1>1. /\ syn'.idx = x /\ src' = src /\ k \in todo.makeIdx /\ Working
      /\ k \notin DOMAIN syn.idx
      /\ todo.dropIdx = {} /\ todo'.dropIdx = {} /\ todo'.makeIdx = todo.makeIdx \ {k}
      /\ todo'.twins = todo.twins
  BY DEF CreatesIndex, CanCreate, IInv, TypeOK, Working
<1>2. k \in DOMAIN src.idx
  BY <1>1 DEF IInv, ColumnsInv
<1>3. /\ DOMAIN x = DOMAIN syn.idx \union {k}
      /\ \A n \in DOMAIN x : x[n] = IF n = k THEN src.idx[k] ELSE syn.idx[n]
  <2> HIDE DEF t
  <2>1. /\ DOMAIN x = DOMAIN syn.idx \union {k}
        /\ \A n \in DOMAIN x : x[n] = IF n = k THEN t ELSE syn.idx[n]
    BY DEF With
  <2> QED BY <2>1 DEF t
<1> HIDE DEF x, t
<1>4. ASSUME NEW v, v \in Range(syn.idx) \/ v = src.idx[k] PROVE v \in Range(x)
  <2>1. PICK m \in DOMAIN x : v = x[m]
    <3>1. CASE v = src.idx[k]
      BY <1>3, <3>1
    <3>2. CASE v \in Range(syn.idx)
      <4>1. PICK m \in DOMAIN syn.idx : v = syn.idx[m]
        BY <3>2, InRange
      <4> QED BY <1>1, <1>3, <4>1
    <3> QED BY <1>4, <3>1, <3>2
  <2> QED BY <2>1, InRange
<1>5. src.idx[k] \in Range(src.idx)
  BY <1>2, InRange
<1>6. ASSUME NEW n \in DOMAIN src.idx, src.idx[n].on \subseteq src.cols
      PROVE  src.idx[n] \in Range(x) \/ \E m \in todo'.makeIdx : src.idx[m] = src.idx[n]
  <2>1. CASE src.idx[n] \in Range(syn.idx)
    BY <1>4, <2>1
  <2>2. CASE \E m \in todo.makeIdx : src.idx[m] = src.idx[n]
    BY <1>1, <1>4, <2>2
  <2> QED BY <1>1, <1>6, <2>1, <2>2 DEF IndexesInv
<1> QED BY <1>1, <1>3, <1>5, <1>6 DEF IndexesInv

\* All the steps.
LEMMA NextIndexes == IInv /\ IndexesInv /\ [Next]_vars => IndexesInv'
<1> SUFFICES ASSUME IInv, IndexesInv, [Next]_vars PROVE IndexesInv'
  OBVIOUS
<1>1. ASSUME Ends("ok") \/ Ends("error") PROVE IndexesInv'
  BY <1>1, IndexesIdle DEF Ends, Working
<1>2. CASE Owners \/ Views \/ UNCHANGED vars
  BY <1>2, IndexesKept DEF Owners, AddsRealColumn, DropsRealColumn, CreatesRealIndex,
     DropsRealIndex, DropsRealTable, CreatesRealTable, Alters, Views, vars, Working
<1>3. CASE \/ Generates \/ ListsTables \/ FindsSource \/ ReadsColumns \/ ReadsIndexes
          \/ SourceQueryFails \/ SyntheticQueryFails \/ DropsOrphan \/ Finishes
  BY <1>1, <1>3, IndexesIdle DEF Generates, ListsTables, FindsSource, ReadsColumns,
     ReadsIndexes, SourceQueryFails, SyntheticQueryFails, DropsOrphan, Finishes, Fails, Working
<1>4. ASSUME NEW c \in Columns, AddsColumn(c) PROVE IndexesInv'
  BY <1>4, IndexesKept DEF AddsColumn, Working, IInv, TypeOK
<1>5. CASE FillsColumn \/ SetsNotNull
  <2>1. CASE Fails
    BY <1>1, <2>1 DEF Fails
  <2>2. CASE ~Fails
    <3> DEFINE kept == syn'.idx = syn.idx /\ src' = src /\ todo' = todo /\ Working
    <3>1. syn \in SyntheticTables
      BY DEF IInv, TypeOK
    <3>2. ASSUME FillsColumn PROVE kept
      BY <2>2, <3>1, <3>2 DEF FillsColumn, SyntheticTables, Working
    <3>3. ASSUME SetsNotNull PROVE kept
      BY <2>2, <3>1, <3>3 DEF SetsNotNull, SyntheticTables, Working
    <3>4. kept
      BY <1>5, <3>2, <3>3
    <3> QED BY <3>4, IndexesKept
  <2> QED BY <2>1, <2>2
<1>6. ASSUME Fails PROVE IndexesInv'
  BY <1>1, <1>6 DEF Fails
<1>7. ASSUME NEW c \in Columns, DropsColumn(c) PROVE IndexesInv'
  BY <1>6, <1>7, DropsColumnIndexes
<1>8. ASSUME NEW n \in Names, DropsIndex(n) \/ CreatesIndex(n) PROVE IndexesInv'
  BY <1>6, <1>8, DropsIndexIndexes, CreatesIndexIndexes
<1> QED BY <1>2, <1>3, <1>4, <1>5, <1>7, <1>8, InspectsSyntheticIndexes DEF Next, Syncs

\* handleSync that reaches its end has given the synthetic table every index that the real
\* one has had since the call began, and none that it has not had at some time since, unless
\* two of its own did the same (serve.go:415-443, inspector.go:92-101).
THEOREM IndexesSynced == Spec => SyncedIndexes
<1> DEFINE P == /\ held.idx \subseteq Range(syn.idx)
                /\ Range(syn.idx) \subseteq seen.idx \/ todo.twins
<1>1. Init => IndexesInv
  BY DEF Init, IndexesInv, Working
<1>2. Spec => []IndexesInv
  BY <1>1, NextIndexes, Invariance, PTL DEF Spec
<1>3. SpanInv /\ IndexesInv /\ Finishes => P
  <2> SUFFICES ASSUME SpanInv, IndexesInv, Finishes PROVE P
    OBVIOUS
  <2>1. Working /\ todo.dropIdx = {} /\ todo.makeIdx = {}
    BY DEF Finishes, Working
  <2>2. \A n \in DOMAIN src.idx : src.idx[n].on \subseteq src.cols => src.idx[n] \in Range(syn.idx)
    BY <2>1 DEF IndexesInv
  <2>3. todo.twins \/ \A n \in DOMAIN syn.idx : syn.idx[n] \in Range(src.idx)
    BY <2>1 DEF IndexesInv
  <2>4. /\ held.idx \subseteq Range(src.idx) /\ Range(src.idx) \subseteq seen.idx
        /\ \A s \in held.idx : s.on \subseteq src.cols
    BY <2>1 DEF SpanInv
  <2>5. held.idx \subseteq Range(syn.idx)
    <3> SUFFICES ASSUME NEW s \in held.idx PROVE s \in Range(syn.idx)
      OBVIOUS
    <3>1. PICK n \in DOMAIN src.idx : s = src.idx[n]
      BY <2>4, InRange
    <3> QED BY <2>2, <2>4, <3>1
  <2>6. todo.twins \/ Range(syn.idx) \subseteq Range(src.idx)
    BY <2>3, InRange
  <2> QED BY <2>4, <2>5, <2>6
<1> HIDE DEF P
<1>4. SpanInv /\ IndexesInv /\ [Next]_vars => [Finishes => P]_vars
  BY <1>3
<1> QED BY <1>2, <1>4, SpanInvariance, PTL DEF SyncedIndexes, Spec, P
================================================================================
