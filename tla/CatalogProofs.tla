------------------------------ MODULE CatalogProofs ------------------------------
(***************************************************************************)
(* That scenarios and history last once the stubs are settled, and that a  *)
(* command that succeeds has done what it reports, for any sessions and    *)
(* tables.                                                                 *)
(***************************************************************************)
EXTENDS Catalog, TLAPS

\* A view has the name of the source its table is made from.
ViewsInv == \A s \in Sessions, n \in Names, sc \in Scenarios, t \in Sources :
              views[s][n] = <<sc, t>> => NameOf[t] = n

\* What a return_actual still has to hide includes the names of all the views on tables it
\* was asked for, as a table that is shown cannot have been missing from its list, and the
\* names of its list at which there is still a view.
HideInv == \A s \in Sessions : pc[s] = "hide" =>
             \A n \in Names, t \in Sources :
               /\ views[s][n] # NoView
               /\ \/ t \in call[s].asked /\ views[s][n] = <<call[s].sc, t>>
                  \/ t \in call[s].list /\ NameOf[t] = n
               => \E u \in call[s].todo : NameOf[u] = n

\* Only a return_actual hides.
PlaceInv == \A s \in Sessions : call[s].op = "actual" => pc[s] = "hide"

IInv == TypeOK /\ ViewsInv /\ HideInv /\ PlaceInv

Places == {"off", "check", "install", "ready", "create", "fill", "show", "hide", "drop"}

--------------------------------------------------------------------------------
(* Preservation, by what a step changes *)

\* Steps that leave views and running commands alone, and move one session at most to a
\* place where no views are hidden.
LEMMA OtherPlace ==
  ASSUME IInv, NEW s \in Sessions, NEW p \in Places \ {"hide"}, call[s].op # "actual",
         Goes(s, p), UNCHANGED <<tables, filled, views, call, touched, calls>>,
         stamp' \in Nat, scenarios' \subseteq Scenarios, history' \in Nat
  PROVE  IInv'
<1> USE DEF IInv, Goes, Places
<1>1. TypeOK'
  BY DEF TypeOK, HasParents
<1>2. ViewsInv' /\ HideInv' /\ PlaceInv'
  BY DEF TypeOK, ViewsInv, HideInv, PlaceInv
<1> QED BY <1>1, <1>2

\* The end of a command, or of a session.
LEMMA CallOver ==
  ASSUME IInv, NEW s \in Sessions, NEW p \in {"off", "ready"}, Goes(s, p),
         call' = [call EXCEPT ![s] = NoCall], touched' = [touched EXCEPT ![s] = {}],
         UNCHANGED <<stamp, scenarios, tables, filled, calls>>, history' \in Nat,
         views' \in [Sessions -> [Names -> tables \union {NoView}]],
         views' = views \/ views' = [views EXCEPT ![s] = NoViews]
  PROVE  IInv'
<1> USE DEF IInv, Goes
<1>1. NoCall \in Calls /\ NoCall.op = "none"
  BY CatalogAssumption DEF NoCall, Calls
<1>2. pc' \in [Sessions -> Places] /\ call' \in [Sessions -> Calls]
        /\ touched' \in [Sessions -> SUBSET (Scenarios \X Sources)]
  BY <1>1 DEF TypeOK, Places
<1>3. TypeOK'
  BY <1>2 DEF TypeOK, Places, HasParents
<1>4. \A r \in Sessions, n \in Names : views'[r][n] = views[r][n] \/ views'[r][n] = NoView
  <2> SUFFICES ASSUME NEW r \in Sessions, NEW n \in Names
               PROVE  views'[r][n] = views[r][n] \/ views'[r][n] = NoView
    OBVIOUS
  <2>1. CASE views' = [views EXCEPT ![s] = NoViews]
    <3>1. CASE r = s
      BY <2>1, <3>1 DEF TypeOK, NoViews
    <3>2. CASE r # s
      BY <2>1, <3>2 DEF TypeOK
    <3> QED BY <3>1, <3>2
  <2> QED BY <2>1
<1>5. ViewsInv'
  <2> SUFFICES ASSUME NEW r \in Sessions, NEW n \in Names, NEW sc \in Scenarios,
                      NEW t \in Sources, views'[r][n] = <<sc, t>>
               PROVE  NameOf[t] = n
    BY DEF ViewsInv
  <2>1. <<sc, t>> # NoView
    BY DEF NoView
  <2>2. views[r][n] = <<sc, t>>
    BY <1>4, <2>1
  <2> QED BY <2>2 DEF ViewsInv
<1>6. \A r \in Sessions : pc'[r] = "hide" => r # s /\ pc[r] = "hide" /\ call'[r] = call[r]
  BY DEF TypeOK
<1>7. HideInv'
  <2> SUFFICES ASSUME NEW r \in Sessions, pc'[r] = "hide", NEW n \in Names,
                      NEW t \in Sources, views'[r][n] # NoView,
                      \/ t \in call'[r].asked /\ views'[r][n] = <<call'[r].sc, t>>
                      \/ t \in call'[r].list /\ NameOf[t] = n
               PROVE  \E u \in call'[r].todo : NameOf[u] = n
    BY DEF HideInv
  <2>1. pc[r] = "hide" /\ call'[r] = call[r]
    BY <1>6
  <2>2. views'[r][n] = views[r][n]
    BY <1>4
  <2> QED BY <2>1, <2>2 DEF HideInv
<1>8. PlaceInv'
  BY <1>1 DEF PlaceInv, TypeOK
<1> QED BY <1>3, <1>5, <1>7, <1>8

LEMMA EndsIInv == ASSUME IInv, NEW s \in Sessions, Ends(s), UNCHANGED data PROVE IInv'
<1>1. history' \in Nat
  BY DEF IInv, TypeOK, Ends
<1> QED BY <1>1, CallOver DEF Ends, data, IInv, TypeOK

\* A command begins on what it finds, in a place where it hides nothing.
LEMMA BeginsIInv ==
  ASSUME IInv, NEW s \in Sessions, NEW p \in {"create", "show", "drop"},
         NEW op \in {"generate", "generated", "drop"}, NEW sc \in Scenarios,
         NEW asked \in SUBSET Sources, NEW list \in SUBSET Sources,
         CanCall(s), Begins(s, p, op, sc, asked, list), UNCHANGED <<gendb, data, views>>
  PROVE  IInv'
<1> DEFINE c == [op |-> op, sc |-> sc, asked |-> asked, list |-> list, todo |-> list,
                 bare |-> {}]
<1>1. c \in Calls /\ c.op # "actual"
  BY DEF Calls
<1>2. /\ call' = [call EXCEPT ![s] = c] /\ pc' = [pc EXCEPT ![s] = p]
      /\ touched' = [touched EXCEPT ![s] = {}] /\ calls' = calls + 1 /\ calls < MaxCalls
      /\ UNCHANGED <<stamp, scenarios, history, tables, filled, views>>
  BY DEF Begins, Goes, CanCall, gendb, data
<1> HIDE DEF c
<1>3. TypeOK'
  BY <1>1, <1>2, CatalogAssumption DEF IInv, TypeOK, HasParents
<1>4. ViewsInv'
  BY <1>2 DEF IInv, ViewsInv
<1>5. \A r \in Sessions : pc'[r] = "hide" => r # s /\ pc[r] = "hide" /\ call'[r] = call[r]
  BY <1>2 DEF IInv, TypeOK
<1>6. HideInv'
  BY <1>2, <1>5 DEF IInv, HideInv
<1>7. PlaceInv'
  BY <1>1, <1>2 DEF IInv, TypeOK, PlaceInv
<1> QED BY <1>3, <1>4, <1>6, <1>7 DEF IInv

\* The list of a return_actual has every table of its scenario, among those asked
\* for, that a view may show.
LEMMA StartsActualIInv ==
  ASSUME IInv, NEW s \in Sessions, NEW sc \in Scenarios, NEW chosen \in SUBSET Sources,
         StartsActual(s, sc, chosen)
  PROVE  IInv'
<1> DEFINE list == Listed(sc, chosen)
           c == [op |-> "actual", sc |-> sc, asked |-> chosen, list |-> list,
                 todo |-> list, bare |-> {}]
<1>1. list \in SUBSET Sources /\ \A t \in chosen : <<sc, t>> \in tables => t \in list
  BY DEF Listed
<1>2. c \in Calls
  BY <1>1 DEF Calls
<1>3. /\ call' = [call EXCEPT ![s] = c] /\ pc' = [pc EXCEPT ![s] = "hide"]
      /\ touched' = [touched EXCEPT ![s] = {}] /\ calls' = calls + 1 /\ calls < MaxCalls
      /\ UNCHANGED <<stamp, scenarios, history, tables, filled, views>>
  BY DEF StartsActual, Starts, Begins, Goes, CanCall, gendb, data
<1>4. c.sc = sc /\ c.asked = chosen /\ c.list = list /\ c.todo = list
  OBVIOUS
<1> HIDE DEF c, list
<1>5. TypeOK'
  BY <1>2, <1>3, CatalogAssumption DEF IInv, TypeOK, HasParents
<1>6. ViewsInv'
  BY <1>3 DEF IInv, ViewsInv
<1>7. HideInv'
  <2> SUFFICES ASSUME NEW r \in Sessions, pc'[r] = "hide", NEW n \in Names,
                      NEW t \in Sources, views'[r][n] # NoView,
                      \/ t \in call'[r].asked /\ views'[r][n] = <<call'[r].sc, t>>
                      \/ t \in call'[r].list /\ NameOf[t] = n
               PROVE  \E u \in call'[r].todo : NameOf[u] = n
    BY DEF HideInv
  <2>1. CASE r = s
    <3>1. call'[r] = c
      BY <2>1, <1>3 DEF IInv, TypeOK
    <3>2. t \in list /\ NameOf[t] = n
      <4>1. CASE t \in chosen /\ views[s][n] = <<sc, t>>
        <5>1. <<sc, t>> # NoView /\ views[s][n] \in tables \union {NoView}
          BY <4>1 DEF IInv, TypeOK, NoView
        <5> QED BY <4>1, <5>1, <1>1 DEF IInv, ViewsInv
      <4> QED BY <2>1, <3>1, <4>1, <1>3, <1>4
    <3> QED BY <3>1, <3>2, <1>4
  <2>2. CASE r # s
    <3>1. pc[r] = "hide" /\ call'[r] = call[r]
      BY <2>2, <1>3 DEF IInv, TypeOK
    <3> QED BY <3>1, <1>3 DEF IInv, HideInv
  <2> QED BY <2>1, <2>2
<1>8. PlaceInv'
  BY <1>3 DEF IInv, TypeOK, PlaceInv
<1> QED BY <1>5, <1>6, <1>7, <1>8 DEF IInv

--------------------------------------------------------------------------------
(* Preservation, by steps of a command *)

\* A command has done with a table: only what is left to do changes.
LEMMA DoneKeeps ==
  ASSUME TypeOK, NEW s \in Sessions, NEW t \in Sources, Done(s, t) \/ DoneBare(s, t)
  PROVE  /\ call' \in [Sessions -> Calls]
         /\ \A r \in Sessions \ {s} : call'[r] = call[r]
         /\ call'[s].op = call[s].op /\ call'[s].sc = call[s].sc
         /\ call'[s].asked = call[s].asked /\ call'[s].list = call[s].list
         /\ call'[s].todo = call[s].todo \ {t}
         /\ call[s].bare \subseteq call'[s].bare /\ (DoneBare(s, t) => t \in call'[s].bare)
<1> DEFINE c == [call[s] EXCEPT !.todo = @ \ {t}]
           d == [call[s] EXCEPT !.todo = @ \ {t}, !.bare = @ \union {t}]
           Kept(e) == /\ e \in Calls /\ e.op = call[s].op /\ e.sc = call[s].sc
                      /\ e.asked = call[s].asked /\ e.list = call[s].list
                      /\ e.todo = call[s].todo \ {t} /\ call[s].bare \subseteq e.bare
<1>1. call[s] \in Calls
  BY DEF TypeOK
<1>2. Kept(c)
  BY <1>1 DEF Calls
<1>3. Kept(d) /\ t \in d.bare
  BY <1>1 DEF Calls
<1>4. \/ call' = [call EXCEPT ![s] = c] /\ ~DoneBare(s, t)
      \/ call' = [call EXCEPT ![s] = d]
  BY DEF Done, DoneBare
<1> HIDE DEF c, d
<1>5. ASSUME NEW e, call' = [call EXCEPT ![s] = e], Kept(e)
      PROVE  /\ call' \in [Sessions -> Calls] /\ Kept(call'[s]) /\ call'[s] = e
             /\ \A r \in Sessions \ {s} : call'[r] = call[r]
  BY <1>5 DEF TypeOK
<1> QED BY <1>2, <1>3, <1>4, <1>5

LEMMA TouchesTyped ==
  ASSUME TypeOK, NEW s \in Sessions, NEW t \in Scenarios \X Sources, Touches(s, t)
  PROVE  touched' \in [Sessions -> SUBSET (Scenarios \X Sources)]
BY DEF TypeOK, Touches

\* A step of a command that hides nothing, and leaves the views alone.
LEMMA DoneElsewhere ==
  ASSUME IInv, NEW s \in Sessions, NEW t \in Sources, Done(s, t) \/ DoneBare(s, t),
         pc[s] # "hide", UNCHANGED <<views, pc>>
  PROVE  ViewsInv' /\ HideInv' /\ PlaceInv'
<1>1. TypeOK
  BY DEF IInv
<1>2. \A r \in Sessions : call'[r].op = call[r].op
  BY <1>1, DoneKeeps
<1>3. \A r \in Sessions : pc'[r] = "hide" => r # s /\ pc[r] = "hide" /\ call'[r] = call[r]
  BY <1>1, DoneKeeps
<1>4. ViewsInv'
  BY DEF IInv, ViewsInv
<1>5. HideInv'
  BY <1>3 DEF IInv, HideInv
<1>6. PlaceInv'
  BY <1>2 DEF IInv, PlaceInv
<1> QED BY <1>4, <1>5, <1>6

LEMMA CreatesTableIInv ==
  ASSUME IInv, NEW s \in Sessions, NEW t \in Sources, CreatesTable(s, t) PROVE IInv'
<1> DEFINE table == <<call[s].sc, t>>
<1>1. CASE Fails(s)
  BY <1>1, EndsIInv DEF Fails
<1>2. CASE ~Fails(s)
  <2>1. TypeOK /\ table \in Scenarios \X Sources
    BY DEF IInv, TypeOK, Calls
  <2>2. /\ pc[s] = "create" /\ tables' = tables \union {table} /\ Done(s, t)
        /\ table \in tables \/ HasParents(call[s].sc, t)
        /\ UNCHANGED touched \/ Touches(s, table)
        /\ UNCHANGED <<stamp, scenarios, history, filled, views, pc, calls>>
    BY <1>2 DEF CreatesTable, gendb
  <2>3. touched' \in [Sessions -> SUBSET (Scenarios \X Sources)]
    BY <2>1, <2>2, TouchesTyped DEF TypeOK
  <2>4. call' \in [Sessions -> Calls]
    BY <2>1, <2>2, DoneKeeps
  <2>5. \A x \in tables' : HasParents(x[1], x[2])'
    <3> SUFFICES ASSUME NEW x \in tables' PROVE HasParents(x[1], x[2])'
      OBVIOUS
    <3>1. HasParents(x[1], x[2])
      BY <2>1, <2>2 DEF TypeOK
    <3> QED BY <3>1, <2>2 DEF HasParents
  <2>6. tables' \subseteq Scenarios \X Sources /\ filled' \subseteq tables'
        /\ views' \in [Sessions -> [Names -> tables' \union {NoView}]]
    BY <2>1, <2>2 DEF TypeOK
  <2>7. TypeOK'
    BY <2>1, <2>2, <2>3, <2>4, <2>5, <2>6 DEF TypeOK
  <2> QED BY <2>2, <2>7, DoneElsewhere DEF IInv
<1> QED BY <1>1, <1>2

LEMMA FillsTableIInv ==
  ASSUME IInv, NEW s \in Sessions, NEW t \in Sources, FillsTable(s, t) PROVE IInv'
<1>1. CASE Fails(s)
  BY <1>1, EndsIInv DEF Fails
<1>2. CASE ~Fails(s)
  <2>1. /\ pc[s] = "fill"
        /\ \/ /\ Done(s, t) /\ <<call[s].sc, t>> \in tables
              /\ filled' = filled \union {<<call[s].sc, t>>}
           \/ DoneBare(s, t) /\ UNCHANGED filled
        /\ UNCHANGED <<stamp, scenarios, history, tables, views, pc, touched, calls>>
    BY <1>2 DEF FillsTable, gendb, data
  <2>2. call' \in [Sessions -> Calls]
    BY <2>1, DoneKeeps DEF IInv
  <2>3. TypeOK'
    BY <2>1, <2>2 DEF IInv, TypeOK, HasParents
  <2> QED BY <2>1, <2>3, DoneElsewhere DEF IInv
<1> QED BY <1>1, <1>2

LEMMA ShowsTableIInv ==
  ASSUME IInv, NEW s \in Sessions, NEW t \in Sources, ShowsTable(s, t) PROVE IInv'
<1> DEFINE table == <<call[s].sc, t>>
<1>1. CASE Fails(s)
  BY <1>1, EndsIInv DEF Fails
<1>2. CASE ~Fails(s)
  <2>1. /\ pc[s] = "show" /\ Done(s, t) /\ table \in tables
        /\ views' = [views EXCEPT ![s][NameOf[t]] = table]
        /\ UNCHANGED <<stamp, scenarios, history, tables, filled, pc, touched, calls>>
    BY <1>2 DEF ShowsTable, gendb, data
  <2>2. TypeOK /\ call' \in [Sessions -> Calls]
    BY <2>1, DoneKeeps DEF IInv
  <2>3. NameOf[t] \in Names
    BY DEF Names
  <2>4. views' \in [Sessions -> [Names -> tables \union {NoView}]]
    BY <2>1, <2>2 DEF TypeOK
  <2>5. TypeOK'
    BY <2>1, <2>2, <2>4 DEF TypeOK, HasParents
  <2>6. \A r \in Sessions, n \in Names :
          views'[r][n] = IF r = s /\ n = NameOf[t] THEN table ELSE views[r][n]
    BY <2>1, <2>2 DEF TypeOK
  <2>7. ViewsInv'
    <3> SUFFICES ASSUME NEW r \in Sessions, NEW n \in Names, NEW sc \in Scenarios,
                        NEW u \in Sources, views'[r][n] = <<sc, u>>
                 PROVE  NameOf[u] = n
      BY DEF ViewsInv
    <3>1. CASE r = s /\ n = NameOf[t]
      BY <3>1, <2>6
    <3>2. CASE ~(r = s /\ n = NameOf[t])
      <4>1. views[r][n] = <<sc, u>>
        BY <3>2, <2>6
      <4> QED BY <4>1 DEF IInv, ViewsInv
    <3> QED BY <3>1, <3>2
  <2>8. \A r \in Sessions : pc'[r] = "hide" =>
          pc[r] = "hide" /\ call'[r] = call[r] /\ views'[r] = views[r]
    BY <2>1, <2>2, DoneKeeps DEF TypeOK
  <2>9. HideInv'
    BY <2>8 DEF IInv, HideInv
  <2>10. PlaceInv'
    BY <2>1, <2>2, DoneKeeps DEF IInv, PlaceInv
  <2> QED BY <2>5, <2>7, <2>9, <2>10 DEF IInv
<1> QED BY <1>1, <1>2

LEMMA HidesTableIInv ==
  ASSUME IInv, NEW s \in Sessions, NEW t \in Sources, HidesTable(s, t) PROVE IInv'
<1>1. /\ pc[s] = "hide" /\ Done(s, t)
      /\ views' = [views EXCEPT ![s][NameOf[t]] = NoView]
      /\ UNCHANGED <<stamp, scenarios, history, tables, filled, pc, touched, calls>>
  BY DEF HidesTable, gendb, data
<1>2. TypeOK /\ call' \in [Sessions -> Calls]
  BY <1>1, DoneKeeps DEF IInv
<1>3. views' \in [Sessions -> [Names -> tables \union {NoView}]]
  BY <1>1, <1>2 DEF TypeOK
<1>4. TypeOK'
  BY <1>1, <1>2, <1>3 DEF TypeOK, HasParents
<1>5. \A r \in Sessions, n \in Names :
        views'[r][n] = IF r = s /\ n = NameOf[t] THEN NoView ELSE views[r][n]
  BY <1>1, <1>2 DEF TypeOK, Names
<1>6. ViewsInv'
  <2> SUFFICES ASSUME NEW r \in Sessions, NEW n \in Names, NEW sc \in Scenarios,
                      NEW u \in Sources, views'[r][n] = <<sc, u>>
               PROVE  NameOf[u] = n
    BY DEF ViewsInv
  <2>1. <<sc, u>> # NoView
    BY DEF NoView
  <2>2. views[r][n] = <<sc, u>>
    BY <2>1, <1>5
  <2> QED BY <2>2 DEF IInv, ViewsInv
<1>7. HideInv'
  <2> SUFFICES ASSUME NEW r \in Sessions, pc'[r] = "hide", NEW n \in Names,
                      NEW u \in Sources, views'[r][n] # NoView,
                      \/ u \in call'[r].asked /\ views'[r][n] = <<call'[r].sc, u>>
                      \/ u \in call'[r].list /\ NameOf[u] = n
               PROVE  \E v \in call'[r].todo : NameOf[v] = n
    BY DEF HideInv
  <2>2. views'[r][n] = views[r][n] /\ ~(r = s /\ n = NameOf[t])
    BY <1>5
  <2>3. CASE r = s
    <3>1. /\ call'[s].sc = call[s].sc /\ call'[s].asked = call[s].asked
          /\ call'[s].list = call[s].list /\ call'[s].todo = call[s].todo \ {t}
      BY <1>1, <1>2, DoneKeeps
    <3>2. PICK v \in call[s].todo : NameOf[v] = n
      BY <1>1, <2>2, <2>3, <3>1 DEF IInv, HideInv
    <3>3. v # t
      BY <2>2, <2>3, <3>2
    <3> QED BY <2>3, <3>1, <3>2, <3>3
  <2>4. CASE r # s
    <3>1. call'[r] = call[r] /\ pc[r] = "hide"
      BY <1>1, <1>2, <2>4, DoneKeeps
    <3> QED BY <2>2, <3>1 DEF IInv, HideInv
  <2> QED BY <2>3, <2>4
<1>8. PlaceInv'
  BY <1>1, <1>2, DoneKeeps DEF IInv, PlaceInv
<1> QED BY <1>4, <1>6, <1>7, <1>8 DEF IInv

LEMMA DropsTableIInv ==
  ASSUME IInv, NEW s \in Sessions, NEW t \in Sources, DropsTable(s, t) PROVE IInv'
<1> DEFINE sc == call[s].sc
           table == <<sc, t>>
<1>1. /\ pc[s] = "drop" /\ Done(s, t) /\ Touches(s, table)
      /\ ~Shown(table) /\ ~Referenced(sc, t)
      /\ tables' = tables \ {table} /\ filled' = filled \ {table}
      /\ UNCHANGED <<stamp, scenarios, history, views, pc, calls>>
  BY DEF DropsTable, gendb
<1>2. TypeOK /\ table \in Scenarios \X Sources
  BY DEF IInv, TypeOK, Calls
<1>3. call' \in [Sessions -> Calls]
      /\ touched' \in [Sessions -> SUBSET (Scenarios \X Sources)]
  BY <1>1, <1>2, DoneKeeps, TouchesTyped
<1>4. views' \in [Sessions -> [Names -> tables' \union {NoView}]]
  <2>1. \A r \in Sessions, n \in Names : views[r][n] \in tables \union {NoView}
                                         /\ views[r][n] # table
    BY <1>1, <1>2 DEF TypeOK, Shown
  <2>2. views \in [Sessions -> [Names -> tables \union {NoView}]]
    BY <1>2 DEF TypeOK
  <2> QED BY <1>1, <2>1, <2>2
<1>5. \A x \in tables' : HasParents(x[1], x[2])'
  <2> SUFFICES ASSUME NEW x \in tables', NEW p \in Parents[x[2]] \ {x[2]}
               PROVE  <<x[1], p>> \in tables'
    BY DEF HasParents
  <2>1. x \in tables /\ x # table /\ x \in Scenarios \X Sources
    BY <1>1, <1>2 DEF TypeOK
  <2>2. <<x[1], p>> \in tables
    BY <2>1, <1>2 DEF TypeOK, HasParents
  <2>3. ASSUME <<x[1], p>> = table PROVE FALSE
    <3>1. x[1] = sc /\ p = t /\ x = <<sc, x[2]>> /\ x[2] \in Sources
      BY <2>1, <2>3
    <3>2. x[2] \in Sources \ {t} /\ <<sc, x[2]>> \in tables /\ t \in Parents[x[2]]
      BY <3>1, <2>1
    <3> QED BY <1>1, <3>2 DEF Referenced
  <2> QED BY <1>1, <2>2, <2>3
<1>6. TypeOK'
  BY <1>1, <1>2, <1>3, <1>4, <1>5 DEF TypeOK
<1> QED BY <1>1, <1>6, DoneElsewhere DEF IInv

--------------------------------------------------------------------------------
(* The invariant, step by step *)

\* The start and the end of a session, and an installation.
LEMMA SessionIInv ==
  ASSUME IInv, NEW s \in Sessions,
         Connects(s) \/ Closes(s) \/ Checks(s) \/ Installs(s) \/ InstallFails(s)
  PROVE  IInv'
<1>1. CASE Connects(s) \/ Checks(s) \/ Installs(s) \/ InstallFails(s)
  <2>1. Version[s] \in Nat /\ {Default} \subseteq Scenarios
    BY CatalogAssumption
  <2>2. PICK p \in Places \ {"hide"} : Goes(s, p)
    BY <1>1 DEF Connects, Checks, Installs, Installation, InstallFails, Places
  <2>3. call[s].op # "actual"
    BY <1>1 DEF IInv, PlaceInv, Connects, Checks, Installs, Installation, InstallFails
  <2>4. UNCHANGED <<tables, filled, views, call, touched, calls>>
        /\ stamp' \in Nat /\ scenarios' \subseteq Scenarios /\ history' \in Nat
    BY <1>1, <2>1 DEF IInv, TypeOK, Connects, Checks, Installs, Installation, InstallFails,
                      gendb, data
  <2> QED BY <2>2, <2>3, <2>4, OtherPlace
<1>2. CASE Closes(s)
  <2>1. views' \in [Sessions -> [Names -> tables \union {NoView}]]
    BY <1>2 DEF IInv, TypeOK, Closes, NoViews
  <2>2. history' \in Nat
    BY <1>2 DEF IInv, TypeOK, Closes, gendb
  <2> QED BY <1>2, <2>1, <2>2, CallOver DEF Closes, gendb, data
<1> QED BY <1>1, <1>2

LEMMA RequestsIInv == ASSUME IInv, NEW s \in Sessions, Requests(s) PROVE IInv'
<1>1. PICK sc \in Scenarios :
        \/ CreatesScenario(s, sc)
        \/ \E chosen \in (SUBSET Sources) \ {{}} :
             \/ StartsGenerate(s, sc, chosen) \/ StartsGenerated(s, sc, chosen)
             \/ StartsActual(s, sc, chosen) \/ StartsDrop(s, sc, chosen)
  BY DEF Requests
<1>2. CASE CreatesScenario(s, sc)
  <2>1. TypeOK'
    BY <1>2, CatalogAssumption DEF IInv, TypeOK, CreatesScenario, CanCall, data, HasParents
  <2>2. ViewsInv' /\ HideInv' /\ PlaceInv'
    BY <1>2 DEF IInv, ViewsInv, HideInv, PlaceInv, CreatesScenario
  <2> QED BY <2>1, <2>2 DEF IInv
<1>3. ASSUME NEW chosen \in SUBSET Sources, StartsGenerate(s, sc, chosen) PROVE IInv'
  BY <1>3, BeginsIInv DEF StartsGenerate
<1>4. ASSUME NEW chosen \in SUBSET Sources,
             StartsGenerated(s, sc, chosen) \/ StartsDrop(s, sc, chosen)
      PROVE  IInv'
  <2>1. Listed(sc, chosen) \in SUBSET Sources
    BY DEF Listed
  <2> QED BY <1>4, <2>1, BeginsIInv DEF StartsGenerated, StartsDrop, Starts
<1> QED BY <1>1, <1>2, <1>3, <1>4, StartsActualIInv

LEMMA RunsIInv == ASSUME IInv, NEW s \in Sessions, Runs(s) PROVE IInv'
<1>1. CASE StartsFilling(s)
  <2> DEFINE c == [call[s] EXCEPT !.todo = call[s].list]
  <2>1. call[s] \in Calls
    BY DEF IInv, TypeOK
  <2>2. c \in Calls /\ c.op = call[s].op
    BY <2>1 DEF Calls
  <2>3. /\ pc[s] = "create" /\ pc' = [pc EXCEPT ![s] = "fill"] /\ call' = [call EXCEPT ![s] = c]
        /\ UNCHANGED <<stamp, scenarios, history, tables, filled, views, touched, calls>>
    BY <1>1 DEF StartsFilling, Goes, gendb, data
  <2> HIDE DEF c
  <2>4. TypeOK'
    BY <2>2, <2>3 DEF IInv, TypeOK, HasParents
  <2>5. \A r \in Sessions : pc'[r] = "hide" => pc[r] = "hide" /\ call'[r] = call[r]
    BY <2>3 DEF IInv, TypeOK
  <2>6. ViewsInv' /\ HideInv'
    BY <2>3, <2>5 DEF IInv, ViewsInv, HideInv
  <2>7. PlaceInv'
    BY <2>2, <2>3 DEF IInv, TypeOK, PlaceInv
  <2> QED BY <2>4, <2>6, <2>7 DEF IInv
<1>2. ASSUME NEW op \in {"generate", "generated", "actual", "drop"}, Finishes(s, op)
      PROVE  IInv'
  BY <1>2, EndsIInv DEF Finishes
<1>3. ASSUME NEW t \in Sources, DropFails(s, t) PROVE IInv'
  BY <1>3, EndsIInv DEF DropFails, Fails
<1> QED BY <1>1, <1>2, <1>3, SessionIInv, CreatesTableIInv, FillsTableIInv, ShowsTableIInv,
           HidesTableIInv, DropsTableIInv DEF Runs

THEOREM Invariance == Spec => []IInv
<1>1. Init => IInv
  <2> SUFFICES ASSUME Init PROVE IInv
    OBVIOUS
  <2>1. NoCall \in Calls /\ NoCall.op = "none"
    BY CatalogAssumption DEF NoCall, Calls
  <2>2. TypeOK
    BY <2>1, CatalogAssumption DEF Init, TypeOK, NoViews, NoView
  <2>3. ViewsInv
    <3> SUFFICES ASSUME NEW s \in Sessions, NEW n \in Names, NEW sc \in Scenarios,
                        NEW t \in Sources
                 PROVE  views[s][n] # <<sc, t>>
      BY DEF ViewsInv
    <3>1. views[s][n] = NoView /\ <<sc, t>> # NoView
      BY DEF Init, NoViews, NoView
    <3> QED BY <3>1
  <2>4. HideInv /\ PlaceInv
    BY <2>1 DEF Init, HideInv, PlaceInv
  <2> QED BY <2>2, <2>3, <2>4 DEF IInv
<1>2. IInv /\ [Next]_vars => IInv'
  <2> SUFFICES ASSUME IInv, [Next]_vars PROVE IInv'
    OBVIOUS
  <2>1. ASSUME NEW s \in Sessions, Connects(s) \/ Closes(s) \/ Runs(s) \/ Requests(s)
        PROVE  IInv'
    BY <2>1, SessionIInv, RunsIInv, RequestsIInv
  <2>2. CASE UNCHANGED vars
    BY <2>2 DEF vars, IInv, TypeOK, HasParents, ViewsInv, HideInv, PlaceInv
  <2> QED BY <2>1, <2>2 DEF Next
<1> QED BY <1>1, <1>2, PTL DEF Spec

\* The shared schema, the views and the running commands are of their types: no view
\* without its table, no synthetic table without those its foreign keys need.
THEOREM TypeCorrect == Spec => []TypeOK
<1>1. IInv => TypeOK
  BY DEF IInv
<1> QED BY <1>1, Invariance, PTL

\* return_actual that succeeds leaves no view at a name it listed a table for, and none on a
\* table it was asked for, whatever tables other sessions made or dropped while it ran
\* (handleReturnActual).
THEOREM ActualIsRestored == Spec => ActualRestored
<1> DEFINE P == \A s \in Sessions : Finishes(s, "actual") =>
                  \A n \in Names : views[s][n] # NoView =>
                    /\ \A t \in call[s].list : NameOf[t] # n
                    /\ \A t \in call[s].asked : views[s][n] # <<call[s].sc, t>>
<1>1. IInv => P
  <2> SUFFICES ASSUME IInv, NEW s \in Sessions, Finishes(s, "actual"),
                      NEW n \in Names, views[s][n] # NoView
               PROVE  /\ \A t \in call[s].list : NameOf[t] # n
                      /\ \A t \in call[s].asked : views[s][n] # <<call[s].sc, t>>
    OBVIOUS
  <2>1. pc[s] = "hide" /\ call[s].todo = {}
    BY DEF IInv, PlaceInv, Finishes
  <2>2. \A t \in Sources : /\ ~(t \in call[s].asked /\ views[s][n] = <<call[s].sc, t>>)
                           /\ ~(t \in call[s].list /\ NameOf[t] = n)
    BY <2>1 DEF IInv, HideInv
  <2>3. call[s].list \subseteq Sources /\ call[s].asked \subseteq Sources
    BY DEF IInv, TypeOK, Calls
  <2> QED BY <2>2, <2>3
<1> HIDE DEF P
<1>2. IInv /\ [Next]_vars => [P]_vars
  BY <1>1
<1> QED BY <1>2, Invariance, PTL DEF ActualRestored, Spec, P

--------------------------------------------------------------------------------
(* Settled stubs *)

\* Every step but an installation keeps scenarios and history and the stamp.
LEMMA StepsKeep ==
  ASSUME TypeOK, NEW s \in Sessions,
         Connects(s) \/ Closes(s) \/ Runs(s) \/ Requests(s), ~Installs(s)
  PROVE  stamp' = stamp /\ scenarios \subseteq scenarios' /\ history' >= history
<1>1. ASSUME Ends(s) PROVE stamp' = stamp /\ scenarios' = scenarios
                           /\ history' \in {history, history + 1}
  BY <1>1 DEF Ends
<1>2. ASSUME UNCHANGED gendb
      PROVE  stamp' = stamp /\ scenarios' = scenarios /\ history' = history
  BY <1>2 DEF gendb
<1>3. UNCHANGED gendb \/ Ends(s) \/ \E sc \in Scenarios : CreatesScenario(s, sc)
  BY DEF Connects, Closes, Runs, Requests, Checks, InstallFails, StartsFilling, CreatesTable,
         FillsTable, ShowsTable, HidesTable, DropFails, DropsTable, Finishes, Fails,
         StartsGenerate, StartsGenerated, StartsActual, StartsDrop, Starts
<1>4. ASSUME NEW sc \in Scenarios, CreatesScenario(s, sc)
      PROVE  stamp' = stamp /\ scenarios \subseteq scenarios' /\ history' = history
  BY <1>4 DEF CreatesScenario
<1> QED BY <1>1, <1>2, <1>3, <1>4 DEF TypeOK

\* Nothing but a check that finds another fingerprint sends a session to install.
LEMMA StepsGo ==
  ASSUME Settled, NEW s \in Sessions,
         Connects(s) \/ Closes(s) \/ Runs(s) \/ Requests(s)
  PROVE  UNCHANGED pc \/ \E p \in Places \ {"install"} : Goes(s, p)
<1> USE DEF Places
<1>1. CASE Connects(s) \/ Closes(s) \/ Checks(s) \/ Installs(s) \/ InstallFails(s)
  BY <1>1 DEF Settled, Connects, Closes, Checks, Installs, Installation, InstallFails
<1>2. CASE StartsFilling(s) \/ \E op \in {"generate", "generated", "actual", "drop"} :
                                 Finishes(s, op)
  BY <1>2 DEF StartsFilling, Finishes, Ends
<1>3. ASSUME NEW t \in Sources,
             CreatesTable(s, t) \/ FillsTable(s, t) \/ ShowsTable(s, t) \/ HidesTable(s, t)
               \/ DropFails(s, t) \/ DropsTable(s, t)
      PROVE  UNCHANGED pc \/ Goes(s, "ready")
  BY <1>3
  DEF CreatesTable, FillsTable, ShowsTable, HidesTable, DropFails, DropsTable, Fails, Ends
<1>4. CASE Requests(s)
  BY <1>4 DEF Requests, CreatesScenario, StartsGenerate, StartsGenerated, StartsActual,
              StartsDrop, Starts, Begins
<1> QED BY <1>1, <1>2, <1>3, <1>4 DEF Runs

\* Once the schema carries the fingerprint every proxy wants and no session is on its
\* way to install, it stays so, and no scenario and no history is lost (ensureGenDBSchema).
THEOREM StubsStaySettled == Spec => StubsSettle
<1> DEFINE P == Settled' /\ scenarios \subseteq scenarios' /\ history' >= history
<1>1. ASSUME TypeOK, Next, Settled PROVE P
  <2>1. PICK s \in Sessions : Connects(s) \/ Closes(s) \/ Runs(s) \/ Requests(s)
    BY <1>1 DEF Next
  <2>2. ~Installs(s)
    BY <1>1 DEF Settled, Installs, Installation
  <2>3. stamp' = stamp /\ scenarios \subseteq scenarios' /\ history' >= history
    BY <1>1, <2>1, <2>2, StepsKeep
  <2>4. UNCHANGED pc \/ \E p \in Places \ {"install"} : Goes(s, p)
    BY <1>1, <2>1, <2>2, StepsGo
  <2>5. \A r \in Sessions : pc'[r] # "install"
    BY <1>1, <2>4 DEF TypeOK, Settled, Goes
  <2> QED BY <1>1, <2>3, <2>5 DEF Settled
<1> HIDE DEF P
<1>2. TypeOK /\ [Next]_vars => [Settled => P]_vars
  BY <1>1
<1> QED BY <1>2, TypeCorrect, PTL DEF StubsSettle, Spec, P

--------------------------------------------------------------------------------
(* What a command reports when it succeeds *)

\* A running command is where its kind belongs, and with what has been taken off its list
\* it has done what it is for: made the table, then filled it or got nothing to fill it with,
\* unless another session has dropped it since; put a table of that name in front of the
\* source; dropped the table, unless another session has made it since.
Generates(s) ==
  call[s].op = "generate" =>
    /\ pc[s] \in {"create", "fill"}
    /\ \A t \in call[s].list :
         pc[s] = "fill" \/ t \notin call[s].todo =>
           <<call[s].sc, t>> \in tables \union touched[s]
    /\ pc[s] = "fill" =>
         \A t \in call[s].list \ call[s].todo :
           t \in call[s].bare \/ <<call[s].sc, t>> \in filled \union touched[s]
Shows(s) ==
  call[s].op = "generated" =>
    /\ pc[s] = "show" /\ call[s].todo \subseteq call[s].list
    /\ \A t \in call[s].list \ call[s].todo : \E u \in call[s].list :
         NameOf[u] = NameOf[t] /\ views[s][NameOf[t]] = <<call[s].sc, u>>
Drops(s) ==
  call[s].op = "drop" =>
    /\ pc[s] = "drop"
    /\ \A t \in call[s].asked \ call[s].todo : <<call[s].sc, t>> \notin tables \ touched[s]

CommandInv(s) == Generates(s) /\ Shows(s) /\ Drops(s)

\* What a session's command may rely on while others take steps: they change nothing that
\* is its own, and a table they make or drop is remembered for it.
Undisturbed(r) ==
  /\ call'[r] = call[r] /\ pc'[r] = pc[r] /\ views'[r] = views[r]
  /\ call[r].op # "none" => /\ touched[r] \subseteq touched'[r]
                            /\ tables' \ tables \subseteq touched'[r]
                            /\ tables \ tables' \subseteq touched'[r]
                            /\ filled \ filled' \subseteq touched'[r]

\* An undisturbed command keeps what it has achieved.
LEMMA UndisturbedKeeps ==
  ASSUME NEW r \in Sessions, CommandInv(r), Undisturbed(r) PROVE CommandInv(r)'
<1>1. CASE call[r].op = "generate"
  BY <1>1 DEF CommandInv, Undisturbed, Generates, Shows, Drops
<1>2. CASE call[r].op = "generated"
  BY <1>2 DEF CommandInv, Undisturbed, Generates, Shows, Drops
<1>3. CASE call[r].op = "drop"
  BY <1>3 DEF CommandInv, Undisturbed, Generates, Shows, Drops
<1> QED BY <1>1, <1>2, <1>3 DEF CommandInv, Undisturbed, Generates, Shows, Drops

\* A session without a command has nothing to show for.
LEMMA IdleCommand ==
  ASSUME TypeOK, NEW s \in Sessions, call' = [call EXCEPT ![s] = NoCall]
  PROVE  CommandInv(s)'
<1>1. call'[s].op = "none"
  BY DEF TypeOK, NoCall
<1> QED BY <1>1 DEF CommandInv, Generates, Shows, Drops

\* A session's step does not disturb the others.
LEMMA OthersUndisturbed ==
  ASSUME TypeOK, NEW s \in Sessions, Connects(s) \/ Closes(s) \/ Runs(s) \/ Requests(s),
         NEW r \in Sessions \ {s}
  PROVE  Undisturbed(r)
<1> USE DEF TypeOK, Undisturbed, Goes, gendb, data
<1>1. ASSUME Ends(s), UNCHANGED data PROVE Undisturbed(r)
  BY <1>1 DEF Ends
<1>2. CASE Connects(s) \/ Closes(s) \/ Checks(s) \/ Installs(s) \/ InstallFails(s)
             \/ StartsFilling(s)
  BY <1>2 DEF Connects, Closes, Checks, Installs, Installation, InstallFails, StartsFilling
<1>3. ASSUME NEW t \in Sources, CreatesTable(s, t), ~Fails(s) PROVE Undisturbed(r)
  <2>1. Done(s, t) /\ UNCHANGED <<pc, views, filled>>
        /\ \/ tables' = tables /\ touched' = touched
           \/ tables' = tables \union {<<call[s].sc, t>>} /\ Touches(s, <<call[s].sc, t>>)
    BY <1>3 DEF CreatesTable
  <2>2. call'[r] = call[r]
    BY <2>1, DoneKeeps
  <2> QED BY <2>1, <2>2 DEF Touches
<1>4. ASSUME NEW t \in Sources, DropsTable(s, t) PROVE Undisturbed(r)
  <2>1. Done(s, t) /\ UNCHANGED <<pc, views>> /\ Touches(s, <<call[s].sc, t>>)
        /\ tables' = tables \ {<<call[s].sc, t>>} /\ filled' = filled \ {<<call[s].sc, t>>}
    BY <1>4 DEF DropsTable
  <2>2. call'[r] = call[r]
    BY <2>1, DoneKeeps
  <2> QED BY <2>1, <2>2 DEF Touches
<1>5. ASSUME NEW t \in Sources, FillsTable(s, t) \/ ShowsTable(s, t), ~Fails(s)
      PROVE  Undisturbed(r)
  BY <1>5, DoneKeeps DEF FillsTable, ShowsTable
<1>6. ASSUME NEW t \in Sources, HidesTable(s, t) PROVE Undisturbed(r)
  BY <1>6, DoneKeeps DEF HidesTable
<1>7. ASSUME Fails(s) \/ \E t \in Sources : DropFails(s, t) PROVE Undisturbed(r)
  BY <1>1, <1>7 DEF Fails, DropFails
<1>8. ASSUME NEW op \in {"generate", "generated", "actual", "drop"}, Finishes(s, op)
      PROVE  Undisturbed(r)
  BY <1>1, <1>8 DEF Finishes
<1>9. CASE Requests(s)
  BY <1>9 DEF Requests, CreatesScenario, StartsGenerate, StartsGenerated, StartsActual,
              StartsDrop, Starts, Begins
<1> QED BY <1>2, <1>3, <1>4, <1>5, <1>6, <1>7, <1>8, <1>9 DEF Runs

\* A session's own step keeps its command's account of what is done.
LEMMA OwnCommand ==
  ASSUME TypeOK, NEW s \in Sessions, CommandInv(s),
         Connects(s) \/ Closes(s) \/ Runs(s) \/ Requests(s)
  PROVE  CommandInv(s)'
<1> USE DEF CommandInv, Generates, Shows, Drops
<1>1. ASSUME Ends(s) PROVE CommandInv(s)'
  BY <1>1, IdleCommand DEF Ends
<1>2. CASE Closes(s)
  BY <1>2, IdleCommand DEF Closes
<1>3. CASE Connects(s) \/ Checks(s) \/ Installs(s) \/ InstallFails(s)
  <2>1. pc[s] \in {"off", "check", "install"} /\ call' = call
    BY <1>3 DEF Connects, Checks, Installs, Installation, InstallFails
  <2> QED BY <2>1
<1>4. CASE StartsFilling(s)
  <2>1. /\ pc[s] = "create" /\ pc'[s] = "fill" /\ call'[s].op = call[s].op
        /\ call'[s].sc = call[s].sc /\ call[s].todo = {}
        /\ call'[s].list = call[s].list /\ call'[s].todo = call[s].list
        /\ UNCHANGED <<tables, touched>>
    BY <1>4 DEF StartsFilling, Goes, TypeOK, Calls, data
  <2> QED BY <2>1
<1>5. ASSUME NEW t \in Sources, CreatesTable(s, t), ~Fails(s) PROVE CommandInv(s)'
  <2>1. /\ Done(s, t) /\ pc[s] = "create" /\ pc'[s] = "create"
        /\ tables' = tables \union {<<call[s].sc, t>>} /\ touched'[s] = touched[s]
    BY <1>5 DEF CreatesTable, Touches, TypeOK
  <2> QED BY <2>1, DoneKeeps
<1>6. ASSUME NEW t \in Sources, FillsTable(s, t), ~Fails(s) PROVE CommandInv(s)'
  <2>1. /\ pc[s] = "fill" /\ pc'[s] = "fill" /\ UNCHANGED <<tables, touched>>
        /\ \/ Done(s, t) /\ filled' = filled \union {<<call[s].sc, t>>}
           \/ DoneBare(s, t) /\ filled' = filled
    BY <1>6 DEF FillsTable, data
  <2>2. /\ call'[s].op = call[s].op /\ call'[s].sc = call[s].sc
        /\ call'[s].list = call[s].list /\ call'[s].todo = call[s].todo \ {t}
        /\ call[s].bare \subseteq call'[s].bare /\ (DoneBare(s, t) => t \in call'[s].bare)
    BY <2>1, DoneKeeps
  <2> QED BY <2>1, <2>2
<1>7. ASSUME NEW t \in Sources, ShowsTable(s, t), ~Fails(s) PROVE CommandInv(s)'
  <2> DEFINE table == <<call[s].sc, t>>
  <2>1. /\ Done(s, t) /\ pc[s] = "show" /\ pc'[s] = "show"
        /\ t \in call[s].todo
        /\ views' = [views EXCEPT ![s][NameOf[t]] = table]
    BY <1>7 DEF ShowsTable
  <2>2. \A n \in Names : views'[s][n] = IF n = NameOf[t] THEN table ELSE views[s][n]
    BY <2>1 DEF TypeOK
  <2>3. /\ call'[s].op = call[s].op /\ call'[s].sc = call[s].sc
        /\ call'[s].list = call[s].list /\ call'[s].todo = call[s].todo \ {t}
    BY <2>1, DoneKeeps
  <2>4. ASSUME call[s].op = "generated", NEW v \in call[s].list \ call'[s].todo
        PROVE  \E u \in call[s].list :
                 NameOf[u] = NameOf[v] /\ views'[s][NameOf[v]] = <<call[s].sc, u>>
    <3>1. NameOf[v] \in Names
      BY <2>4 DEF Names, TypeOK, Calls
    <3>2. CASE NameOf[v] = NameOf[t]
      <4>1. t \in call[s].list
        BY <2>1, <2>4
      <4> QED BY <2>2, <3>1, <3>2, <4>1
    <3>3. CASE NameOf[v] # NameOf[t]
      BY <2>2, <2>3, <2>4, <3>1, <3>3
    <3> QED BY <3>2, <3>3
  <2> QED BY <2>1, <2>3, <2>4
<1>8. ASSUME NEW t \in Sources, HidesTable(s, t) PROVE CommandInv(s)'
  <2>1. Done(s, t) /\ pc[s] = "hide"
    BY <1>8 DEF HidesTable
  <2> QED BY <2>1, DoneKeeps
<1>9. ASSUME NEW t \in Sources, DropsTable(s, t) PROVE CommandInv(s)'
  <2>1. /\ Done(s, t) /\ pc[s] = "drop" /\ pc'[s] = "drop"
        /\ tables' = tables \ {<<call[s].sc, t>>} /\ touched'[s] = touched[s]
    BY <1>9 DEF DropsTable, Touches, TypeOK
  <2> QED BY <2>1, DoneKeeps
<1>10. CASE \E op \in {"generate", "generated", "actual", "drop"} : Finishes(s, op)
  BY <1>1, <1>10 DEF Finishes
<1>11. ASSUME Fails(s) \/ \E t \in Sources : DropFails(s, t) PROVE CommandInv(s)'
  BY <1>1, <1>11 DEF Fails, DropFails
<1>12. CASE Requests(s)
  <2>1. ASSUME NEW p \in {"create", "show", "hide", "drop"},
               NEW op \in {"generate", "generated", "actual", "drop"}, NEW sc \in Scenarios,
               NEW asked \in SUBSET Sources, NEW list \in SUBSET Sources,
               Begins(s, p, op, sc, asked, list),
               op = "generate" => p = "create", op = "generated" => p = "show",
               op = "drop" => p = "drop" /\ list = Listed(sc, asked) /\ tables' = tables
        PROVE  CommandInv(s)'
    <3>1. /\ call'[s].op = op /\ call'[s].sc = sc /\ call'[s].asked = asked
          /\ call'[s].list = list /\ call'[s].todo = list /\ pc'[s] = p
      BY <2>1 DEF Begins, Goes, TypeOK
    <3> QED BY <2>1, <3>1 DEF Listed
  <2>2. ASSUME NEW sc \in Scenarios, CreatesScenario(s, sc) PROVE CommandInv(s)'
    BY <2>2 DEF CreatesScenario, data
  <2>3. ASSUME NEW sc \in Scenarios, NEW chosen \in SUBSET Sources
        PROVE  Listed(sc, chosen) \in SUBSET Sources
    BY DEF Listed
  <2> QED BY <1>12, <2>1, <2>2, <2>3 DEF Requests, StartsGenerate, StartsGenerated,
             StartsActual, StartsDrop, Starts, data
<1> QED BY <1>2, <1>3, <1>4, <1>5, <1>6, <1>7, <1>8, <1>9, <1>10, <1>11, <1>12 DEF Runs

\* All commands' accounts are right, always.
THEOREM CommandInvariance == Spec => [](\A s \in Sessions : CommandInv(s))
<1> DEFINE Inv == \A s \in Sessions : CommandInv(s)
<1>1. Init => Inv
  <2> SUFFICES ASSUME Init, NEW s \in Sessions PROVE CommandInv(s)
    OBVIOUS
  <2>1. call[s].op = "none"
    BY DEF Init, NoCall
  <2> QED BY <2>1 DEF CommandInv, Generates, Shows, Drops
<1>2. TypeOK /\ Inv /\ [Next]_vars => Inv'
  <2> SUFFICES ASSUME TypeOK, Inv, [Next]_vars, NEW r \in Sessions PROVE CommandInv(r)'
    OBVIOUS
  <2>1. CASE Next
    <3>1. PICK s \in Sessions : Connects(s) \/ Closes(s) \/ Runs(s) \/ Requests(s)
      BY <2>1 DEF Next
    <3>2. CASE r = s
      BY <3>1, <3>2, OwnCommand
    <3>3. CASE r # s
      BY <3>1, <3>3, OthersUndisturbed, UndisturbedKeeps
    <3> QED BY <3>2, <3>3
  <2>2. CASE UNCHANGED vars
    <3>1. Undisturbed(r)
      BY <2>2 DEF vars, Undisturbed
    <3> QED BY <3>1, UndisturbedKeeps
  <2> QED BY <2>1, <2>2
<1> HIDE DEF Inv
<1>3. Spec => []Inv
  BY <1>1, <1>2, TypeCorrect, PTL DEF Spec
<1> QED BY <1>3 DEF Inv

\* generate_data that succeeds leaves every table it listed, with rows if an answer had any,
\* unless another session has dropped it during the call (handleGenerate).
THEOREM GeneratedDataLasts == Spec => DataGenerated
<1> DEFINE Inv == \A s \in Sessions : CommandInv(s)
           P == \A s \in Sessions : Finishes(s, "generate") =>
                  \A t \in call[s].list :
                    /\ <<call[s].sc, t>> \in tables \union touched[s]
                    /\ t \in call[s].bare \/ <<call[s].sc, t>> \in filled \union touched[s]
<1>1. Inv => P
  BY DEF CommandInv, Generates, Finishes
<1>2. Spec => []Inv
  BY CommandInvariance
<1> HIDE DEF P, Inv
<1>3. Inv /\ [Next]_vars => [P]_vars
  BY <1>1
<1> QED BY <1>2, <1>3, PTL DEF DataGenerated, Spec, P

\* return_generated that succeeds leaves a table of its scenario in front of every source
\* it found one for (handleReturnGenerated).
THEOREM GeneratedIsShown == Spec => GeneratedShown
<1> DEFINE Inv == \A s \in Sessions : CommandInv(s)
           P == \A s \in Sessions : Finishes(s, "generated") =>
                  \A t \in call[s].list : \E u \in call[s].list :
                    NameOf[u] = NameOf[t] /\ views[s][NameOf[t]] = <<call[s].sc, u>>
<1>1. Inv => P
  BY DEF CommandInv, Shows, Finishes
<1>2. Spec => []Inv
  BY CommandInvariance
<1> HIDE DEF P, Inv
<1>3. Inv /\ [Next]_vars => [P]_vars
  BY <1>1
<1> QED BY <1>2, <1>3, PTL DEF GeneratedShown, Spec, P

\* drop_scenario that succeeds leaves none of the tables it was asked for, unless another
\* session has made it during the call (handleDropScenario).
THEOREM DroppedScenarioIsGone == Spec => ScenarioDropped
<1> DEFINE Inv == \A s \in Sessions : CommandInv(s)
           P == \A s \in Sessions : Finishes(s, "drop") =>
                  \A t \in call[s].asked : <<call[s].sc, t>> \notin tables \ touched[s]
<1>1. Inv => P
  BY DEF CommandInv, Drops, Finishes
<1>2. Spec => []Inv
  BY CommandInvariance
<1> HIDE DEF P, Inv
<1>3. Inv /\ [Next]_vars => [P]_vars
  BY <1>1
<1> QED BY <1>2, <1>3, PTL DEF ScenarioDropped, Spec, P
================================================================================
