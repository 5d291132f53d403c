--------------------------------- MODULE Catalog ---------------------------------
(***************************************************************************)
(* Sessions that share the schema gendb: its installation when they start  *)
(* (pkg/proxy/stubs.go, pkg/lang/stubs.go) and the commands over scenarios *)
(* and synthetic tables (cmd/gendb/serve.go, pkg/synthetic).  No command   *)
(* uses a transaction: each works through a list it has read at its start  *)
(* and stops at the first statement that fails.                            *)
(*                                                                         *)
(* Abstractions.  A source stands for a table in its schema.  Prompts, the *)
(* rows of a table and the texts of gendb.history are left out; the        *)
(* include, exclude and schema arguments are the set of sources that pass  *)
(* them.  Clients do not put a command inside a transaction of their own.  *)
(***************************************************************************)
EXTENDS Naturals

CONSTANTS Sessions,    \* connections, used again after they are closed
          Scenarios,   \* names of scenarios
          Default,     \* the one that is always there
          Sources,     \* real tables
          NameOf,      \* their names without the schema
          Parents,     \* the tables their foreign keys refer to, in the same schema
          Version,     \* the fingerprint of the stubs a session's proxy installs
          MaxCalls,    \* bound on the number of commands
          MayFail,     \* whether an LLM, a COPY or the installation may fail
          Closing      \* the sessions that may be closed

ASSUME CatalogAssumption ==
  /\ Default \in Scenarios
  /\ Parents \in [Sources -> SUBSET Sources]   \* without cycles, or topoSort refuses
  /\ \A S \in (SUBSET Sources) \ {{}} : \E t \in S : Parents[t] \cap S \subseteq {t}
  /\ Version \in [Sessions -> Nat \ {0}]
  /\ MaxCalls \in Nat /\ MayFail \in BOOLEAN /\ Closing \subseteq Sessions

VARIABLES stamp,      \* fingerprint in the comment on the schema, 0 without one
          scenarios,  \* rows of gendb.scenario
          history,    \* number of rows of gendb.history
          tables,     \* synthetic tables, <<scenario, source>>
          filled,     \* those with rows
          views,      \* per session, the temporary view of a name
          pc,         \* per session, where its forwarder is
          call,       \* its command: operation, scenario, what it listed, what is left, and
                      \* (ghost) for which tables the LLM's answer held nothing to insert
          touched,    \* tables that other sessions made or dropped during its command
          calls       \* number of commands run

vars == <<stamp, scenarios, history, tables, filled, views, pc, call, touched, calls>>
gendb == <<stamp, scenarios, history>>
data == <<tables, filled>>

Names == {NameOf[t] : t \in Sources}
NoView == <<>>
NoViews == [n \in Names |-> NoView]
NoCall == [op |-> "none", sc |-> Default, asked |-> {}, list |-> {}, todo |-> {}, bare |-> {}]

\* Views and foreign keys that hold a table in place, with the source it is made from.
Shown(t) == \E s \in Sessions, n \in Names : views[s][n] = t
Referenced(sc, t) == \E c \in Sources \ {t} : <<sc, c>> \in tables /\ t \in Parents[c]
HasParents(sc, t) == \A p \in Parents[t] \ {t} : <<sc, p>> \in tables

Calls == [op : {"none", "generate", "generated", "actual", "drop"}, sc : Scenarios,
          asked : SUBSET Sources, list : SUBSET Sources, todo : SUBSET Sources,
          bare : SUBSET Sources]

TypeOK ==
  /\ stamp \in Nat /\ scenarios \subseteq Scenarios /\ history \in Nat
  /\ tables \subseteq Scenarios \X Sources /\ filled \subseteq tables
  /\ views \in [Sessions -> [Names -> tables \union {NoView}]]
  /\ \A t \in tables : HasParents(t[1], t[2])
  /\ pc \in [Sessions -> {"off", "check", "install", "ready", "create", "fill", "show",
                          "hide", "drop"}]
  /\ call \in [Sessions -> Calls]
  /\ touched \in [Sessions -> SUBSET (Scenarios \X Sources)]
  /\ calls \in 0 .. MaxCalls

Init == /\ stamp = 0 /\ scenarios = {} /\ history = 0 /\ tables = {} /\ filled = {}
        /\ views = [s \in Sessions |-> NoViews] /\ pc = [s \in Sessions |-> "off"]
        /\ call = [s \in Sessions |-> NoCall] /\ touched = [s \in Sessions |-> {}]
        /\ calls = 0

Goes(s, p) == pc' = [pc EXCEPT ![s] = p]

\* What others do to a table during a session's command is remembered for the properties.
Touches(s, t) == touched' = [r \in Sessions |->
                               IF r # s /\ call[r].op # "none" THEN touched[r] \union {t}
                               ELSE touched[r]]

--------------------------------------------------------------------------------
(* Start of a session: ensureGenDBSchema *)

Connects(s) == /\ pc[s] = "off" /\ Goes(s, "check")
               /\ UNCHANGED <<gendb, data, views, call, touched, calls>>

\* The connection closes, at any moment: its views go, its command stops where it is.
Closes(s) == /\ s \in Closing /\ pc[s] # "off" /\ Goes(s, "off")
             /\ views' = [views EXCEPT ![s] = NoViews]
             /\ call' = [call EXCEPT ![s] = NoCall] /\ touched' = [touched EXCEPT ![s] = {}]
             /\ UNCHANGED <<gendb, data, calls>>

\* The comment on the schema against the fingerprint of the SQL.  Mutant: it is not looked at.
ChecksNothing(s) == /\ pc[s] = "check" /\ Goes(s, "install")
                    /\ UNCHANGED <<gendb, data, views, call, touched, calls>>
Checks(s) == /\ pc[s] = "check" /\ Goes(s, IF stamp = Version[s] THEN "ready" ELSE "install")
             /\ UNCHANGED <<gendb, data, views, call, touched, calls>>

Installation(s, v) ==
  /\ pc[s] = "install" /\ Goes(s, "ready")
  /\ stamp' = v /\ scenarios' = {Default} /\ history' = 0
  /\ UNCHANGED <<data, views, call, touched, calls>>

\* Mutant: the fingerprint written is not the one compared.
InstallsOther(s) == Installation(s, Version[s] + 1)

\* BuildSetupSQL: one query, hence one transaction; both tables are dropped and created.
Installs(s) == Installation(s, Version[s])

\* An error in it is logged, and the session goes on.
InstallFails(s) == /\ MayFail /\ pc[s] = "install" /\ Goes(s, "ready")
                   /\ UNCHANGED <<gendb, data, views, call, touched, calls>>

--------------------------------------------------------------------------------
(* Commands *)

CanCall(s) == pc[s] = "ready" /\ calls < MaxCalls

Begins(s, place, op, sc, asked, list) ==
  /\ calls' = calls + 1 /\ Goes(s, place)
  /\ call' = [call EXCEPT ![s] = [op |-> op, sc |-> sc, asked |-> asked,
                                  list |-> list, todo |-> list, bare |-> {}]]
  /\ touched' = [touched EXCEPT ![s] = {}]

\* The command returns.  generate_data and drop_scenario insert into the history, if
\* there is one; a failure of that is only logged.
Ends(s) == /\ Goes(s, "ready") /\ call' = [call EXCEPT ![s] = NoCall]
           /\ touched' = [touched EXCEPT ![s] = {}]
           /\ history' = IF call[s].op \in {"generate", "drop"} /\ stamp # 0
                         THEN history + 1 ELSE history
           /\ UNCHANGED <<stamp, scenarios, views, calls>>
Fails(s) == Ends(s) /\ UNCHANGED data

\* The loop over the list has come to its end.
Finishes(s, op) == /\ call[s].op = op /\ call[s].todo = {} /\ pc[s] \notin {"create", "ready"}
                   /\ Ends(s) /\ UNCHANGED data

Done(s, t) == call' = [call EXCEPT ![s].todo = @ \ {t}]
DoneBare(s, t) == call' = [call EXCEPT ![s].todo = @ \ {t}, ![s].bare = @ \union {t}]

\* create_scenario, unless the name is there already or the table is not.
CreatesScenario(s, sc) ==
  /\ CanCall(s) /\ calls' = calls + 1
  /\ stamp # 0 /\ sc \notin scenarios /\ scenarios' = scenarios \union {sc}
  /\ UNCHANGED <<stamp, history, data, views, pc, call, touched>>

\* generate_data looks up the scenario and inspects the real tables, of which the sort
\* keeps one of a name.
StartsGenerate(s, sc, list) ==
  /\ CanCall(s) /\ sc \in scenarios
  /\ \A t, u \in list : NameOf[t] = NameOf[u] => t = u
  /\ Begins(s, "create", "generate", sc, list, list) /\ UNCHANGED <<gendb, data, views>>

\* Parents come first, here and when the tables are filled.
Due(s, t) == t \in call[s].todo /\ (Parents[t] \ {t}) \cap call[s].todo = {}

\* CREATE TABLE IF NOT EXISTS: foreign keys need the tables they refer to.
CreatesTable(s, t) ==
  LET sc == call[s].sc IN
  /\ pc[s] = "create" /\ Due(s, t)
  /\ IF <<sc, t>> \notin tables /\ ~HasParents(sc, t) THEN Fails(s)
     ELSE /\ tables' = tables \union {<<sc, t>>}
          /\ Done(s, t)
          /\ IF <<sc, t>> \in tables THEN UNCHANGED touched ELSE Touches(s, <<sc, t>>)
          /\ UNCHANGED <<gendb, filled, views, pc, calls>>

StartsFilling(s) ==
  /\ pc[s] = "create" /\ call[s].todo = {} /\ Goes(s, "fill")
  /\ call' = [call EXCEPT ![s].todo = call[s].list]
  /\ UNCHANGED <<gendb, data, views, touched, calls>>

\* Mutants: a failure is only logged, and the table taken for filled or not.
FillsTableBlindly(s, t) ==
  /\ pc[s] = "fill" /\ Due(s, t)
  /\ filled' = filled \union {<<call[s].sc, t>>} /\ Done(s, t)
  /\ UNCHANGED <<gendb, tables, views, pc, touched, calls>>
FailureIgnored(s, t) ==
  /\ pc[s] = "fill" /\ Due(s, t)
  /\ \/ UNCHANGED filled
     \/ <<call[s].sc, t>> \in tables /\ filled' = filled \union {<<call[s].sc, t>>}
  /\ Done(s, t) /\ UNCHANGED <<gendb, tables, views, pc, touched, calls>>

\* Generate for one table.  The LLM or the COPY may fail, or the table be gone.  An answer
\* without rows, or of unknown columns alone, inserts nothing and is a success, of a table
\* that is gone too: insertRows returns before the COPY.
FillsTable(s, t) ==
  /\ pc[s] = "fill" /\ Due(s, t)
  /\ \/ (MayFail \/ <<call[s].sc, t>> \notin tables) /\ Fails(s)
     \/ /\ <<call[s].sc, t>> \in tables
        /\ filled' = filled \union {<<call[s].sc, t>>} /\ Done(s, t)
        /\ UNCHANGED <<gendb, tables, views, pc, touched, calls>>
     \/ DoneBare(s, t) /\ UNCHANGED <<gendb, data, views, pc, touched, calls>>

Listed(sc, chosen) == {t \in chosen : <<sc, t>> \in tables}

\* discoverSyntheticTables, or the same query of drop_scenario.
Starts(s, place, op, sc, asked) ==
  /\ CanCall(s) /\ Begins(s, place, op, sc, asked, Listed(sc, asked))
  /\ UNCHANGED <<gendb, data, views>>
StartsGenerated(s, sc, chosen) == Starts(s, "show", "generated", sc, chosen)
StartsActual(s, sc, chosen) == Starts(s, "hide", "actual", sc, chosen)
StartsDrop(s, sc, chosen) == Starts(s, "drop", "drop", sc, chosen)

\* Mutant: a table that is gone is passed over.
ShowsTableIfThere(s, t) ==
  LET table == <<call[s].sc, t>> IN
  /\ pc[s] = "show" /\ t \in call[s].todo /\ Done(s, t)
  /\ views' = IF table \in tables THEN [views EXCEPT ![s][NameOf[t]] = table] ELSE views
  /\ UNCHANGED <<gendb, data, pc, touched, calls>>

\* CREATE OR REPLACE TEMP VIEW, named like the source.  A view of a table with other
\* columns is not replaced.
ShowsTable(s, t) ==
  LET table == <<call[s].sc, t>> IN
  /\ pc[s] = "show" /\ t \in call[s].todo
  /\ \/ (table \notin tables \/ views[s][NameOf[t]] \notin {NoView, table}) /\ Fails(s)
     \/ /\ table \in tables
        /\ views' = [views EXCEPT ![s][NameOf[t]] = table] /\ Done(s, t)
        /\ UNCHANGED <<gendb, data, pc, touched, calls>>

\* Mutant: there is no view of the name that is dropped.
HidesNothing(s, t) ==
  /\ pc[s] = "hide" /\ t \in call[s].todo /\ Done(s, t)
  /\ UNCHANGED <<gendb, data, views, pc, touched, calls>>

\* DROP VIEW IF EXISTS pg_temp.
HidesTable(s, t) ==
  /\ pc[s] = "hide" /\ t \in call[s].todo
  /\ views' = [views EXCEPT ![s][NameOf[t]] = NoView] /\ Done(s, t)
  /\ UNCHANGED <<gendb, data, pc, touched, calls>>

\* Mutant: a failure is only logged.
DropFailureIgnored(s, t) ==
  /\ pc[s] = "drop" /\ t \in call[s].todo
  /\ Shown(<<call[s].sc, t>>) \/ Referenced(call[s].sc, t)
  /\ Done(s, t) /\ UNCHANGED <<gendb, data, views, pc, touched, calls>>

\* DROP TABLE, without IF EXISTS and without CASCADE.
DropFails(s, t) ==
  /\ pc[s] = "drop" /\ t \in call[s].todo
  /\ \/ <<call[s].sc, t>> \notin tables
     \/ Shown(<<call[s].sc, t>>)
     \/ Referenced(call[s].sc, t)
  /\ Fails(s)

DropsTable(s, t) ==
  LET table == <<call[s].sc, t>> IN
  /\ pc[s] = "drop" /\ t \in call[s].todo
  /\ table \in tables /\ ~Shown(table) /\ ~Referenced(call[s].sc, t)
  /\ tables' = tables \ {table} /\ filled' = filled \ {table}
  /\ Done(s, t) /\ Touches(s, table)
  /\ UNCHANGED <<gendb, views, pc, calls>>

--------------------------------------------------------------------------------

\* What the forwarder does by itself once it has begun.
Runs(s) == \/ Checks(s) \/ Installs(s) \/ InstallFails(s) \/ StartsFilling(s)
           \/ \E t \in Sources : \/ CreatesTable(s, t) \/ FillsTable(s, t) \/ ShowsTable(s, t)
                                 \/ HidesTable(s, t) \/ DropFails(s, t) \/ DropsTable(s, t)
           \/ \E op \in {"generate", "generated", "actual", "drop"} : Finishes(s, op)

\* (A command that fails at once, or whose arguments let no table pass, changes nothing.)
Requests(s) == \E sc \in Scenarios :
                 \/ CreatesScenario(s, sc)
                 \/ \E chosen \in (SUBSET Sources) \ {{}} :
                      \/ StartsGenerate(s, sc, chosen) \/ StartsGenerated(s, sc, chosen)
                      \/ StartsActual(s, sc, chosen) \/ StartsDrop(s, sc, chosen)

Next == \E s \in Sessions : Connects(s) \/ Closes(s) \/ Runs(s) \/ Requests(s)

Spec == Init /\ [][Next]_vars /\ \A s \in Sessions : WF_vars(Runs(s))

--------------------------------------------------------------------------------
(* What must hold *)

\* The schema carries the fingerprint that all proxies want and nobody is about to install.
Settled == \A s \in Sessions : stamp = Version[s] /\ pc[s] # "install"

\* From then on no session that starts, and no command, takes away a scenario or history.
StubsSettle ==
  [][Settled => Settled' /\ scenarios \subseteq scenarios' /\ history' >= history]_vars

\* It comes to that, once an installation has succeeded, if all proxies are of one version.
StubsConverge == <>[](stamp # 0) => <>[]Settled

\* return_generated that reports success has put tables of its scenario in front of
\* all the real tables it found one for.
GeneratedShown ==
  [][\A s \in Sessions : Finishes(s, "generated") =>
       \A t \in call[s].list : \E u \in call[s].list :
         NameOf[u] = NameOf[t] /\ views[s][NameOf[t]] = <<call[s].sc, u>>]_vars

\* return_actual that reports success has taken the view from every name it listed a table
\* for, whatever scenario was shown there, and has left none on a table of its scenario that
\* passed its arguments, wherever tables were made or dropped meanwhile.  Views of another
\* scenario on other names stay, those of any scenario without arguments too: it looks for
\* tables of the default one (serve.go:511), though docs/guide/gendb-sql.md:63 restores all.
ActualRestored ==
  [][\A s \in Sessions : Finishes(s, "actual") =>
       \A n \in Names : views[s][n] # NoView =>
         /\ \A t \in call[s].list : NameOf[t] # n
         /\ \A t \in call[s].asked : views[s][n] # <<call[s].sc, t>>]_vars

\* generate_data that reports success has left all its tables, with rows where an answer had
\* any, but for those that others dropped during the call.
DataGenerated ==
  [][\A s \in Sessions : Finishes(s, "generate") =>
       \A t \in call[s].list :
         /\ <<call[s].sc, t>> \in tables \union touched[s]
         /\ t \in call[s].bare \/ <<call[s].sc, t>> \in filled \union touched[s]]_vars

\* drop_scenario that reports success has left no table of the scenario that passed its
\* arguments, but for those that others made during the call.
ScenarioDropped ==
  [][\A s \in Sessions : Finishes(s, "drop") =>
       \A t \in call[s].asked : <<call[s].sc, t>> \notin tables \ touched[s]]_vars
================================================================================
