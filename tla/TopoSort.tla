-------------------------------- MODULE TopoSort --------------------------------
(***************************************************************************)
(* topoSort (pkg/schema/toposort.go): Kahn's algorithm, by which           *)
(* generate_data decides in which order it creates and fills tables.       *)
(* It works on names alone, although the inspector lists tables by schema  *)
(* and name, and a foreign key knows the name of its table only.           *)
(*                                                                         *)
(* A listed table is its place in the list.  The graph is chosen at the    *)
(* start and never changes.  Abstraction: the order in which the           *)
(* dependents of one table are gone through is any.                        *)
(***************************************************************************)
EXTENDS Integers, FiniteSets, Sequences

CONSTANTS N,        \* number of tables listed
          Namings,  \* the ways they may be named, by place
          Keys,     \* foreign keys that may be there
          From, To, \* the table a key is of and the one it refers to, 0 if that is not listed
          Outside   \* name of a table that is not listed

Tables == 1 .. N

ASSUME TopoSortAssumption ==
  /\ N \in Nat /\ IsFiniteSet(Keys)
  /\ From \in [Keys -> Tables] /\ To \in [Keys -> Tables \union {0}]
  /\ \A f \in Namings : DOMAIN f = Tables /\ \A t \in Tables : f[t] # Outside

VARIABLES names,     \* name of each listed table
          keys,      \* the foreign keys there are
          inDegree,  \* per name, how many keys stand before it
          queue,     \* names whose turn has come
          sorted,    \* names put in order so far
          left,      \* dependents of the last of them still to go through
          place,     \* how far the queue is filled
          pc         \* "fill" or "sort", then how topoSort returns: "sorted" or "circular"

graph == <<names, keys>>
vars == <<graph, inDegree, queue, sorted, left, place, pc>>

Listed == {names[t] : t \in Tables}
Child(k) == names[From[k]]
Refers(k) == IF To[k] = 0 THEN Outside ELSE names[To[k]]

\* Mutants: self-references count, too; names are collected while the keys are gone through.
FollowedOrSelf(k) == k \in keys /\ Refers(k) \in Listed
FollowedIfSeen(k) == /\ k \in keys /\ Refers(k) # Child(k)
                     /\ \E t \in 1 .. From[k] : Refers(k) = names[t]

\* References of a table to itself and to tables that are not listed are skipped.
Followed(k) == k \in keys /\ Refers(k) # Child(k) /\ Refers(k) \in Listed

Before(n) == {k \in Keys : Followed(k) /\ Child(k) = n}
Dependents(n) == {k \in Keys : Followed(k) /\ Refers(k) = n}

TypeOK == /\ names \in Namings /\ keys \subseteq Keys
          /\ inDegree \in [Listed -> Int]
          /\ queue \in Seq(Listed) /\ sorted \in Seq(Listed)
          /\ left \subseteq {k \in Keys : Followed(k)}
          /\ place \in 1 .. N + 1
          /\ pc \in {"fill", "sort", "sorted", "circular"}

Init == /\ names \in Namings /\ keys \in SUBSET Keys
        /\ inDegree = [n \in Listed |-> Cardinality(Before(n))]
        /\ queue = <<>> /\ sorted = <<>> /\ left = {}
        /\ place = 1 /\ pc = "fill"

\* The queue starts with the tables that refer to none, one entry per listed table.
Fills == /\ pc = "fill" /\ place <= N
         /\ place' = place + 1
         /\ queue' = IF inDegree[names[place]] = 0 THEN Append(queue, names[place]) ELSE queue
         /\ UNCHANGED <<graph, inDegree, sorted, left, pc>>

StartsSorting == /\ pc = "fill" /\ place = N + 1
                 /\ pc' = "sort"
                 /\ UNCHANGED <<graph, inDegree, queue, sorted, left, place>>

Takes == /\ pc = "sort" /\ left = {} /\ queue # <<>>
         /\ sorted' = Append(sorted, Head(queue)) /\ queue' = Tail(queue)
         /\ left' = Dependents(Head(queue))
         /\ UNCHANGED <<graph, inDegree, place, pc>>

Releases(k) ==
  /\ pc = "sort" /\ k \in left
  /\ left' = left \ {k}
  /\ inDegree' = [inDegree EXCEPT ![Child(k)] = @ - 1]
  /\ queue' = IF inDegree[Child(k)] = 1 THEN Append(queue, Child(k)) ELSE queue
  /\ UNCHANGED <<graph, sorted, place, pc>>

\* Mutant: the sort goes on until every table has its place.
ReturnsWhenAll == /\ pc = "sort" /\ left = {} /\ Len(sorted) = N
                  /\ pc' = "sorted"
                  /\ UNCHANGED <<graph, inDegree, queue, sorted, left, place>>

Returns == /\ pc = "sort" /\ left = {} /\ queue = <<>>
           /\ pc' = IF Len(sorted) = N THEN "sorted" ELSE "circular"
           /\ UNCHANGED <<graph, inDegree, queue, sorted, left, place>>

Next == Fills \/ StartsSorting \/ Takes \/ (\E k \in Keys : Releases(k)) \/ Returns

Spec == Init /\ [][Next]_vars /\ WF_vars(Next)

--------------------------------------------------------------------------------
(* What must hold *)

DistinctNames == \A t, u \in Tables : names[t] = names[u] => t = u

\* Table t comes earlier in the order than table u.
Precedes(t, u) == \E i, j \in DOMAIN sorted : i < j /\ sorted[i] = names[t] /\ sorted[j] = names[u]

\* "sorts tables so that referenced tables come before referencing tables"
\* (toposort.go:5), and none is left out, if their names tell the tables apart.
ParentsFirst ==
  pc = "sorted" /\ DistinctNames =>
    /\ \A t \in Tables : \E i \in DOMAIN sorted : sorted[i] = names[t]
    /\ \A k \in keys : To[k] \notin {0, From[k]} => Precedes(To[k], From[k])

\* A set of tables each of which refers to another one of them: there is one if and only
\* if there is a cycle of more than one table.
Cyclic == \E S \in SUBSET Tables :
            /\ S # {}
            /\ \A t \in S : \E k \in keys : From[k] = t /\ To[k] \in S \ {t}

\* "circular foreign key dependencies detected among tables" (toposort.go:58) is said of
\* graphs with a cycle, and of no others, if their names tell the tables apart.
CyclesReported ==
  DistinctNames => (pc = "circular" => Cyclic) /\ (pc = "sorted" => ~Cyclic)

\* The sort returns, whatever the graph and the names: no name is queued for ever.
SortEnds == <>(pc \in {"sorted", "circular"})
================================================================================
