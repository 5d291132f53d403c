----------------------------- MODULE TopoSortProofs -----------------------------
(***************************************************************************)
(* Proofs about TopoSort: whatever the foreign keys, tables with names of  *)
(* their own are put in order, and a cycle is reported if and only if      *)
(* there is one.                                                           *)
(***************************************************************************)
EXTENDS TopoSort, FiniteSetTheorems, SequenceTheorems, TLAPS

Ready == Range(queue) \union Range(sorted)

\* Keys of a name whose table is not in order yet, or was the last and has them to go through.
Open(n) == {k \in Before(n) : Refers(k) \notin Range(sorted) \/ k \in left}

Once(s) == \A i, j \in 1 .. Len(s) : s[i] = s[j] => i = j

\* inDegree counts the open keys, and no name gets a turn before they are all gone.
DegreeInv == /\ \A n \in Listed : inDegree[n] = Cardinality(Open(n))
             /\ \A n \in Ready : Open(n) = {}
             /\ \A k \in left : Refers(k) \in Range(sorted)

\* Every name without open keys has its turn or has had it.
TurnInv == /\ \A t \in Tables : Open(names[t]) = {} /\ (pc = "fill" => t < place)
                                 => names[t] \in Ready
           /\ pc = "fill" => /\ sorted = <<>> /\ left = {}
                             /\ \A n \in Ready : \E t \in Tables : t < place /\ n = names[t]

\* No name has two turns.
OnceInv == Once(queue) /\ Once(sorted) /\ Range(queue) \intersect Range(sorted) = {}

EarlierInv == \A k \in Keys : Followed(k) =>
                \A j \in 1 .. Len(sorted) : sorted[j] = Child(k) =>
                  \E i \in 1 .. Len(sorted) : i < j /\ sorted[i] = Refers(k)

EndInv == /\ pc \in {"sorted", "circular"} => queue = <<>> /\ left = {}
          /\ pc = "sorted" => Len(sorted) = N
          /\ pc = "circular" => Len(sorted) # N

Knot(S) == /\ S # {} /\ S \subseteq Tables
           /\ \A t \in S : \E k \in keys : From[k] = t /\ To[k] \in S \ {t}

\* No table of a knot is put in order.
KnotInv == \A S : Knot(S) => \A t \in S : names[t] \notin Range(sorted)

OrderInv == /\ DegreeInv /\ TurnInv /\ OnceInv
            /\ EarlierInv /\ EndInv /\ KnotInv

IInv == TypeOK /\ (DistinctNames => OrderInv)
USE TopoSortAssumption DEF Tables

--------------------------------------------------------------------------------
(* Sequences without repetitions *)

\* What Append does to the elements of a sequence.
LEMMA AppendRange ==
  ASSUME NEW S, NEW s \in Seq(S), NEW e \in S
  PROVE  /\ Range(Append(s, e)) = Range(s) \union {e}
         /\ Once(s) /\ e \notin Range(s) => Once(Append(s, e))
<1>1. Append(s, e) \in Seq(S) /\ Len(s) \in Nat /\ DOMAIN s = 1 .. Len(s)
  BY AppendProperties, LenProperties
<1>2. Range(s) = {s[i] : i \in 1 .. Len(s)}
  BY <1>1 DEF Range
<1>3. Range(Append(s, e)) = {Append(s, e)[i] : i \in 1 .. Len(s) + 1}
  <2>1. DOMAIN Append(s, e) = 1 .. Len(s) + 1
    BY <1>1, AppendProperties, LenProperties
  <2> QED BY <2>1 DEF Range
<1>4. /\ Append(s, e)[Len(s) + 1] = e /\ Len(Append(s, e)) = Len(s) + 1
      /\ \A i \in 1 .. Len(s) : Append(s, e)[i] = s[i]
  BY AppendProperties
<1>5. 1 .. Len(s) + 1 = (1 .. Len(s)) \union {Len(s) + 1}
  BY <1>1
<1>6. Range(Append(s, e)) = Range(s) \union {e}
  BY <1>1, <1>2, <1>3, <1>4, <1>5
<1>7. Once(s) /\ e \notin Range(s) => Once(Append(s, e))
  BY <1>1, <1>2, <1>4, <1>5 DEF Once
<1> QED BY <1>6, <1>7

\* What taking the head away does to them.
LEMMA TailRange ==
  ASSUME NEW S, NEW s \in Seq(S), s # <<>>
  PROVE  /\ Range(s) = Range(Tail(s)) \union {Head(s)} /\ Head(s) \in Range(s)
         /\ Once(s) => Once(Tail(s)) /\ Head(s) \notin Range(Tail(s))
<1>1. /\ Tail(s) \in Seq(S) /\ Len(s) \in Nat /\ Len(Tail(s)) = Len(s) - 1 /\ Len(s) > 0
      /\ \A i \in 1 .. Len(Tail(s)) : Tail(s)[i] = s[i + 1]
  BY HeadTailProperties, LenProperties, EmptySeq
<1>2. Head(s) = s[1]
  OBVIOUS
<1>3. /\ Range(s) = {s[i] : i \in 1 .. Len(s)}
      /\ Range(Tail(s)) = {Tail(s)[i] : i \in 1 .. Len(s) - 1}
  <2>1. DOMAIN s = 1 .. Len(s) /\ DOMAIN Tail(s) = 1 .. Len(s) - 1
    BY <1>1, LenProperties
  <2> QED BY <2>1 DEF Range
<1>4. ASSUME NEW x \in Range(s) PROVE x \in Range(Tail(s)) \union {s[1]}
  <2>1. PICK i \in 1 .. Len(s) : x = s[i]
    BY <1>3, <1>4
  <2>2. CASE i = 1
    BY <2>1, <2>2
  <2>3. CASE i > 1
    <3>1. i - 1 \in 1 .. Len(s) - 1 /\ Tail(s)[i - 1] = s[i - 1 + 1] /\ i - 1 + 1 = i
      BY <1>1, <2>3
    <3>2. Tail(s)[i - 1] = x
      BY <2>1, <3>1
    <3>3. x \in Range(Tail(s))
      BY <1>3, <3>1, <3>2
    <3> QED BY <3>3
  <2> QED BY <1>1, <2>1, <2>2, <2>3
<1>5. Range(Tail(s)) \union {s[1]} \subseteq Range(s)
  <2>1. ASSUME NEW x \in Range(Tail(s)) PROVE x \in Range(s)
    <3>1. PICK i \in 1 .. Len(s) - 1 : x = Tail(s)[i]
      BY <1>3, <2>1
    <3>2. i + 1 \in 1 .. Len(s) /\ x = s[i + 1]
      BY <1>1, <3>1
    <3> QED BY <1>3, <3>2
  <2> QED BY <1>1, <1>3, <2>1
<1>6. Once(s) => Once(Tail(s)) /\ s[1] \notin Range(Tail(s))
  <2> SUFFICES ASSUME Once(s) PROVE Once(Tail(s)) /\ s[1] \notin Range(Tail(s))
    OBVIOUS
  <2>1. ASSUME NEW i \in 1 .. Len(s) - 1, NEW j \in 1 .. Len(s) - 1, Tail(s)[i] = Tail(s)[j]
        PROVE i = j
    <3>1. i + 1 \in 1 .. Len(s) /\ j + 1 \in 1 .. Len(s) /\ s[i + 1] = s[j + 1]
      BY <1>1, <2>1
    <3>2. i + 1 = j + 1
      BY <3>1 DEF Once
    <3> QED BY <1>1, <3>2
  <2>2. ASSUME NEW i \in 1 .. Len(s) - 1, Tail(s)[i] = s[1] PROVE FALSE
    <3>1. i + 1 \in 1 .. Len(s) /\ 1 \in 1 .. Len(s) /\ s[i + 1] = s[1]
      BY <1>1, <2>2
    <3>2. i + 1 = 1
      BY <3>1 DEF Once
    <3> QED BY <1>1, <3>2
  <2> QED BY <1>1, <1>3, <2>1, <2>2 DEF Once
<1> QED BY <1>2, <1>4, <1>5, <1>6

\* Without repetitions, a sequence of listed names is as long as the list if and only if
\* it has them all.
LEMMA FullLength ==
  ASSUME NEW f, DOMAIN f = Tables, \A t, u \in Tables : f[t] = f[u] => t = u,
         NEW s \in Seq({f[t] : t \in Tables}), Once(s)
  PROVE  Len(s) = N <=> {f[t] : t \in Tables} \subseteq Range(s)
<1> DEFINE L == {f[t] : t \in Tables}
           g == [t \in Tables |-> f[t]]
<1>1. g \in Bijection(Tables, L)
  BY DEF Bijection, Injection, Surjection, IsInjective
<1>2. IsFiniteSet(L) /\ Cardinality(L) = N
  <2>1. IsFiniteSet(Tables) /\ Cardinality(Tables) = N
    BY FS_Interval
  <2>2. ExistsBijection(Tables, L)
    BY <1>1 DEF ExistsBijection
  <2> QED BY <2>1, <2>2, FS_Bijection
<1>3. Len(s) \in Nat /\ s \in [1 .. Len(s) -> L] /\ DOMAIN s = 1 .. Len(s)
  BY LenProperties
<1>4. s \in Injection(1 .. Len(s), L)
  BY <1>3 DEF Injection, Once, IsInjective
<1>5. Cardinality(1 .. Len(s)) = Len(s)
  <2>1. \A n \in Nat : Cardinality(1 .. n) = n
    BY FS_Interval
  <2> QED BY <1>3, <2>1
<1>6. Len(s) = N <=> s \in Surjection(1 .. Len(s), L)
  BY <1>2, <1>4, <1>5, FS_Injection
<1>7. s \in Surjection(1 .. Len(s), L) <=> L \subseteq Range(s)
  BY <1>3 DEF Surjection, Range
<1> QED BY <1>6, <1>7

--------------------------------------------------------------------------------
(* The graph *)

\* A key that is followed leads from one listed name to another.
LEMMA Graph ==
  ASSUME TypeOK
  PROVE  /\ DOMAIN names = Tables /\ Outside \notin Listed
         /\ \A t \in Tables : names[t] \in Listed
         /\ \A n : IsFiniteSet(Before(n))
         /\ \A k \in Keys : Child(k) \in Listed
         /\ \A k \in Keys : Followed(k) =>
              To[k] \in Tables /\ From[k] \in Tables /\ Refers(k) = names[To[k]] /\ k \in keys
         /\ \A k \in left : k \in Keys /\ Followed(k)
<1>1. DOMAIN names = Tables /\ \A t \in Tables : names[t] # Outside
  BY DEF TypeOK
<1>2. Outside \notin Listed
  BY <1>1 DEF Listed
<1>3. ASSUME NEW n PROVE IsFiniteSet(Before(n))
  <2>1. Before(n) \subseteq Keys
    BY DEF Before
  <2> QED BY <2>1, FS_Subset
<1>4. \A k \in Keys : From[k] \in Tables /\ To[k] \in Tables \union {0}
  OBVIOUS
<1>5. \A k \in left : k \in Keys /\ Followed(k)
  BY DEF TypeOK
<1> QED BY <1>1, <1>2, <1>3, <1>4, <1>5 DEF Listed, Child, Followed, Refers

\* The keys between two tables of their own name are followed.
LEMMA KnotKeys ==
  ASSUME TypeOK, DistinctNames, NEW S, Knot(S), NEW t \in S
  PROVE  \E k \in Keys : Followed(k) /\ Child(k) = names[t] /\ To[k] \in S /\ Refers(k) = names[To[k]]
<1>1. PICK k \in keys : From[k] = t /\ To[k] \in S \ {t}
  BY DEF Knot
<1>2. k \in Keys /\ t \in Tables /\ To[k] \in Tables /\ To[k] # 0
  BY <1>1 DEF Knot, TypeOK
<1>3. Refers(k) = names[To[k]] /\ Child(k) = names[t] /\ Refers(k) # Child(k)
  BY <1>1, <1>2 DEF Refers, Child, DistinctNames
<1>4. Refers(k) \in Listed
  BY <1>2, <1>3 DEF Listed
<1> QED BY <1>1, <1>2, <1>3, <1>4 DEF Followed

\* The open keys are as many as the degree says.
LEMMA OpenCount ==
  ASSUME TypeOK, DegreeInv, NEW n \in Listed
  PROVE  /\ IsFiniteSet(Open(n)) /\ Open(n) \subseteq Before(n)
         /\ inDegree[n] = 0 <=> Open(n) = {}
<1>1. IsFiniteSet(Open(n)) /\ Open(n) \subseteq Before(n)
  <2>1. IsFiniteSet(Before(n)) /\ Open(n) \subseteq Before(n)
    BY Graph DEF Open
  <2> QED BY <2>1, FS_Subset
<1>2. inDegree[n] = Cardinality(Open(n))
  BY DEF DegreeInv
<1> QED BY <1>1, <1>2, FS_EmptySet

--------------------------------------------------------------------------------
(* Types *)

LEMMA TypeInit == Init => TypeOK
<1> SUFFICES ASSUME Init PROVE TypeOK
  OBVIOUS
<1>1. inDegree \in [Listed -> Int]
  <2>1. DOMAIN names = Tables
    BY DEF Init
  <2>2. ASSUME NEW n \in Listed PROVE Cardinality(Before(n)) \in Int
    <3>1. IsFiniteSet(Before(n))
      <4>1. Before(n) \subseteq Keys
        BY DEF Before
      <4> QED BY <4>1, FS_Subset
    <3>2. Cardinality(Before(n)) \in Nat
      BY <3>1, FS_CardinalityType
    <3> QED BY <3>2
  <2> QED BY <2>2 DEF Init
<1>2. place \in 1 .. N + 1
  BY DEF Init
<1>3. queue \in Seq(Listed) /\ sorted \in Seq(Listed)
  BY DEF Init
<1> QED BY <1>1, <1>2, <1>3 DEF Init, TypeOK

LEMMA TypeNext == TypeOK /\ [Next]_vars => TypeOK'
<1> SUFFICES ASSUME TypeOK, [Next]_vars PROVE TypeOK'
  OBVIOUS
<1>1. UNCHANGED graph
  BY DEF Next, vars, graph, Fills, StartsSorting, Takes, Releases, Returns
<1>2. /\ Listed' = Listed
      /\ {k \in Keys : Followed(k)}' = {k \in Keys : Followed(k)}
  BY <1>1 DEF graph, Listed, Followed, Refers, Child
<1>3. /\ inDegree \in [Listed -> Int] /\ place \in 1 .. N + 1
      /\ queue \in Seq(Listed) /\ sorted \in Seq(Listed)
      /\ left \subseteq {k \in Keys : Followed(k)}
      /\ pc \in {"fill", "sort", "sorted", "circular"}
  BY DEF TypeOK
<1>4. CASE Fills
  <2>1. place \in Tables /\ names[place] \in Listed
    BY <1>3, <1>4, Graph DEF Fills
  <2>2. queue' \in Seq(Listed)
    BY <1>3, <1>4, <2>1, AppendProperties DEF Fills
  <2>3. place' \in 1 .. N + 1
    BY <1>4, <2>1 DEF Fills
  <2> QED BY <1>1, <1>2, <1>3, <1>4, <2>2, <2>3 DEF Fills, TypeOK, graph
<1>5. CASE StartsSorting
  BY <1>1, <1>2, <1>3, <1>5 DEF StartsSorting, TypeOK, graph
<1>6. CASE Takes
  <2>1. Head(queue) \in Listed /\ Tail(queue) \in Seq(Listed)
    BY <1>3, <1>6, HeadTailProperties DEF Takes
  <2>2. queue' \in Seq(Listed) /\ sorted' \in Seq(Listed)
    BY <1>3, <1>6, <2>1, AppendProperties DEF Takes
  <2>3. left' \subseteq {k \in Keys : Followed(k)}
    BY <1>6 DEF Takes, Dependents
  <2> QED BY <1>1, <1>2, <1>3, <1>6, <2>2, <2>3 DEF Takes, TypeOK, graph
<1>7. ASSUME NEW k \in Keys, Releases(k) PROVE TypeOK'
  <2>1. Child(k) \in Listed
    BY Graph
  <2>2. queue' \in Seq(Listed)
    BY <1>3, <1>7, <2>1, AppendProperties DEF Releases
  <2>3. inDegree' \in [Listed -> Int] /\ left' \subseteq left
    BY <1>3, <1>7, <2>1 DEF Releases
  <2> QED BY <1>1, <1>2, <1>3, <1>7, <2>2, <2>3 DEF Releases, TypeOK, graph
<1>8. CASE Returns
  BY <1>1, <1>2, <1>3, <1>8 DEF Returns, TypeOK, graph
<1>9. CASE UNCHANGED vars
  BY <1>1, <1>2, <1>3, <1>9 DEF vars, TypeOK, graph
<1> QED BY <1>4, <1>5, <1>6, <1>7, <1>8, <1>9 DEF Next

--------------------------------------------------------------------------------
(* The order *)

LEMMA OrderInit == Init /\ DistinctNames => OrderInv
<1> SUFFICES ASSUME Init, DistinctNames PROVE OrderInv
  OBVIOUS
<1>1. /\ queue = <<>> /\ sorted = <<>> /\ left = {} /\ place = 1 /\ pc = "fill"
      /\ inDegree = [n \in Listed |-> Cardinality(Before(n))]
  BY DEF Init
<1>2. Range(<<>>) = {}
  BY DEF Range
<1>3. Ready = {} /\ Range(sorted) = {} /\ Len(sorted) = 0 /\ Len(queue) = 0
  BY <1>1, <1>2 DEF Ready
<1>4. \A n : Open(n) = Before(n)
  BY <1>3 DEF Open
<1>5. DegreeInv
  BY <1>1, <1>3, <1>4 DEF DegreeInv
<1>6. TurnInv
  BY <1>1, <1>3 DEF TurnInv
<1>7. OnceInv /\ EarlierInv /\ EndInv /\ KnotInv
  BY <1>1, <1>3 DEF OnceInv, Once, EarlierInv, EndInv, KnotInv
<1> QED BY <1>5, <1>6, <1>7 DEF OrderInv

\* What every step leaves alone.
LEMMA SameGraph ==
  ASSUME UNCHANGED graph
  PROVE  /\ Listed' = Listed /\ DistinctNames' = DistinctNames
         /\ \A k \in Keys : /\ Followed(k)' = Followed(k)
                            /\ Child(k)' = Child(k) /\ Refers(k)' = Refers(k)
         /\ \A n : Before(n)' = Before(n)
         /\ \A S : Knot(S)' = Knot(S)
BY DEF graph, Listed, DistinctNames, Followed, Child, Refers, Before, Knot

\* The keys open after a step.
LEMMA OpenNext ==
  ASSUME UNCHANGED graph, NEW n
  PROVE  Open(n)' = {k \in Before(n) : Refers(k) \notin Range(sorted') \/ k \in left'}
<1>1. /\ Before(n)' = Before(n)
      /\ \A k \in Before(n) : Refers(k)' = Refers(k)
  BY DEF graph, Before, Followed, Child, Refers, Listed
<1>2. Open(n)' = {k \in Before(n)' : Refers(k)' \notin Range(sorted') \/ k \in left'}
  BY DEF Open
<1> QED BY <1>1, <1>2

\* Filling gives the next table its turn if it refers to none.
LEMMA OrderFills ==
  ASSUME TypeOK, DistinctNames, OrderInv, Fills
  PROVE  OrderInv'
<1> DEFINE n == names[place]
<1>1. /\ place \in Tables /\ n \in Listed /\ queue \in Seq(Listed)
      /\ pc = "fill" /\ pc' = "fill" /\ place' = place + 1
      /\ sorted' = sorted /\ left' = left /\ inDegree' = inDegree /\ UNCHANGED graph
  BY Graph DEF Fills, TypeOK
<1>2. \A m : Open(m)' = Open(m)
  BY <1>1, SameGraph DEF Open, Before
<1>3. n \notin Ready
  <2>1. SUFFICES ASSUME n \in Ready PROVE FALSE
    OBVIOUS
  <2>2. PICK t \in Tables : t < place /\ n = names[t]
    BY <1>1, <2>1 DEF OrderInv, TurnInv
  <2> QED BY <1>1, <2>2 DEF DistinctNames
<1>4. CASE inDegree[n] = 0
  <2>1. queue' = Append(queue, n) /\ Open(n) = {}
    BY <1>1, <1>4, OpenCount DEF Fills, OrderInv
  <2>2. Range(queue') = Range(queue) \union {n} /\ Once(queue')
    BY <1>1, <1>3, <2>1, AppendRange DEF Ready, OrderInv, OnceInv
  <2>3. Ready' = Ready \union {n}
    BY <1>1, <2>2 DEF Ready
  <2>4. DegreeInv'
    BY <1>1, <1>2, <2>1, <2>3, Graph, SameGraph DEF DegreeInv, OrderInv
  <2>5. TurnInv'
    <3>1. \A t \in Tables : t < place + 1 => t < place \/ t = place
      BY <1>1
    <3> QED BY <1>1, <1>2, <2>3, <3>1 DEF TurnInv, OrderInv, graph
  <2>6. OnceInv'
    BY <1>1, <1>3, <2>2 DEF OnceInv, OrderInv, Ready
  <2> QED BY <1>1, <2>4, <2>5, <2>6, SameGraph
          DEF OrderInv, EarlierInv, EndInv, KnotInv, graph
<1>5. CASE inDegree[n] # 0
  <2>1. queue' = queue /\ Open(n) # {}
    BY <1>1, <1>5, OpenCount DEF Fills, OrderInv
  <2>2. Ready' = Ready
    BY <1>1, <2>1 DEF Ready
  <2>3. DegreeInv'
    BY <1>1, <1>2, <2>2, Graph, SameGraph DEF DegreeInv, OrderInv
  <2>4. TurnInv'
    <3>1. \A t \in Tables : t < place + 1 => t < place \/ t = place
      BY <1>1
    <3> QED BY <1>1, <1>2, <2>1, <2>2, <3>1 DEF TurnInv, OrderInv, graph
  <2> QED BY <1>1, <2>1, <2>3, <2>4, SameGraph
          DEF OrderInv, OnceInv, EarlierInv, EndInv, KnotInv, graph
<1> QED BY <1>4, <1>5

\* Steps that leave the queue, the order and the dependents alone.
LEMMA OrderSame ==
  ASSUME TypeOK, OrderInv, UNCHANGED <<graph, inDegree, queue, sorted, left, place>>
  PROVE  DegreeInv' /\ OnceInv' /\ EarlierInv' /\ KnotInv'
         /\ Ready' = Ready /\ \A m : Open(m)' = Open(m)
<1>1. \A m : Open(m)' = Open(m)
  BY SameGraph DEF Open, Before
<1>2. Ready' = Ready
  BY DEF Ready
<1>3. DegreeInv'
  BY <1>1, <1>2, Graph, SameGraph DEF DegreeInv, OrderInv
<1>4. OnceInv' /\ EarlierInv' /\ KnotInv'
  BY SameGraph DEF OrderInv, OnceInv, EarlierInv, KnotInv, graph
<1> QED BY <1>1, <1>2, <1>3, <1>4

LEMMA OrderStarts ==
  ASSUME TypeOK, OrderInv, StartsSorting
  PROVE  OrderInv'
<1>1. DegreeInv' /\ OnceInv' /\ EarlierInv' /\ KnotInv'
         /\ Ready' = Ready /\ \A m : Open(m)' = Open(m)
  BY OrderSame DEF StartsSorting
<1>2. TurnInv'
  <2>1. \A t \in Tables : pc = "fill" => t < place
    BY DEF StartsSorting
  <2> QED BY <1>1, <2>1 DEF TurnInv, OrderInv, StartsSorting, graph
<1> QED BY <1>1, <1>2 DEF OrderInv, EndInv, StartsSorting

LEMMA OrderReturns ==
  ASSUME TypeOK, OrderInv, Returns
  PROVE  OrderInv'
<1>1. DegreeInv' /\ OnceInv' /\ EarlierInv' /\ KnotInv'
         /\ Ready' = Ready /\ \A m : Open(m)' = Open(m)
  BY OrderSame DEF Returns
<1>2. TurnInv'
  BY <1>1 DEF TurnInv, OrderInv, Returns, graph
<1> QED BY <1>1, <1>2 DEF OrderInv, EndInv, Returns

\* Taking a name: its own parents are in order already, so no table of a knot is taken,
\* and its dependents stay open until they are gone through.
LEMMA OrderTakes ==
  ASSUME TypeOK, DistinctNames, OrderInv, Takes
  PROVE  OrderInv'
<1> DEFINE h == Head(queue)
<1>1. /\ queue \in Seq(Listed) /\ sorted \in Seq(Listed) /\ queue # <<>> /\ left = {}
      /\ pc = "sort" /\ pc' = "sort" /\ inDegree' = inDegree /\ UNCHANGED graph
      /\ sorted' = Append(sorted, h) /\ queue' = Tail(queue) /\ left' = Dependents(h)
  BY DEF Takes, TypeOK
<1>2. /\ h \in Listed /\ Range(queue) = Range(queue') \union {h} /\ h \in Range(queue)
      /\ Once(queue') /\ h \notin Range(queue')
  BY <1>1, HeadTailProperties, TailRange DEF OrderInv, OnceInv
<1>3. h \notin Range(sorted) /\ Open(h) = {}
  BY <1>2 DEF OrderInv, OnceInv, DegreeInv, Ready
<1>4. Range(sorted') = Range(sorted) \union {h} /\ Once(sorted')
  BY <1>1, <1>2, <1>3, AppendRange DEF OrderInv, OnceInv
<1>5. /\ Len(sorted) \in Nat /\ Len(sorted') = Len(sorted) + 1 /\ sorted'[Len(sorted) + 1] = h
      /\ \A i \in 1 .. Len(sorted) : sorted'[i] = sorted[i]
      /\ \A x : x \in Range(sorted) <=> \E i \in 1 .. Len(sorted) : sorted[i] = x
  <2>1. DOMAIN sorted = 1 .. Len(sorted) /\ Len(sorted) \in Nat
    BY <1>1, LenProperties
  <2>2. /\ Len(sorted') = Len(sorted) + 1 /\ sorted'[Len(sorted) + 1] = h
        /\ \A i \in 1 .. Len(sorted) : sorted'[i] = sorted[i]
    BY <1>1, <1>2, AppendProperties
  <2>3. \A x : x \in Range(sorted) <=> \E i \in 1 .. Len(sorted) : sorted[i] = x
    BY <2>1 DEF Range
  <2> QED BY <2>1, <2>2, <2>3
<1>6. Ready' = Ready
  BY <1>2, <1>4 DEF Ready
<1>7. ASSUME NEW m PROVE Open(m)' = Open(m)
  <2>1. Open(m)' = {k \in Before(m) : Refers(k) \notin Range(sorted') \/ k \in Dependents(h)}
    BY <1>1, OpenNext
  <2>2. \A k \in Before(m) : k \in Dependents(h) <=> Refers(k) = h
    BY DEF Before, Dependents
  <2>3. Open(m) = {k \in Before(m) : Refers(k) \notin Range(sorted)}
    BY <1>1 DEF Open
  <2> QED BY <1>3, <1>4, <2>1, <2>2, <2>3
<1>8. DegreeInv'
  <2>1. \A k \in left' : Refers(k)' \in Range(sorted')
    BY <1>1, <1>4, SameGraph DEF Dependents
  <2> QED BY <1>1, <1>6, <1>7, <2>1, SameGraph DEF DegreeInv, OrderInv
<1>9. TurnInv'
  BY <1>1, <1>6, <1>7 DEF TurnInv, OrderInv, graph
<1>10. OnceInv'
  BY <1>2, <1>4 DEF OnceInv, OrderInv
<1>11. EarlierInv'
  <2> SUFFICES ASSUME NEW k \in Keys, Followed(k)',
                      NEW j \in 1 .. Len(sorted'), sorted'[j] = Child(k)'
               PROVE  \E i \in 1 .. Len(sorted') : i < j /\ sorted'[i] = Refers(k)'
    BY DEF EarlierInv
  <2>0. /\ Followed(k) /\ sorted'[j] = Child(k) /\ Refers(k)' = Refers(k)
        /\ j \in 1 .. Len(sorted) + 1
    BY <1>1, <1>5, SameGraph
  <2>1. CASE j \in 1 .. Len(sorted)
    <3>1. sorted[j] = Child(k)
      BY <1>5, <2>0, <2>1
    <3>2. PICK i \in 1 .. Len(sorted) : i < j /\ sorted[i] = Refers(k)
      BY <2>0, <2>1, <3>1 DEF OrderInv, EarlierInv
    <3> QED BY <1>5, <2>0, <3>2
  <2>2. CASE j = Len(sorted) + 1
    <3>1. k \in Before(h)
      BY <1>5, <2>0, <2>2 DEF Before
    <3>2. Refers(k) \in Range(sorted)
      BY <1>3, <3>1 DEF Open
    <3>3. PICK i \in 1 .. Len(sorted) : sorted[i] = Refers(k)
      BY <1>5, <3>2
    <3> QED BY <1>5, <2>0, <2>2, <3>3
  <2> QED BY <2>0, <2>1, <2>2
<1>12. KnotInv'
  <2> SUFFICES ASSUME NEW S, Knot(S), NEW t \in S, names[t] \in Range(sorted') PROVE FALSE
    BY <1>1, SameGraph DEF KnotInv, graph
  <2>1. names[t] = h
    BY <1>4 DEF OrderInv, KnotInv
  <2>2. PICK k \in Keys : /\ Followed(k) /\ Child(k) = names[t]
                          /\ To[k] \in S /\ Refers(k) = names[To[k]]
    BY KnotKeys
  <2>3. Refers(k) \in Range(sorted)
    BY <1>3, <2>1, <2>2 DEF Open, Before
  <2> QED BY <2>2, <2>3 DEF OrderInv, KnotInv
<1>13. EndInv'
  BY <1>1 DEF EndInv
<1> QED BY <1>8, <1>9, <1>10, <1>11, <1>12, <1>13 DEF OrderInv

\* Going through a dependent closes one of the keys of its table, and no other.
LEMMA OrderReleases ==
  ASSUME TypeOK, DistinctNames, OrderInv, NEW k \in Keys, Releases(k)
  PROVE  OrderInv'
<1> PICK n : n = Child(k)
  OBVIOUS
<1>1. /\ n = Child(k) /\ queue \in Seq(Listed) /\ n \in Listed /\ k \in left /\ Followed(k)
      /\ pc = "sort" /\ pc' = "sort" /\ sorted' = sorted /\ UNCHANGED graph
      /\ left' = left \ {k} /\ inDegree' = [inDegree EXCEPT ![n] = inDegree[n] - 1]
      /\ inDegree \in [Listed -> Int]
      /\ queue' = IF inDegree[n] = 1 THEN Append(queue, n) ELSE queue
  BY Graph DEF Releases, TypeOK
<1>2. k \in Open(n) /\ Refers(k) \in Range(sorted)
  BY <1>1 DEF Open, Before, OrderInv, DegreeInv
<1>3. n \notin Ready
  BY <1>2 DEF OrderInv, DegreeInv
<1>4. ASSUME NEW m PROVE Open(m)' = Open(m) \ {k}
  <2>1. Open(m)' = {c \in Before(m) : Refers(c) \notin Range(sorted) \/ c \in left \ {k}}
    BY <1>1, OpenNext
  <2>2. Open(m) = {c \in Before(m) : Refers(c) \notin Range(sorted) \/ c \in left}
    BY DEF Open
  <2> QED BY <1>2, <2>1, <2>2
<1>5. \A m : m # n => k \notin Open(m)
  BY <1>1 DEF Open, Before
<1>6. ASSUME NEW m \in Listed PROVE inDegree'[m] = Cardinality(Open(m)')
  <2>1. CASE m = n
    <3>1. IsFiniteSet(Open(n)) /\ inDegree[n] = Cardinality(Open(n))
      BY <1>1, OpenCount DEF OrderInv, DegreeInv
    <3>2. Cardinality(Open(n) \ {k}) = Cardinality(Open(n)) - 1
      BY <1>2, <3>1, FS_RemoveElement
    <3> QED BY <1>1, <1>4, <2>1, <3>1, <3>2
  <2>2. CASE m # n
    <3>1. Open(m)' = Open(m)
      BY <1>4, <1>5, <2>2
    <3>2. inDegree'[m] = inDegree[m]
      BY <1>1, <2>2
    <3>3. inDegree[m] = Cardinality(Open(m))
      BY DEF OrderInv, DegreeInv
    <3> QED BY <3>1, <3>2, <3>3
  <2> QED BY <2>1, <2>2
<1>7. inDegree[n] = 1 <=> Open(n)' = {}
  <2>1. IsFiniteSet(Open(n) \ {k})
    BY <1>1, OpenCount, FS_RemoveElement DEF OrderInv
  <2>2. inDegree'[n] = 0 <=> Open(n) \ {k} = {}
    BY <1>1, <1>4, <1>6, <2>1, FS_EmptySet
  <2> QED BY <1>1, <1>4, <2>2
<1>8. \/ /\ inDegree[n] = 1 /\ Ready' = Ready \union {n}
         /\ Range(queue') = Range(queue) \union {n} /\ Once(queue')
      \/ inDegree[n] # 1 /\ Ready' = Ready /\ queue' = queue
  <2>1. CASE inDegree[n] = 1
    <3>1. queue' = Append(queue, n) /\ Once(queue) /\ n \notin Range(queue)
      BY <1>1, <1>3, <2>1 DEF Ready, OrderInv, OnceInv
    <3>2. Range(queue') = Range(queue) \union {n} /\ Once(queue')
      BY <1>1, <3>1, AppendRange
    <3> QED BY <1>1, <2>1, <3>2 DEF Ready
  <2>2. CASE inDegree[n] # 1
    BY <1>1, <2>2 DEF Ready
  <2> QED BY <2>1, <2>2
<1>9. DegreeInv'
  <2>1. ASSUME NEW m \in Ready' PROVE Open(m)' = {}
    <3>1. CASE m \in Ready
      BY <1>4, <3>1 DEF OrderInv, DegreeInv
    <3>2. CASE m = n /\ inDegree[n] = 1
      BY <1>7, <3>2
    <3> QED BY <1>8, <2>1, <3>1, <3>2
  <2>2. \A c \in left' : Refers(c)' \in Range(sorted')
    BY <1>1, Graph, SameGraph DEF OrderInv, DegreeInv
  <2> QED BY <1>1, <1>6, <2>1, <2>2, SameGraph DEF DegreeInv
<1>10. TurnInv'
  <2>1. ASSUME NEW m, NEW t \in Tables, m = names[t], Open(m)' = {} PROVE m \in Ready'
    <3>1. CASE m = n
      BY <1>7, <1>8, <2>1, <3>1
    <3>2. CASE m # n
      <4>1. Open(m) = {}
        BY <1>4, <1>5, <2>1, <3>2
      <4>2. m \in Ready
        BY <1>1, <2>1, <4>1 DEF TurnInv, OrderInv
      <4> QED BY <1>8, <4>2
    <3> QED BY <3>1, <3>2
  <2> QED BY <1>1, <2>1 DEF TurnInv, graph
<1>11. OnceInv'
  BY <1>1, <1>3, <1>8 DEF OnceInv, OrderInv, Ready
<1>12. EarlierInv' /\ KnotInv' /\ EndInv'
  BY <1>1, SameGraph DEF OrderInv, EarlierInv, KnotInv, EndInv, graph
<1> QED BY <1>9, <1>10, <1>11, <1>12 DEF OrderInv

--------------------------------------------------------------------------------
(* The results *)

LEMMA InvNext == IInv /\ [Next]_vars => IInv'
<1> SUFFICES ASSUME IInv, [Next]_vars PROVE IInv'
  OBVIOUS
<1>1. TypeOK /\ TypeOK'
  BY TypeNext DEF IInv
<1>2. UNCHANGED graph
  BY DEF Next, vars, graph, Fills, StartsSorting, Takes, Releases, Returns
<1>3. DistinctNames' = DistinctNames
  BY <1>2, SameGraph
<1>4. SUFFICES ASSUME DistinctNames, OrderInv PROVE OrderInv'
  BY <1>1, <1>3 DEF IInv
<1>5. CASE Fills
  BY <1>1, <1>4, <1>5, OrderFills
<1>6. CASE StartsSorting
  BY <1>1, <1>4, <1>6, OrderStarts
<1>7. CASE Takes
  BY <1>1, <1>4, <1>7, OrderTakes
<1>8. CASE \E k \in Keys : Releases(k)
  BY <1>1, <1>4, <1>8, OrderReleases
<1>9. CASE Returns
  BY <1>1, <1>4, <1>9, OrderReturns
<1>10. CASE UNCHANGED vars
  <2>1. DegreeInv' /\ OnceInv' /\ EarlierInv' /\ KnotInv'
           /\ Ready' = Ready /\ \A m : Open(m)' = Open(m)
    BY <1>1, <1>4, <1>10, OrderSame DEF vars
  <2>2. TurnInv' /\ EndInv'
    BY <1>4, <1>10, <2>1 DEF TurnInv, EndInv, OrderInv, vars, graph
  <2> QED BY <2>1, <2>2 DEF OrderInv
<1> QED BY <1>5, <1>6, <1>7, <1>8, <1>9, <1>10 DEF Next

\* The state of the sort stays within its types, and its order within the invariant.
THEOREM SortInvariant == Spec => []IInv
<1>1. Init => IInv
  BY TypeInit, OrderInit DEF IInv
<1> QED BY <1>1, InvNext, PTL DEF Spec

\* The names put in order are all of them if and only if they are as many as the tables.
LEMMA SortedAll ==
  ASSUME IInv, DistinctNames
  PROVE  Len(sorted) = N <=> \A t \in Tables : names[t] \in Range(sorted)
<1>1. DOMAIN names = Tables /\ Listed = {names[t] : t \in Tables}
  BY Graph DEF IInv, Listed
<1>2. sorted \in Seq({names[t] : t \in Tables}) /\ Once(sorted)
  BY <1>1 DEF IInv, TypeOK, OrderInv, OnceInv
<1>3. Len(sorted) = N <=> {names[t] : t \in Tables} \subseteq Range(sorted)
  BY <1>1, <1>2, FullLength DEF DistinctNames
<1> QED BY <1>3

\* Tables are created and filled parents first, whatever their foreign keys
\* (generateTableData goes through them in this order).
THEOREM SortedParentsFirst == Spec => []ParentsFirst
<1>1. IInv => ParentsFirst
  <2> SUFFICES ASSUME IInv, pc = "sorted", DistinctNames
               PROVE  /\ \A t \in Tables : \E i \in DOMAIN sorted : sorted[i] = names[t]
                      /\ \A k \in keys : To[k] \notin {0, From[k]} => Precedes(To[k], From[k])
    BY DEF ParentsFirst
  <2>1. \A t \in Tables : names[t] \in Range(sorted)
    BY SortedAll DEF IInv, OrderInv, EndInv
  <2>2. \A t \in Tables : \E i \in DOMAIN sorted : sorted[i] = names[t]
    BY <2>1 DEF Range
  <2>3. ASSUME NEW k \in keys, To[k] \notin {0, From[k]} PROVE Precedes(To[k], From[k])
    <3>1. k \in Keys /\ From[k] \in Tables /\ To[k] \in Tables
      BY <2>3 DEF IInv, TypeOK
    <3>2. Child(k) = names[From[k]] /\ Refers(k) = names[To[k]]
      BY <2>3, <3>1 DEF Child, Refers
    <3>3. Followed(k)
      BY <2>3, <3>1, <3>2 DEF Followed, Listed, DistinctNames
    <3>4. DOMAIN sorted = 1 .. Len(sorted)
      BY LenProperties DEF IInv, TypeOK
    <3>5. PICK j \in 1 .. Len(sorted) : sorted[j] = Child(k)
      BY <2>2, <3>1, <3>2, <3>4
    <3>6. PICK i \in 1 .. Len(sorted) : i < j /\ sorted[i] = Refers(k)
      BY <3>1, <3>3, <3>5 DEF IInv, OrderInv, EarlierInv
    <3> QED BY <3>2, <3>4, <3>5, <3>6 DEF Precedes
  <2> QED BY <2>2, <2>3
<1> QED BY <1>1, SortInvariant, PTL

\* "circular foreign key dependencies" is said of graphs that have a cycle, and of all of
\* them, whatever their size.
THEOREM CyclesFound == Spec => []CyclesReported
<1>1. IInv => CyclesReported
  <2> SUFFICES ASSUME IInv, DistinctNames
               PROVE  (pc = "circular" => Cyclic) /\ (pc = "sorted" => ~Cyclic)
    BY DEF CyclesReported
  <2>1. ASSUME pc = "circular" PROVE Cyclic
    <3> DEFINE S == {t \in Tables : names[t] \notin Range(sorted)}
    <3>1. S # {}
      BY <2>1, SortedAll DEF IInv, OrderInv, EndInv
    <3>2. ASSUME NEW t \in S PROVE \E k \in keys : From[k] = t /\ To[k] \in S \ {t}
      <4>1. queue = <<>> /\ left = {} /\ pc # "fill"
        BY <2>1 DEF IInv, OrderInv, EndInv
      <4>2. names[t] \notin Ready
        BY <4>1 DEF Ready, Range
      <4>3. Open(names[t]) # {}
        BY <4>1, <4>2 DEF IInv, OrderInv, TurnInv
      <4>4. PICK k \in Keys : /\ Followed(k) /\ Child(k) = names[t]
                              /\ Refers(k) \notin Range(sorted)
        BY <4>1, <4>3 DEF Open, Before
      <4>5. /\ k \in keys /\ From[k] \in Tables /\ To[k] \in Tables
            /\ Refers(k) = names[To[k]]
        BY <4>4, Graph DEF IInv
      <4>6. From[k] = t
        BY <4>4, <4>5 DEF Child, DistinctNames
      <4>7. To[k] # t
        BY <4>4, <4>5 DEF Followed
      <4>8. To[k] \in S
        BY <4>4, <4>5
      <4> QED BY <4>5, <4>6, <4>7, <4>8
    <3>3. S \in SUBSET Tables
      OBVIOUS
    <3> QED BY <3>1, <3>2, <3>3 DEF Cyclic
  <2>2. ASSUME pc = "sorted", Cyclic PROVE FALSE
    <3>1. PICK S \in SUBSET Tables : Knot(S)
      BY <2>2 DEF Cyclic, Knot
    <3>2. \A t \in S : names[t] \notin Range(sorted)
      BY <3>1 DEF IInv, OrderInv, KnotInv
    <3>3. \A t \in Tables : names[t] \in Range(sorted)
      BY <2>2, SortedAll DEF IInv, OrderInv, EndInv
    <3> QED BY <3>1, <3>2, <3>3 DEF Knot
  <2> QED BY <2>1, <2>2
<1> QED BY <1>1, SortInvariant, PTL

================================================================================
