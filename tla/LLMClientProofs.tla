----------------------------- MODULE LLMClientProofs -----------------------------
(***************************************************************************)
(* Theorems about LLMClient, for any number of sessions and counters: the  *)
(* usage counters lose no request and report none twice, and every call is *)
(* served as RowSource promises.                                           *)
(***************************************************************************)
EXTENDS LLMClient, FiniteSetTheorems, TLAPS

\* Between two responses a session starts again with the first counter; the reporter holds
\* nothing of a counter that it has yet to swap.
PlaceInv == /\ \A c \in Callers : pc[c] # "count" => counting[c] = 1
            /\ \A i \in Counters : swapping <= i => swapped[i] = 0
            /\ swapping = 0 => \A i \in Counters : swapped[i] = 0

IInv == TypeOK /\ PlaceInv /\ UsageAccounted

\* The sessions that have still to add a response are finitely many.
LEMMA UncountedFinite ==
  ASSUME NEW i \in Counters
  PROVE  IsFiniteSet(Uncounted(i)) /\ Cardinality(Uncounted(i)) \in Nat
<1>1. Uncounted(i) \subseteq Callers
  BY DEF Uncounted
<1> QED
  BY <1>1, LLMClientAssumption, FS_Subset, FS_CardinalityType

\* The invariant holds at the start.
LEMMA InitIInv == Init => IInv
<1> SUFFICES ASSUME Init
             PROVE  IInv
  OBVIOUS
<1> USE LLMClientAssumption
<1>1. TypeOK
  BY DEF Init, TypeOK, Counters, Responses
<1>2. PlaceInv
  BY DEF Init, PlaceInv, Counters
<1>3. ASSUME NEW i \in Counters
      PROVE  Known(i) = 0
  <2>1. Uncounted(i) = {}
    BY DEF Init, Uncounted
  <2>2. Cardinality(Uncounted(i)) = 0
    BY <2>1, FS_EmptySet
  <2>3. logged[i] = 0 /\ swapped[i] = 0 /\ usage[i] = 0
    BY DEF Init
  <2> QED
    BY <2>2, <2>3 DEF Known
<1>4. UsageAccounted
  BY <1>3 DEF UsageAccounted, Init, Counters
<1> QED
  BY <1>1, <1>2, <1>4 DEF IInv

\* The steps that neither add to a counter nor swap one, and no response comes.
LEMMA AsideIInv ==
  ASSUME IInv, TypeOK', UNCHANGED <<counting, usage, reporter, answered>>,
         \A c \in Callers : pc'[c] = "count" <=> pc[c] = "count"
  PROVE  IInv'
<1>1. PlaceInv'
  BY DEF IInv, PlaceInv, reporter
<1>2. ASSUME NEW i \in Counters
      PROVE  Known(i)' = Known(i)
  <2>1. Uncounted(i)' = Uncounted(i)
    BY DEF Uncounted
  <2> QED
    BY <2>1 DEF Known, reporter
<1>3. UsageAccounted'
  BY <1>2, LLMClientAssumption DEF IInv, UsageAccounted, Counters
<1> QED
  BY <1>1, <1>3 DEF IInv

\* A response is one that every counter still lacks.
LEMMA RespondsIInv ==
  ASSUME IInv, NEW c \in Callers, NEW r \in Responses, Responds(c, r)
  PROVE  IInv'
<1> USE LLMClientAssumption
<1>1. TypeOK'
  BY DEF IInv, TypeOK, Responds, reporter
<1>2. PlaceInv'
  BY DEF IInv, TypeOK, PlaceInv, Responds, reporter
<1>3. ASSUME NEW i \in Counters
      PROVE  Known(i)' = Known(i) + 1
  <2>1. c \notin Uncounted(i) /\ Uncounted(i)' = Uncounted(i) \union {c}
    <3>1. pc[c] = "request" /\ pc' = [pc EXCEPT ![c] = "count"] /\ counting' = counting
      BY DEF Responds
    <3>2. counting[c] <= i
      BY <3>1 DEF IInv, PlaceInv, Counters
    <3> QED
      BY <3>1, <3>2 DEF Uncounted, IInv, TypeOK
  <2>2. Cardinality(Uncounted(i)') = Cardinality(Uncounted(i)) + 1
    BY <2>1, UncountedFinite, FS_AddElement
  <2>3. logged'[i] = logged[i] /\ swapped'[i] = swapped[i] /\ usage'[i] = usage[i]
    BY DEF Responds, reporter
  <2>4. logged[i] \in Nat /\ swapped[i] \in Nat /\ usage[i] \in Nat
    BY DEF IInv, TypeOK
  <2> QED
    BY <2>2, <2>3, <2>4, UncountedFinite DEF Known
<1>4. answered' = answered + 1 /\ answered \in Nat
  BY DEF Responds, IInv, TypeOK
<1>5. \A i \in Counters : Known(i) \in Int
  BY UncountedFinite DEF IInv, TypeOK, Known
<1>6. UsageAccounted'
  BY <1>3, <1>4, <1>5 DEF IInv, UsageAccounted, Counters
<1> QED
  BY <1>1, <1>2, <1>6 DEF IInv

\* A response that is added to a counter is no more what this counter lacks.
LEMMA CountsIInv ==
  ASSUME IInv, NEW c \in Callers, Counts(c)
  PROVE  IInv'
<1> DEFINE k == counting[c]
<1> USE LLMClientAssumption
<1>1. /\ pc[c] = "count" /\ k \in Counters
      /\ usage' = [usage EXCEPT ![k] = @ + 1]
      /\ logged' = logged /\ swapped' = swapped /\ swapping' = swapping
      /\ answered' = answered
  BY DEF IInv, TypeOK, Counts, reporter
<1>n. \/ /\ k < Kinds /\ counting' = [counting EXCEPT ![c] = k + 1] /\ pc' = pc
      \/ /\ k = Kinds /\ counting' = [counting EXCEPT ![c] = 1]
         /\ pc' = [pc EXCEPT ![c] = "read"]
  BY <1>1 DEF Counts, Counters
<1>f. /\ pc' \in [Callers -> {"idle", "request", "count", "read"}]
      /\ counting' \in [Callers -> Counters]
      /\ \A d \in Callers : d # c => pc'[d] = pc[d] /\ counting'[d] = counting[d]
      /\ \/ k < Kinds /\ pc'[c] = "count" /\ counting'[c] = k + 1
         \/ k = Kinds /\ pc'[c] = "read" /\ counting'[c] = 1
  <2>1. /\ pc \in [Callers -> {"idle", "request", "count", "read"}]
        /\ counting \in [Callers -> Counters]
    BY DEF IInv, TypeOK
  <2>2. CASE k < Kinds
    <3>1. k + 1 \in Counters
      BY <1>1, <2>2 DEF Counters
    <3> QED
      BY <1>1, <1>n, <2>1, <2>2, <3>1 DEF Counters
  <2>3. CASE k = Kinds
    <3>1. 1 \in Counters
      BY DEF Counters
    <3> QED
      BY <1>1, <1>n, <2>1, <2>3, <3>1 DEF Counters
  <2> QED
    BY <1>n, <2>2, <2>3
<1>2. TypeOK'
  <2>1. usage' \in [Counters -> Nat]
    BY <1>1 DEF IInv, TypeOK
  <2> QED
    BY <1>1, <1>f, <2>1 DEF IInv, TypeOK, Counts
<1>3. PlaceInv'
  BY <1>1, <1>f DEF IInv, PlaceInv
<1>4. ASSUME NEW i \in Counters
      PROVE  Known(i)' = Known(i)
  <2>1. logged[i] \in Nat /\ swapped[i] \in Nat /\ usage[i] \in Nat
    BY DEF IInv, TypeOK
  <2>2. CASE i = k
    <3>1. c \in Uncounted(i) /\ Uncounted(i)' = Uncounted(i) \ {c}
      <4>1. k <= i /\ ~(k + 1 <= i)
        BY <1>1, <2>2 DEF Counters
      <4> QED
        BY <1>1, <1>f, <4>1 DEF Uncounted
    <3>2. Cardinality(Uncounted(i)') = Cardinality(Uncounted(i)) - 1
      BY <3>1, UncountedFinite, FS_RemoveElement
    <3>3. usage'[i] = usage[i] + 1 /\ logged'[i] = logged[i] /\ swapped'[i] = swapped[i]
      BY <1>1, <2>2 DEF IInv, TypeOK
    <3> QED
      BY <2>1, <3>2, <3>3, UncountedFinite DEF Known
  <2>3. CASE i # k
    <3>1. Uncounted(i)' = Uncounted(i)
      <4>1. /\ k <= i <=> k + 1 <= i
            /\ k = Kinds => ~(k <= i)
        BY <1>1, <2>3 DEF Counters
      <4> QED
        BY <1>1, <1>f, <4>1 DEF Uncounted
    <3>2. usage'[i] = usage[i] /\ logged'[i] = logged[i] /\ swapped'[i] = swapped[i]
      BY <1>1, <2>3 DEF IInv, TypeOK
    <3> QED
      BY <3>1, <3>2 DEF Known
  <2> QED
    BY <2>2, <2>3
<1>5. UsageAccounted'
  BY <1>1, <1>4 DEF IInv, UsageAccounted, Counters
<1> QED
  BY <1>2, <1>3, <1>5 DEF IInv

\* What is swapped out is reported or, if there were no requests, forgotten.
LEMMA SwapsIInv ==
  ASSUME IInv, Swaps
  PROVE  IInv'
<1> USE LLMClientAssumption
<1>1. /\ swapping \in Counters /\ usage' = [usage EXCEPT ![swapping] = 0]
      /\ pc' = pc /\ counting' = counting /\ answered' = answered
  BY DEF IInv, TypeOK, Swaps, call, Counters
<1>2. \A i \in Counters : logged[i] \in Nat /\ swapped[i] \in Nat /\ usage[i] \in Nat
  BY DEF IInv, TypeOK
<1>3. \A i \in Counters : Uncounted(i)' = Uncounted(i)
  BY <1>1 DEF Uncounted
<1>4. swapped[swapping] = 0
  BY <1>1 DEF IInv, PlaceInv, Counters
<1>5. CASE swapping < Kinds
  <2>1. swapping' = swapping + 1 /\ logged' = logged
        /\ swapped' = [swapped EXCEPT ![swapping] = usage[swapping]]
    BY <1>5 DEF Swaps, Reports, Swapped
  <2>2. TypeOK'
    <3>1. usage' \in [Counters -> Nat] /\ swapped' \in [Counters -> Nat]
      BY <1>1, <1>2, <2>1 DEF IInv, TypeOK
    <3>2. swapping' \in 0 .. Kinds
      BY <1>1, <1>5, <2>1 DEF Counters
    <3>3. UNCHANGED call
      BY DEF Swaps
    <3> QED  BY <1>1, <2>1, <3>1, <3>2, <3>3 DEF IInv, TypeOK, call
  <2>3. PlaceInv'
    BY <1>1, <2>1 DEF IInv, TypeOK, PlaceInv, Counters
  <2>4. ASSUME NEW i \in Counters
        PROVE  Known(i)' = Known(i)
    <3>1. logged'[i] + swapped'[i] + usage'[i] = logged[i] + swapped[i] + usage[i]
      BY <1>1, <1>2, <1>4, <2>1 DEF IInv, TypeOK
    <3> QED
      BY <1>3, <3>1 DEF Known
  <2>5. UsageAccounted'
    BY <1>1, <2>4 DEF IInv, UsageAccounted, Counters
  <2> QED
    BY <2>2, <2>3, <2>5 DEF IInv
<1>6. CASE swapping = Kinds
  <2> DEFINE taken == [swapped EXCEPT ![Kinds] = usage[Kinds]]
  <2>1. /\ swapping' = 0 /\ swapped' = [i \in Counters |-> 0]
        /\ logged' = IF taken[Kinds] = 0 THEN logged
                     ELSE [i \in Counters |-> logged[i] + taken[i]]
    BY <1>6 DEF Swaps, Reports, Swapped
  <2>2. taken[Kinds] = usage[Kinds] /\ \A i \in Counters : i # Kinds => taken[i] = swapped[i]
    BY <1>1, <1>6 DEF IInv, TypeOK
  <2>t. \A i \in Counters : taken[i] \in Nat
    BY <1>1, <1>2, <1>6, <2>2
  <2> HIDE DEF taken
  <2>3. TypeOK'
    <3>1. logged' \in [Counters -> Nat]
      BY <1>2, <2>1, <2>t DEF IInv, TypeOK
    <3> QED
      BY <1>1, <2>1, <3>1 DEF IInv, TypeOK, Swaps, call
  <2>4. PlaceInv'
    BY <1>1, <2>1 DEF IInv, PlaceInv
  <2>5. ASSUME NEW i \in Counters
        PROVE  Known(i)' <= Known(i) /\ (i = Kinds => Known(i)' = Known(i))
    <3>1. swapped'[i] = 0 /\ usage'[i] = IF i = Kinds THEN 0 ELSE usage[i]
      BY <1>1, <1>6, <2>1 DEF IInv, TypeOK
    <3>2. logged'[i] = IF usage[Kinds] = 0 THEN logged[i] ELSE logged[i] + taken[i]
      BY <2>1, <2>2
    <3>3. /\ logged'[i] + swapped'[i] + usage'[i] <= logged[i] + swapped[i] + usage[i]
          /\ i = Kinds => logged'[i] + swapped'[i] + usage'[i]
                            = logged[i] + swapped[i] + usage[i]
      BY <1>2, <1>4, <1>6, <2>2, <3>1, <3>2
    <3>4. logged'[i] \in Nat /\ swapped'[i] \in Nat /\ usage'[i] \in Nat
      BY <2>3 DEF TypeOK
    <3> QED
      BY <1>2, <1>3, <3>3, <3>4, UncountedFinite DEF Known
  <2>6. \A i \in Counters : Known(i) \in Int /\ Known(i)' \in Int
    <3>1. \A i \in Counters : /\ logged'[i] \in Nat /\ swapped'[i] \in Nat
                              /\ usage'[i] \in Nat
      BY <2>3 DEF TypeOK
    <3> QED
      BY <1>2, <1>3, <3>1, UncountedFinite DEF Known
  <2>7. Kinds \in Counters /\ answered \in Nat
    BY DEF IInv, TypeOK, Counters
  <2>8. UsageAccounted'
    BY <1>1, <2>5, <2>6, <2>7 DEF IInv, UsageAccounted
  <2> QED
    BY <2>3, <2>4, <2>8 DEF IInv
<1> QED
  BY <1>1, <1>5, <1>6 DEF Counters

\* Every step preserves the invariant.
LEMMA StepIInv == IInv /\ [Next]_vars => IInv'
<1> SUFFICES ASSUME IInv, [Next]_vars
             PROVE  IInv'
  OBVIOUS
<1> USE LLMClientAssumption
<1>1. CASE \E c \in Callers, k \in {"table", "column"}, n \in RowCounts : Asks(c, k, n)
  <2>1. PICK c \in Callers, k \in {"table", "column"}, n \in RowCounts : Asks(c, k, n)
    BY <1>1
  <2>2. TypeOK'
    BY <2>1 DEF IInv, TypeOK, Asks, reporter
  <2> QED
    BY <2>1, <2>2, AsideIInv DEF IInv, TypeOK, Asks
<1>2. ASSUME NEW c \in Callers, RequestFails(c) \/ FindsNoChoices(c) \/ RunsOutOfRetries(c)
      PROVE  IInv'
  <2>1. TypeOK'
    <3>1. GivesUp(c) /\ UNCHANGED <<kind, counting, asks, usage, reporter, answered>>
      BY <1>2 DEF RequestFails, FindsNoChoices, RunsOutOfRetries
    <3>2. NoChoices \in Responses /\ 0 \in 0 .. MaxRetries
      BY DEF Responses
    <3> QED  BY <3>1, <3>2 DEF IInv, TypeOK, GivesUp, reporter
  <2> QED
    BY <1>2, <2>1, AsideIInv
    DEF IInv, TypeOK, RequestFails, FindsNoChoices, RunsOutOfRetries, GivesUp
<1>3. ASSUME NEW c \in Callers, Retries(c)
      PROVE  IInv'
  <2>1. TypeOK'
    BY <1>3 DEF IInv, TypeOK, Retries, reporter, Responses
  <2> QED
    BY <1>3, <2>1, AsideIInv DEF IInv, TypeOK, Retries
<1>4. ASSUME NEW c \in Callers, Accepts(c)
      PROVE  IInv'
  <2>1. remaining[c] - BatchSize(c) \in Nat /\ response[c] \in Nat
    <3>1. remaining[c] \in Nat /\ response[c] \in Nat
      BY <1>4 DEF IInv, TypeOK, Accepts
    <3> QED
      BY <3>1 DEF BatchSize
  <2>2. TypeOK'
    BY <1>4, <2>1 DEF IInv, TypeOK, Accepts, GoesOn, reporter, Responses
  <2> QED
    BY <1>4, <2>2, AsideIInv DEF IInv, TypeOK, Accepts, GoesOn
<1>5. ASSUME NEW c \in Callers, Works(c)
      PROVE  IInv'
  BY <1>2, <1>3, <1>4, <1>5, RespondsIInv, CountsIInv DEF Works
<1>6. CASE Ticks
  <2>1. TypeOK'
    BY <1>6 DEF IInv, TypeOK, Ticks, call
  <2>2. PlaceInv'
    BY <1>6 DEF IInv, TypeOK, PlaceInv, Ticks, call
  <2>3. ASSUME NEW i \in Counters
        PROVE  Known(i)' = Known(i)
    <3>1. Uncounted(i)' = Uncounted(i)
      BY <1>6 DEF Uncounted, Ticks, call
    <3> QED
      BY <1>6, <3>1 DEF Known, Ticks
  <2>4. UsageAccounted'
    BY <1>6, <2>3 DEF IInv, UsageAccounted, Ticks, Counters
  <2> QED
    BY <2>1, <2>2, <2>4 DEF IInv
<1>7. CASE Swaps
  BY <1>7, SwapsIInv
<1>8. CASE UNCHANGED vars
  <2>1. TypeOK'
    BY <1>8 DEF IInv, TypeOK, vars, call, reporter
  <2> QED
    BY <1>8, <2>1, AsideIInv DEF vars, call, reporter
<1> QED
  BY <1>1, <1>5, <1>6, <1>7, <1>8 DEF Next

\* For any number of sessions and counters, and however requests and reports interleave,
\* every request that was answered is reported once, and no report makes up for tokens that
\* were never used (client.go:39).
THEOREM UsageAlwaysAccounted == Spec => []UsageAccounted
<1>1. Init => IInv
  BY InitIInv
<1>2. IInv /\ [Next]_vars => IInv'
  BY StepIInv
<1>3. IInv => UsageAccounted
  BY DEF IInv
<1> QED
  BY <1>1, <1>2, <1>3, PTL DEF Spec

--------------------------------------------------------------------------------
(* LLMClient implements RowSource *)

\* A call is under way as long as there are rows to ask for.
CallInv ==
  \A c \in Callers : /\ pc[c] = "idle" => outcome[c] # "pending" /\ remaining[c] = 0
                     /\ pc[c] # "idle" => outcome[c] = "pending" /\ remaining[c] # 0

\* Batches that a call of kind k waits for if n rows are still to be asked for.
OwedOf(k, n) == IF k = "column" /\ n > 0 THEN 1 ELSE (n + Chunk - 1) \div Chunk
Owed == [c \in Callers |-> OwedOf(kind[c], remaining[c])]

\* Without rows to ask for no batch is owed.
LEMMA NothingOwed == ASSUME NEW k PROVE OwedOf(k, 0) = 0
<1>1. (0 + Chunk - 1) \div Chunk = 0
  BY LLMClientAssumption
<1> QED
  BY <1>1 DEF OwedOf

\* A request for what is left, or for a whole chunk, is one batch of those owed, the last
\* one if nothing is left then.
LEMMA OneBatch ==
  ASSUME NEW k, NEW n \in Nat \ {0}, NEW b \in Nat,
         b = IF k = "column" \/ n < Chunk THEN n ELSE Chunk
  PROVE  /\ OwedOf(k, n - b) = OwedOf(k, n) - 1
         /\ OwedOf(k, n) = 1 <=> n - b = 0
<1> USE LLMClientAssumption
<1>1. CASE k = "column"
  BY <1>1, NothingOwed DEF OwedOf
<1>2. CASE k # "column" /\ n <= Chunk
  <2>1. b = n /\ n - b = 0
    BY <1>2
  <2>2. (n + Chunk - 1) \div Chunk = 1
    BY <1>2
  <2> QED
    BY <1>2, <2>1, <2>2, NothingOwed DEF OwedOf
<1>3. CASE k # "column" /\ n > Chunk
  <2>1. b = Chunk
    BY <1>3
  <2>2. (n - Chunk + Chunk - 1) \div Chunk = ((n + Chunk - 1) \div Chunk) - 1
    BY <1>3
  <2>3. (n + Chunk - 1) \div Chunk > 1 /\ (n + Chunk - 1) \div Chunk \in Int
    BY <1>3
  <2>4. n - Chunk # 0
    BY <1>3
  <2> QED
    BY <1>3, <2>1, <2>2, <2>3, <2>4 DEF OwedOf
<1> QED
  BY <1>1, <1>2, <1>3

\* A new call owes the batches its rows need.
LEMMA AsksSource ==
  ASSUME TypeOK, CallInv, NEW c \in Callers, NEW k \in {"table", "column"},
         NEW n \in RowCounts, Asks(c, k, n)
  PROVE  CallInv' /\ Source!Next
<1> USE LLMClientAssumption
<1>1. CallInv'
  BY DEF TypeOK, CallInv, Asks
<1>2. Owed' = [Owed EXCEPT ![c] = OwedOf(k, n)]
  <2>1. \A d \in Callers : OwedOf(kind'[d], remaining'[d])
                            = IF d = c THEN OwedOf(k, n) ELSE OwedOf(kind[d], remaining[d])
    BY DEF Asks, TypeOK
  <2> QED
    BY <2>1 DEF Owed
<1>3. OwedOf(k, n) \in Source!BatchCounts
  BY DEF OwedOf, Source!BatchCounts, Source!Batches
<1>4. outcome[c] # "pending" /\ rows' = [rows EXCEPT ![c] = 0]
      /\ outcome' = [outcome EXCEPT ![c] = "pending"]
  BY DEF Asks, CallInv
<1>5. Source!Asks(c, OwedOf(k, n))
  BY <1>2, <1>4 DEF Source!Asks, Owed, OwedOf
<1> QED
  BY <1>1, <1>3, <1>5 DEF Source!Next

\* An error ends a call that is under way, and nothing is owed any more.
LEMMA GivesUpSource ==
  ASSUME TypeOK, CallInv, NEW c \in Callers, pc[c] # "idle", GivesUp(c), kind' = kind
  PROVE  CallInv' /\ Source!Next
<1>1. CallInv'
  BY DEF TypeOK, CallInv, GivesUp
<1>2. Owed' = [Owed EXCEPT ![c] = 0]
  <2>1. \A d \in Callers : OwedOf(kind'[d], remaining'[d])
                            = IF d = c THEN 0 ELSE OwedOf(kind[d], remaining[d])
    BY NothingOwed DEF GivesUp, TypeOK
  <2> QED
    BY <2>1 DEF Owed
<1>3. /\ outcome[c] = "pending"
      /\ rows' = [rows EXCEPT ![c] = 0]
      /\ outcome' = [outcome EXCEPT ![c] = "error"]
  <2>1. outcome[c] = "pending"
    BY DEF CallInv
  <2> QED
    BY <2>1 DEF GivesUp
<1>4. Source!Fails(c)
  BY <1>2, <1>3 DEF Source!Fails, Owed, OwedOf
<1> QED
  BY <1>1, <1>4 DEF Source!Next, Source!Answers

\* A response that can be read is a batch.
LEMMA AcceptsSource ==
  ASSUME TypeOK, CallInv, NEW c \in Callers, Accepts(c)
  PROVE  CallInv' /\ Source!Next
<1> DEFINE n == remaining[c]
           b == BatchSize(c)
           last == IF OwedOf(kind[c], n) = 1 THEN "rows" ELSE outcome[c]
<1> USE LLMClientAssumption
<1>1. n \in Nat \ {0} /\ outcome[c] = "pending"
  <2>1. pc[c] # "idle"
    BY DEF Accepts
  <2> QED
    BY <2>1 DEF TypeOK, CallInv
<1>0. /\ b \in Nat /\ n - b \in Nat
      /\ b = IF kind[c] = "column" \/ n < Chunk THEN n ELSE Chunk
  BY <1>1 DEF BatchSize
<1>2. /\ OwedOf(kind[c], n - b) = OwedOf(kind[c], n) - 1
      /\ OwedOf(kind[c], n) = 1 <=> n - b = 0
  BY <1>0, <1>1, OneBatch
<1>3. /\ response[c] \in Sizes /\ rows' = [rows EXCEPT ![c] = @ + response[c]]
      /\ kind' = kind /\ remaining' = [remaining EXCEPT ![c] = n - b]
  BY DEF Accepts, GoesOn
<1> HIDE DEF b, last
<1>4. ASSUME n - b > 0
      PROVE  CallInv' /\ outcome' = [outcome EXCEPT ![c] = last]
  <2>1. pc' = [pc EXCEPT ![c] = "request"] /\ outcome' = outcome
    BY <1>4 DEF Accepts, GoesOn, b
  <2>2. CallInv'
    BY <1>0, <1>1, <1>3, <1>4, <2>1 DEF TypeOK, CallInv
  <2>3. OwedOf(kind[c], n) # 1
    BY <1>0, <1>2, <1>4
  <2>4. outcome' = [outcome EXCEPT ![c] = last]
    <3>1. last = outcome[c]
      BY <2>3 DEF last
    <3>2. [outcome EXCEPT ![c] = outcome[c]] = outcome
      BY DEF TypeOK
    <3> QED
      BY <2>1, <3>1, <3>2
  <2> QED
    BY <2>2, <2>4
<1>5. ASSUME n - b = 0
      PROVE  CallInv' /\ outcome' = [outcome EXCEPT ![c] = last]
  <2>1. /\ pc' = [pc EXCEPT ![c] = "idle"]
        /\ outcome' = [outcome EXCEPT ![c] = "rows"]
    BY <1>5 DEF Accepts, GoesOn, b
  <2>2. CallInv'
    BY <1>3, <1>5, <2>1 DEF TypeOK, CallInv
  <2>3. OwedOf(kind[c], n) = 1
    BY <1>2, <1>5
  <2>4. outcome' = [outcome EXCEPT ![c] = last]
    <3>1. last = "rows"
      BY <2>3 DEF last
    <3> QED
      BY <2>1, <3>1
  <2> QED
    BY <2>2, <2>4
<1>6. CallInv' /\ outcome' = [outcome EXCEPT ![c] = last]
  <2>1. n - b > 0 \/ n - b = 0
    BY <1>0
  <2> QED
    BY <1>4, <1>5, <2>1
<1>7. Owed[c] = OwedOf(kind[c], n)
  BY DEF Owed
<1>8. Owed' = [Owed EXCEPT ![c] = Owed[c] - 1]
  <2>1. \A d \in Callers : OwedOf(kind'[d], remaining'[d])
                            = IF d = c THEN OwedOf(kind[c], n) - 1
                              ELSE OwedOf(kind[d], remaining[d])
    <3>1. TAKE d \in Callers
    <3>2. CASE d = c
      BY <1>2, <1>3, <3>2 DEF TypeOK
    <3>3. CASE d # c
      BY <1>3, <3>3 DEF TypeOK
    <3> QED
      BY <3>2, <3>3
  <2> QED
    BY <1>7, <2>1 DEF Owed
<1>9. PICK k \in Sizes : k = response[c]
  BY <1>3
<1>10. Source!Serves(c, k)
  <2>1. last = IF Owed[c] = 1 THEN "rows" ELSE outcome[c]
    BY <1>7 DEF last
  <2>2. /\ outcome[c] = "pending"
        /\ Owed' = [Owed EXCEPT ![c] = Owed[c] - 1]
        /\ rows' = [rows EXCEPT ![c] = rows[c] + k]
        /\ outcome' = [outcome EXCEPT ![c] = IF Owed[c] = 1 THEN "rows" ELSE outcome[c]]
    BY <1>1, <1>3, <1>6, <1>8, <1>9, <2>1
  <2> QED
    BY <2>2 DEF Source!Serves, Owed, OwedOf
<1>11. Source!Answers(c)
  BY <1>10 DEF Source!Answers
<1>12. Source!Next
  BY <1>11 DEF Source!Next
<1> QED
  BY <1>6, <1>12

\* All other steps are the client's own.
LEMMA InnerSource ==
  ASSUME TypeOK, CallInv, UNCHANGED <<kind, remaining, rows, outcome>>,
         \A c \in Callers : pc'[c] = "idle" <=> pc[c] = "idle"
  PROVE  CallInv' /\ UNCHANGED Source!vars
<1>1. CallInv'
  BY DEF CallInv
<1>2. UNCHANGED Source!vars
  BY DEF Source!vars
<1> QED
  BY <1>1, <1>2

\* For any number of sessions, chunk size and rows asked for, each call ends once, after as
\* many batches as its rows need, or with an error: the client implements RowSource
\* (client.go:114-153).
THEOREM ImplementsSource == Spec => Source!Init /\ [][Source!Next]_(Source!vars)
<1> USE LLMClientAssumption
<1>1. Init => CallInv /\ Source!Init
  <2> SUFFICES ASSUME Init
               PROVE  CallInv /\ Source!Init
    OBVIOUS
  <2>1. CallInv
    BY DEF Init, CallInv
  <2>2. \A c \in Callers : OwedOf(kind[c], remaining[c]) = 0
    BY NothingOwed DEF Init
  <2>3. Source!Init
    BY <2>2 DEF Init, Source!Init, OwedOf
  <2> QED
    BY <2>1, <2>3
<1>2. TypeOK /\ CallInv /\ [Next]_vars => CallInv' /\ [Source!Next]_(Source!vars)
  <2> SUFFICES ASSUME TypeOK, CallInv, [Next]_vars
               PROVE  CallInv' /\ [Source!Next]_(Source!vars)
    OBVIOUS
  <2>1. CASE \E c \in Callers, k \in {"table", "column"}, n \in RowCounts : Asks(c, k, n)
    BY <2>1, AsksSource
  <2>2. ASSUME NEW c \in Callers, RequestFails(c) \/ FindsNoChoices(c) \/ RunsOutOfRetries(c)
        PROVE  CallInv' /\ Source!Next
    BY <2>2, GivesUpSource DEF RequestFails, FindsNoChoices, RunsOutOfRetries
  <2>3. ASSUME NEW c \in Callers, Accepts(c)
        PROVE  CallInv' /\ Source!Next
    BY <2>3, AcceptsSource
  <2>4. ASSUME NEW c \in Callers, \/ \E r \in Responses : Responds(c, r)
                                 \/ Counts(c) \/ Retries(c)
        PROVE  CallInv' /\ UNCHANGED Source!vars
    <3>1. UNCHANGED <<kind, remaining, rows, outcome>>
      BY <2>4 DEF Responds, Counts, Retries
    <3>2. \A d \in Callers : pc'[d] = "idle" <=> pc[d] = "idle"
      BY <2>4 DEF TypeOK, Responds, Counts, Retries
    <3> QED
      BY <3>1, <3>2, InnerSource
  <2>5. CASE Ticks \/ Swaps \/ UNCHANGED vars
    BY <2>5, InnerSource DEF Ticks, Swaps, vars, call
  <2>6. ASSUME NEW c \in Callers, Works(c)
        PROVE  CallInv' /\ [Source!Next]_(Source!vars)
    BY <2>2, <2>3, <2>4, <2>6 DEF Works
  <2> QED
    BY <2>1, <2>5, <2>6 DEF Next
<1>3. Spec => []TypeOK
  <2>1. Init => IInv
    BY InitIInv
  <2>2. IInv /\ [Next]_vars => IInv'
    BY StepIInv
  <2>3. IInv => TypeOK
    BY DEF IInv
  <2> QED
    BY <2>1, <2>2, <2>3, PTL DEF Spec
<1> QED
  BY <1>1, <1>2, <1>3, PTL DEF Spec
================================================================================
