-------------------------------- MODULE LLMClient --------------------------------
(***************************************************************************)
(* The LLM client (pkg/llm/client.go): GenerateTableData in chunks,        *)
(* GenerateColumnValues in one request, both with retries of a response    *)
(* that does not parse, and the token counters that all calls of all       *)
(* sessions share with the reporter of cmd/gendb/serve.go.                 *)
(*                                                                         *)
(* Abstractions: a response is what the client makes of its text, none at  *)
(* all (no choices), one that no fallback of the parser can read, or a     *)
(* number of rows; each response counts one token of each kind.  The       *)
(* client sets no deadline: that the server answers every request, or the  *)
(* request fails, is part of the fairness of its steps.                    *)
(***************************************************************************)
EXTENDS Integers, FiniteSets

CONSTANTS Callers,     \* sessions that use the client
          Chunk,       \* chunkSize
          Sizes,       \* numbers of rows a response may have
          RowCounts,   \* numbers of rows that may be asked for
          MaxRetries,  \* maxRetries, 2 in the code
          Kinds,       \* number of counters; the last counts the requests
          MaxAsks, MaxAnswers,  \* bounds of the model: calls of each session, responses
          NoChoices, Unreadable  \* responses without rows

ASSUME LLMClientAssumption ==
  /\ Chunk \in Nat \ {0} /\ MaxRetries \in Nat /\ Kinds \in Nat \ {0}
  /\ MaxAsks \in Nat /\ MaxAnswers \in Nat
  /\ Sizes \subseteq Nat /\ RowCounts \subseteq Nat \ {0} /\ IsFiniteSet(Callers)
  /\ NoChoices \notin Sizes /\ Unreadable \notin Sizes \union {NoChoices}

Responses == {NoChoices, Unreadable} \union Sizes
Counters == 1 .. Kinds

VARIABLES pc,         \* per session: "idle", "request", "count" or "read"
          kind,       \* "table" or "column"
          remaining,  \* rows GenerateTableData has yet to ask for
          rows,       \* rows of the chunks so far (allRows)
          attempt,    \* attempt of the request under way
          response,   \* response being worked on, NoChoices between two
          counting,   \* counter it is added to next
          outcome,    \* how the last call ended: "none", "pending", "rows" or "error"
          asks,       \* calls so far
          usage,      \* the counters
          swapping,   \* counter the reporter swaps next; 0 between two ticks
          swapped,    \* what it has swapped so far
          logged,     \* ghost: all that was logged
          answered    \* ghost: responses there were

call == <<pc, kind, remaining, rows, attempt, response, counting, outcome, asks>>
reporter == <<swapping, swapped, logged>>
vars == <<call, usage, reporter, answered>>

TypeOK == /\ pc \in [Callers -> {"idle", "request", "count", "read"}]
          /\ kind \in [Callers -> {"table", "column"}]
          /\ remaining \in [Callers -> Nat] /\ rows \in [Callers -> Nat]
          /\ attempt \in [Callers -> 0 .. MaxRetries]
          /\ response \in [Callers -> Responses]
          /\ counting \in [Callers -> Counters]
          /\ outcome \in [Callers -> {"none", "pending", "rows", "error"}]
          /\ asks \in [Callers -> 0 .. MaxAsks]
          /\ usage \in [Counters -> Nat] /\ swapped \in [Counters -> Nat]
          /\ logged \in [Counters -> Nat]
          /\ swapping \in 0 .. Kinds /\ answered \in Nat

Init == /\ pc = [c \in Callers |-> "idle"] /\ kind = [c \in Callers |-> "table"]
        /\ remaining = [c \in Callers |-> 0] /\ rows = [c \in Callers |-> 0]
        /\ attempt = [c \in Callers |-> 0] /\ response = [c \in Callers |-> NoChoices]
        /\ counting = [c \in Callers |-> 1] /\ outcome = [c \in Callers |-> "none"]
        /\ asks = [c \in Callers |-> 0]
        /\ usage = [i \in Counters |-> 0] /\ swapped = usage /\ logged = usage
        /\ swapping = 0 /\ answered = 0

--------------------------------------------------------------------------------
(* A call *)

\* The generator asks for a table's rows, or sync for a new column's values.
Asks(c, k, n) ==
  /\ pc[c] = "idle" /\ asks[c] < MaxAsks
  /\ asks' = [asks EXCEPT ![c] = @ + 1]
  /\ kind' = [kind EXCEPT ![c] = k]
  /\ remaining' = [remaining EXCEPT ![c] = n]
  /\ rows' = [rows EXCEPT ![c] = 0]
  /\ attempt' = [attempt EXCEPT ![c] = 0]
  /\ outcome' = [outcome EXCEPT ![c] = "pending"]
  /\ pc' = [pc EXCEPT ![c] = "request"]
  /\ UNCHANGED <<response, counting, usage, reporter, answered>>

\* Rows the request under way asks for: a column's values are not asked for in chunks.
BatchSize(c) == IF kind[c] = "column" \/ remaining[c] < Chunk THEN remaining[c] ELSE Chunk

\* The call returns an error; rows of earlier chunks are lost.
GivesUp(c) == /\ outcome' = [outcome EXCEPT ![c] = "error"]
              /\ pc' = [pc EXCEPT ![c] = "idle"]
              /\ remaining' = [remaining EXCEPT ![c] = 0]
              /\ rows' = [rows EXCEPT ![c] = 0]
              /\ attempt' = [attempt EXCEPT ![c] = 0]
              /\ response' = [response EXCEPT ![c] = NoChoices]

\* The API call fails: that is not retried.
RequestFails(c) == /\ pc[c] = "request"
                   /\ GivesUp(c)
                   /\ UNCHANGED <<kind, counting, asks,
                                  usage, reporter, answered>>

Responds(c, r) == /\ pc[c] = "request" /\ answered < MaxAnswers
                  /\ response' = [response EXCEPT ![c] = r]
                  /\ pc' = [pc EXCEPT ![c] = "count"]
                  /\ answered' = answered + 1
                  /\ UNCHANGED <<kind, remaining, rows, attempt, counting, outcome, asks,
                                 usage, reporter>>

\* The usage is added whatever the response, counter by counter.
Counts(c) ==
  /\ pc[c] = "count"
  /\ usage' = [usage EXCEPT ![counting[c]] = @ + 1]
  /\ IF counting[c] < Kinds
     THEN counting' = [counting EXCEPT ![c] = @ + 1] /\ UNCHANGED pc
     ELSE pc' = [pc EXCEPT ![c] = "read"] /\ counting' = [counting EXCEPT ![c] = 1]
  /\ UNCHANGED <<kind, remaining, rows, attempt, response, outcome, asks, reporter, answered>>

FindsNoChoices(c) == /\ pc[c] = "read" /\ response[c] = NoChoices
                     /\ GivesUp(c)
                     /\ UNCHANGED <<kind, counting, asks, usage, reporter, answered>>

\* The same messages again, with the unreadable text and a complaint added.
Retries(c) == /\ pc[c] = "read" /\ response[c] = Unreadable /\ attempt[c] < MaxRetries
              /\ attempt' = [attempt EXCEPT ![c] = @ + 1]
              /\ response' = [response EXCEPT ![c] = NoChoices]
              /\ pc' = [pc EXCEPT ![c] = "request"]
              /\ UNCHANGED <<kind, remaining, rows, counting, outcome, asks,
                             usage, reporter, answered>>

RunsOutOfRetries(c) == /\ pc[c] = "read" /\ response[c] = Unreadable
                       /\ attempt[c] = MaxRetries
                       /\ GivesUp(c)
                       /\ UNCHANGED <<kind, counting, asks, usage, reporter, answered>>

\* What a call goes on with after a chunk that leaves n rows to ask for.
GoesOn(c, n) == /\ remaining' = [remaining EXCEPT ![c] = n]
                /\ attempt' = [attempt EXCEPT ![c] = 0]
                /\ response' = [response EXCEPT ![c] = NoChoices]
                /\ IF n > 0
                   THEN pc' = [pc EXCEPT ![c] = "request"] /\ UNCHANGED outcome
                   ELSE /\ outcome' = [outcome EXCEPT ![c] = "rows"]
                        /\ pc' = [pc EXCEPT ![c] = "idle"]

\* Mutant: only rows that came count as asked for.
AcceptsWhatCame(c) ==
  /\ pc[c] = "read" /\ response[c] \in Sizes
  /\ rows' = [rows EXCEPT ![c] = @ + response[c]]
  /\ GoesOn(c, remaining[c] - response[c])
  /\ UNCHANGED <<kind, counting, asks, usage, reporter, answered>>

\* A chunk counts as full, however many rows it has.
Accepts(c) ==
  /\ pc[c] = "read" /\ response[c] \in Sizes
  /\ rows' = [rows EXCEPT ![c] = @ + response[c]]
  /\ GoesOn(c, remaining[c] - BatchSize(c))
  /\ UNCHANGED <<kind, counting, asks, usage, reporter, answered>>

Works(c) == \/ RequestFails(c)
            \/ \E r \in Responses : Responds(c, r)
            \/ Counts(c) \/ FindsNoChoices(c) \/ Retries(c) \/ RunsOutOfRetries(c)
            \/ Accepts(c)

--------------------------------------------------------------------------------
(* The reporter: logTokenUsage, with SnapshotUsage *)

Ticks == /\ swapping = 0
         /\ swapping' = 1
         /\ UNCHANGED <<call, usage, swapped, logged, answered>>

Swapped == [swapped EXCEPT ![swapping] = usage[swapping]]

\* After the last counter the report is logged, unless no request was counted: the tokens
\* of such a report are dropped.
Reports ==
  IF swapping < Kinds
  THEN swapping' = swapping + 1 /\ swapped' = Swapped /\ UNCHANGED logged
  ELSE /\ swapping' = 0 /\ swapped' = [i \in Counters |-> 0]
       /\ logged' = IF Swapped[Kinds] = 0 THEN logged
                    ELSE [i \in Counters |-> logged[i] + Swapped[i]]

\* Mutant: the counters are read and not reset.
SwapsNothing ==
  /\ swapping # 0
  /\ Reports
  /\ UNCHANGED <<call, usage, answered>>

\* Each counter is taken and reset in one step.
Swaps == /\ swapping # 0
         /\ usage' = [usage EXCEPT ![swapping] = 0]
         /\ Reports
         /\ UNCHANGED <<call, answered>>

Next == \/ \E c \in Callers, k \in {"table", "column"}, n \in RowCounts : Asks(c, k, n)
        \/ \E c \in Callers : Works(c)
        \/ Ticks \/ Swaps

Spec == Init /\ [][Next]_vars /\ \A c \in Callers : WF_vars(Works(c))

--------------------------------------------------------------------------------
(* What must hold *)

\* Every call ends once, with the rows of all its chunks, as many as the rows asked for
\* need, or with an error: what the generator relies on (RowSource).
Source == INSTANCE RowSource WITH
  got <- rows,
  owed <- [c \in Callers |-> IF kind[c] = "column" /\ remaining[c] > 0 THEN 1
                             ELSE (remaining[c] + Chunk - 1) \div Chunk]
SourceSpec == Source!Spec

\* Responses that were not yet added to counter i.
Uncounted(i) == {c \in Callers : pc[c] = "count" /\ counting[c] <= i}

\* What was or may yet be reported of counter i.
Known(i) == logged[i] + swapped[i] + usage[i] + Cardinality(Uncounted(i))

\* However reports and responses interleave, requests are neither lost nor reported twice,
\* and no report makes up for tokens that were never used ("SnapshotUsage returns
\* accumulated token counts and resets them to zero", client.go:39).
UsageAccounted == Known(Kinds) = answered /\ \A i \in Counters : Known(i) <= answered
================================================================================
