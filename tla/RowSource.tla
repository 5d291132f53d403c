-------------------------------- MODULE RowSource --------------------------------
(***************************************************************************)
(* What GenerateTableData and GenerateColumnValues (pkg/llm/client.go)     *)
(* promise their callers: a call that asks for n rows is served in         *)
(* batches, and ends once, either with the rows of every batch or with an  *)
(* error and no rows at all.  How many rows a batch brings is up to the    *)
(* model that is asked; only the number of batches is sure.                *)
(***************************************************************************)
EXTENDS Integers

CONSTANTS Callers,    \* calls that may be under way at a time
          Chunk,      \* most rows one batch is asked for
          Sizes,      \* how many rows a batch may bring
          RowCounts   \* how many rows may be asked for

VARIABLES owed,    \* batches a call still waits for
          got,     \* rows it has been brought
          outcome  \* "none", "pending", "rows" or "error"

vars == <<owed, got, outcome>>

\* A table's rows come in chunks, the values of a column in one batch.
Batches(n) == (n + Chunk - 1) \div Chunk
BatchCounts == {Batches(n) : n \in RowCounts} \union {1}

Init == /\ owed = [c \in Callers |-> 0] /\ got = [c \in Callers |-> 0]
        /\ outcome = [c \in Callers |-> "none"]

Asks(c, batches) == /\ outcome[c] # "pending"
                    /\ owed' = [owed EXCEPT ![c] = batches]
                    /\ got' = [got EXCEPT ![c] = 0]
                    /\ outcome' = [outcome EXCEPT ![c] = "pending"]

Serves(c, k) == /\ outcome[c] = "pending"
                /\ owed' = [owed EXCEPT ![c] = @ - 1]
                /\ got' = [got EXCEPT ![c] = @ + k]
                /\ outcome' = [outcome EXCEPT ![c] = IF owed[c] = 1 THEN "rows" ELSE @]

Fails(c) == /\ outcome[c] = "pending"
            /\ owed' = [owed EXCEPT ![c] = 0]
            /\ got' = [got EXCEPT ![c] = 0]
            /\ outcome' = [outcome EXCEPT ![c] = "error"]

Answers(c) == Fails(c) \/ \E k \in Sizes : Serves(c, k)

Next == \E c \in Callers : Answers(c) \/ \E b \in BatchCounts : Asks(c, b)

Spec == Init /\ [][Next]_vars /\ \A c \in Callers : WF_vars(Answers(c))
================================================================================
