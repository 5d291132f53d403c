--------------------------------- MODULE MCSync ---------------------------------
(* Sync with a plain, a unique index on a column, and one that
   takes in a column that fills itself, for its tables. *)
EXTENDS Sync

MCShapes == {[on |-> {"a"}, unique |-> FALSE], [on |-> {"a"}, unique |-> TRUE],
             [on |-> {"a", "s"}, unique |-> FALSE]}
================================================================================
