------------------------------- MODULE MCTopoSort -------------------------------
(* Three tables, with any foreign keys between them, two from the third to the
   first, and one to a table that is not listed; the tables of one schema, or of two
   that share a name. *)
EXTENDS TopoSort

MCKeys == (Tables \X Tables \X {1}) \union {<<3, 1, 2>>, <<2, 0, 1>>}
MCFrom == [k \in Keys |-> k[1]]
MCTo == [k \in Keys |-> k[2]]
MCNamings == {<<"a", "b", "c">>, <<"a", "b", "a">>, <<"a", "a", "c">>}
================================================================================
