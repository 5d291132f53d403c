-------------------------------- MODULE MCCatalog --------------------------------
(* Two sessions of one version; orders refer to users, and another schema has
   a table of that name. *)
EXTENDS Catalog

MCNameOf == [t \in Sources |-> IF t = "users2" THEN "users" ELSE t]
MCParents == [t \in Sources |-> IF t = "orders" THEN {"users"} ELSE {}]
MCVersion == [s \in Sessions |-> 1]
================================================================================
