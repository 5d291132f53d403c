------------------------------- MODULE MCGenerator -------------------------------
(* A table with a unique column u, a primary key p and a foreign key f to a table that
   really has the keys 1 and 2: the tracked index may be on u, on f or on both, the key
   may be filled in by the database, and the synthetic parent has one or both keys.
   u is a uuid, of which "A" and "a" are two texts; f is an integer, which rounds. *)
EXTENDS Generator

MCColumns == {"u", "p", "f"}
MCGoValue(c, v) == CASE c = "f" /\ v = "1.2" -> "1"
                     [] c = "p" /\ v = "x"   -> Bad
                     [] OTHER               -> v
MCStored(c, v) == IF c = "u" /\ v = "A" THEN "a" ELSE v

Row(u, p, f) == [u |-> u, p |-> p, f |-> f]
Shape(unique, skipped, parents) ==
  [unique |-> unique, primary |-> {"p"}, skipped |-> skipped, parents |-> [f |-> parents]]
MCShapes == {Shape({<<"u">>}, {}, {"1"}), Shape({<<"u">>}, {"p"}, {"1", "2"}),
             Shape({<<"u", "f">>}, {}, {"1", "2"}), Shape({<<"f">>, <<"u">>}, {"p"}, {"1", "2"})}
MCValid == [f |-> {"1", "2"}]
MCAnswerRows == {Row("a", "1", "1"), Row("A", "2", "1.2"), Row("a", "2", "3"),
                 Row(Null, "2", "2"), Row("b", "x", "1"), [u |-> "b", p |-> "3"]}
MCOtherRows == {Row("a", "2", "1")}
================================================================================
