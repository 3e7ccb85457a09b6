----------------------------- MODULE MCFrontend -----------------------------
(* Frontend with two tabs and one note, whose attachment can be replaced.  *)
EXTENDS Frontend, FiniteSets

CONSTANTS n1, a1, a2, c1, c2, t1, t2

MCOwner == [k \in Keys |-> n1]

\* Two files are attached at most, and of the keys that are alike a1 is drawn
\* first.  It cuts off clicks only, and nobody owes those.
TwoFiles == Cardinality(issued) <= 2 /\ (a2 \in issued => a1 \in issued)
=============================================================================
