----------------------------- MODULE MCNotesApi -----------------------------
(* NotesApi with two notes; every key is the first note's, which is what   *)
(* replacing an attachment and confirming an old key again need.           *)
EXTENDS NotesApi

CONSTANTS n1, n2, a1, a2, c1, c2

MCOwner == [k \in Keys |-> n1]
=============================================================================
