---------------------------- MODULE MigrationLog ----------------------------
(***************************************************************************)
(* What Migrate promises of the database, with no sessions and no lock:    *)
(* migrations are applied one at a time, each once, in filename order.     *)
(***************************************************************************)
EXTENDS Naturals, Sequences

CONSTANT N

VARIABLE schema

Init == schema = <<>>

ApplyNext ==
    /\ Len(schema) < N
    /\ schema' = Append(schema, Len(schema) + 1)

Spec == Init /\ [][ApplyNext]_schema
=============================================================================
