---------------------------- MODULE MCMigrations ----------------------------
(* Three starts: two of the current binary, one of an older one.           *)
EXTENDS Migrations
CONSTANTS r1, r2, old
MCEmbedded == [r \in Attempts |-> IF r = old THEN 1 ELSE N]
=============================================================================
