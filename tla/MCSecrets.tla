------------------------------ MODULE MCSecrets ------------------------------
(* The app stack's hook: the role's password, then the bucket user's.      *)
EXTENDS Secrets
MCAccounts == <<"db", "s3">>
MCAtStart == {"db"}
=============================================================================
