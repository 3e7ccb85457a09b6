------------------------------ MODULE MCDeploy ------------------------------
EXTENDS Deploy
CONSTANTS api, web, g1, g2, bad
MCOnFailure == [s \in Svcs |-> IF s = api THEN "rollback" ELSE "pause"]
MCHosts == [Svcs -> {NoImage}] \cup [Svcs -> {g1}]
MCCommands == {Stack, App(api, g1), App(api, g2), App(api, bad), App(web, g1), App(web, bad)}
=============================================================================
