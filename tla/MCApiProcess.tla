---------------------------- MODULE MCApiProcess ----------------------------
(* ApiProcess, started with a good environment or one that differs from it *)
(* in up to two variables.                                                 *)
EXTENDS ApiProcess

GoodEnv == [name \in Names |-> IF name \in Secret THEN "unset" ELSE "good"]

MCEnvironments ==
    UNION {{[GoodEnv EXCEPT ![a] = x, ![b] = y] : x \in Kinds(a), y \in Kinds(b)} :
             <<a, b>> \in Names \X Names}
=============================================================================
