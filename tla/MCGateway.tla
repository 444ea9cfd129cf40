------------------------------ MODULE MCGateway ------------------------------
(* Gateway with interchangeable requests, for the runs that check no       *)
(* liveness.                                                               *)
EXTENDS Gateway, TLC

Requests == Permutations(Cmds)
=============================================================================
