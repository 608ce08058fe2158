----------------------------- MODULE MCShutdown ----------------------------
(* Two receivers on two connections, one for a message at a time (the      *)
(* default) and one for two.                                               *)
EXTENDS Shutdown, TLC

CONSTANTS r1, r2, c1, c2

MCConnections == <<c1, c2>>

MCConnectionOf == r1 :> c1 @@ r2 :> c2

MCCredits == r1 :> 1 @@ r2 :> 2

=============================================================================
