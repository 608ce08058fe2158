--------------------------- MODULE MCReattachment --------------------------
(* Two connections; two methods listen on a queue of the first, one on a   *)
(* queue of the second, and a third queue is only known to the application.*)
EXTENDS Reattachment

CONSTANTS k1, k2, q1, q2, q3

MCConnectionOf == q1 :> k1 @@ q2 :> k2 @@ q3 :> k1

MCListeners == <<q1, q2, q1>>

MCCallers == Runs \cup {App}

=============================================================================
