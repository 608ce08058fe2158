----------------------------- MODULE MCSending ----------------------------
(* Two callers on one queue.                                               *)
EXTENDS Sending

CONSTANTS c1, c2, q1

=============================================================================
