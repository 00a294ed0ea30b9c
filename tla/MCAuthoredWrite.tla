--------------------------- MODULE MCAuthoredWrite ---------------------------
(* AuthoredWrite on a small instance: two calls in two processes, of notes *)
(* so alike that each is a duplicate of any other.                         *)
EXTENDS AuthoredWrite, TLC

CONSTANTS w1, w2, n1, p1, p2, a

MCProcOf == (w1 :> p1) @@ (w2 :> p2)
MCTopic == (w1 :> a) @@ (w2 :> a)
MCSimilar == {<<a, a>>}
=============================================================================
