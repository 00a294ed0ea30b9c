-------------------------- MODULE MCSessionCapture --------------------------
(* Instances of SessionCapture for TLC.  One tick is five minutes; the     *)
(* activity delay and the retry ceiling are shortened, their order kept.   *)
EXTENDS SessionCapture, TLC

MCShortDelay == [activity |-> 1, precompact |-> 1, session_end |-> 0]

MCTwo == [k \in Kind |-> 2]

MCOneIfUnfit == [k \in Kind |-> IF k = "plain" THEN 2 ELSE 1]

DaemonSymmetry == Permutations(Daemons)
=============================================================================
