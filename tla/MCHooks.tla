------------------------------- MODULE MCHooks -------------------------------
EXTENDS Hooks, TLC

\* Warnings and checkpoints are a session's own; a snapshot may be another's.
MCInstalls ==
  {{"trigger"} \X {s} : s \in Sessions}
    \cup {{"checkpoint", "hint"} \X {s} : s \in Sessions}
    \cup {{"wakeup", "precompact"} \X Sessions}

Symmetry ==
  Permutations(Calls) \cup Permutations(Sessions)
    \cup Permutations(Notes \ Policies) \cup Permutations(Reasons)
=============================================================================
