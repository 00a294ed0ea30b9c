--------------------------- MODULE MCReconciliation ---------------------------
(* Tickets t and u, an entity n that is no ticket, two values; note 1 says  *)
(* that t is v, note 2 that t is w.  Operations meet each other in pairs    *)
(* and triples, so that each meeting can be explored further.               *)
EXTENDS Reconciliation

CONSTANTS t, u, n, v, w, c1, c2

Says(s, o, from) == [s |-> s, o |-> o, from |-> from]

Adds(s, o, from) == [s |-> s, o |-> o, from |-> from, source |-> s # u]

Setup(tools, callers, adds, facts, days) ==
  [tools |-> tools, callers |-> callers, byHand |-> adds, facts |-> facts, days |-> days]

Backdated == {Adds(t, v, None), Adds(t, w, 1), Adds(u, w, 2)}

MCSetups ==
  {Setup({"add", "extract"}, {c1}, {Adds(t, w, 1)}, 3, 2),
   Setup({"add", "merge"}, {c1, c2}, Backdated, 3, 2),
   Setup({"add", "invalidate"}, {c1, c2}, {Adds(t, v, None), Adds(t, w, 1)}, 3, 2),
   Setup({"add", "merge", "review"}, {c1}, Backdated, 3, 2),
   Setup({"add", "review"}, {c1, c2}, Backdated, 3, 2),
   Setup({"add", "reconcile"}, {}, {Adds(t, v, 1)}, 5, 1)}

MCRenames == {<<u, t>>, <<n, t>>, <<w, v>>, <<v, n>>}

MCBatches ==
  {<< >>, <<Says(t, v, None)>>, <<Says(t, v, 1), Says(t, w, None)>>,
   <<Says(u, w, 1), Says(n, v, None)>>}

MCAbout == <<[s |-> t, o |-> v], [s |-> t, o |-> w]>>

MCKeys == <<NoteEntry(1, 2), FactEntry(n)>>

(* What four facts have made of the ledger for a job that looks at it: t   *)
(* was v and is w, and n is both.                                          *)
MCRow(i, s, o, from, to) ==
  [id |-> i, s |-> s, o |-> o, from |-> from, to |-> to, source |-> TRUE, at |-> 1]

MCLedger ==
  {MCRow(1, t, v, 1, 1), MCRow(2, t, w, 1, None),
   MCRow(3, n, v, None, None), MCRow(4, n, w, None, None)}

MCFilled ==
  /\ setup \in Setups /\ Offers("reconcile")
  /\ day = 1
  /\ rows = MCLedger /\ last = 4 /\ split = {n}
  /\ alias = [m \in Names |-> None] /\ entity = [m \in Names |-> m]
  /\ reviews = << >>
  /\ preview = None
  /\ call = [c \in Callers |-> Idle]

MCInit == ((FactsInit /\ ~Offers("reconcile")) \/ MCFilled) /\ RecInit

MCSpec == MCInit /\ [][Next]_vars /\ Fairness
=============================================================================
