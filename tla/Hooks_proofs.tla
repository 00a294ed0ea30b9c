----------------------------- MODULE Hooks_proofs -----------------------------
(***************************************************************************)
(* The hooks, for every set of processes, sessions, notes and reasons:     *)
(* the types, that policies deny, that a snapshot stays until it has been  *)
(* printed, that reminders are given once and within their cap, and that   *)
(* warnings keep theirs wherever no race was lost.                         *)
(***************************************************************************)
EXTENDS Hooks, FiniteSetTheorems, TLAPS

-----------------------------------------------------------------------------
(* A process, by the stage it is at.                                       *)

(* Which hooks can be where, and what they hold there.                     *)
Staged(c) ==
  /\ c.pc \in {"asks", "answered"} => c.op \in DaemonOps /\ ~c.here
  /\ c.pc = "computes" => c.op \in DaemonOps /\ c.here
  /\ c.pc = "logs" => c.op \in DaemonOps
  /\ c.pc \in {"reads", "writes"} => c.op = "trigger" /\ c.plan.note # None /\ ~c.plan.deny
  /\ c.pc = "delivers" => c.op \in {"trigger", "hint"}
  /\ c.pc = "saves" => c.op = "precompact"
  /\ c.pc \in {"prints", "consumes"} => c.op = "wakeup"
  /\ c.pc \in {"claims", "slots", "reminds"} => c.op = "checkpoint"
  /\ c.pc \in {"slots", "reminds"} => c.slot # 0
  /\ Restores(c) => c.op = "wakeup" /\ c.recovery.number # 0
  /\ c.plan # Silent => c.op = "trigger"

(* What a hook was run for.                                                *)
Run(c) == <<c.op, c.session>> \in installed /\ c.input \in Inputs(c.op)

(* A plan is Decisions' for the whole of the call.                         *)
Deciding(c) == c.op = "trigger" /\ c.pc \in {"answered", "logs", "reads", "writes", "delivers"}

Warns(c) == c.plan.note # None /\ ~c.plan.deny

Decided(c) ==
  /\ Deciding(c) => (c.input \cap Policies # {} <=> c.plan.deny)
  /\ Deciding(c) /\ Warns(c) /\ c.pc # "delivers" =>
       /\ c.plan.note \notin c.fired
       /\ Cardinality(c.fired) < MaxWarnings

CallOK(c) ==
  /\ c \in CallType
  /\ c.pc = "idle" => c = Idle
  /\ c.pc # "idle" => Run(c)
  /\ Staged(c)
  /\ Decided(c)

CallsInv == TypeOK /\ \A h \in Calls : CallOK(call[h])

-----------------------------------------------------------------------------
(* What a step makes of a process.                                         *)

LEMMA SetsCall ==
  ASSUME call \in [Calls -> CallType], NEW h \in Calls, NEW c \in CallType, Goes(h, c)
  PROVE  /\ call' \in [Calls -> CallType]
         /\ call'[h] = c
         /\ \A g \in Calls : g # h => call'[g] = call[g]
BY DEF Goes

LEMMA KeepsCalls ==
  ASSUME CallsInv, NEW h \in Calls, NEW c, CallOK(c), Goes(h, c), installed' = installed
  PROVE  /\ call' \in [Calls -> CallType]
         /\ call'[h] = c
         /\ \A g \in Calls : g # h => call'[g] = call[g]
         /\ \A g \in Calls : CallOK(call[g])'
<1>1. /\ call' \in [Calls -> CallType]
      /\ call'[h] = c
      /\ \A g \in Calls : g # h => call'[g] = call[g]
  BY SetsCall DEF CallsInv, TypeOK, CallOK
<1>2. ASSUME NEW d PROVE Run(d)' <=> Run(d)
  BY DEF Run
<1>3. ASSUME NEW g \in Calls PROVE CallOK(call[g])'
  <2>1. CallOK(call'[g])
    BY <1>1 DEF CallsInv
  <2> QED
    BY <2>1 DEF CallOK, Run
<1> QED
  BY <1>1, <1>3

LEMMA IdleOK == CallOK(Idle)
<1> USE HooksAssumption, InstallsAssumption
<1>1. Idle \in CallType
  BY DEF Idle, CallType, Stages, Silent, PlanType, NoSnapshot
<1> QED
  BY <1>1 DEF CallOK, Idle, Staged, Decided, Deciding, Restores, NoSnapshot, Silent

LEMMA StartOK ==
  ASSUME TypeOK, NEW op \in Ops, NEW s \in Sessions, NEW input \in Inputs(op),
         <<op, s>> \in installed
  PROVE  CallOK([Idle EXCEPT !.pc = FirstStep(op), !.op = op, !.session = s, !.input = input])
<1> USE HooksAssumption
<1> DEFINE b == [Idle EXCEPT !.pc = FirstStep(op), !.op = op]
           c == [b EXCEPT !.session = s, !.input = input]
<1>1. Idle \in CallType
  BY IdleOK DEF CallOK
<1>2. input \in SUBSET (Notes \cup Reasons \cup {"compact"})
  BY DEF Inputs, Ops, DaemonOps
<1>3. FirstStep(op) \in {"asks", "saves", "claims"} /\ FirstStep(op) \in Stages
  BY DEF FirstStep, Stages
<1>4. /\ b \in CallType
      /\ b.pc = FirstStep(op) /\ b.op = op
      /\ b.here = Idle.here /\ b.plan = Idle.plan /\ b.recovery = Idle.recovery
  BY <1>1, <1>3 DEF CallType
<1>5. c = [Idle EXCEPT !.pc = FirstStep(op), !.op = op, !.session = s, !.input = input]
  OBVIOUS
<1> HIDE DEF b
<1>6. /\ c \in CallType
      /\ c.pc = FirstStep(op) /\ c.op = op /\ c.session = s /\ c.input = input
      /\ c.here = b.here /\ c.plan = b.plan /\ c.recovery = b.recovery
  BY <1>2, <1>4 DEF CallType
<1> HIDE DEF c
<1>7. ~c.here /\ c.plan = Silent /\ c.recovery = NoSnapshot
  BY <1>4, <1>6 DEF Idle
<1>8. Staged(c)
  BY <1>6, <1>7 DEF FirstStep, Ops, DaemonOps, Staged, Restores, NoSnapshot
<1>9. Decided(c) /\ Run(c) /\ c.pc # "idle"
  BY <1>3, <1>6 DEF Decided, Deciding, Run
<1> QED
  BY <1>5, <1>6, <1>8, <1>9 DEF CallOK

(* What findContinuitySnapshot can find.                                   *)
LEMMA WhatIsFound ==
  ASSUME NEW c
  PROVE  \/ Found(c) = NoSnapshot
         \/ \E s \in Sessions \cup {c.session} : /\ snaps[s] # 0
                              /\ Found(c) = [from |-> s, number |-> snaps[s]]
<1> DEFINE others == {s \in Sessions : snaps[s] # 0}
           from == IF snaps[c.session] # 0 THEN {c.session}
                   ELSE IF Cardinality(others) = 1 THEN others ELSE {}
<1>1. CASE c.input = {} \/ from = {}
  BY <1>1 DEF Found
<1>2. CASE c.input # {} /\ from # {}
  <2> DEFINE s == CHOOSE s \in from : TRUE
  <2>1. s \in from
    BY <1>2
  <2>2. Found(c) = [from |-> s, number |-> snaps[s]]
    BY <1>2 DEF Found
  <2>3. s \in Sessions \cup {c.session} /\ snaps[s] # 0
    BY <2>1
  <2> QED
    BY <2>2, <2>3
<1> QED
  BY <1>1, <1>2

LEMMA WhatIsDecided ==
  ASSUME NEW c, NEW fired, NEW p \in Decisions(c, fired), c.input \subseteq Notes
  PROVE  /\ p \in PlanType
         /\ c.input \cap Policies # {} <=> p.deny
         /\ p.note # None /\ ~p.deny => p.note \notin fired /\ Cardinality(fired) < MaxWarnings
<1> USE HooksAssumption
<1> DEFINE advice == IF Cardinality(fired) < MaxWarnings THEN c.input \ fired ELSE {}
<1>1. CASE c.input \cap Policies # {}
  <2>1. PICK n \in c.input \cap Policies : p = [note |-> n, deny |-> TRUE]
    BY <1>1 DEF Decisions
  <2> QED
    BY <1>1, <2>1 DEF PlanType
<1>2. CASE c.input \cap Policies = {}
  <2>1. p \in {[note |-> n, deny |-> FALSE] : n \in advice} \cup {Silent}
    BY <1>2 DEF Decisions
  <2>2. CASE p = Silent
    BY <1>2, <2>2 DEF Silent, PlanType
  <2>3. CASE p # Silent
    <3>1. PICK n \in advice : p = [note |-> n, deny |-> FALSE]
      BY <2>1, <2>3
    <3>2. n \in c.input /\ n \notin fired /\ Cardinality(fired) < MaxWarnings
      OBVIOUS
    <3> HIDE DEF advice
    <3> QED
      BY <1>2, <3>1, <3>2 DEF PlanType
  <2> QED
    BY <2>2, <2>3
<1> QED
  BY <1>1, <1>2

(* What a hook has computed, in either process.                            *)
LEMMA ComputedOK ==
  ASSUME CallsInv, NEW h \in Calls, NEW to,
         \/ call[h].pc = "asks" /\ to = "answered"
         \/ call[h].pc = "computes" /\ to = "logs",
         Computed(h, call[h], to), installed' = installed
  PROVE  \E c : /\ Goes(h, c) /\ CallOK(c) /\ c.pc = to /\ c.session = call[h].session
                /\ c.op = call[h].op /\ c.here = call[h].here
                /\ Restores(c) => \/ c.recovery = call[h].recovery
                                  \/ \E s \in Sessions : /\ snaps[s] # 0
                                       /\ c.recovery = [from |-> s, number |-> snaps[s]]
                /\ c.op = "trigger" => c.fired \in Reads(c.session)
<1> USE HooksAssumption
<1> DEFINE c == call[h]
<1>1. CallOK(c) /\ c \in CallType /\ c.session \in Sessions /\ Run(c) /\ Staged(c)
  BY DEF CallsInv, CallOK, Run, TypeOK
<1>2. to \in Stages /\ to \in {"answered", "logs"}
  BY DEF Stages
<1>3. CASE TriggerComputes(h, c, to)
  <2>0. PICK fired \in Reads(c.session) : \E p \in Decisions(c, fired) :
          Goes(h, [c EXCEPT !.pc = to, !.plan = p, !.fired = fired])
    BY <1>3 DEF TriggerComputes
  <2>1. PICK p \in Decisions(c, fired) :
          Goes(h, [c EXCEPT !.pc = to, !.plan = p, !.fired = fired])
    BY <2>0
  <2> DEFINE d == [c EXCEPT !.pc = to, !.plan = p, !.fired = fired]
  <2>2. c.op = "trigger" /\ c.input \subseteq Notes
    BY <1>1, <1>3 DEF TriggerComputes, Run, Inputs
  <2>3. /\ p \in PlanType
        /\ c.input \cap Policies # {} <=> p.deny
        /\ p.note # None /\ ~p.deny => p.note \notin fired /\ Cardinality(fired) < MaxWarnings
    BY <2>2, WhatIsDecided
  <2>4. fired \in SUBSET Notes
    BY <1>1, <2>0 DEF CallsInv, TypeOK, Reads
  <2>5. /\ d \in CallType /\ d.pc = to /\ d.plan = p /\ d.fired = fired
        /\ d.op = c.op /\ d.session = c.session /\ d.input = c.input /\ d.here = c.here
        /\ d.recovery = c.recovery
    <3> HIDE DEF c
    <3> QED BY <1>1, <1>2, <2>3, <2>4 DEF CallType
  <2> HIDE DEF d, c
  <2>6. Staged(d)
    BY <1>1, <1>2, <2>2, <2>5 DEF Staged, Restores, DaemonOps, c
  <2>7. Decided(d)
    BY <2>3, <2>5, <2>2 DEF Decided, Deciding, Warns
  <2>8. CallOK(d)
    BY <1>1, <1>2, <2>5, <2>6, <2>7 DEF CallOK, Run
  <2>9. Goes(h, d)
    BY <2>1 DEF d
  <2> QED
    BY <2>0, <2>8, <2>9, <2>5 DEF c
<1>4. CASE HintComputes(h, c, to)
  <2> DEFINE d == [c EXCEPT !.pc = to]
  <2>1. Goes(h, d) /\ c.op = "hint"
    BY <1>4 DEF HintComputes
  <2>5. /\ d \in CallType /\ d.pc = to /\ d.plan = c.plan
        /\ d.op = c.op /\ d.session = c.session /\ d.input = c.input /\ d.here = c.here
        /\ d.recovery = c.recovery
    <3> HIDE DEF c
    <3> QED BY <1>1, <1>2 DEF CallType
  <2> HIDE DEF d, c
  <2>6. Staged(d)
    BY <1>1, <1>2, <2>1, <2>5 DEF Staged, Restores, DaemonOps, c
  <2>8. CallOK(d)
    BY <1>1, <1>2, <2>1, <2>5, <2>6 DEF CallOK, Run, Decided, Deciding
  <2>9. Restores(d) => d.recovery = c.recovery
    BY <2>5
  <2> QED
    BY <2>1, <2>8, <2>5, <2>9 DEF c
<1>5. CASE WakeupComputes(h, c, to)
  <2> DEFINE d == [c EXCEPT !.pc = to, !.recovery = Found(c)]
  <2>1. Goes(h, d) /\ c.op = "wakeup"
    BY <1>5 DEF WakeupComputes
  <2>2. \/ Found(c) = NoSnapshot
        \/ \E s \in Sessions : /\ snaps[s] # 0
                               /\ Found(c) = [from |-> s, number |-> snaps[s]]
    BY WhatIsFound, <1>1
  <2>3. Found(c) \in [from : Sessions \cup {None}, number : 0..MaxSnapshots]
    BY <2>2 DEF NoSnapshot, CallsInv, TypeOK
  <2>5. /\ d \in CallType /\ d.pc = to /\ d.plan = c.plan
        /\ d.op = c.op /\ d.session = c.session /\ d.input = c.input /\ d.here = c.here
        /\ d.recovery = Found(c)
    <3> HIDE DEF c
    <3> QED BY <1>1, <1>2, <2>3 DEF CallType
  <2> HIDE DEF d, c
  <2>4. Restores(d) => d.recovery.number # 0
    BY <2>2, <2>5 DEF Restores, NoSnapshot
  <2>6. Staged(d)
    <3>1. Restores(d) => d.op = "wakeup" /\ d.recovery.number # 0
      BY <2>1, <2>4, <2>5
    <3>2. c.pc \in {"asks", "computes"} /\ d.pc = to /\ d.op = "wakeup"
      BY <2>1, <2>5 DEF c
    <3> QED
      BY <1>1, <1>2, <2>1, <2>5, <3>1, <3>2 DEF Staged, DaemonOps, c
  <2>8. CallOK(d)
    BY <1>1, <1>2, <2>1, <2>5, <2>6 DEF CallOK, Run, Decided, Deciding
  <2> QED
    BY <2>1, <2>2, <2>8, <2>5 DEF c, Restores, NoSnapshot
<1> QED
  BY <1>3, <1>4, <1>5 DEF Computed

-----------------------------------------------------------------------------
(* The processes after each action.                                        *)

(* A step of h; the other processes stay where they are.                   *)
Steps(h) ==
  /\ installed' = installed
  /\ call' \in [Calls -> CallType]
  /\ \A g \in Calls : g # h => call'[g] = call[g]
  /\ \A g \in Calls : CallOK(call[g])'

(* The same run of a hook, further on.                                     *)
SameRun(h) ==
  /\ call'[h].op = call[h].op /\ call'[h].session = call[h].session
  /\ call'[h].input = call[h].input /\ call'[h].here = call[h].here
  /\ call'[h].plan = call[h].plan /\ call'[h].recovery = call[h].recovery

LEMMA EndSteps ==
  ASSUME CallsInv, NEW h \in Calls, Ends(h), installed' = installed
  PROVE  Steps(h) /\ call'[h] = Idle
BY IdleOK, KeepsCalls DEF Ends, Steps

LEMMA StartSteps ==
  ASSUME CallsInv, NEW h \in Calls, NEW op \in Ops, NEW s \in Sessions,
         NEW input \in Inputs(op), HookStarts(h, op, s, input)
  PROVE  /\ Steps(h)
         /\ call'[h].pc \in {"asks", "saves", "claims"}
         /\ call'[h].recovery = NoSnapshot
<1> DEFINE c == [Idle EXCEPT !.pc = FirstStep(op), !.op = op, !.session = s, !.input = input]
<1>1. CallOK(c) /\ Goes(h, c) /\ installed' = installed
  BY StartOK DEF HookStarts, CallsInv
<1>2. c.pc = FirstStep(op) /\ c.recovery = NoSnapshot
  BY DEF Idle
<1> HIDE DEF c
<1> QED
  BY <1>1, <1>2, KeepsCalls DEF Steps, FirstStep

LEMMA ComputeSteps ==
  ASSUME CallsInv, NEW h \in Calls, DaemonComputes(h) \/ ComputesHere(h)
  PROVE  /\ Steps(h)
         /\ call[h].pc \in {"asks", "computes"}
         /\ call'[h].pc = IF call[h].pc = "asks" THEN "answered" ELSE "logs"
         /\ call'[h].session = call[h].session
         /\ call'[h].op = call[h].op /\ call'[h].here = call[h].here
         /\ Restores(call'[h]) =>
              \/ call'[h].recovery = call[h].recovery
              \/ \E s \in Sessions : /\ snaps[s] # 0
                   /\ call'[h].recovery = [from |-> s, number |-> snaps[s]]
         /\ call'[h].op = "trigger" => call'[h].fired \in Reads(call[h].session)
<1> DEFINE to == IF call[h].pc = "asks" THEN "answered" ELSE "logs"
<1>1. /\ \/ call[h].pc = "asks" /\ to = "answered"
         \/ call[h].pc = "computes" /\ to = "logs"
      /\ Computed(h, call[h], to) /\ installed' = installed
  BY DEF DaemonComputes, ComputesHere
<1> HIDE DEF to
<1>2. PICK c : /\ Goes(h, c) /\ CallOK(c) /\ c.pc = to /\ c.session = call[h].session
               /\ c.op = call[h].op /\ c.here = call[h].here
               /\ Restores(c) => \/ c.recovery = call[h].recovery
                                 \/ \E s \in Sessions : /\ snaps[s] # 0
                                      /\ c.recovery = [from |-> s, number |-> snaps[s]]
               /\ c.op = "trigger" => c.fired \in Reads(c.session)
  BY <1>1, ComputedOK
<1>3. Steps(h) /\ call'[h] = c
  BY <1>1, <1>2, KeepsCalls DEF Steps
<1> QED
  BY <1>1, <1>2, <1>3

(* A process that only goes on to another stage.                           *)
LEMMA MoveSteps ==
  ASSUME CallsInv, NEW h \in Calls, NEW to \in Stages \ {"idle"}, Moves(h, to),
         installed' = installed, call[h].pc # "idle",
         Staged([call[h] EXCEPT !.pc = to]),
         Decided([call[h] EXCEPT !.pc = to])
  PROVE  /\ Steps(h) /\ SameRun(h) /\ call'[h].pc = to
         /\ call'[h].fired = call[h].fired
<1> DEFINE c == [call[h] EXCEPT !.pc = to]
<1>1. CallOK(call[h]) /\ call[h] \in CallType /\ Run(call[h])
  BY DEF CallsInv, CallOK
<1>2. /\ c \in CallType /\ c.pc = to
      /\ c.op = call[h].op /\ c.session = call[h].session /\ c.input = call[h].input
      /\ c.here = call[h].here /\ c.plan = call[h].plan /\ c.recovery = call[h].recovery
      /\ c.fired = call[h].fired
  BY <1>1 DEF CallType
<1>3. Goes(h, c) /\ Staged(c) /\ Decided(c)
  BY DEF Moves
<1> HIDE DEF c
<1>4. CallOK(c)
  BY <1>1, <1>2, <1>3 DEF CallOK, Run
<1> QED
  BY <1>2, <1>3, <1>4, KeepsCalls DEF Steps, SameRun

LEMMA AnswerSteps ==
  ASSUME CallsInv, NEW h \in Calls, TakesAnswer(h)
  PROVE  /\ Steps(h) /\ SameRun(h) /\ call[h].pc = "answered" /\ ~call[h].here
         /\ call'[h].pc = IF call[h].op = "wakeup" THEN "prints" ELSE "logs"
         /\ call'[h].fired = call[h].fired
<1> DEFINE to == IF call[h].op = "wakeup" THEN "prints" ELSE "logs"
           c == [call[h] EXCEPT !.pc = to]
<1>1. /\ CallOK(call[h]) /\ call[h] \in CallType /\ Staged(call[h]) /\ Decided(call[h])
      /\ call[h].pc = "answered" /\ ~call[h].here /\ Moves(h, to) /\ installed' = installed
  BY DEF CallsInv, CallOK, TakesAnswer, Staged
<1>2. to \in Stages \ {"idle"} /\ to \in {"prints", "logs"}
  BY DEF Stages
<1>3. /\ c.pc = to /\ c.op = call[h].op /\ c.input = call[h].input /\ c.here = call[h].here
      /\ c.plan = call[h].plan /\ c.recovery = call[h].recovery /\ c.fired = call[h].fired
  BY <1>1 DEF CallType
<1>5. Staged(c)
  <2> HIDE DEF c
  <2> QED BY <1>1, <1>3 DEF Staged, Restores
<1>6. Decided(c)
  <2> HIDE DEF c
  <2> QED BY <1>1, <1>2, <1>3 DEF Decided, Deciding, Warns
<1> HIDE DEF to
<1>7. Steps(h) /\ SameRun(h) /\ call'[h].pc = to /\ call'[h].fired = call[h].fired
  BY <1>1, <1>2, <1>5, <1>6, MoveSteps
<1> QED
  BY <1>1, <1>7 DEF to

LEMMA FallBackSteps ==
  ASSUME CallsInv, NEW h \in Calls, FallsBack(h)
  PROVE  /\ Steps(h) /\ call[h].pc \in {"asks", "answered"}
         /\ call'[h].pc = "computes" /\ call'[h].recovery = NoSnapshot
<1> USE HooksAssumption
<1> DEFINE b == [call[h] EXCEPT !.pc = "computes", !.here = TRUE, !.plan = Silent]
           c == [b EXCEPT !.recovery = NoSnapshot, !.fired = {}]
<1>1. /\ CallOK(call[h]) /\ call[h] \in CallType /\ Staged(call[h]) /\ Run(call[h])
      /\ call[h].pc \in {"asks", "answered"} /\ Goes(h, c) /\ installed' = installed
  BY DEF CallsInv, CallOK, FallsBack
<1>2. Silent \in PlanType /\ "computes" \in Stages
      /\ NoSnapshot \in [from : Sessions \cup {None}, number : 0..MaxSnapshots]
  BY DEF Silent, PlanType, Stages, NoSnapshot
<1>3. /\ b \in CallType /\ b.pc = "computes" /\ b.here /\ b.plan = Silent
      /\ b.op = call[h].op /\ b.session = call[h].session /\ b.input = call[h].input
  BY <1>1, <1>2 DEF CallType
<1> HIDE DEF b
<1>4. /\ c \in CallType /\ c.pc = "computes" /\ c.here /\ c.plan = Silent
      /\ c.op = call[h].op /\ c.session = call[h].session /\ c.input = call[h].input
      /\ c.recovery = NoSnapshot
  BY <1>2, <1>3 DEF CallType
<1> HIDE DEF c
<1>5. Staged(c)
  BY <1>1, <1>4 DEF Staged, Restores, NoSnapshot
<1>6. CallOK(c)
  BY <1>1, <1>4, <1>5 DEF CallOK, Decided, Deciding, Run
<1> QED
  BY <1>1, <1>4, <1>6, KeepsCalls DEF Steps

LEMMA LogSteps ==
  ASSUME CallsInv, NEW h \in Calls, Logs(h)
  PROVE  /\ Steps(h) /\ SameRun(h) /\ call[h].pc = "logs"
         /\ call'[h].pc = AfterLog(call[h])
         /\ call'[h].pc \in {"prints", "consumes", "reads", "delivers"}
         /\ call'[h].pc \in {"prints", "consumes"} <=> call[h].op = "wakeup"
         /\ call'[h].pc = "delivers" => ~Warns(call'[h])
         /\ call'[h].fired = call[h].fired
<1> DEFINE to == AfterLog(call[h])
           c == [call[h] EXCEPT !.pc = to]
<1>1. /\ CallOK(call[h]) /\ call[h] \in CallType /\ Staged(call[h]) /\ Decided(call[h])
      /\ call[h].pc = "logs" /\ Moves(h, to) /\ installed' = installed
  BY DEF CallsInv, CallOK, Logs
<1>2. to \in {"prints", "consumes", "reads", "delivers"} /\ call[h].op \in DaemonOps
  BY <1>1 DEF AfterLog, Staged
<1>3. /\ c.pc = to /\ c.op = call[h].op /\ c.input = call[h].input /\ c.here = call[h].here
      /\ c.plan = call[h].plan /\ c.recovery = call[h].recovery /\ c.fired = call[h].fired
  BY <1>1 DEF CallType
<1>4. /\ to \in {"prints", "consumes"} <=> call[h].op = "wakeup"
      /\ to = "reads" <=> call[h].op = "trigger" /\ Warns(call[h])
  BY DEF AfterLog, Warns
<1>5. Staged(c)
  <2> HIDE DEF c, to
  <2> QED BY <1>1, <1>2, <1>3, <1>4 DEF Staged, Restores, Warns, DaemonOps
<1>6. Decided(c)
  <2> HIDE DEF c, to
  <2> QED BY <1>1, <1>2, <1>3 DEF Decided, Deciding, Warns
<1>7. call[h].op = "hint" => ~Warns(call[h])
  BY <1>1 DEF Staged, Warns, Silent
<1> HIDE DEF to
<1>8. to \in Stages \ {"idle"}
  BY <1>2 DEF Stages
<1>9. Steps(h) /\ SameRun(h) /\ call'[h].pc = to /\ call'[h].fired = call[h].fired
  BY <1>1, <1>8, <1>5, <1>6, MoveSteps
<1> QED
  BY <1>1, <1>2, <1>4, <1>7, <1>9 DEF to, SameRun, Warns, DaemonOps

LEMMA ReadSteps ==
  ASSUME CallsInv, NEW h \in Calls, AppendReads(h)
  PROVE  /\ Steps(h) /\ SameRun(h) /\ call[h].pc = "reads" /\ Warns(call[h])
         /\ \E m \in Reads(call[h].session) :
              IF call[h].plan.note \in m
              THEN call'[h].pc = "delivers" /\ races' = RacesOn(call[h])
              ELSE /\ call'[h].pc = "writes" /\ call'[h].fired = call[h].fired
                   /\ call'[h].current = m /\ races' = races
<1> DEFINE c == call[h]
<1>1. /\ CallOK(c) /\ c \in CallType /\ Staged(c) /\ Decided(c) /\ Run(c)
      /\ c.pc = "reads" /\ Warns(c) /\ installed' = installed
  BY DEF CallsInv, CallOK, AppendReads, Staged, Warns
<1>2. PICK m \in Reads(c.session) :
        IF c.plan.note \in m
        THEN Goes(h, [c EXCEPT !.pc = "delivers", !.fired = {}]) /\ races' = RacesOn(c)
        ELSE Goes(h, [c EXCEPT !.pc = "writes", !.current = m]) /\ UNCHANGED races
  BY DEF AppendReads
<1> DEFINE d1 == [c EXCEPT !.pc = "delivers", !.fired = {}]
           d2 == [c EXCEPT !.pc = "writes", !.current = m]
<1>5. m \in SUBSET Notes
  BY <1>1, <1>2, InstallsAssumption DEF CallsInv, TypeOK, Run, Reads
<1>3. CASE c.plan.note \in m
  <2>1. Goes(h, d1) /\ races' = RacesOn(c)
    BY <1>2, <1>3
  <2>2. /\ d1 \in CallType /\ d1.pc = "delivers"
        /\ d1.op = c.op /\ d1.session = c.session /\ d1.input = c.input /\ d1.here = c.here
        /\ d1.plan = c.plan /\ d1.recovery = c.recovery
    <3> HIDE DEF c
    <3> QED BY <1>1 DEF CallType, Stages
  <2> HIDE DEF c, d1
  <2>3. CallOK(d1)
    BY <1>1, <2>2 DEF CallOK, Run, Staged, Decided, Deciding, Restores
  <2> QED
    BY <1>1, <1>2, <1>3, <2>1, <2>2, <2>3, KeepsCalls DEF Steps, SameRun, c
<1>4. CASE c.plan.note \notin m
  <2>1. Goes(h, d2) /\ races' = races
    BY <1>2, <1>4
  <2>2. /\ d2 \in CallType /\ d2.pc = "writes" /\ d2.current = m
        /\ d2.op = c.op /\ d2.session = c.session /\ d2.input = c.input /\ d2.here = c.here
        /\ d2.plan = c.plan /\ d2.recovery = c.recovery /\ d2.fired = c.fired
    <3> HIDE DEF c
    <3> QED BY <1>1, <1>5 DEF CallType, Stages
  <2> HIDE DEF c, d2
  <2>3. CallOK(d2)
    BY <1>1, <2>2 DEF CallOK, Run, Staged, Decided, Deciding, Restores, Warns
  <2> QED
    BY <1>1, <1>2, <1>4, <2>1, <2>2, <2>3, KeepsCalls DEF Steps, SameRun, c
<1> QED
  BY <1>3, <1>4

LEMMA WriteSteps ==
  ASSUME CallsInv, NEW h \in Calls, AppendWrites(h)
  PROVE  /\ Steps(h) /\ SameRun(h) /\ call[h].pc = "writes" /\ Warns(call[h])
         /\ call'[h].pc = "delivers"
<1> DEFINE c == call[h]
           d == [c EXCEPT !.pc = "delivers", !.fired = {}, !.current = {}]
<1>1. /\ CallOK(c) /\ c \in CallType /\ Staged(c) /\ Decided(c) /\ Run(c)
      /\ c.pc = "writes" /\ Warns(c) /\ installed' = installed /\ Goes(h, d)
  BY DEF CallsInv, CallOK, AppendWrites, Staged, Warns
<1>2. /\ d \in CallType /\ d.pc = "delivers"
      /\ d.op = c.op /\ d.session = c.session /\ d.input = c.input /\ d.here = c.here
      /\ d.plan = c.plan /\ d.recovery = c.recovery
  <2> HIDE DEF c
  <2> QED BY <1>1 DEF CallType, Stages
<1> HIDE DEF c, d
<1>3. CallOK(d)
  BY <1>1, <1>2 DEF CallOK, Run, Staged, Decided, Deciding, Restores
<1> QED
  BY <1>1, <1>2, <1>3, KeepsCalls DEF Steps, SameRun, c

LEMMA PrintSteps ==
  ASSUME CallsInv, NEW h \in Calls, Prints(h)
  PROVE  /\ Steps(h) /\ SameRun(h) /\ call[h].pc = "prints" /\ call[h].op = "wakeup"
         /\ call'[h].pc = IF call[h].here THEN "consumes" ELSE "logs"
<1> DEFINE to == IF call[h].here THEN "consumes" ELSE "logs"
           c == [call[h] EXCEPT !.pc = to]
<1>1. /\ CallOK(call[h]) /\ call[h] \in CallType /\ Staged(call[h]) /\ Decided(call[h])
      /\ call[h].pc = "prints" /\ call[h].op = "wakeup" /\ Moves(h, to)
      /\ installed' = installed
  BY DEF CallsInv, CallOK, Prints, Staged
<1>3. /\ c.pc = to /\ c.op = call[h].op /\ c.input = call[h].input /\ c.here = call[h].here
      /\ c.plan = call[h].plan /\ c.recovery = call[h].recovery
  BY <1>1 DEF CallType
<1>5. Staged(c) /\ Decided(c)
  <2> HIDE DEF c
  <2> QED BY <1>1, <1>3 DEF Staged, Restores, DaemonOps, Decided, Deciding
<1>8. to \in Stages \ {"idle"}
  BY DEF Stages
<1> HIDE DEF to
<1>9. Steps(h) /\ SameRun(h) /\ call'[h].pc = to
  BY <1>1, <1>8, <1>5, MoveSteps
<1> QED
  BY <1>1, <1>9 DEF to

(* The reason that a checkpoint hook was run for.                          *)
LEMMA ReasonOf ==
  ASSUME NEW c, Run(c), c.op = "checkpoint"
  PROVE  Reason(c) \in Reasons /\ c.input = {Reason(c)}
<1>1. PICK r \in Reasons : c.input = {r}
  BY DEF Run, Inputs
<1>2. Reason(c) = r
  BY <1>1 DEF Reason
<1> QED
  BY <1>1, <1>2

LEMMA ClaimSteps ==
  ASSUME CallsInv, NEW h \in Calls, CheckpointClaims(h),
         Reason(call[h]) \notin claims[call[h].session]
  PROVE  /\ Steps(h) /\ SameRun(h) /\ call[h].pc = "claims"
         /\ call'[h].pc = "slots"
<1> USE HooksAssumption
<1> DEFINE c == call[h]
           d == [c EXCEPT !.pc = "slots", !.slot = 1]
<1>1. /\ CallOK(c) /\ c \in CallType /\ Staged(c) /\ Decided(c) /\ Run(c)
      /\ c.pc = "claims" /\ installed' = installed /\ Goes(h, d)
  BY DEF CallsInv, CallOK, CheckpointClaims
<1>4. 1 \in 0..MaxCheckpoints + 1
  <2>1. MaxCheckpoints \in Nat
    OBVIOUS
  <2> QED
    BY <2>1
<1>2. /\ d \in CallType /\ d.pc = "slots" /\ d.slot = 1
      /\ d.op = c.op /\ d.session = c.session /\ d.input = c.input /\ d.here = c.here
      /\ d.plan = c.plan /\ d.recovery = c.recovery
  <2> HIDE DEF c
  <2> QED BY <1>1, <1>4 DEF CallType, Stages
<1> HIDE DEF c, d
<1>3. CallOK(d)
  BY <1>1, <1>2 DEF CallOK, Run, Staged, Decided, Deciding, Restores
<1> QED
  BY <1>1, <1>2, <1>3, KeepsCalls DEF Steps, SameRun, c

LEMMA NextSlotSteps ==
  ASSUME CallsInv, NEW h \in Calls, CheckpointTriesNext(h)
  PROVE  /\ Steps(h) /\ SameRun(h) /\ call[h].pc = "slots"
         /\ call'[h].pc = "slots"
<1> USE HooksAssumption
<1> DEFINE c == call[h]
           d == [c EXCEPT !.slot = c.slot + 1]
<1>1. /\ CallOK(c) /\ c \in CallType /\ Staged(c) /\ Decided(c) /\ Run(c)
      /\ c.pc = "slots" /\ installed' = installed /\ Goes(h, d) /\ c.slot =< MaxCheckpoints
  BY DEF CallsInv, CallOK, CheckpointTriesNext
<1>0. c.slot \in 0..MaxCheckpoints + 1
  BY <1>1 DEF CallType
<1>4. c.slot + 1 \in 0..MaxCheckpoints + 1 /\ c.slot + 1 # 0
  BY <1>0, <1>1
<1>2. /\ d \in CallType /\ d.pc = "slots" /\ d.slot = c.slot + 1
      /\ d.op = c.op /\ d.session = c.session /\ d.input = c.input /\ d.here = c.here
      /\ d.plan = c.plan /\ d.recovery = c.recovery
  <2> HIDE DEF c
  <2> QED BY <1>1, <1>4 DEF CallType, Stages
<1> HIDE DEF c, d
<1>3. CallOK(d)
  BY <1>1, <1>2, <1>4 DEF CallOK, Run, Staged, Decided, Deciding, Restores
<1> QED
  BY <1>1, <1>2, <1>3, KeepsCalls DEF Steps, SameRun, c

LEMMA TakeSteps ==
  ASSUME CallsInv, NEW h \in Calls, CheckpointTakes(h)
  PROVE  /\ Steps(h) /\ SameRun(h) /\ call[h].pc = "slots"
         /\ call'[h].pc = "reminds"
         /\ call[h].slot \in 1..MaxCheckpoints
<1> USE HooksAssumption
<1> DEFINE c == [call[h] EXCEPT !.pc = "reminds"]
<1>1. /\ CallOK(call[h]) /\ call[h] \in CallType /\ Staged(call[h]) /\ Decided(call[h])
      /\ call[h].pc = "slots" /\ Moves(h, "reminds") /\ call[h].slot =< MaxCheckpoints
      /\ installed' = installed
  BY DEF CallsInv, CallOK, CheckpointTakes
<1>2. call[h].slot \in 1..MaxCheckpoints
  <2>1. call[h].slot \in 0..MaxCheckpoints + 1 /\ call[h].slot # 0
    BY <1>1 DEF CallType, Staged
  <2> QED
    BY <2>1, <1>1
<1>3. /\ c.pc = "reminds" /\ c.op = call[h].op /\ c.input = call[h].input
      /\ c.here = call[h].here
      /\ c.plan = call[h].plan /\ c.recovery = call[h].recovery /\ c.slot = call[h].slot
  BY <1>1 DEF CallType
<1>5. Staged(c) /\ Decided(c)
  <2> HIDE DEF c
  <2> QED BY <1>1, <1>3 DEF Staged, Restores, DaemonOps, Decided, Deciding
<1>9. Steps(h) /\ SameRun(h) /\ call'[h].pc = "reminds"
  BY <1>1, <1>5, MoveSteps DEF Stages
<1> QED
  BY <1>1, <1>2, <1>9

-----------------------------------------------------------------------------
(* Types, and the plans of the calls.                                       *)

(* A restored snapshot is one that was written.                            *)
Recovers == \A h \in Calls : Restores(call[h]) => call[h].recovery.number \in 1..MaxSnapshots

LEMMA RecoversHolds == CallsInv => Recovers
<1> SUFFICES ASSUME CallsInv, NEW h \in Calls, Restores(call[h])
             PROVE  call[h].recovery.number \in 1..MaxSnapshots
  BY DEF Recovers
<1>1. call[h].recovery.number \in 0..MaxSnapshots /\ call[h].recovery.number # 0
  BY DEF CallsInv, CallOK, CallType, Staged
<1>2. MaxSnapshots \in Nat
  BY HooksAssumption
<1> QED
  BY <1>1, <1>2

(* One step of Next, by the process that takes it.                         *)
Step(h) ==
  \/ \E op \in Ops : \E s \in Sessions : \E input \in Inputs(op) : HookStarts(h, op, s, input)
  \/ DaemonComputes(h) \/ TakesAnswer(h) \/ FallsBack(h)
  \/ ComputesHere(h) \/ ComputeFails(h) \/ Logs(h)
  \/ AppendReads(h) \/ AppendWrites(h) \/ AppendFails(h)
  \/ Delivers(h)
  \/ PrecompactSaves(h) \/ PrecompactFails(h) \/ Prints(h) \/ Consumes(h)
  \/ CheckpointClaims(h) \/ CheckpointFails(h) \/ CheckpointTakes(h)
  \/ CheckpointTriesNext(h) \/ CheckpointGivesUp(h) \/ CheckpointReminds(h)
  \/ HookKilled(h)

(* Every step leaves the processes well formed.                            *)
LEMMA StepSteps ==
  ASSUME CallsInv, NEW h \in Calls, Step(h)
  PROVE  Steps(h)
<1>1. CASE \E op \in Ops : \E s \in Sessions : \E input \in Inputs(op) :
             HookStarts(h, op, s, input)
  BY <1>1, StartSteps
<1>2. CASE DaemonComputes(h) \/ ComputesHere(h)
  BY <1>2, ComputeSteps
<1>3. CASE TakesAnswer(h)
  BY <1>3, AnswerSteps
<1>4. CASE FallsBack(h)
  BY <1>4, FallBackSteps
<1>5. CASE Logs(h)
  BY <1>5, LogSteps
<1>6. CASE AppendReads(h)
  BY <1>6, ReadSteps
<1>7. CASE AppendWrites(h)
  BY <1>7, WriteSteps
<1>8. CASE ComputeFails(h) \/ AppendFails(h) \/ PrecompactFails(h) \/ CheckpointFails(h)
  BY <1>8, EndSteps DEF ComputeFails, AppendFails, PrecompactFails, CheckpointFails
<1>9. CASE Delivers(h)
  BY <1>9, EndSteps DEF Delivers
<1>10. CASE PrecompactSaves(h)
  BY <1>10, EndSteps DEF PrecompactSaves
<1>11. CASE Prints(h)
  BY <1>11, PrintSteps
<1>12. CASE Consumes(h)
  BY <1>12, EndSteps DEF Consumes
<1>13. CASE CheckpointClaims(h)
  <2>1. CASE Reason(call[h]) \in claims[call[h].session]
    BY <1>13, <2>1, EndSteps DEF CheckpointClaims
  <2>2. CASE Reason(call[h]) \notin claims[call[h].session]
    BY <1>13, <2>2, ClaimSteps
  <2> QED
    BY <2>1, <2>2
<1>14. CASE CheckpointTakes(h)
  BY <1>14, TakeSteps
<1>15. CASE CheckpointTriesNext(h)
  BY <1>15, NextSlotSteps
<1>16. CASE CheckpointGivesUp(h)
  BY <1>16, EndSteps DEF CheckpointGivesUp
<1>17. CASE CheckpointReminds(h)
  BY <1>17, EndSteps DEF CheckpointReminds
<1>18. CASE HookKilled(h)
  BY <1>18, EndSteps DEF HookKilled
<1> QED
  BY <1>1, <1>2, <1>3, <1>4, <1>5, <1>6, <1>7, <1>8, <1>9, <1>10, <1>11, <1>12, <1>13,
     <1>14, <1>15, <1>16, <1>17, <1>18 DEF Step

LEMMA NextIsStep ==
  ASSUME Next
  PROVE  (\E h \in Calls : Step(h)) \/ (\E s \in Sessions : SnapshotExpires(s))
BY DEF Next, Step

(* The files and the ghosts keep their types; one part per group of files. *)
TriggerTypes ==
  /\ marker \in [Sessions -> SUBSET Notes]
  /\ warned \in [Sessions -> Nat] /\ races \in [Sessions -> Nat]

CheckpointTypes ==
  /\ claims \in [Sessions -> SUBSET Reasons]
  /\ slots \in [Sessions -> [1..MaxCheckpoints -> Reasons \cup {None, Spoiled}]]
  /\ reminded \in [Sessions -> [Reasons -> Nat]]
  /\ burned \in [Sessions -> SUBSET Reasons]

SnapshotTypes ==
  /\ snaps \in [Sessions -> 0..MaxSnapshots]
  /\ written \in [Sessions -> 0..MaxSnapshots]
  /\ read \in [Sessions -> SUBSET (1..MaxSnapshots)] /\ raced \subseteq Sessions

LEMMA Parts ==
  CallsInv => TriggerTypes /\ CheckpointTypes /\ SnapshotTypes
BY DEF CallsInv, TypeOK, TriggerTypes, CheckpointTypes, SnapshotTypes

LEMMA SessionOf ==
  ASSUME CallsInv, NEW h \in Calls, call[h].pc # "idle"
  PROVE  /\ call[h].session \in Sessions /\ call[h].op \in Ops
         /\ Run(call[h]) /\ call[h] \in CallType /\ Staged(call[h]) /\ Decided(call[h])
BY DEF CallsInv, TypeOK, CallOK, Run

LEMMA TriggerTypesStep ==
  ASSUME CallsInv, NEW h \in Calls, Step(h)
  PROVE  TriggerTypes'
<1> DEFINE c == call[h]
<1>0. TriggerTypes
  BY Parts
<1>1. CASE UNCHANGED triggerVars
  BY <1>0, <1>1 DEF triggerVars, TriggerTypes
<1>2. ASSUME c.session \in Sessions PROVE RacesOn(c) \in [Sessions -> Nat]
  BY <1>0, <1>2 DEF RacesOn, TriggerTypes
<1>3. CASE AppendReads(h)
  <2>1. c.session \in Sessions
    BY <1>3, SessionOf DEF AppendReads
  <2> QED
    BY <1>0, <1>2, <1>3, <2>1 DEF AppendReads, TriggerTypes
<1>4. CASE AppendWrites(h)
  <2>1. c.session \in Sessions /\ c \in CallType /\ Staged(c) /\ c.pc = "writes"
    BY <1>4, SessionOf DEF AppendWrites
  <2>2. c.current \cup {c.plan.note} \in SUBSET Notes
    BY <2>1 DEF CallType, PlanType, Staged
  <2>3. /\ marker' = [marker EXCEPT ![c.session] = c.current \cup {c.plan.note}]
        /\ races' = RacesOn(c) /\ warned' = warned
    BY <1>4 DEF AppendWrites
  <2> HIDE DEF c
  <2> QED
    BY <1>0, <1>2, <2>1, <2>2, <2>3 DEF TriggerTypes
<1>5. CASE Delivers(h)
  <2>1. c.session \in Sessions
    BY <1>5, SessionOf DEF Delivers
  <2> QED
    BY <1>0, <1>5, <2>1 DEF Delivers, TriggerTypes
<1> QED
  BY <1>1, <1>3, <1>4, <1>5
     DEF Step, HookStarts, DaemonComputes, TakesAnswer, FallsBack, ComputesHere, ComputeFails,
         Logs, AppendFails, PrecompactSaves, PrecompactFails, Prints, Consumes,
         CheckpointClaims, CheckpointFails, CheckpointTakes, CheckpointTriesNext,
         CheckpointGivesUp, CheckpointReminds, HookKilled

(* What a hook leaves of its claim, and of a slot, when it gives up.       *)
LEMMA GiveUpEffect ==
  ASSUME CallsInv, NEW h \in Calls, CheckpointFails(h) \/ CheckpointGivesUp(h)
  PROVE  LET s == call[h].session r == Reason(call[h]) IN
         /\ s \in Sessions /\ r \in Reasons /\ call[h].input = {r} /\ call'[h] = Idle /\ Steps(h)
         /\ call[h].pc \in {"claims", "slots"} /\ reminded' = reminded
         /\ \/ UNCHANGED <<claims, slots, burned>> /\ call[h].pc = "claims"
            \/ /\ \/ /\ claims' = [claims EXCEPT ![s] = @ \ {r}] /\ burned' = burned
                     /\ call[h].pc = "slots"
                  \/ /\ claims' = [claims EXCEPT ![s] = @ \cup {r}]
                     /\ burned' = [burned EXCEPT ![s] = @ \cup {r}]
               /\ \/ slots' = slots
                  \/ /\ call[h].slot \in 1..MaxCheckpoints /\ slots[s][call[h].slot] = None
                     /\ slots' = [slots EXCEPT ![s][call[h].slot] = Spoiled]
<1>1. /\ call[h].pc \in {"claims", "slots"} /\ reminded' = reminded /\ installed' = installed
      /\ Ends(h)
  BY DEF CheckpointFails, CheckpointGivesUp
<1>2. /\ call[h].session \in Sessions /\ call[h].op = "checkpoint" /\ Run(call[h])
      /\ Staged(call[h]) /\ call[h] \in CallType
  BY <1>1, SessionOf DEF Staged
<1>3. Reason(call[h]) \in Reasons /\ call[h].input = {Reason(call[h])}
  BY <1>2, ReasonOf
<1>4. Steps(h) /\ call'[h] = Idle
  BY <1>1, EndSteps
<1>5. CASE CheckpointFails(h)
  BY <1>1, <1>2, <1>3, <1>4, <1>5 DEF CheckpointFails, Leaves
<1>6. CASE CheckpointGivesUp(h)
  <2>1. call[h].pc = "slots" => (call[h].slot =< MaxCheckpoints => call[h].slot \in 1..MaxCheckpoints)
    BY <1>2, HooksAssumption DEF Staged, CallType
  <2> QED
    BY <1>1, <1>2, <1>3, <1>4, <1>6, <2>1 DEF CheckpointGivesUp, Leaves, Taken
<1> QED
  BY <1>5, <1>6

LEMMA CheckpointTypesStep ==
  ASSUME CallsInv, NEW h \in Calls, Step(h)
  PROVE  CheckpointTypes'
<1> USE HooksAssumption
<1> DEFINE c == call[h]
<1>0. CheckpointTypes
  BY Parts
<1>1. CASE UNCHANGED checkpointVars
  BY <1>0, <1>1 DEF checkpointVars, CheckpointTypes
<1>2. ASSUME c.pc # "idle", c.op = "checkpoint"
      PROVE  /\ c.session \in Sessions /\ Reason(c) \in Reasons /\ c.input = {Reason(c)}
  BY <1>2, SessionOf, ReasonOf
<1>3. CASE CheckpointClaims(h)
  <2>1. c.session \in Sessions /\ Reason(c) \in Reasons /\ c.input = {Reason(c)}
    BY <1>2, <1>3, SessionOf DEF CheckpointClaims, Staged
  <2> DEFINE more == claims[c.session] \cup c.input
  <2>2. /\ claims' = claims \/ claims' = [claims EXCEPT ![c.session] = more]
        /\ UNCHANGED <<slots, reminded, burned>>
    BY <1>3 DEF CheckpointClaims
  <2> HIDE DEF c
  <2>4. more \in SUBSET Reasons
    BY <1>0, <2>1 DEF CheckpointTypes
  <2> HIDE DEF more
  <2>3. claims' \in [Sessions -> SUBSET Reasons]
    BY <1>0, <2>1, <2>2, <2>4 DEF CheckpointTypes
  <2> QED
    BY <1>0, <2>2, <2>3 DEF CheckpointTypes
<1>7. CASE CheckpointFails(h) \/ CheckpointGivesUp(h)
  <2> DEFINE s == c.session
             r == Reason(c)
  <2>1. /\ s \in Sessions /\ r \in Reasons /\ reminded' = reminded
        /\ \/ claims' = claims
           \/ claims' = [claims EXCEPT ![s] = @ \ {r}]
           \/ claims' = [claims EXCEPT ![s] = @ \cup {r}]
        /\ burned' = burned \/ burned' = [burned EXCEPT ![s] = @ \cup {r}]
        /\ \/ slots' = slots
           \/ /\ c.slot \in 1..MaxCheckpoints
              /\ slots' = [slots EXCEPT ![s][c.slot] = Spoiled]
    BY <1>7, GiveUpEffect
  <2> DEFINE less == claims[s] \ {r}
             more == claims[s] \cup {r}
             burns == burned[s] \cup {r}
             spoilt == [slots[s] EXCEPT ![c.slot] = Spoiled]
  <2>4. /\ claims' = claims \/ claims' = [claims EXCEPT ![s] = less]
           \/ claims' = [claims EXCEPT ![s] = more]
        /\ burned' = burned \/ burned' = [burned EXCEPT ![s] = burns]
        /\ slots' = slots \/ slots' = [slots EXCEPT ![s] = spoilt]
    BY <2>1
  <2> HIDE DEF c, s, r
  <2>5. /\ less \in SUBSET Reasons /\ more \in SUBSET Reasons /\ burns \in SUBSET Reasons
        /\ spoilt \in [1..MaxCheckpoints -> Reasons \cup {None, Spoiled}]
    BY <1>0, <2>1 DEF CheckpointTypes
  <2> HIDE DEF less, more, burns, spoilt
  <2>2. claims' \in [Sessions -> SUBSET Reasons] /\ burned' \in [Sessions -> SUBSET Reasons]
    BY <1>0, <2>1, <2>4, <2>5 DEF CheckpointTypes
  <2>3. slots' \in [Sessions -> [1..MaxCheckpoints -> Reasons \cup {None, Spoiled}]]
    BY <1>0, <2>1, <2>4, <2>5 DEF CheckpointTypes
  <2> QED
    BY <1>0, <2>1, <2>2, <2>3 DEF CheckpointTypes
<1>4. CASE CheckpointTakes(h)
  <2>1. c.session \in Sessions /\ Reason(c) \in Reasons /\ c.slot \in 1..MaxCheckpoints
    BY <1>2, <1>4, SessionOf, TakeSteps DEF CheckpointTakes, Staged
  <2>2. /\ slots' = [slots EXCEPT ![c.session][c.slot] = Reason(c)]
        /\ UNCHANGED <<claims, reminded, burned>>
    BY <1>4 DEF CheckpointTakes
  <2> HIDE DEF c
  <2> QED
    BY <1>0, <2>1, <2>2 DEF CheckpointTypes
<1>5. CASE CheckpointReminds(h)
  <2>1. c.session \in Sessions /\ Reason(c) \in Reasons
    BY <1>2, <1>5, SessionOf DEF CheckpointReminds, Staged
  <2> DEFINE more == [reminded[c.session] EXCEPT ![Reason(c)] = @ + 1]
  <2>2. reminded' = [reminded EXCEPT ![c.session] = more] /\ UNCHANGED <<claims, slots, burned>>
    BY <1>5 DEF CheckpointReminds
  <2> HIDE DEF c
  <2>3. more \in [Reasons -> Nat]
    BY <1>0, <2>1 DEF CheckpointTypes
  <2> HIDE DEF more
  <2> QED
    BY <1>0, <2>1, <2>2, <2>3 DEF CheckpointTypes
<1>6. CASE HookKilled(h)
  <2>1. c.op = "checkpoint" => c.session \in Sessions /\ c.input \in SUBSET Reasons
    BY <1>2, <1>6 DEF HookKilled
  <2>2. /\ burned' = IF c.op = "checkpoint"
                     THEN [burned EXCEPT ![c.session] = @ \cup c.input] ELSE burned
        /\ UNCHANGED <<claims, slots, reminded>>
    BY <1>6 DEF HookKilled
  <2> HIDE DEF c
  <2> QED
    BY <1>0, <2>1, <2>2 DEF CheckpointTypes
<1> QED
  BY <1>1, <1>3, <1>4, <1>5, <1>6, <1>7
     DEF Step, HookStarts, DaemonComputes, TakesAnswer, FallsBack, ComputesHere, ComputeFails,
         Logs, AppendReads, AppendWrites, AppendFails, Delivers, PrecompactSaves,
         PrecompactFails, Prints, Consumes, CheckpointTriesNext

LEMMA SnapshotTypesStep ==
  ASSUME CallsInv, NEW h \in Calls, Step(h)
  PROVE  SnapshotTypes'
<1> DEFINE c == call[h]
<1>0. SnapshotTypes /\ MaxSnapshots \in Nat
  BY Parts, HooksAssumption
<1>1. CASE UNCHANGED snapshotVars
  BY <1>0, <1>1 DEF snapshotVars, SnapshotTypes
<1>2. Restores(c) => /\ c.recovery.from \in Sessions
                     /\ c.recovery.number \in 1..MaxSnapshots
  BY RecoversHolds DEF Recovers, CallsInv, CallOK, CallType, Restores
<1>3. CASE PrecompactSaves(h)
  <2>1. c.session \in Sessions
    BY <1>3, SessionOf DEF PrecompactSaves
  <2>2. written[c.session] + 1 \in 0..MaxSnapshots
    BY <1>0, <1>3, <2>1 DEF SnapshotTypes, PrecompactSaves
  <2>3. /\ snaps' = [snaps EXCEPT ![c.session] = written[c.session] + 1]
        /\ written' = [written EXCEPT ![c.session] = written[c.session] + 1]
        /\ UNCHANGED <<read, raced>>
    BY <1>3 DEF PrecompactSaves
  <2> HIDE DEF c
  <2> QED
    BY <1>0, <2>1, <2>2, <2>3 DEF SnapshotTypes
<1>4. CASE Prints(h)
  <2>1. /\ read' = IF Restores(c)
                   THEN [read EXCEPT ![c.recovery.from] = @ \cup {c.recovery.number}]
                   ELSE read
        /\ UNCHANGED <<snaps, written, raced>>
    BY <1>4 DEF Prints
  <2> HIDE DEF c
  <2> QED
    BY <1>0, <1>2, <2>1 DEF SnapshotTypes
<1>5. CASE Consumes(h)
  <2>1. Consumed(h) /\ UNCHANGED <<written, read>>
    BY <1>5 DEF Consumes
  <2>2. CASE Restores(c)
    <3>1. /\ snaps' = [snaps EXCEPT ![c.recovery.from] = 0]
          /\ raced' \in {raced, raced \cup {c.recovery.from}}
      BY <2>1, <2>2 DEF Consumed
    <3> HIDE DEF c
    <3> QED
      BY <1>0, <1>2, <2>1, <2>2, <3>1 DEF SnapshotTypes
  <2>3. CASE ~Restores(c)
    BY <1>0, <2>1, <2>3 DEF SnapshotTypes, Consumed
  <2> QED
    BY <2>2, <2>3
<1> QED
  BY <1>1, <1>3, <1>4, <1>5
     DEF Step, HookStarts, DaemonComputes, TakesAnswer, FallsBack, ComputesHere, ComputeFails,
         Logs, AppendReads, AppendWrites, AppendFails, Delivers, PrecompactFails,
         CheckpointClaims, CheckpointFails, CheckpointTakes, CheckpointTriesNext,
         CheckpointGivesUp, CheckpointReminds, HookKilled

LEMMA ExpiryEffect ==
  ASSUME CallsInv, NEW s \in Sessions, SnapshotExpires(s)
  PROVE  CallsInv' /\ UNCHANGED <<installed, call, triggerVars, checkpointVars>>
<1>1. /\ UNCHANGED <<installed, call, triggerVars, checkpointVars, written, raced>>
      /\ snaps[s] # 0
      /\ snaps' = [snaps EXCEPT ![s] = 0]
      /\ read' = [read EXCEPT ![s] = @ \cup {snaps[s]}]
  BY DEF SnapshotExpires
<1>2. SnapshotTypes /\ MaxSnapshots \in Nat
  BY Parts, HooksAssumption
<1>3. snaps[s] \in 1..MaxSnapshots
  BY <1>1, <1>2 DEF SnapshotTypes
<1>4. SnapshotTypes'
  BY <1>1, <1>2, <1>3 DEF SnapshotTypes
<1>5. ASSUME NEW g \in Calls PROVE CallOK(call[g])'
  BY <1>1 DEF CallsInv, CallOK, Run
<1> QED
  BY <1>1, <1>4, <1>5
     DEF CallsInv, TypeOK, SnapshotTypes, triggerVars, checkpointVars, CallOK, Run

LEMMA InitCalls == Init => CallsInv
<1> SUFFICES ASSUME Init PROVE CallsInv
  OBVIOUS
<1> USE HooksAssumption
<1>1. /\ call \in [Calls -> CallType] /\ \A h \in Calls : CallOK(call[h]) /\ call[h].pc = "idle"
  BY IdleOK DEF Init, CallOK, Idle
<1>2. installed \subseteq Ops \X Sessions
  BY InstallsAssumption DEF Init
<1>3. TriggerTypes
  BY DEF Init, TriggerTypes
<1>4. CheckpointTypes
  BY DEF Init, CheckpointTypes
<1>5. SnapshotTypes
  <2>1. MaxSnapshots \in Nat
    OBVIOUS
  <2> QED
    BY <2>1 DEF Init, SnapshotTypes
<1> QED
  BY <1>1, <1>2, <1>3, <1>4, <1>5
     DEF CallsInv, TypeOK, TriggerTypes, CheckpointTypes, SnapshotTypes

LEMMA NextCalls == CallsInv /\ [Next]_vars => CallsInv'
<1> SUFFICES ASSUME CallsInv, [Next]_vars PROVE CallsInv'
  OBVIOUS
<1>1. CASE UNCHANGED vars
  <2>1. ASSUME NEW g \in Calls PROVE CallOK(call[g])'
    BY <1>1 DEF CallsInv, CallOK, Run, vars
  <2> QED
    BY <1>1, <2>1 DEF CallsInv, TypeOK, vars, triggerVars, checkpointVars, snapshotVars
<1>2. ASSUME NEW h \in Calls, Step(h) PROVE CallsInv'
  <2>1. Steps(h) /\ TriggerTypes' /\ CheckpointTypes' /\ SnapshotTypes'
    BY <1>2, StepSteps, TriggerTypesStep, CheckpointTypesStep, SnapshotTypesStep
  <2>2. ASSUME NEW g \in Calls, call'[g].pc # "idle"
        PROVE  /\ <<call'[g].op, call'[g].session>> \in installed'
               /\ call'[g].input \in Inputs(call'[g].op)
    BY <2>1, <2>2 DEF Steps, CallOK, Run
  <2> QED
    BY <2>1, <2>2
       DEF Steps, CallsInv, TypeOK, TriggerTypes, CheckpointTypes, SnapshotTypes
<1>3. ASSUME NEW s \in Sessions, SnapshotExpires(s) PROVE CallsInv'
  BY <1>3, ExpiryEffect
<1> QED
  BY <1>1, <1>2, <1>3, NextIsStep

THEOREM CallsInvariant == Spec => []CallsInv
BY InitCalls, NextCalls, PTL DEF Spec

(* Every hook, file and counter has the shape its stage needs, for any     *)
(* number of processes, sessions, notes and reasons.                       *)
THEOREM TypeInvariant == Spec => []TypeOK
<1>1. CallsInv => TypeOK
  BY DEF CallsInv
<1> QED
  BY <1>1, CallsInvariant, PTL

(* Whatever a warning may cost, a command that matches a blocking policy   *)
(* is denied: by any of the overlapping hooks, by the daemon's plan or the *)
(* hook's own, whatever the marker says and whichever writes fail.         *)
THEOREM PoliciesAlwaysDeny == Spec => []PoliciesDeny
<1>1. CallsInv => PoliciesDeny
  BY DEF CallsInv, CallOK, Decided, Deciding, PoliciesDeny
<1> QED
  BY <1>1, CallsInvariant, PTL

-----------------------------------------------------------------------------
(* Snapshots.  What a wakeup hook consumes it has printed: its number is    *)
(* read by then, whichever process computed the plan.                      *)

HasPrinted(c) == c.pc = "consumes" \/ (c.pc = "logs" /\ ~c.here)

Kept ==
  /\ \A s \in Sessions : snaps[s] \in {0, written[s]}
  /\ \A h \in Calls : Restores(call[h]) =>
       LET r == call[h].recovery IN
       /\ r.number =< written[r.from]
       /\ HasPrinted(call[h]) => r.number \in read[r.from]

SnapshotInv == CallsInv /\ Kept /\ UnreadStays

LEMMA RestoredFrom ==
  ASSUME CallsInv, NEW h \in Calls, Restores(call[h])
  PROVE  call[h].recovery.from \in Sessions /\ call[h].recovery.number \in 1..MaxSnapshots
BY RecoversHolds DEF Recovers, CallsInv, CallOK, CallType, Restores

(* A step of h that leaves the snapshots alone.                             *)
LEMMA SnapshotsUntouched ==
  ASSUME SnapshotInv, NEW h \in Calls, Steps(h), UNCHANGED snapshotVars,
         Restores(call'[h]) =>
           LET r == call'[h].recovery IN
           /\ r.number =< written[r.from]
           /\ HasPrinted(call'[h]) => r.number \in read[r.from]
  PROVE  Kept' /\ UnreadStays'
<1>1. UNCHANGED <<snaps, written, read, raced>>
  BY DEF snapshotVars
<1>2. ASSUME NEW g \in Calls, Restores(call'[g])
      PROVE  LET r == call'[g].recovery IN
             /\ r.number =< written[r.from]
             /\ HasPrinted(call'[g]) => r.number \in read[r.from]
  BY <1>2 DEF Steps, SnapshotInv, Kept
<1>3. ASSUME NEW g \in Calls PROVE Restores(call[g])' <=> Restores(call'[g])
  BY DEF Restores
<1>4. ASSUME NEW g \in Calls PROVE HasPrinted(call[g])' <=> HasPrinted(call'[g])
  BY DEF HasPrinted
<1>5. Kept'
  BY <1>1, <1>2, <1>3, <1>4 DEF SnapshotInv, Kept
<1> QED
  BY <1>1, <1>5 DEF SnapshotInv, UnreadStays

LEMMA IdleRestoresNothing == ~Restores(Idle)
BY DEF Restores, Idle, NoSnapshot

(* Every step but those of a snapshot's own hooks leaves them alone.        *)
LEMMA QuietSnapshots ==
  ASSUME SnapshotInv, NEW h \in Calls, Step(h), UNCHANGED snapshotVars
  PROVE  Restores(call'[h]) =>
           LET r == call'[h].recovery IN
           /\ r.number =< written[r.from]
           /\ HasPrinted(call'[h]) => r.number \in read[r.from]
<1> USE DEF SnapshotInv
<1>0. ASSUME call'[h] = Idle \/ call'[h].recovery = NoSnapshot
      PROVE  ~Restores(call'[h])
  BY <1>0, IdleRestoresNothing DEF Restores, NoSnapshot
<1>1. CASE \E op \in Ops : \E s \in Sessions : \E input \in Inputs(op) :
             HookStarts(h, op, s, input)
  BY <1>0, <1>1, StartSteps
<1>2. CASE DaemonComputes(h) \/ ComputesHere(h)
  <2>1. /\ ~HasPrinted(call'[h])
        /\ call[h].pc \in {"asks", "computes"}
        /\ Restores(call'[h]) =>
              \/ call'[h].recovery = call[h].recovery
              \/ \E s \in Sessions : /\ snaps[s] # 0
                   /\ call'[h].recovery = [from |-> s, number |-> snaps[s]]
    BY <1>2, ComputeSteps, SessionOf DEF HasPrinted, Staged
  <2>2. ASSUME Restores(call'[h])
        PROVE  call'[h].recovery.number =< written[call'[h].recovery.from]
    <3>1. CASE call'[h].recovery = call[h].recovery
      BY <2>2, <3>1 DEF Kept, Restores
    <3>2. CASE \E s \in Sessions : /\ snaps[s] # 0
                   /\ call'[h].recovery = [from |-> s, number |-> snaps[s]]
      <4>1. PICK s \in Sessions : /\ snaps[s] # 0
                   /\ call'[h].recovery = [from |-> s, number |-> snaps[s]]
        BY <3>2
      <4>2. snaps[s] = written[s] /\ written[s] \in Nat
        BY <4>1, Parts DEF Kept, SnapshotTypes
      <4> QED
        BY <4>1, <4>2
    <3> QED
      BY <2>1, <2>2, <3>1, <3>2
  <2> QED
    BY <2>1, <2>2
<1>3. CASE TakesAnswer(h)
  <2>1. /\ call'[h].recovery = call[h].recovery
        /\ call'[h].op = call[h].op
        /\ HasPrinted(call'[h]) => call[h].op # "wakeup"
        /\ Restores(call[h]) => call[h].op = "wakeup"
    BY <1>3, AnswerSteps, SessionOf DEF SameRun, HasPrinted, Staged
  <2> QED
    BY <2>1 DEF Kept, Restores
<1>4. CASE FallsBack(h)
  BY <1>0, <1>4, FallBackSteps
<1>5. CASE Logs(h)
  <2>1. /\ call'[h].recovery = call[h].recovery
        /\ call[h].pc = "logs" /\ call[h].op \in DaemonOps
        /\ call'[h].pc = AfterLog(call[h])
        /\ call'[h].here = call[h].here
        /\ call'[h].pc \in {"prints", "consumes", "reads", "delivers"}
    BY <1>5, LogSteps, SessionOf DEF SameRun, Staged
  <2>2. HasPrinted(call'[h]) => HasPrinted(call[h])
    BY <2>1 DEF HasPrinted, AfterLog
  <2> QED
    BY <2>1, <2>2 DEF Kept, Restores
<1>6. CASE AppendReads(h) \/ AppendWrites(h)
  <2>1. /\ call[h].op = "trigger" /\ call[h].pc # "idle"
        /\ call'[h].recovery = call[h].recovery
    BY <1>6, ReadSteps, WriteSteps, SessionOf DEF SameRun, Staged
  <2> QED
    BY <2>1, SessionOf DEF Restores, Staged
<1>7. CASE ComputeFails(h) \/ AppendFails(h) \/ PrecompactFails(h) \/ CheckpointFails(h)
  BY <1>0, <1>7, EndSteps DEF ComputeFails, AppendFails, PrecompactFails, CheckpointFails
<1>8. CASE Delivers(h) \/ CheckpointGivesUp(h) \/ CheckpointReminds(h) \/ HookKilled(h)
  BY <1>0, <1>8, EndSteps DEF Delivers, CheckpointGivesUp, CheckpointReminds, HookKilled
<1>9. CASE PrecompactSaves(h) \/ Consumes(h)
  BY <1>0, <1>9, EndSteps DEF PrecompactSaves, Consumes
<1>10. CASE Prints(h)
  <2>1. /\ call[h].pc = "prints" /\ call'[h].recovery = call[h].recovery
        /\ Restores(call[h]) => call[h].recovery.number \in read'[call[h].recovery.from]
    BY <1>10, PrintSteps, RestoredFrom, Parts DEF SameRun, Prints, SnapshotTypes
  <2>2. read' = read
    BY DEF snapshotVars
  <2> QED
    BY <2>1, <2>2 DEF Kept, Restores
<1>11. CASE CheckpointClaims(h) \/ CheckpointTakes(h) \/ CheckpointTriesNext(h)
  <2>1. /\ call[h].op = "checkpoint" /\ call[h].pc # "idle"
        /\ call'[h] = Idle \/ call'[h].recovery = call[h].recovery
    BY <1>11, ClaimSteps, TakeSteps, NextSlotSteps, EndSteps, SessionOf
       DEF SameRun, Staged, CheckpointClaims
  <2>2. ~Restores(call[h])
    BY <2>1, SessionOf DEF Staged
  <2> QED
    BY <1>0, <2>1, <2>2 DEF Restores
<1> QED
  BY <1>1, <1>2, <1>3, <1>4, <1>5, <1>6, <1>7, <1>8, <1>9, <1>10, <1>11 DEF Step

LEMMA PrintsKeeps ==
  ASSUME SnapshotInv, NEW h \in Calls, Prints(h)
  PROVE  Kept' /\ UnreadStays'
<1> DEFINE r == call[h].recovery
<1>1. /\ Steps(h) /\ call'[h].recovery = r
  BY PrintSteps DEF SnapshotInv, SameRun
<1>2. /\ UNCHANGED <<snaps, written, raced>>
      /\ read' = IF Restores(call[h]) THEN [read EXCEPT ![r.from] = @ \cup {r.number}] ELSE read
  BY DEF Prints
<1>3. SnapshotTypes
  BY Parts DEF SnapshotInv
<1>4. Restores(call[h]) => r.from \in Sessions
  BY RestoredFrom DEF SnapshotInv
<1> HIDE DEF r
<1>5. /\ \A s \in Sessions : read[s] \subseteq read'[s]
      /\ Restores(call[h]) => r.number \in read'[r.from]
  BY <1>2, <1>3, <1>4 DEF SnapshotTypes
<1>6. ASSUME NEW g \in Calls, Restores(call'[g])
      PROVE  LET q == call'[g].recovery IN
             /\ q.number =< written[q.from]
             /\ HasPrinted(call'[g]) => q.number \in read'[q.from]
  <2>1. CASE g = h
    <3>1. Restores(call[h])
      BY <1>1, <1>6, <2>1 DEF Restores, r
    <3> QED
      BY <1>1, <1>5, <2>1, <3>1 DEF SnapshotInv, Kept, r
  <2>2. CASE g # h
    <3>1. call'[g] = call[g]
      BY <1>1, <2>2 DEF Steps
    <3>2. call[g].recovery.from \in Sessions
      BY <1>6, <3>1, RestoredFrom DEF SnapshotInv
    <3> QED
      BY <1>5, <1>6, <3>1, <3>2 DEF SnapshotInv, Kept
  <2> QED
    BY <2>1, <2>2
<1>7. ASSUME NEW g \in Calls PROVE /\ Restores(call[g])' <=> Restores(call'[g])
                                   /\ HasPrinted(call[g])' <=> HasPrinted(call'[g])
  BY DEF Restores, HasPrinted
<1>8. Kept'
  BY <1>2, <1>6, <1>7 DEF SnapshotInv, Kept
<1> QED
  BY <1>2, <1>5, <1>8 DEF SnapshotInv, UnreadStays

(* The last snapshot may be overwritten by a newer one, whose number is     *)
(* nobody's yet.                                                           *)
LEMMA SavesKeeps ==
  ASSUME SnapshotInv, NEW h \in Calls, PrecompactSaves(h)
  PROVE  Kept' /\ UnreadStays'
<1> DEFINE s == call[h].session
<1>1. /\ Steps(h) /\ call'[h] = Idle /\ s \in Sessions
  BY EndSteps, SessionOf DEF PrecompactSaves, SnapshotInv
<1>2. /\ UNCHANGED <<read, raced>>
      /\ snaps' = [snaps EXCEPT ![s] = written[s] + 1]
      /\ written' = [written EXCEPT ![s] = written[s] + 1]
  BY DEF PrecompactSaves
<1>3. SnapshotTypes
  BY Parts DEF SnapshotInv
<1> HIDE DEF s
<1>4. /\ \A t \in Sessions : written[t] \in Nat /\ written'[t] \in Nat /\ written[t] =< written'[t]
      /\ snaps'[s] = written'[s]
      /\ \A t \in Sessions : t # s => snaps'[t] = snaps[t] /\ written'[t] = written[t]
  BY <1>1, <1>2, <1>3 DEF SnapshotTypes
<1>5. ASSUME NEW g \in Calls, Restores(call'[g])
      PROVE  LET q == call'[g].recovery IN
             /\ q.number =< written'[q.from]
             /\ HasPrinted(call'[g]) => q.number \in read[q.from]
  <2>1. g # h /\ call'[g] = call[g]
    BY <1>1, <1>5, IdleRestoresNothing DEF Steps
  <2>2. call[g].recovery.from \in Sessions /\ call[g].recovery.number \in 1..MaxSnapshots
    BY <1>5, <2>1, RestoredFrom DEF SnapshotInv
  <2>3. call[g].recovery.number =< written[call[g].recovery.from]
    BY <1>5, <2>1 DEF SnapshotInv, Kept
  <2>4. call[g].recovery.number =< written'[call[g].recovery.from]
    BY <1>4, <2>2, <2>3
  <2> QED
    BY <1>5, <2>1, <2>4 DEF SnapshotInv, Kept
<1>6. ASSUME NEW g \in Calls PROVE /\ Restores(call[g])' <=> Restores(call'[g])
                                   /\ HasPrinted(call[g])' <=> HasPrinted(call'[g])
  BY DEF Restores, HasPrinted
<1>7. \A t \in Sessions : snaps'[t] \in {0, written'[t]}
  BY <1>4 DEF SnapshotInv, Kept
<1>8. Kept'
  BY <1>2, <1>5, <1>6, <1>7 DEF Kept
<1> QED
  BY <1>2, <1>4, <1>8 DEF SnapshotInv, UnreadStays

(* What is unlinked has been printed, or replaced under the hook's hands.   *)
LEMMA ConsumesKeeps ==
  ASSUME SnapshotInv, NEW h \in Calls, Consumes(h)
  PROVE  Kept' /\ UnreadStays'
<1> DEFINE r == call[h].recovery
<1>1. /\ Steps(h) /\ call'[h] = Idle /\ call[h].pc = "consumes"
  BY EndSteps DEF Consumes, SnapshotInv
<1>2. /\ UNCHANGED <<written, read>>
      /\ IF Restores(call[h])
         THEN /\ snaps' = [snaps EXCEPT ![r.from] = 0]
              /\ raced' = IF snaps[r.from] \notin {0, r.number}
                          THEN raced \cup {r.from} ELSE raced
         ELSE UNCHANGED <<snaps, raced>>
  BY DEF Consumes, Consumed
<1>3. SnapshotTypes
  BY Parts DEF SnapshotInv
<1>4. Restores(call[h]) => r.from \in Sessions /\ r.number \in read[r.from]
  BY <1>1, RestoredFrom DEF SnapshotInv, Kept, HasPrinted
<1>5. ASSUME NEW g \in Calls, Restores(call'[g])
      PROVE  LET q == call'[g].recovery IN
             /\ q.number =< written[q.from]
             /\ HasPrinted(call'[g]) => q.number \in read[q.from]
  <2>1. g # h /\ call'[g] = call[g]
    BY <1>1, <1>5, IdleRestoresNothing DEF Steps
  <2> QED
    BY <1>5, <2>1 DEF SnapshotInv, Kept
<1>6. ASSUME NEW g \in Calls PROVE /\ Restores(call[g])' <=> Restores(call'[g])
                                   /\ HasPrinted(call[g])' <=> HasPrinted(call'[g])
  BY DEF Restores, HasPrinted
<1> HIDE DEF r
<1>7. \A t \in Sessions : snaps'[t] \in {0, written[t]}
  BY <1>2, <1>3, <1>4 DEF SnapshotInv, Kept, SnapshotTypes
<1>8. Kept'
  BY <1>2, <1>5, <1>6, <1>7 DEF Kept
<1>9. ASSUME NEW t \in Sessions \ raced', written[t] # 0, written[t] \notin read[t]
      PROVE  snaps'[t] = written[t]
  <2>1. t \notin raced /\ snaps[t] = written[t]
    BY <1>2, <1>9 DEF SnapshotInv, UnreadStays
  <2>2. CASE Restores(call[h]) /\ t = r.from
    <3>1. snaps[t] \in {0, r.number}
      BY <1>2, <1>9, <2>2
    <3> QED
      BY <1>4, <1>9, <2>1, <2>2, <3>1
  <2>3. CASE ~(Restores(call[h]) /\ t = r.from)
    BY <1>2, <1>3, <2>1, <2>3 DEF SnapshotTypes
  <2> QED
    BY <2>2, <2>3
<1> QED
  BY <1>2, <1>8, <1>9 DEF UnreadStays

LEMMA ExpiryKeeps ==
  ASSUME SnapshotInv, NEW s \in Sessions, SnapshotExpires(s)
  PROVE  Kept' /\ UnreadStays'
<1>1. /\ UNCHANGED <<call, written, raced>> /\ snaps[s] # 0
      /\ snaps' = [snaps EXCEPT ![s] = 0]
      /\ read' = [read EXCEPT ![s] = @ \cup {snaps[s]}]
  BY DEF SnapshotExpires
<1>2. SnapshotTypes /\ snaps[s] = written[s]
  BY <1>1, Parts DEF SnapshotInv, Kept
<1>3. /\ \A t \in Sessions : read[t] \subseteq read'[t] /\ snaps'[t] \in {0, written[t]}
      /\ written[s] \in read'[s]
      /\ \A t \in Sessions : t # s => snaps'[t] = snaps[t] /\ read'[t] = read[t]
  BY <1>1, <1>2 DEF SnapshotTypes, SnapshotInv, Kept
<1>4. ASSUME NEW g \in Calls, Restores(call[g])
      PROVE  LET q == call[g].recovery IN
             /\ q.number =< written[q.from]
             /\ HasPrinted(call[g]) => q.number \in read'[q.from]
  <2>1. call[g].recovery.from \in Sessions
    BY <1>4, RestoredFrom DEF SnapshotInv
  <2> QED
    BY <1>3, <1>4, <2>1 DEF SnapshotInv, Kept
<1>5. ASSUME NEW g \in Calls PROVE /\ Restores(call[g])' <=> Restores(call[g])
                                   /\ HasPrinted(call[g])' <=> HasPrinted(call[g])
  BY <1>1 DEF Restores, HasPrinted
<1>6. Kept'
  BY <1>1, <1>3, <1>4, <1>5 DEF Kept
<1> QED
  BY <1>1, <1>3, <1>6 DEF SnapshotInv, UnreadStays

LEMMA InitSnapshots == Init => SnapshotInv
<1> SUFFICES ASSUME Init PROVE SnapshotInv
  OBVIOUS
<1>1. \A h \in Calls : ~Restores(call[h])
  BY IdleRestoresNothing DEF Init
<1> QED
  BY <1>1, InitCalls DEF Init, SnapshotInv, Kept, UnreadStays

LEMMA NextSnapshots == SnapshotInv /\ [Next]_vars => SnapshotInv'
<1> SUFFICES ASSUME SnapshotInv, [Next]_vars PROVE Kept' /\ UnreadStays'
  BY NextCalls DEF SnapshotInv
<1>1. CASE UNCHANGED vars
  BY <1>1 DEF SnapshotInv, Kept, UnreadStays, vars, snapshotVars, Restores, HasPrinted
<1>2. ASSUME NEW h \in Calls, Step(h) PROVE Kept' /\ UnreadStays'
  <2>1. CASE UNCHANGED snapshotVars
    BY <1>2, <2>1, QuietSnapshots, SnapshotsUntouched, StepSteps DEF SnapshotInv
  <2>2. CASE Prints(h) \/ PrecompactSaves(h) \/ Consumes(h)
    BY <2>2, PrintsKeeps, SavesKeeps, ConsumesKeeps
  <2> QED
    BY <1>2, <2>1, <2>2
       DEF Step, HookStarts, DaemonComputes, TakesAnswer, FallsBack, ComputesHere, ComputeFails,
         Logs, AppendReads, AppendWrites, AppendFails, Delivers, PrecompactFails,
         CheckpointClaims, CheckpointFails, CheckpointTakes, CheckpointTriesNext,
         CheckpointGivesUp, CheckpointReminds, HookKilled
<1>3. ASSUME NEW s \in Sessions, SnapshotExpires(s) PROVE Kept' /\ UnreadStays'
  BY <1>3, ExpiryKeeps
<1> QED
  BY <1>1, <1>2, <1>3, NextIsStep

(* A session that was compacted finds its last snapshot, until a wakeup     *)
(* hook has printed it or ten minutes have passed: no killed hook, late    *)
(* answer or other session's hook takes it away unread, but for a race in  *)
(* which it replaced the one that was being consumed.                      *)
THEOREM SnapshotsStay == Spec => []UnreadStays
<1>1. SnapshotInv => UnreadStays
  BY DEF SnapshotInv
<1> QED
  BY <1>1, InitSnapshots, NextSnapshots, PTL DEF Spec

-----------------------------------------------------------------------------
(* Checkpoints.  A claim file makes its hook the only one at work on a      *)
(* reason; a reason in a slot is out of reach of every hook that could     *)
(* take its claim back; and a reminder that was given has a slot.          *)

InSlots(s, r) == \E i \in 1..MaxCheckpoints : slots[s][i] = r

Works(c) == c.pc \in {"slots", "reminds"}

\* The hook of call c is at work on reason r of session s.
WorksOn(c, s, r) == Works(c) /\ c.session = s /\ c.input = {r}

Exclusive ==
  /\ \A g \in Calls : Works(call[g]) => call[g].input \subseteq claims[call[g].session]
  /\ \A g, k \in Calls : Works(call[g]) /\ Works(call[k]) /\ g # k
                           /\ call[g].session = call[k].session
                         => call[g].input # call[k].input

Slotted ==
  \A s \in Sessions : \A r \in Reasons : InSlots(s, r) =>
    /\ r \in claims[s]
    /\ \A g \in Calls : call[g].pc = "slots" => ~WorksOn(call[g], s, r)

Reminded ==
  /\ \A g \in Calls : \A s \in Sessions : \A r \in Reasons :
       call[g].pc = "reminds" /\ WorksOn(call[g], s, r) => InSlots(s, r) /\ reminded[s][r] = 0
  /\ \A s \in Sessions : \A r \in Reasons :
       reminded[s][r] =< 1 /\ (reminded[s][r] > 0 => InSlots(s, r))

NothingUsedUp ==
  \A s \in Sessions : \A r \in claims[s] :
    \/ InSlots(s, r)
    \/ \E h \in Calls : call[h].pc = "slots" /\ call[h].session = s /\ call[h].input = {r}
    \/ r \in burned[s]

CheckpointParts == Exclusive /\ Slotted /\ Reminded /\ NothingUsedUp

CheckpointInv == CallsInv /\ CheckpointParts

(* Who is at work is the same, and so are the files.                        *)
LEMMA CheckpointsUntouched ==
  ASSUME CheckpointInv, UNCHANGED checkpointVars,
         \A g \in Calls :
           /\ Works(call'[g]) <=> Works(call[g])
           /\ Works(call[g]) => /\ call'[g].pc = call[g].pc
                                /\ call'[g].session = call[g].session
                                /\ call'[g].input = call[g].input
  PROVE  CheckpointParts'
<1>1. UNCHANGED <<claims, slots, reminded, burned>>
  BY DEF checkpointVars
<1>2. \A s, r : InSlots(s, r)' <=> InSlots(s, r)
  BY <1>1 DEF InSlots
<1>3. Exclusive'
  BY <1>1 DEF CheckpointInv, CheckpointParts, Exclusive, Works
<1>4. Slotted'
  BY <1>1, <1>2 DEF CheckpointInv, CheckpointParts, Slotted, WorksOn, Works
<1>5. Reminded'
  BY <1>1, <1>2 DEF CheckpointInv, CheckpointParts, Reminded, WorksOn, Works
<1>6. NothingUsedUp'
  BY <1>1, <1>2 DEF CheckpointInv, CheckpointParts, NothingUsedUp, Works
<1> QED
  BY <1>3, <1>4, <1>5, <1>6 DEF CheckpointParts

LEMMA IdleWorksNot == ~Works(Idle)
BY DEF Works, Idle

(* The step of a hook that is not at work on a checkpoint.                  *)
LEMMA QuietCheckpoints ==
  ASSUME CheckpointInv, NEW h \in Calls, Step(h),
         ~CheckpointClaims(h), ~CheckpointTakes(h), ~CheckpointGivesUp(h),
         ~CheckpointFails(h), ~CheckpointReminds(h), ~HookKilled(h)
  PROVE  /\ UNCHANGED checkpointVars
         /\ Works(call'[h]) <=> Works(call[h])
         /\ Works(call[h]) => /\ call'[h].pc = call[h].pc
                              /\ call'[h].session = call[h].session
                              /\ call'[h].input = call[h].input
<1>0. UNCHANGED checkpointVars
  BY DEF Step, HookStarts, DaemonComputes, TakesAnswer, FallsBack, ComputesHere, ComputeFails,
         Logs, AppendReads, AppendWrites, AppendFails, Delivers, PrecompactSaves,
         PrecompactFails, Prints, Consumes, CheckpointTriesNext
<1> SUFFICES /\ Works(call'[h]) <=> Works(call[h])
             /\ Works(call[h]) => /\ call'[h].pc = call[h].pc
                                  /\ call'[h].session = call[h].session
                                  /\ call'[h].input = call[h].input
  BY <1>0
<1> USE DEF CheckpointInv
<1>1. CASE \E op \in Ops : \E s \in Sessions : \E input \in Inputs(op) :
             HookStarts(h, op, s, input)
  BY <1>1, StartSteps DEF Works, HookStarts
<1>2. CASE DaemonComputes(h) \/ ComputesHere(h)
  BY <1>2, ComputeSteps DEF Works
<1>3. CASE TakesAnswer(h)
  BY <1>3, AnswerSteps DEF Works
<1>4. CASE FallsBack(h)
  BY <1>4, FallBackSteps DEF Works
<1>5. CASE Logs(h)
  BY <1>5, LogSteps DEF Works
<1>6. CASE AppendReads(h) \/ AppendWrites(h)
  BY <1>6, ReadSteps, WriteSteps DEF Works
<1>7. CASE ComputeFails(h) \/ AppendFails(h) \/ PrecompactFails(h)
  BY <1>7, EndSteps, IdleWorksNot DEF ComputeFails, AppendFails, PrecompactFails, Works
<1>8. CASE Delivers(h) \/ PrecompactSaves(h) \/ Consumes(h)
  BY <1>8, EndSteps, IdleWorksNot DEF Delivers, PrecompactSaves, Consumes, Works
<1>9. CASE Prints(h)
  BY <1>9, PrintSteps DEF Works
<1>10. CASE CheckpointTriesNext(h)
  BY <1>10, NextSlotSteps DEF Works, SameRun
<1> QED
  BY <1>1, <1>2, <1>3, <1>4, <1>5, <1>6, <1>7, <1>8, <1>9, <1>10 DEF Step

(* The reason and the session of a hook at work.                            *)
LEMMA WorkOf ==
  ASSUME CallsInv, NEW h \in Calls, call[h].pc \in {"claims", "slots", "reminds"}
  PROVE  /\ call[h].op = "checkpoint" /\ call[h].session \in Sessions
         /\ Reason(call[h]) \in Reasons /\ call[h].input = {Reason(call[h])}
         /\ CheckpointTypes
BY SessionOf, ReasonOf, Parts DEF Staged

(* A hook that is not at work leaves.                                       *)
LEMMA OthersWork ==
  ASSUME CallsInv, NEW h \in Calls, Steps(h), call'[h] = Idle,
         NEW g \in Calls, Works(call'[g]) \/ call'[g].pc \in {"slots", "reminds"}
  PROVE  g # h /\ call'[g] = call[g]
BY IdleWorksNot DEF Steps, Works

LEMMA ClaimKeeps ==
  ASSUME CheckpointInv, NEW h \in Calls, CheckpointClaims(h)
  PROVE  CheckpointParts'
<1> DEFINE s == call[h].session
           r == Reason(call[h])
<1>0. /\ s \in Sessions /\ r \in Reasons /\ call[h].input = {r} /\ CheckpointTypes
      /\ call[h].pc = "claims"
  BY WorkOf DEF CheckpointClaims, CheckpointInv
<1>1. CASE r \in claims[s]
  <2>1. call'[h] = Idle /\ Steps(h) /\ UNCHANGED checkpointVars
    BY <1>1, EndSteps DEF CheckpointClaims, CheckpointInv, checkpointVars
  <2>2. ~Works(call[h]) /\ ~Works(call'[h])
    BY <1>0, <2>1, IdleWorksNot DEF Works
  <2> QED
    BY <2>1, <2>2, CheckpointsUntouched DEF Steps
<1>2. CASE r \notin claims[s]
  <2>1. /\ Steps(h) /\ call'[h].session = s /\ call'[h].input = {r} /\ call'[h].pc = "slots"
    BY <1>0, <1>2, ClaimSteps DEF CheckpointInv, SameRun
  <2>2. /\ UNCHANGED <<slots, reminded, burned>>
        /\ claims' = [claims EXCEPT ![s] = @ \cup {r}]
    BY <1>0, <1>2 DEF CheckpointClaims
  <2> HIDE DEF s, r
  <2>3. /\ \A t \in Sessions : claims[t] \subseteq claims'[t]
        /\ \A t \in Sessions : t # s => claims'[t] = claims[t]
        /\ claims'[s] = claims[s] \cup {r}
    BY <1>0, <2>2 DEF CheckpointTypes
  <2>4. ASSUME NEW g \in Calls, g # h PROVE call'[g] = call[g]
    BY <2>1, <2>4 DEF Steps
  <2>5. \A t, q : InSlots(t, q)' <=> InSlots(t, q)
    BY <2>2 DEF InSlots
  <2>6. ASSUME NEW g \in Calls, g # h, Works(call'[g])
        PROVE  /\ call'[g].session \in Sessions
               /\ call'[g].input \subseteq claims[call'[g].session]
               /\ call'[g].input # {}
    BY <2>4, <2>6, WorkOf DEF CheckpointInv, CheckpointParts, Exclusive, Works
  <2>7. Exclusive'
    <3>1. ASSUME NEW g \in Calls, Works(call'[g])
          PROVE  call'[g].input \subseteq claims'[call'[g].session]
      BY <2>1, <2>3, <2>6, <3>1
    <3>2. ASSUME NEW g \in Calls, g # h, Works(call'[g]), call'[g].session = s
          PROVE  call'[g].input # {r}
      BY <1>2, <2>6, <3>2 DEF r, s
    <3>3. ASSUME NEW g \in Calls, NEW k \in Calls, Works(call'[g]), Works(call'[k]), g # k,
                 call'[g].session = call'[k].session
          PROVE  call'[g].input # call'[k].input
      <4>1. CASE g = h
        BY <2>1, <3>2, <3>3, <4>1
      <4>2. CASE k = h
        BY <2>1, <3>2, <3>3, <4>2
      <4>3. CASE g # h /\ k # h
        BY <2>4, <3>3, <4>3 DEF CheckpointInv, CheckpointParts, Exclusive
      <4> QED
        BY <4>1, <4>2, <4>3
    <3> QED
      BY <3>1, <3>3 DEF Exclusive, Works
  <2>8. Slotted'
    <3>1. ASSUME NEW t \in Sessions, NEW q \in Reasons, InSlots(t, q)
          PROVE  /\ q \in claims[t]
                 /\ \A g \in Calls : call'[g].pc = "slots" => ~WorksOn(call'[g], t, q)
      <4>1. q \in claims[t] /\ \A g \in Calls : call[g].pc = "slots" => ~WorksOn(call[g], t, q)
        BY <3>1 DEF CheckpointInv, CheckpointParts, Slotted
      <4>2. ~WorksOn(call'[h], t, q)
        BY <1>2, <2>1, <4>1 DEF WorksOn, r, s
      <4> QED
        BY <4>1, <4>2, <2>4
    <3> QED
      BY <2>3, <2>5, <3>1 DEF Slotted, WorksOn, Works
  <2>9. Reminded'
    BY <2>1, <2>2, <2>4, <2>5 DEF CheckpointInv, CheckpointParts, Reminded, WorksOn, Works
  <2>10. NothingUsedUp'
    <3>1. ASSUME NEW t \in Sessions, NEW q \in claims'[t]
          PROVE  \/ InSlots(t, q)
                 \/ \E g \in Calls : call'[g].pc = "slots" /\ call'[g].session = t
                                       /\ call'[g].input = {q}
                 \/ q \in burned[t]
      <4>1. CASE t = s /\ q = r
        BY <2>1, <4>1
      <4>2. CASE q \in claims[t]
        <5>1. CASE \E g \in Calls : call[g].pc = "slots" /\ call[g].session = t
                                       /\ call[g].input = {q}
          <6>1. PICK g \in Calls : call[g].pc = "slots" /\ call[g].session = t
                                     /\ call[g].input = {q}
            BY <5>1
          <6>2. g # h
            BY <1>0, <6>1
          <6> QED
            BY <6>1, <6>2, <2>4
        <5> QED
          BY <4>2, <5>1 DEF CheckpointInv, CheckpointParts, NothingUsedUp
      <4> QED
        BY <2>3, <4>1, <4>2
    <3> QED
      BY <2>2, <2>5, <3>1 DEF NothingUsedUp
  <2> QED
    BY <2>7, <2>8, <2>9, <2>10 DEF CheckpointParts
<1> QED
  BY <1>1, <1>2

LEMMA TakeKeeps ==
  ASSUME CheckpointInv, NEW h \in Calls, CheckpointTakes(h)
  PROVE  CheckpointParts'
<1> DEFINE s == call[h].session
           r == Reason(call[h])
           i == call[h].slot
<1>0. /\ s \in Sessions /\ r \in Reasons /\ call[h].input = {r} /\ CheckpointTypes
      /\ call[h].pc = "slots" /\ r # None
  BY WorkOf, HooksAssumption DEF CheckpointTakes, CheckpointInv
<1>1. /\ Steps(h) /\ call'[h].session = s /\ call'[h].input = {r} /\ call'[h].pc = "reminds"
      /\ i \in 1..MaxCheckpoints
  BY <1>0, TakeSteps DEF CheckpointInv, SameRun
<1>2. /\ UNCHANGED <<claims, reminded, burned>> /\ slots[s][i] = None
      /\ slots' = [slots EXCEPT ![s][i] = r]
  BY DEF CheckpointTakes, Taken
<1> HIDE DEF s, r, i
<1>3. /\ \A t \in Sessions : \A j \in 1..MaxCheckpoints :
           slots'[t][j] = IF t = s /\ j = i THEN r ELSE slots[t][j]
  BY <1>0, <1>1, <1>2 DEF CheckpointTypes
<1>4. \A t \in Sessions : \A q \in Reasons :
        InSlots(t, q)' <=> InSlots(t, q) \/ (t = s /\ q = r)
  BY <1>1, <1>2, <1>3, HooksAssumption DEF InSlots
<1>5. ASSUME NEW g \in Calls, g # h PROVE call'[g] = call[g]
  BY <1>1, <1>5 DEF Steps
<1>6. /\ WorksOn(call[h], s, r) /\ WorksOn(call'[h], s, r)
      /\ r \in claims[s]
  BY <1>0, <1>1 DEF WorksOn, Works, s, CheckpointInv, CheckpointParts, Exclusive
<1>7. ASSUME NEW g \in Calls, g # h PROVE ~WorksOn(call'[g], s, r)
  BY <1>0, <1>5, <1>6, <1>7
     DEF s, WorksOn, CheckpointInv, CheckpointParts, Exclusive
<1>8. Exclusive'
  <2>1. ASSUME NEW g \in Calls PROVE /\ Works(call'[g]) <=> Works(call[g])
                                     /\ call'[g].session = call[g].session
                                     /\ Works(call[g]) => call'[g].input = call[g].input
    BY <1>0, <1>1, <1>5 DEF Works, s
  <2> QED
    BY <1>2, <2>1 DEF CheckpointInv, CheckpointParts, Exclusive, Works
<1>9. Slotted'
  <2>1. ASSUME NEW t \in Sessions, NEW q \in Reasons, InSlots(t, q) \/ (t = s /\ q = r)
        PROVE  /\ q \in claims[t]
               /\ \A g \in Calls : call'[g].pc = "slots" => ~WorksOn(call'[g], t, q)
    <3>1. CASE t = s /\ q = r
      BY <1>1, <1>6, <1>7, <3>1
    <3>2. CASE InSlots(t, q)
      BY <1>1, <1>5, <3>2 DEF CheckpointInv, CheckpointParts, Slotted
    <3> QED
      BY <2>1, <3>1, <3>2
  <2> QED
    BY <1>2, <1>4, <2>1 DEF Slotted, WorksOn, Works
<1>10. Reminded'
  <2>1. ~InSlots(s, r) /\ reminded[s][r] = 0
    <3>1. ~InSlots(s, r)
      BY <1>0, <1>6 DEF CheckpointInv, CheckpointParts, Slotted
    <3>2. reminded[s][r] \in Nat
      BY <1>0 DEF CheckpointTypes
    <3> QED
      BY <1>0, <3>1, <3>2 DEF CheckpointInv, CheckpointParts, Reminded
  <2>2. ASSUME NEW g \in Calls, NEW t \in Sessions, NEW q \in Reasons,
               call'[g].pc = "reminds", WorksOn(call'[g], t, q)
        PROVE  (InSlots(t, q) \/ (t = s /\ q = r)) /\ reminded[t][q] = 0
    <3>1. CASE g = h
      BY <1>0, <1>1, <2>1, <2>2, <3>1 DEF WorksOn
    <3>2. CASE g # h
      BY <1>5, <2>2, <3>2 DEF CheckpointInv, CheckpointParts, Reminded
    <3> QED
      BY <3>1, <3>2
  <2>3. \A t \in Sessions : \A q \in Reasons :
          reminded[t][q] =< 1 /\ (reminded[t][q] > 0 => InSlots(t, q))
    BY DEF CheckpointInv, CheckpointParts, Reminded
  <2> QED
    BY <1>2, <1>4, <2>2, <2>3 DEF Reminded, WorksOn, Works
<1>11. NothingUsedUp'
  <2>1. ASSUME NEW t \in Sessions, NEW q \in claims[t]
        PROVE  \/ InSlots(t, q) \/ (t = s /\ q = r)
               \/ \E g \in Calls : call'[g].pc = "slots" /\ call'[g].session = t
                                     /\ call'[g].input = {q}
               \/ q \in burned[t]
    <3>1. CASE \E g \in Calls : call[g].pc = "slots" /\ call[g].session = t
                                     /\ call[g].input = {q}
      <4>1. PICK g \in Calls : call[g].pc = "slots" /\ call[g].session = t
                                     /\ call[g].input = {q}
        BY <3>1
      <4> QED
        BY <1>0, <1>5, <4>1 DEF s
    <3> QED
      BY <3>1 DEF CheckpointInv, CheckpointParts, NothingUsedUp
  <2>2. \A t \in Sessions : claims[t] \subseteq Reasons
    BY <1>0 DEF CheckpointTypes
  <2> QED
    BY <1>2, <1>4, <2>1, <2>2 DEF NothingUsedUp
<1> QED
  BY <1>8, <1>9, <1>10, <1>11 DEF CheckpointParts

LEMMA GiveUpKeeps ==
  ASSUME CheckpointInv, NEW h \in Calls, CheckpointFails(h) \/ CheckpointGivesUp(h)
  PROVE  CheckpointParts'
<1> DEFINE s == call[h].session
           r == Reason(call[h])
<1>0. /\ s \in Sessions /\ r \in Reasons /\ call[h].input = {r} /\ CheckpointTypes
      /\ Steps(h) /\ call'[h] = Idle /\ reminded' = reminded
      /\ call[h].pc \in {"claims", "slots"}
  BY GiveUpEffect, Parts DEF CheckpointInv
<1>u. CASE UNCHANGED checkpointVars /\ call[h].pc = "claims"
  <2>1. ~Works(call[h]) /\ ~Works(call'[h])
    BY <1>0, <1>u, IdleWorksNot DEF Works
  <2> QED
    BY <1>0, <1>u, <2>1, CheckpointsUntouched DEF Steps
<1>f. /\ \/ UNCHANGED checkpointVars /\ call[h].pc = "claims"
         \/ /\ claims' = [claims EXCEPT ![s] = @ \ {r}] /\ burned' = burned
            /\ call[h].pc = "slots"
         \/ /\ claims' = [claims EXCEPT ![s] = @ \cup {r}]
            /\ burned' = [burned EXCEPT ![s] = @ \cup {r}]
      /\ \/ slots' = slots
         \/ /\ call[h].slot \in 1..MaxCheckpoints /\ slots[s][call[h].slot] = None
            /\ slots' = [slots EXCEPT ![s][call[h].slot] = Spoiled]
  BY GiveUpEffect DEF CheckpointInv, checkpointVars
<1>p. call[h].pc = "slots" => WorksOn(call[h], s, r)
  BY <1>0 DEF WorksOn, Works
<1>c. call[h].session = s
  OBVIOUS
<1> HIDE DEF r, s
<1>3. /\ \A t \in Sessions : t # s => claims'[t] = claims[t] /\ burned'[t] = burned[t]
      /\ \/ UNCHANGED checkpointVars /\ call[h].pc = "claims"
         \/ claims'[s] = claims[s] \ {r} /\ burned'[s] = burned[s] /\ call[h].pc = "slots"
         \/ claims'[s] = claims[s] \cup {r} /\ burned'[s] = burned[s] \cup {r}
  BY <1>0, <1>f DEF CheckpointTypes, checkpointVars
<1>5. \A t \in Sessions : \A q \in Reasons : InSlots(t, q)' <=> InSlots(t, q)
  <2>1. \A t \in Sessions : \A j \in 1..MaxCheckpoints : \A q \in Reasons :
          slots'[t][j] = q <=> slots[t][j] = q
    <3>1. CASE slots' = slots
      BY <3>1
    <3>2. CASE slots' # slots
      <4> DEFINE i == call[h].slot
                 spoilt == [slots[s] EXCEPT ![i] = Spoiled]
      <4>1. i \in 1..MaxCheckpoints /\ slots[s][i] = None /\ slots' = [slots EXCEPT ![s] = spoilt]
        BY <1>f, <3>2
      <4> HIDE DEF i
      <4>2. \A j \in 1..MaxCheckpoints : spoilt[j] = IF j = i THEN Spoiled ELSE slots[s][j]
        BY <1>0, <4>1 DEF CheckpointTypes
      <4> HIDE DEF spoilt
      <4>3. \A t \in Sessions : slots'[t] = IF t = s THEN spoilt ELSE slots[t]
        BY <1>0, <4>1 DEF CheckpointTypes
      <4> QED
        BY <4>1, <4>2, <4>3, HooksAssumption
    <3> QED
      BY <3>1, <3>2
  <2> QED
    BY <2>1 DEF InSlots
<1>6. ASSUME NEW g \in Calls, Works(call'[g]) \/ call'[g].pc \in {"slots", "reminds"}
      PROVE  g # h /\ call'[g] = call[g]
  BY <1>0, <1>6, OthersWork DEF CheckpointInv
<1>s. SUFFICES ASSUME ~(UNCHANGED checkpointVars /\ call[h].pc = "claims") PROVE CheckpointParts'
  BY <1>u
<1>7. Exclusive'
  <2>1. ASSUME NEW g \in Calls, Works(call'[g])
        PROVE  call'[g].input \subseteq claims'[call'[g].session]
    <3>1. g # h /\ call'[g] = call[g] /\ Works(call[g])
      BY <1>6, <2>1
    <3>2. /\ call[g].session \in Sessions /\ call[g].input = {Reason(call[g])}
          /\ call[g].input \subseteq claims[call[g].session]
      BY <3>1, WorkOf DEF Works, CheckpointInv, CheckpointParts, Exclusive
    <3>3. call[h].pc = "slots" /\ call[g].session = s => call[g].input # {r}
      BY <1>0, <1>c, <1>p, <3>1 DEF WorksOn, CheckpointInv, CheckpointParts, Exclusive
    <3> QED
      BY <1>3, <1>s, <3>1, <3>2, <3>3
  <2>2. ASSUME NEW g \in Calls, NEW k \in Calls, Works(call'[g]), Works(call'[k]), g # k,
               call'[g].session = call'[k].session
        PROVE  call'[g].input # call'[k].input
    BY <1>6, <2>2 DEF CheckpointInv, CheckpointParts, Exclusive
  <2> QED
    BY <2>1, <2>2 DEF Exclusive, Works
<1>8. Slotted'
  <2>1. ASSUME NEW t \in Sessions, NEW q \in Reasons, InSlots(t, q)
        PROVE  /\ q \in claims'[t]
               /\ \A g \in Calls : call'[g].pc = "slots" => ~WorksOn(call'[g], t, q)
    <3>1. q \in claims[t] /\ \A g \in Calls : call[g].pc = "slots" => ~WorksOn(call[g], t, q)
      BY <2>1 DEF CheckpointInv, CheckpointParts, Slotted
    <3>2. call[h].pc = "slots" => ~(t = s /\ q = r)
      BY <1>p, <3>1
    <3> QED
      BY <1>3, <1>s, <1>6, <3>1, <3>2
  <2> QED
    BY <1>5, <2>1 DEF Slotted, WorksOn, Works
<1>9. Reminded'
  <2>1. ASSUME NEW g \in Calls, NEW t \in Sessions, NEW q \in Reasons,
               call'[g].pc = "reminds", WorksOn(call'[g], t, q)
        PROVE  InSlots(t, q) /\ reminded[t][q] = 0
    BY <1>6, <2>1 DEF CheckpointInv, CheckpointParts, Reminded
  <2> QED
    BY <1>0, <1>5, <2>1 DEF CheckpointInv, CheckpointParts, Reminded, WorksOn, Works
<1>10. NothingUsedUp'
  <2>1. ASSUME NEW t \in Sessions, NEW q \in claims'[t]
        PROVE  \/ InSlots(t, q)
               \/ \E g \in Calls : call'[g].pc = "slots" /\ call'[g].session = t
                                     /\ call'[g].input = {q}
               \/ q \in burned'[t]
    <3>1. CASE t = s /\ q = r
      BY <1>3, <1>s, <2>1, <3>1
    <3>2. CASE ~(t = s /\ q = r)
      <4>1. q \in claims[t] /\ (q \in burned[t] => q \in burned'[t])
        BY <1>3, <1>s, <2>1, <3>2
      <4>2. ASSUME NEW g \in Calls, call[g].pc = "slots", call[g].session = t, call[g].input = {q}
            PROVE  call'[g] = call[g]
        BY <1>0, <1>c, <3>2, <4>2 DEF Steps
      <4> QED
        BY <4>1, <4>2 DEF CheckpointInv, CheckpointParts, NothingUsedUp
    <3> QED
      BY <3>1, <3>2
  <2>2. claims' \in [Sessions -> SUBSET Reasons]
    BY <1>0, <1>f DEF CheckpointTypes, checkpointVars
  <2> QED
    BY <1>5, <2>1, <2>2 DEF NothingUsedUp
<1> QED
  BY <1>7, <1>8, <1>9, <1>10 DEF CheckpointParts

LEMMA RemindKeeps ==
  ASSUME CheckpointInv, NEW h \in Calls, CheckpointReminds(h)
  PROVE  CheckpointParts'
<1> DEFINE s == call[h].session
           r == Reason(call[h])
<1>0. /\ s \in Sessions /\ r \in Reasons /\ call[h].input = {r} /\ CheckpointTypes
      /\ call[h].pc = "reminds"
  BY WorkOf DEF CheckpointReminds, CheckpointInv
<1>1. Steps(h) /\ call'[h] = Idle
  BY EndSteps DEF CheckpointReminds, CheckpointInv
<1>2. /\ UNCHANGED <<claims, slots, burned>>
      /\ reminded' = [reminded EXCEPT ![s][r] = @ + 1]
  BY <1>0 DEF CheckpointReminds
<1>4. WorksOn(call[h], s, r) /\ ~Works(call'[h])
  BY <1>0, <1>1, IdleWorksNot DEF WorksOn, Works
<1>5. InSlots(s, r) /\ reminded[s][r] = 0
  BY <1>0, <1>4 DEF CheckpointInv, CheckpointParts, Reminded
<1>3. ASSUME NEW g \in Calls, g # h, Works(call[g]) PROVE ~WorksOn(call[g], s, r)
  BY <1>0, <1>3, <1>4 DEF WorksOn, CheckpointInv, CheckpointParts, Exclusive
<1> HIDE DEF r, s
<1>6. \A t \in Sessions : \A q \in Reasons :
        reminded'[t][q] = IF t = s /\ q = r THEN 1 ELSE reminded[t][q]
  BY <1>0, <1>2, <1>5 DEF CheckpointTypes
<1>7. \A t, q : InSlots(t, q)' <=> InSlots(t, q)
  BY <1>2 DEF InSlots
<1>8. ASSUME NEW g \in Calls, Works(call'[g]) \/ call'[g].pc \in {"slots", "reminds"}
      PROVE  g # h /\ call'[g] = call[g]
  BY <1>1, <1>8, OthersWork DEF CheckpointInv
<1>9. Exclusive' /\ Slotted'
  BY <1>2, <1>7, <1>8
     DEF CheckpointInv, CheckpointParts, Exclusive, Slotted, WorksOn, Works
<1>10. Reminded'
  <2>1. ASSUME NEW g \in Calls, NEW t \in Sessions, NEW q \in Reasons,
               call'[g].pc = "reminds", WorksOn(call'[g], t, q)
        PROVE  InSlots(t, q) /\ reminded'[t][q] = 0
    <3>1. g # h /\ call'[g] = call[g] /\ Works(call[g])
      BY <1>8, <2>1 DEF WorksOn
    <3>2. ~(t = s /\ q = r)
      BY <1>3, <2>1, <3>1
    <3> QED
      BY <1>6, <2>1, <3>1, <3>2 DEF CheckpointInv, CheckpointParts, Reminded
  <2>2. ASSUME NEW t \in Sessions, NEW q \in Reasons
        PROVE  reminded'[t][q] =< 1 /\ (reminded'[t][q] > 0 => InSlots(t, q))
    BY <1>5, <1>6 DEF CheckpointInv, CheckpointParts, Reminded
  <2> QED
    BY <1>7, <2>1, <2>2 DEF Reminded, WorksOn, Works
<1>11. NothingUsedUp'
  <2>1. ASSUME NEW t \in Sessions, NEW q \in claims[t]
        PROVE  \/ InSlots(t, q)
               \/ \E g \in Calls : call'[g].pc = "slots" /\ call'[g].session = t
                                     /\ call'[g].input = {q}
               \/ q \in burned[t]
    <3>1. CASE \E g \in Calls : call[g].pc = "slots" /\ call[g].session = t
                                     /\ call[g].input = {q}
      <4>1. PICK g \in Calls : call[g].pc = "slots" /\ call[g].session = t
                                     /\ call[g].input = {q}
        BY <3>1
      <4>2. g # h
        BY <1>0, <4>1
      <4> QED
        BY <1>1, <4>1, <4>2 DEF Steps
    <3> QED
      BY <3>1 DEF CheckpointInv, CheckpointParts, NothingUsedUp
  <2> QED
    BY <1>2, <1>7, <2>1 DEF NothingUsedUp
<1> QED
  BY <1>9, <1>10, <1>11 DEF CheckpointParts

LEMMA KillKeeps ==
  ASSUME CheckpointInv, NEW h \in Calls, HookKilled(h)
  PROVE  CheckpointParts'
<1>1. Steps(h) /\ call'[h] = Idle /\ call[h].pc # "idle"
  BY EndSteps DEF HookKilled, CheckpointInv
<1>2. /\ UNCHANGED <<claims, slots, reminded>>
      /\ burned' = IF call[h].op = "checkpoint"
                   THEN [burned EXCEPT ![call[h].session] = @ \cup call[h].input] ELSE burned
  BY DEF HookKilled
<1>3. CheckpointTypes /\ call[h].session \in Sessions
  BY <1>1, SessionOf, Parts DEF CheckpointInv
<1>4. /\ \A t \in Sessions : burned[t] \subseteq burned'[t]
      /\ call[h].op = "checkpoint" => call[h].input \subseteq burned'[call[h].session]
  BY <1>2, <1>3 DEF CheckpointTypes
<1>5. call[h].pc = "slots" => call[h].op = "checkpoint"
  BY <1>1, SessionOf DEF Staged, CheckpointInv
<1>7. \A t, q : InSlots(t, q)' <=> InSlots(t, q)
  BY <1>2 DEF InSlots
<1>8. ASSUME NEW g \in Calls, Works(call'[g]) \/ call'[g].pc \in {"slots", "reminds"}
      PROVE  g # h /\ call'[g] = call[g]
  BY <1>1, <1>8, OthersWork DEF CheckpointInv
<1>9. Exclusive' /\ Slotted' /\ Reminded'
  BY <1>2, <1>7, <1>8
     DEF CheckpointInv, CheckpointParts, Exclusive, Slotted, Reminded, WorksOn, Works
<1>10. NothingUsedUp'
  <2>1. ASSUME NEW t \in Sessions, NEW q \in claims[t]
        PROVE  \/ InSlots(t, q)
               \/ \E g \in Calls : call'[g].pc = "slots" /\ call'[g].session = t
                                     /\ call'[g].input = {q}
               \/ q \in burned'[t]
    <3>1. CASE \E g \in Calls : call[g].pc = "slots" /\ call[g].session = t
                                     /\ call[g].input = {q}
      <4>1. PICK g \in Calls : call[g].pc = "slots" /\ call[g].session = t
                                     /\ call[g].input = {q}
        BY <3>1
      <4>2. CASE g = h
        BY <1>4, <1>5, <4>1, <4>2
      <4>3. CASE g # h
        BY <1>1, <4>1, <4>3 DEF Steps
      <4> QED
        BY <4>2, <4>3
    <3> QED
      BY <1>4, <3>1 DEF CheckpointInv, CheckpointParts, NothingUsedUp
  <2> QED
    BY <1>2, <1>7, <2>1 DEF NothingUsedUp
<1> QED
  BY <1>9, <1>10 DEF CheckpointParts

LEMMA InitCheckpoints == Init => CheckpointInv
<1> SUFFICES ASSUME Init PROVE CheckpointInv
  OBVIOUS
<1>1. \A h \in Calls : ~Works(call[h]) /\ call[h].pc = "idle"
  BY IdleWorksNot DEF Init, Idle
<1>2. \A s \in Sessions : \A r \in Reasons : ~InSlots(s, r) /\ reminded[s][r] = 0
  BY HooksAssumption DEF Init, InSlots
<1> QED
  BY <1>1, <1>2, InitCalls
     DEF Init, CheckpointInv, CheckpointParts, Exclusive, Slotted, Reminded, NothingUsedUp,
         WorksOn

LEMMA NextCheckpoints == CheckpointInv /\ [Next]_vars => CheckpointInv'
<1> SUFFICES ASSUME CheckpointInv, [Next]_vars PROVE CheckpointParts'
  BY NextCalls DEF CheckpointInv
<1>1. CASE UNCHANGED vars
  BY <1>1, CheckpointsUntouched DEF vars
<1>2. ASSUME NEW h \in Calls, Step(h) PROVE CheckpointParts'
  <2>1. CASE \/ CheckpointClaims(h) \/ CheckpointTakes(h) \/ CheckpointGivesUp(h)
             \/ CheckpointFails(h) \/ CheckpointReminds(h) \/ HookKilled(h)
    BY <2>1, ClaimKeeps, TakeKeeps, GiveUpKeeps, RemindKeeps, KillKeeps
  <2>2. CASE ~(\/ CheckpointClaims(h) \/ CheckpointTakes(h) \/ CheckpointGivesUp(h)
               \/ CheckpointFails(h) \/ CheckpointReminds(h) \/ HookKilled(h))
    <3>1. /\ UNCHANGED checkpointVars
          /\ Works(call'[h]) <=> Works(call[h])
          /\ Works(call[h]) => /\ call'[h].pc = call[h].pc
                               /\ call'[h].session = call[h].session
                               /\ call'[h].input = call[h].input
      BY <1>2, <2>2, QuietCheckpoints
    <3>2. \A g \in Calls : g # h => call'[g] = call[g]
      BY <1>2, StepSteps DEF Steps, CheckpointInv
    <3> QED
      BY <3>1, <3>2, CheckpointsUntouched
  <2> QED
    BY <2>1, <2>2
<1>3. ASSUME NEW s \in Sessions, SnapshotExpires(s) PROVE CheckpointParts'
  BY <1>3, ExpiryEffect, CheckpointsUntouched DEF CheckpointInv
<1> QED
  BY <1>1, <1>2, <1>3, NextIsStep

(* A session's reminders each have a slot of their session.                 *)
LEMMA FewReminders ==
  ASSUME CheckpointInv, NEW s \in Sessions
  PROVE  Cardinality({r \in Reasons : reminded[s][r] > 0}) =< MaxCheckpoints
<1> DEFINE given == {r \in Reasons : reminded[s][r] > 0}
           all == {slots[s][i] : i \in 1..MaxCheckpoints}
<1>0. slots[s] \in [1..MaxCheckpoints -> Reasons \cup {None, Spoiled}] /\ MaxCheckpoints \in Nat
  BY Parts, HooksAssumption DEF CheckpointInv, CheckpointTypes
<1>1. IsFiniteSet(1..MaxCheckpoints) /\ Cardinality(1..MaxCheckpoints) = MaxCheckpoints
  <2>1. /\ IsFiniteSet(1..MaxCheckpoints)
        /\ Cardinality(1..MaxCheckpoints) =
             IF 1 > MaxCheckpoints THEN 0 ELSE MaxCheckpoints - 1 + 1
    BY <1>0, FS_Interval
  <2> QED
    BY <1>0, <2>1
<1>2. slots[s] \in Surjection(1..MaxCheckpoints, all)
  BY <1>0 DEF Surjection
<1>3. IsFiniteSet(all) /\ Cardinality(all) =< MaxCheckpoints
  BY <1>1, <1>2, FS_Surjection
<1>4. given \subseteq all
  BY DEF CheckpointInv, CheckpointParts, Reminded, InSlots
<1> HIDE DEF given, all
<1>5. IsFiniteSet(given) /\ Cardinality(given) =< Cardinality(all)
  BY <1>3, <1>4, FS_Subset
<1>6. Cardinality(given) \in Nat /\ Cardinality(all) \in Nat
  BY <1>3, <1>5, FS_CardinalityType
<1>7. Cardinality(given) =< MaxCheckpoints
  BY <1>0, <1>3, <1>5, <1>6
<1> QED
  BY <1>7 DEF given

(* Hooks that run at the same moment never remind a session of one kind of  *)
(* boundary twice, nor of more than the cap allows; and a claim that no     *)
(* reminder came of was left by a hook that was killed.                    *)
THEOREM CheckpointsKeepTheirCap == Spec => []CheckpointsCapped
<1>1. CheckpointInv => CheckpointsCapped
  BY FewReminders
     DEF CheckpointInv, CheckpointParts, Reminded, NothingUsedUp, InSlots, CheckpointsCapped
<1> QED
  BY <1>1, InitCheckpoints, NextCheckpoints, PTL DEF Spec

-----------------------------------------------------------------------------
(* Warnings.  Those a session was given or has on their way are no more    *)
(* than its marker has notes, up to the cap, and a cap's worth for each    *)
(* hook that was overtaken: an overtaken hook may leave a marker of one    *)
(* note only, any other adds a note to a marker below the cap.             *)

Gives(c, s) == c.pc = "delivers" /\ c.session = s /\ Warns(c)

Giving(s) == {h \in Calls : Gives(call[h], s)}

(* How many warnings a marker stands for.                                  *)
Told(m) == IF Cardinality(m) =< MaxWarnings THEN Cardinality(m) ELSE MaxWarnings

(* w warnings given and g on their way, with n hooks overtaken.            *)
Within(w, g, n, m) == w + g =< MaxWarnings * n + Told(m)

(* What a hook has read of the marker.                                     *)
ReadOf(c, s) ==
  Deciding(c) /\ c.session = s /\ c.pc # "delivers" =>
    IsFiniteSet(c.fired) /\ (c.pc = "writes" => IsFiniteSet(c.current))

Marked(s) ==
  /\ IsFiniteSet(marker[s]) /\ IsFiniteSet(Giving(s))
  /\ Within(warned[s], Cardinality(Giving(s)), races[s], marker[s])
  /\ \A g \in Calls : ReadOf(call[g], s)

AllMarked == \A s \in Sessions : Marked(s)

LEMMA FiniteReads ==
  ASSUME NEW s, IsFiniteSet(marker[s]), NEW m \in Reads(s)
  PROVE  IsFiniteSet(m)
BY FS_EmptySet DEF Reads

WarningInv == CallsInv /\ AllMarked

LEMMA ToldType ==
  ASSUME NEW m, IsFiniteSet(m)
  PROVE  Told(m) \in Nat /\ Told(m) =< MaxWarnings /\ Cardinality(m) \in Nat
BY FS_CardinalityType, HooksAssumption DEF Told

(* One race more allows a cap's worth of warnings more.                    *)
LEMMA RaceAllows ==
  ASSUME NEW n \in Nat
  PROVE  /\ MaxWarnings * n \in Nat
         /\ MaxWarnings * (n + 1) = MaxWarnings * n + MaxWarnings
BY HooksAssumption

LEMMA StaysMarked ==
  ASSUME NEW s, IsFiniteSet(marker'[s]), IsFiniteSet(Giving(s)'),
         Within(warned'[s], Cardinality(Giving(s)'), races'[s], marker'[s]),
         \A g \in Calls : ReadOf(call[g], s)'
  PROVE  Marked(s)'
<1>1. Within(warned[s], Cardinality(Giving(s)), races[s], marker[s])'
  BY DEF Within, Told
<1> QED
  BY <1>1 DEF Marked

(* Fewer warnings on their way, and the same marker.                        *)
LEMMA FewerGiven ==
  ASSUME CallsInv, NEW s \in Sessions, Marked(s), marker'[s] = marker[s], warned'[s] = warned[s],
         races'[s] = races[s], Giving(s)' \subseteq Giving(s), \A g \in Calls : ReadOf(call[g], s)'
  PROVE  Marked(s)'
<1>1. IsFiniteSet(Giving(s)') /\ Cardinality(Giving(s)') =< Cardinality(Giving(s))
  BY FS_Subset DEF Marked
<1> DEFINE allowed == MaxWarnings * races[s] + Told(marker[s])
<1>2. /\ Cardinality(Giving(s)') \in Nat /\ Cardinality(Giving(s)) \in Nat
      /\ warned[s] \in Nat /\ allowed \in Nat
  <2>1. Cardinality(Giving(s)') \in Nat /\ Cardinality(Giving(s)) \in Nat
    BY <1>1, FS_CardinalityType DEF Marked
  <2>2. warned[s] \in Nat /\ races[s] \in Nat
    BY Parts DEF TriggerTypes
  <2>3. MaxWarnings * races[s] \in Nat /\ Told(marker[s]) \in Nat
    BY <2>2, RaceAllows, ToldType DEF Marked
  <2> QED
    BY <2>1, <2>2, <2>3
<1>3. warned[s] + Cardinality(Giving(s)) =< allowed
  BY DEF Marked, Within
<1> HIDE DEF allowed
<1>4. warned[s] + Cardinality(Giving(s)') =< allowed
  BY <1>1, <1>2, <1>3
<1>5. Within(warned'[s], Cardinality(Giving(s)'), races'[s], marker'[s])
  BY <1>4 DEF Within, allowed
<1>6. IsFiniteSet(marker'[s])
  BY DEF Marked
<1> QED
  BY <1>1, <1>5, <1>6, StaysMarked

LEMMA IdleGivesNothing == \A s : ~Gives(Idle, s) /\ ~Deciding(Idle)
BY DEF Gives, Idle, Deciding

(* A step that leaves the marker alone, and brings no warning to the point  *)
(* of delivery.                                                            *)
LEMMA WarningsUntouched ==
  ASSUME WarningInv, NEW h \in Calls, Steps(h), UNCHANGED triggerVars,
         \A s \in Sessions : Gives(call'[h], s) => Gives(call[h], s),
         \A s \in Sessions : (\A g \in Calls : ReadOf(call[g], s)) => ReadOf(call'[h], s)
  PROVE  AllMarked'
<1>1. UNCHANGED <<marker, warned, races>>
  BY DEF triggerVars
<1>2. ASSUME NEW s \in Sessions, Marked(s) PROVE Marked(s)'
  <2>1. ASSUME NEW g \in Calls PROVE ReadOf(call[g], s)' <=> ReadOf(call'[g], s)
    BY DEF ReadOf, Deciding
  <2>2. ASSUME NEW g \in Calls PROVE ReadOf(call[g], s)'
    BY <1>2, <2>1 DEF Steps, Marked
  <2>3. Giving(s)' = {g \in Calls : Gives(call'[g], s)}
    BY DEF Giving, Gives, Warns
  <2>4. Giving(s)' \subseteq Giving(s)
    BY <2>3 DEF Giving, Steps
  <2> QED
    BY <1>1, <1>2, <2>2, <2>4, FewerGiven DEF WarningInv
<1> QED
  BY <1>1, <1>2 DEF WarningInv, AllMarked

LEMMA QuietWarnings ==
  ASSUME WarningInv, NEW h \in Calls, Step(h),
         ~AppendReads(h), ~AppendWrites(h), ~Delivers(h)
  PROVE  AllMarked'
<1> USE DEF WarningInv
<1>0. UNCHANGED triggerVars
  BY DEF Step, HookStarts, DaemonComputes, TakesAnswer, FallsBack, ComputesHere, ComputeFails,
         Logs, AppendFails, PrecompactSaves, PrecompactFails, Prints, Consumes,
         CheckpointClaims, CheckpointFails, CheckpointTakes, CheckpointTriesNext,
         CheckpointGivesUp, CheckpointReminds, HookKilled
<1>s. Steps(h)
  BY StepSteps
<1>9. ASSUME \A s \in Sessions : ~Gives(call'[h], s), ~Deciding(call'[h]) PROVE AllMarked'
  BY <1>0, <1>s, <1>9, WarningsUntouched DEF ReadOf
<1>e. ASSUME call'[h] = Idle PROVE AllMarked'
  BY <1>9, <1>e, IdleGivesNothing
<1>1. CASE \E op \in Ops : \E s \in Sessions : \E input \in Inputs(op) :
             HookStarts(h, op, s, input)
  BY <1>1, <1>9, StartSteps DEF Gives, Deciding
<1>2. CASE DaemonComputes(h) \/ ComputesHere(h)
  <2>1. /\ call'[h].pc \in {"answered", "logs"}
        /\ call'[h].op = "trigger" => call'[h].fired \in Reads(call'[h].session)
    BY <1>2, ComputeSteps
  <2>2. \A s \in Sessions : ~Gives(call'[h], s) /\ ReadOf(call'[h], s)
    BY <2>1, FiniteReads DEF Gives, ReadOf, Deciding, AllMarked, Marked
  <2> QED
    BY <2>2, <1>0, <1>s, WarningsUntouched
<1>3. CASE TakesAnswer(h)
  <2>1. /\ call'[h].pc \in {"prints", "logs"} /\ call[h].pc = "answered"
        /\ SameRun(h) /\ call'[h].fired = call[h].fired
    BY <1>3, AnswerSteps
  <2>2. \A s \in Sessions : ~Gives(call'[h], s) /\ (ReadOf(call[h], s) => ReadOf(call'[h], s))
    BY <2>1 DEF Gives, ReadOf, Deciding, SameRun, Warns
  <2> QED
    BY <2>2, <1>0, <1>s, WarningsUntouched
<1>4. CASE FallsBack(h)
  BY <1>4, <1>9, FallBackSteps DEF Gives, Deciding
<1>5. CASE Logs(h)
  <2>1. /\ call'[h].pc \in {"prints", "consumes", "reads", "delivers"} /\ call[h].pc = "logs"
        /\ SameRun(h) /\ call'[h].fired = call[h].fired
        /\ call'[h].pc = "delivers" => ~Warns(call'[h])
    BY <1>5, LogSteps
  <2>2. \A s \in Sessions : ~Gives(call'[h], s) /\ (ReadOf(call[h], s) => ReadOf(call'[h], s))
    BY <2>1 DEF Gives, ReadOf, Deciding, SameRun, Warns
  <2> QED
    BY <2>2, <1>0, <1>s, WarningsUntouched
<1>6. CASE ComputeFails(h) \/ AppendFails(h) \/ PrecompactFails(h) \/ CheckpointFails(h)
  BY <1>6, <1>e, EndSteps DEF ComputeFails, AppendFails, PrecompactFails, CheckpointFails
<1>7. CASE CheckpointGivesUp(h) \/ CheckpointReminds(h) \/ HookKilled(h)
  BY <1>7, <1>e, EndSteps DEF CheckpointGivesUp, CheckpointReminds, HookKilled
<1>8. CASE PrecompactSaves(h) \/ Consumes(h)
  BY <1>8, <1>e, EndSteps DEF PrecompactSaves, Consumes
<1>10. CASE Prints(h)
  <2>1. call'[h].op = "wakeup" /\ call'[h].pc # "delivers"
    BY <1>10, PrintSteps DEF SameRun
  <2> QED
    BY <1>9, <2>1 DEF Gives, Deciding
<1>11. CASE CheckpointClaims(h)
  <2>1. call'[h] = Idle \/ call'[h].pc = "slots"
    BY <1>11, ClaimSteps, EndSteps DEF CheckpointClaims
  <2> QED
    BY <1>9, <1>e, <2>1 DEF Gives, Deciding
<1>12. CASE CheckpointTakes(h) \/ CheckpointTriesNext(h)
  BY <1>9, <1>12, TakeSteps, NextSlotSteps DEF Gives, Deciding
<1> QED
  BY <1>1, <1>2, <1>3, <1>4, <1>5, <1>6, <1>7, <1>8, <1>10, <1>11, <1>12 DEF Step

(* The other sessions have their own marker.                                *)
LEMMA OtherMarked ==
  ASSUME CallsInv, NEW h \in Calls, Steps(h), NEW s \in Sessions, call'[h].session # s,
         marker'[s] = marker[s], warned'[s] = warned[s], races'[s] = races[s], Marked(s)
  PROVE  Marked(s)'
<1>1. ASSUME NEW g \in Calls PROVE ReadOf(call[g], s)'
  BY DEF Steps, Marked, ReadOf, Deciding
<1>2. Giving(s)' = {g \in Calls : Gives(call'[g], s)}
  BY DEF Giving, Gives, Warns
<1>3. Giving(s)' \subseteq Giving(s)
  BY <1>2 DEF Giving, Steps, Gives
<1> QED
  BY <1>1, <1>3, FewerGiven

(* A hook comes to the point of delivery.                                   *)
LEMMA OneMoreGiven ==
  ASSUME CallsInv, NEW h \in Calls, Steps(h), SameRun(h), NEW s \in Sessions, Marked(s),
         call[h].session = s, call[h].pc # "delivers", call'[h].pc = "delivers", Warns(call[h]),
         warned'[s] = warned[s], IsFiniteSet(marker'[s]),
         MaxWarnings * races[s] + Told(marker[s]) < MaxWarnings * races'[s] + Told(marker'[s]),
         races'[s] \in Nat
  PROVE  Marked(s)'
<1>1. Giving(s)' = {g \in Calls : Gives(call'[g], s)}
  BY DEF Giving, Gives, Warns
<1>2. Gives(call'[h], s) /\ ~Gives(call[h], s)
  BY DEF Gives, SameRun, Warns
<1>3. Giving(s)' = Giving(s) \cup {h} /\ h \notin Giving(s)
  BY <1>1, <1>2 DEF Giving, Steps
<1>4. /\ IsFiniteSet(Giving(s)') /\ Cardinality(Giving(s)') = Cardinality(Giving(s)) + 1
      /\ Cardinality(Giving(s)) \in Nat
  BY <1>3, FS_AddElement, FS_CardinalityType DEF Marked
<1>5. /\ warned[s] \in Nat /\ races[s] \in Nat
      /\ MaxWarnings * races[s] \in Nat /\ MaxWarnings * races'[s] \in Nat
      /\ Told(marker[s]) \in Nat /\ Told(marker'[s]) \in Nat
  BY Parts, RaceAllows, ToldType DEF Marked, TriggerTypes
<1>6. warned[s] + Cardinality(Giving(s)) =< MaxWarnings * races[s] + Told(marker[s])
  BY DEF Marked, Within
<1> DEFINE before == MaxWarnings * races[s]
           after == MaxWarnings * races'[s]
<1>7. warned'[s] + Cardinality(Giving(s)') =< after + Told(marker'[s])
  <2>1. before \in Nat /\ after \in Nat /\ before + Told(marker[s]) < after + Told(marker'[s])
        /\ warned[s] + Cardinality(Giving(s)) =< before + Told(marker[s])
    BY <1>5, <1>6
  <2> HIDE DEF before, after
  <2> QED
    BY <2>1, <1>4, <1>5
<1>8. Within(warned'[s], Cardinality(Giving(s)'), races'[s], marker'[s])
  BY <1>7 DEF Within
<1>9. ASSUME NEW g \in Calls PROVE ReadOf(call[g], s)'
  BY DEF Steps, Marked, ReadOf, Deciding
<1> QED
  BY <1>4, <1>8, <1>9, StaysMarked

LEMMA CapNotZero ==
  ASSUME NEW c, Decided(c), Deciding(c), Warns(c), c.pc # "delivers", IsFiniteSet(c.fired)
  PROVE  MaxWarnings \in Nat /\ 1 =< MaxWarnings
<1>1. Cardinality(c.fired) < MaxWarnings /\ Cardinality(c.fired) \in Nat
  BY FS_CardinalityType DEF Decided
<1> QED
  BY <1>1, HooksAssumption

LEMMA ReadKeepsMarked ==
  ASSUME WarningInv, NEW h \in Calls, AppendReads(h)
  PROVE  AllMarked'
<1>0. PICK s \in Sessions : s = call[h].session
  BY SessionOf DEF WarningInv, AppendReads
<1>1. /\ Steps(h) /\ SameRun(h) /\ call[h].pc = "reads" /\ Warns(call[h])
      /\ s = call[h].session /\ Staged(call[h]) /\ Decided(call[h]) /\ TriggerTypes
      /\ Marked(s)
  BY <1>0, ReadSteps, SessionOf, Parts DEF WarningInv, AllMarked, AppendReads
<1>2. Deciding(call[h])
  BY <1>1 DEF Deciding, Staged
<1>r. PICK m \in Reads(s) :
        IF call[h].plan.note \in m
        THEN call'[h].pc = "delivers" /\ races' = RacesOn(call[h])
        ELSE /\ call'[h].pc = "writes" /\ call'[h].fired = call[h].fired
             /\ call'[h].current = m /\ races' = races
  BY <1>0, ReadSteps DEF WarningInv
<1>u. UNCHANGED <<marker, warned>>
  BY DEF AppendReads
<1>3. CASE call[h].plan.note \in m
  <2>1. /\ UNCHANGED <<marker, warned>> /\ races' = RacesOn(call[h])
    BY <1>r, <1>u, <1>3
  <2>2. Overtaken(call[h])
    BY <1>1, <1>2, <1>3 DEF Decided, Overtaken, Reads
  <2>3. /\ races[s] \in Nat /\ races'[s] = races[s] + 1
        /\ \A t \in Sessions : t # s => races'[t] = races[t]
    BY <1>1, <2>1, <2>2 DEF RacesOn, TriggerTypes
  <2>4. MaxWarnings \in Nat /\ 1 =< MaxWarnings
    BY <1>1, <1>2, CapNotZero DEF Marked, ReadOf
  <2>5. call'[h].pc = "delivers"
    BY <1>r, <1>3
  <2>6. Marked(s)'
    <3>1. IsFiniteSet(marker'[s]) /\ Told(marker'[s]) = Told(marker[s]) /\ Told(marker[s]) \in Nat
      BY <1>1, <2>1, ToldType DEF Marked
    <3>2. MaxWarnings * races'[s] = MaxWarnings * races[s] + MaxWarnings
          /\ MaxWarnings * races[s] \in Nat
      BY <2>3, RaceAllows
    <3>3. MaxWarnings * races[s] + Told(marker[s]) < MaxWarnings * races'[s] + Told(marker'[s])
      BY <2>4, <3>1, <3>2
    <3> QED
      <4>1. /\ s \in Sessions /\ call[h].session = s /\ call[h].pc # "delivers"
            /\ warned'[s] = warned[s] /\ races'[s] \in Nat /\ CallsInv
        BY <1>1, <2>1, <2>3 DEF WarningInv
      <4> QED
        BY <1>1, <2>5, <3>1, <3>3, <4>1, OneMoreGiven
  <2>7. ASSUME NEW t \in Sessions, t # s PROVE Marked(t)'
    BY <1>1, <2>1, <2>3, <2>7, OtherMarked DEF WarningInv, AllMarked, SameRun
  <2> QED
    BY <2>6, <2>7 DEF AllMarked
<1>4. CASE call[h].plan.note \notin m
  <2>1. UNCHANGED triggerVars
    BY <1>r, <1>u, <1>4 DEF triggerVars
  <2>2. /\ call'[h].pc = "writes" /\ call'[h].fired = call[h].fired
        /\ call'[h].current = m /\ IsFiniteSet(m)
    BY <1>1, <1>r, <1>4, FiniteReads DEF Marked
  <2>3. \A t \in Sessions : ~Gives(call'[h], t) /\ (ReadOf(call[h], t) => ReadOf(call'[h], t))
    BY <1>1, <1>2, <2>2 DEF Gives, ReadOf, SameRun, Marked
  <2> QED
    BY <1>1, <2>1, <2>3, WarningsUntouched
<1> QED
  BY <1>3, <1>4

LEMMA WriteKeepsMarked ==
  ASSUME WarningInv, NEW h \in Calls, AppendWrites(h)
  PROVE  AllMarked'
<1>0. PICK s \in Sessions : s = call[h].session
  BY SessionOf DEF WarningInv, AppendWrites
<1> DEFINE note == call[h].plan.note
<1>1. /\ Steps(h) /\ SameRun(h) /\ call[h].pc = "writes" /\ Warns(call[h])
      /\ call'[h].pc = "delivers" /\ s = call[h].session
      /\ Staged(call[h]) /\ Decided(call[h]) /\ TriggerTypes /\ Marked(s)
  BY <1>0, WriteSteps, SessionOf, Parts DEF WarningInv, AllMarked, AppendWrites
<1>2. Deciding(call[h])
  BY <1>1 DEF Deciding, Staged
<1>3. /\ warned' = warned /\ races' = RacesOn(call[h])
      /\ marker' = [marker EXCEPT ![s] = call[h].current \cup {note}]
  BY <1>0 DEF AppendWrites
<1>4. /\ \A t \in Sessions : t # s => races'[t] = races[t] /\ marker'[t] = marker[t]
      /\ marker'[s] = call[h].current \cup {note}
      /\ races[s] \in Nat
      /\ races'[s] = IF Overtaken(call[h]) THEN races[s] + 1 ELSE races[s]
  BY <1>1, <1>3 DEF RacesOn, TriggerTypes
<1>5. IsFiniteSet(call[h].fired) /\ IsFiniteSet(call[h].current) /\ IsFiniteSet(marker[s])
  BY <1>1, <1>2 DEF Marked, ReadOf
<1>6. MaxWarnings \in Nat /\ 1 =< MaxWarnings
  BY <1>1, <1>2, <1>5, CapNotZero
<1>7. IsFiniteSet(marker'[s]) /\ Cardinality(marker'[s]) \in Nat \ {0}
  <2>1. IsFiniteSet(marker'[s])
    BY <1>4, <1>5, FS_AddElement
  <2>2. marker'[s] # {}
    BY <1>4
  <2> QED
    BY <2>1, <2>2, FS_EmptySet, FS_CardinalityType
<1>8. /\ MaxWarnings * races[s] \in Nat
      /\ MaxWarnings * (races[s] + 1) = MaxWarnings * races[s] + MaxWarnings
      /\ Told(marker[s]) \in Nat /\ Told(marker[s]) =< MaxWarnings
  BY <1>4, <1>5, RaceAllows, ToldType
<1>9. MaxWarnings * races[s] + Told(marker[s]) < MaxWarnings * races'[s] + Told(marker'[s])
  <2>1. CASE Overtaken(call[h])
    <3>1. Told(marker'[s]) \in Nat /\ 1 =< Told(marker'[s])
      BY <1>6, <1>7 DEF Told
    <3>2. MaxWarnings * races'[s] = MaxWarnings * races[s] + MaxWarnings
      BY <1>4, <1>8, <2>1
    <3> QED
      BY <1>6, <1>8, <3>1, <3>2
  <2>2. CASE ~Overtaken(call[h])
    <3>1. call[h].current = marker[s] /\ call[h].fired = marker[s]
      BY <1>1, <2>2 DEF Overtaken
    <3>2. note \notin marker[s] /\ Cardinality(marker[s]) < MaxWarnings
      BY <1>1, <1>2, <3>1 DEF Decided
    <3>3. /\ Cardinality(marker'[s]) = Cardinality(marker[s]) + 1
          /\ Cardinality(marker[s]) \in Nat
      <4>1. Cardinality(marker[s] \cup {note}) = Cardinality(marker[s]) + 1
        BY <1>5, <3>2, FS_AddElement
      <4> QED
        BY <1>4, <1>5, <3>1, <4>1, FS_CardinalityType
    <3>4. Told(marker[s]) = Cardinality(marker[s]) /\ Told(marker'[s]) = Cardinality(marker[s]) + 1
      BY <1>6, <3>2, <3>3 DEF Told
    <3>5. races'[s] = races[s]
      BY <1>4, <2>2
    <3> QED
      BY <1>8, <3>3, <3>4, <3>5
  <2> QED
    BY <2>1, <2>2
<1>10. Marked(s)'
  <2>1. /\ s \in Sessions /\ call[h].session = s /\ call[h].pc # "delivers"
        /\ warned'[s] = warned[s] /\ races'[s] \in Nat /\ CallsInv
    BY <1>1, <1>3, <1>4 DEF WarningInv
  <2> QED
    BY <1>1, <1>7, <1>9, <2>1, OneMoreGiven
<1>11. ASSUME NEW t \in Sessions, t # s PROVE Marked(t)'
  BY <1>1, <1>3, <1>4, <1>11, OtherMarked DEF WarningInv, AllMarked, SameRun
<1> QED
  BY <1>10, <1>11 DEF AllMarked

LEMMA DeliverKeepsMarked ==
  ASSUME WarningInv, NEW h \in Calls, Delivers(h)
  PROVE  AllMarked'
<1>0. PICK s \in Sessions : s = call[h].session
  BY SessionOf DEF WarningInv, Delivers
<1>1. /\ Steps(h) /\ call'[h] = Idle /\ call[h].pc = "delivers"
      /\ s = call[h].session /\ TriggerTypes
  BY <1>0, EndSteps, SessionOf, Parts DEF WarningInv, Delivers
<1>2. /\ UNCHANGED <<marker, races>>
      /\ warned' = [warned EXCEPT ![s] = IF Warns(call[h]) THEN @ + 1 ELSE @]
  BY <1>0 DEF Delivers, Warns
<1>3. /\ warned[s] \in Nat
      /\ \A t \in Sessions : t # s => warned'[t] = warned[t]
      /\ warned'[s] = IF Warns(call[h]) THEN warned[s] + 1 ELSE warned[s]
  BY <1>1, <1>2 DEF TriggerTypes
<1>4. ASSUME NEW t \in Sessions, Marked(t) PROVE Marked(t)'
  <2>1. ASSUME NEW g \in Calls PROVE ReadOf(call[g], t)'
    BY <1>1, <1>4, IdleGivesNothing DEF Steps, Marked, ReadOf, Deciding
  <2>2. Giving(t)' = {g \in Calls : Gives(call'[g], t)}
    BY DEF Giving, Gives, Warns
  <2>3. CASE t = s /\ Warns(call[h])
    <3>1. Giving(s)' = Giving(s) \ {h} /\ h \in Giving(s)
      BY <1>1, <2>2, <2>3, IdleGivesNothing DEF Giving, Steps, Gives
    <3>2. /\ IsFiniteSet(Giving(s)') /\ Cardinality(Giving(s)') = Cardinality(Giving(s)) - 1
          /\ Cardinality(Giving(s)) \in Nat
      BY <1>4, <2>3, <3>1, FS_RemoveElement, FS_CardinalityType DEF Marked
    <3>3. warned'[s] + Cardinality(Giving(s)') = warned[s] + Cardinality(Giving(s))
      BY <1>3, <2>3, <3>2
    <3>4. Within(warned'[s], Cardinality(Giving(s)'), races'[s], marker'[s])
      BY <1>2, <1>4, <2>3, <3>3 DEF Marked, Within
    <3> QED
      BY <1>2, <1>4, <2>1, <2>3, <3>2, <3>4, StaysMarked DEF Marked
  <2>4. CASE ~(t = s /\ Warns(call[h]))
    <3>1. Giving(t)' \subseteq Giving(t)
      BY <1>1, <2>2, IdleGivesNothing DEF Giving, Steps
    <3>2. warned'[t] = warned[t]
      BY <1>3, <2>4
    <3> QED
      BY <1>2, <1>4, <2>1, <3>1, <3>2, FewerGiven DEF WarningInv
  <2> QED
    BY <2>3, <2>4
<1> QED
  BY <1>4 DEF WarningInv, AllMarked

LEMMA InitWarnings == Init => WarningInv
<1> SUFFICES ASSUME Init PROVE AllMarked
  BY InitCalls DEF WarningInv
<1>1. ASSUME NEW s \in Sessions PROVE Giving(s) = {}
  BY IdleGivesNothing DEF Init, Giving
<1>2. IsFiniteSet({}) /\ Cardinality({}) = 0 /\ MaxWarnings \in Nat
  BY FS_EmptySet, HooksAssumption
<1>3. ASSUME NEW s \in Sessions PROVE Marked(s)
  <2>1. \A g \in Calls : ReadOf(call[g], s)
    BY IdleGivesNothing DEF Init, ReadOf, Deciding
  <2>2. marker[s] = {} /\ warned[s] = 0 /\ races[s] = 0
    BY DEF Init
  <2>3. MaxWarnings * 0 \in Nat /\ Told({}) \in Nat
    BY <1>2, RaceAllows, ToldType
  <2>4. Within(0, 0, 0, {})
    BY <2>3 DEF Within
  <2> QED
    BY <1>1, <1>2, <2>1, <2>2, <2>4 DEF Marked
<1> QED
  BY <1>3 DEF AllMarked

LEMMA NextWarnings == WarningInv /\ [Next]_vars => WarningInv'
<1> SUFFICES ASSUME WarningInv, [Next]_vars PROVE AllMarked'
  BY NextCalls DEF WarningInv
<1>0. ASSUME UNCHANGED <<call, triggerVars>> PROVE AllMarked'
  <2>1. UNCHANGED <<call, marker, warned, races>>
    BY <1>0 DEF triggerVars
  <2>2. ASSUME NEW s \in Sessions, Marked(s) PROVE Marked(s)'
    BY <2>1, <2>2 DEF Marked, Within, Giving, Gives, Warns, ReadOf, Deciding, Told
  <2> QED
    BY <2>1, <2>2 DEF WarningInv, AllMarked
<1>1. CASE UNCHANGED vars
  BY <1>0, <1>1 DEF vars
<1>2. ASSUME NEW h \in Calls, Step(h) PROVE AllMarked'
  BY <1>2, QuietWarnings, ReadKeepsMarked, WriteKeepsMarked, DeliverKeepsMarked
<1>3. ASSUME NEW s \in Sessions, SnapshotExpires(s) PROVE AllMarked'
  BY <1>0, <1>3, ExpiryEffect DEF WarningInv
<1> QED
  BY <1>1, <1>2, <1>3, NextIsStep

(* However many hooks overlap, and whatever is killed, late or cannot be    *)
(* written, a session is warned at most MaxWarnings times, and at most as   *)
(* often again for each hook that did not mark what it had decided on.      *)
THEOREM WarningsKeepTheirCap == Spec => []WarningsBounded
<1>1. WarningInv => WarningsBounded
  <2> SUFFICES ASSUME WarningInv, NEW s \in Sessions
               PROVE  warned[s] =< MaxWarnings * (1 + races[s])
    BY DEF WarningsBounded
  <2>1. Marked(s) /\ warned[s] \in Nat /\ races[s] \in Nat
    BY Parts DEF WarningInv, AllMarked, TriggerTypes
  <2> DEFINE before == MaxWarnings * races[s]
  <2>2. /\ Cardinality(Giving(s)) \in Nat /\ MaxWarnings \in Nat
        /\ Told(marker[s]) \in Nat /\ Told(marker[s]) =< MaxWarnings
    BY <2>1, FS_CardinalityType, HooksAssumption, ToldType DEF Marked
  <2>3. before \in Nat /\ MaxWarnings * (races[s] + 1) = before + MaxWarnings
    BY <2>1, RaceAllows
  <2>4. warned[s] + Cardinality(Giving(s)) =< before + Told(marker[s])
    BY <2>1 DEF Marked, Within
  <2> HIDE DEF before
  <2>5. warned[s] =< before + MaxWarnings
    BY <2>1, <2>2, <2>3, <2>4
  <2>6. 1 + races[s] = races[s] + 1
    BY <2>1
  <2> QED
    BY <2>3, <2>5, <2>6
<1> QED
  BY <1>1, InitWarnings, NextWarnings, PTL DEF Spec
=============================================================================
