-------------------------------- MODULE Hooks --------------------------------
(* The hooks that an agent's harness runs beside its work, as short-lived   *)
(* processes that may overlap and may be killed between any two steps:     *)
(* cli/trigger-hook.js (warnings and denials before a command),            *)
(* prompt-hint.js (hints), wakeup-hook.js (the briefing at the start of a  *)
(* session), precompact-hook.js (a snapshot before a compaction) and       *)
(* checkpoint-hook.js (reminders after a commit, a test run, a release).   *)
(*                                                                         *)
(* The first three ask the daemon first (callDaemonOp, daemon-hook-ops.js) *)
(* and compute the same in their own process when it does not answer in    *)
(* time.  What is sent is a plan: only the hook's process writes.  All     *)
(* sessions have one working directory, and are shorter than the days      *)
(* after which the hooks sweep away the files of old ones.                 *)
EXTENDS Naturals, FiniteSets

CONSTANTS
  None, Spoiled,  \* no slot file; one without a reason in it
  Calls,          \* the hook processes that can run at a time
  Sessions,
  Installs,       \* which hooks may be installed, for which sessions
  Notes,          \* notes with triggers
  Policies,       \* the notes that deny the command they match
  MaxWarnings,    \* MAX_SESSION_WARNINGS
  Reasons,        \* CHECKPOINT_REASON
  MaxCheckpoints, \* MAX_SESSION_CHECKPOINTS
  MaxSnapshots,   \* bound: compactions of a session
  MaxRaces        \* bound: a session's marker is unreadable before so many races

ASSUME HooksAssumption ==
  /\ Policies \subseteq Notes
  /\ {MaxWarnings, MaxCheckpoints, MaxSnapshots, MaxRaces} \subseteq Nat
  /\ Spoiled \notin Reasons \cup {None}
  /\ None \notin Notes \cup Reasons \cup Sessions

VARIABLES
  installed,
  call,        \* the process of each running hook
  marker,      \* the notes each session has been warned of, on disk
  claims,      \* each session's .claim files
  slots,       \* each session's .slot files
  snaps,       \* the number of the snapshot on disk, or 0
  written,     \* ghost: how many snapshots have been written
  read,        \* ghost: the snapshots that were printed or have expired
  raced,       \* ghost: sessions whose snapshot was replaced while consumed
  warned,      \* ghost: warnings delivered to each session
  races,       \* ghost: hooks whose marker changed between decision and mark
  reminded,    \* ghost: reminders delivered for each reason
  burned       \* ghost: reasons whose hook was killed, or left its claim behind

triggerVars == <<marker, warned, races>>
checkpointVars == <<claims, slots, reminded, burned>>
snapshotVars == <<snaps, written, read, raced>>
vars == <<installed, call, triggerVars, checkpointVars, snapshotVars>>

DaemonOps == {"trigger", "hint", "wakeup"}
Ops == DaemonOps \cup {"precompact", "checkpoint"}

ASSUME InstallsAssumption == Installs \subseteq SUBSET (Ops \X Sessions)

(* What a trigger hook says: which note, and whether the command is denied. *)
Silent == [note |-> None, deny |-> FALSE]

(* What a wakeup hook restores.                                            *)
NoSnapshot == [from |-> None, number |-> 0]

Idle == [pc |-> "idle", op |-> None, session |-> None, input |-> {},
         here |-> FALSE, fired |-> {}, current |-> {}, plan |-> Silent,
         recovery |-> NoSnapshot, slot |-> 0]

Init ==
  /\ installed \in Installs
  /\ call = [h \in Calls |-> Idle]
  /\ marker = [s \in Sessions |-> {}]
  /\ claims = [s \in Sessions |-> {}]
  /\ slots = [s \in Sessions |-> [i \in 1..MaxCheckpoints |-> None]]
  /\ snaps = [s \in Sessions |-> 0] /\ written = [s \in Sessions |-> 0]
  /\ read = [s \in Sessions |-> {}] /\ raced = {}
  /\ warned = [s \in Sessions |-> 0] /\ races = [s \in Sessions |-> 0]
  /\ reminded = [s \in Sessions |-> [r \in Reasons |-> 0]]
  /\ burned = [s \in Sessions |-> {}]

Goes(h, c) == call' = [call EXCEPT ![h] = c]

Moves(h, to) == Goes(h, [call[h] EXCEPT !.pc = to])

(* The process exits.                                                      *)
Ends(h) == Goes(h, Idle)
-----------------------------------------------------------------------------
(* The call to the daemon: callDaemonOp, HOOK_OPS.                         *)

(* The harness runs a hook.  Its input: the notes a command matches, the   *)
(* reason of a checkpoint, whether the session starts after a compaction.  *)
Inputs(op) ==
  CASE op = "trigger" -> (SUBSET Notes) \ {{}}
    [] op = "checkpoint" -> {{r} : r \in Reasons}
    [] op = "wakeup" -> {{}, {"compact"}}
    [] OTHER -> {{}}

FirstStep(op) ==
  CASE op \in DaemonOps -> "asks" [] op = "precompact" -> "saves" [] OTHER -> "claims"

HookStarts(h, op, s, input) ==
  /\ call[h].pc = "idle" /\ <<op, s>> \in installed
  /\ Goes(h, [Idle EXCEPT !.pc = FirstStep(op), !.op = op, !.session = s, !.input = input])
  /\ UNCHANGED <<installed, triggerVars, checkpointVars, snapshotVars>>

(* readMarker: a marker that cannot be read is a session without warnings. *)
Reads(s) == {marker[s]} \cup {m \in {{}} : races[s] < MaxRaces}

\* Mutant: a policy that has been warned of is not looked at again.
DecisionsOnce(c, fired) ==
  LET fresh == IF Cardinality(fired) < MaxWarnings THEN c.input \ fired ELSE {}
  IN {[note |-> n, deny |-> n \in Policies] : n \in fresh} \cup {Silent}

\* Mutant: a session may be warned of any number of notes.
DecisionsUncapped(c, fired) ==
  LET blockers == c.input \cap Policies
  IN IF blockers # {} THEN {[note |-> n, deny |-> TRUE] : n \in blockers}
     ELSE {[note |-> n, deny |-> FALSE] : n \in c.input \ fired} \cup {Silent}

(* decideAndRecord: a blocking policy always denies; a note is only warned *)
(* of once, and only a few notes in a session; emission may be off.        *)
Decisions(c, fired) ==
  LET blockers == c.input \cap Policies
      advice == IF Cardinality(fired) < MaxWarnings THEN c.input \ fired ELSE {}
  IN IF blockers # {} THEN {[note |-> n, deny |-> TRUE] : n \in blockers}
     ELSE {[note |-> n, deny |-> FALSE] : n \in advice} \cup {Silent}

(* findContinuitySnapshot: the session's own, or the only one of its       *)
(* directory.                                                              *)
Found(c) ==
  IF c.input = {} THEN NoSnapshot
  ELSE LET own == c.session
           others == {s \in Sessions : snaps[s] # 0}
           from == IF snaps[own] # 0 THEN {own}
                   ELSE IF Cardinality(others) = 1 THEN others ELSE {}
       IN IF from = {} THEN NoSnapshot
          ELSE LET s == CHOOSE s \in from : TRUE IN [from |-> s, number |-> snaps[s]]

(* What a hook reads and decides, in either process.                       *)
TriggerComputes(h, c, to) ==
  /\ c.op = "trigger"
  /\ \E fired \in Reads(c.session) : \E p \in Decisions(c, fired) :
       Goes(h, [c EXCEPT !.pc = to, !.plan = p, !.fired = fired])

HintComputes(h, c, to) ==
  /\ c.op = "hint"
  /\ Goes(h, [c EXCEPT !.pc = to])

WakeupComputes(h, c, to) ==
  /\ c.op = "wakeup"
  /\ Goes(h, [c EXCEPT !.pc = to, !.recovery = Found(c)])

Computed(h, c, to) ==
  TriggerComputes(h, c, to) \/ HintComputes(h, c, to) \/ WakeupComputes(h, c, to)

(* The daemon computes and writes nothing.                                 *)
DaemonComputes(h) ==
  /\ call[h].pc = "asks"
  /\ Computed(h, call[h], "answered")
  /\ UNCHANGED <<installed, triggerVars, checkpointVars, snapshotVars>>

TakesAnswer(h) ==
  /\ call[h].pc = "answered"
  /\ Moves(h, IF call[h].op = "wakeup" THEN "prints" ELSE "logs")
  /\ UNCHANGED <<installed, triggerVars, checkpointVars, snapshotVars>>

(* No daemon, a wedged one, or an answer that is late: its plan is lost.   *)
FallsBack(h) ==
  /\ call[h].pc \in {"asks", "answered"}
  /\ Goes(h, [call[h] EXCEPT !.pc = "computes", !.here = TRUE, !.plan = Silent,
                             !.recovery = NoSnapshot, !.fired = {}])
  /\ UNCHANGED <<installed, triggerVars, checkpointVars, snapshotVars>>

ComputesHere(h) ==
  /\ call[h].pc = "computes"
  /\ Computed(h, call[h], "logs")
  /\ UNCHANGED <<installed, triggerVars, checkpointVars, snapshotVars>>

(* An error while computing: nothing is said, and nothing is tried again.  *)
ComputeFails(h) ==
  /\ call[h].pc \in {"asks", "computes"}
  /\ Ends(h)
  /\ UNCHANGED <<installed, triggerVars, checkpointVars, snapshotVars>>

(* The retrieval rows of a hint or a briefing, the fire log of a trigger;  *)
(* a failed insert is swallowed.                                           *)
AfterLog(c) ==
  CASE c.op = "wakeup" -> IF c.here THEN "prints" ELSE "consumes"
    [] c.op = "trigger" /\ c.plan.note # None /\ ~c.plan.deny -> "reads"
    [] OTHER -> "delivers"

Logs(h) ==
  /\ call[h].pc = "logs"
  /\ Moves(h, AfterLog(call[h]))
  /\ UNCHANGED <<installed, triggerVars, checkpointVars, snapshotVars>>
-----------------------------------------------------------------------------
(* A warning: appendMarker reads the marker, adds the note and renames.    *)

(* A race: the marker is not what this hook's warning was decided on, or   *)
(* not what the hook read to add to it.                                    *)
Overtaken(c) == marker[c.session] # c.fired \/ (c.pc = "writes" /\ c.current # c.fired)

RacesOn(c) == [races EXCEPT ![c.session] = IF Overtaken(c) THEN @ + 1 ELSE @]

AppendReads(h) ==
  LET c == call[h] IN
  /\ c.pc = "reads"
  /\ \E m \in Reads(c.session) :
       IF c.plan.note \in m
       THEN Goes(h, [c EXCEPT !.pc = "delivers", !.fired = {}]) /\ races' = RacesOn(c)
       ELSE Goes(h, [c EXCEPT !.pc = "writes", !.current = m]) /\ UNCHANGED races
  /\ UNCHANGED <<installed, marker, warned, checkpointVars, snapshotVars>>

AppendWrites(h) ==
  LET c == call[h] IN
  /\ c.pc = "writes"
  /\ marker' = [marker EXCEPT ![c.session] = c.current \cup {c.plan.note}]
  /\ races' = RacesOn(c)
  /\ Goes(h, [c EXCEPT !.pc = "delivers", !.fired = {}, !.current = {}])
  /\ UNCHANGED <<installed, warned, checkpointVars, snapshotVars>>

(* What cannot be marked is not said.                                      *)
AppendFails(h) ==
  /\ call[h].pc = "writes"
  /\ Ends(h)
  /\ UNCHANGED <<installed, triggerVars, checkpointVars, snapshotVars>>

(* The output reaches the harness.                                         *)
Delivers(h) ==
  LET c == call[h] IN
  /\ c.pc = "delivers"
  /\ Ends(h)
  /\ warned' = [warned EXCEPT ![c.session] =
                  IF c.plan.note # None /\ ~c.plan.deny THEN @ + 1 ELSE @]
  /\ UNCHANGED <<installed, marker, races, checkpointVars, snapshotVars>>

-----------------------------------------------------------------------------
(* A compaction: writeContinuitySnapshot, and its recovery.                *)

PrecompactSaves(h) ==
  LET s == call[h].session IN
  /\ call[h].pc = "saves" /\ written[s] < MaxSnapshots
  /\ snaps' = [snaps EXCEPT ![s] = written[s] + 1]
  /\ written' = [written EXCEPT ![s] = @ + 1]
  /\ Ends(h)
  /\ UNCHANGED <<installed, triggerVars, checkpointVars, read, raced>>

PrecompactFails(h) ==
  /\ call[h].pc = "saves"
  /\ Ends(h)
  /\ UNCHANGED <<installed, triggerVars, checkpointVars, snapshotVars>>

(* Ten minutes later nothing finds the snapshot any more.                  *)
SnapshotExpires(s) ==
  /\ snaps[s] # 0
  /\ snaps' = [snaps EXCEPT ![s] = 0]
  /\ read' = [read EXCEPT ![s] = @ \cup {snaps[s]}]
  /\ UNCHANGED <<installed, call, triggerVars, checkpointVars, written, raced>>

Restores(c) == c.recovery.from # None

(* The snapshot's path is unlinked, whatever is there by now.              *)
Consumed(h) ==
  LET c == call[h] s == c.recovery.from IN
  IF Restores(c)
  THEN /\ snaps' = [snaps EXCEPT ![s] = 0]
       /\ raced' = IF snaps[s] \notin {0, c.recovery.number}
                   THEN raced \cup {s} ELSE raced
  ELSE UNCHANGED <<snaps, raced>>

\* Mutant: the snapshot is consumed before it is printed.
PrintsConsumed(h) ==
  /\ call[h].pc = "prints"
  /\ Moves(h, "consumes")
  /\ Consumed(h)
  /\ UNCHANGED <<installed, triggerVars, checkpointVars, written, read>>

(* console.log, then the rows of a daemon's plan, then the snapshot.       *)
Prints(h) ==
  LET c == call[h] IN
  /\ c.pc = "prints"
  /\ Moves(h, IF c.here THEN "consumes" ELSE "logs")
  /\ read' = IF Restores(c)
             THEN [read EXCEPT ![c.recovery.from] = @ \cup {c.recovery.number}]
             ELSE read
  /\ UNCHANGED <<installed, triggerVars, checkpointVars, snaps, written, raced>>

Consumes(h) ==
  /\ call[h].pc = "consumes"
  /\ Consumed(h)
  /\ Ends(h)
  /\ UNCHANGED <<installed, triggerVars, checkpointVars, written, read>>
-----------------------------------------------------------------------------
(* A checkpoint: reserveCheckpoint, with exclusive creates.                *)

Reason(c) == CHOOSE r \in c.input : TRUE

CheckpointClaims(h) ==
  LET c == call[h] s == c.session IN
  /\ c.pc = "claims"
  /\ IF Reason(c) \in claims[s]
     THEN Ends(h) /\ UNCHANGED claims
     ELSE /\ claims' = [claims EXCEPT ![s] = @ \cup c.input]
          /\ Goes(h, [c EXCEPT !.pc = "slots", !.slot = 1])
  /\ UNCHANGED <<installed, triggerVars, slots, reminded, burned, snapshotVars>>

(* The claim stays behind.                                                 *)
Leaves(c) ==
  /\ claims' = [claims EXCEPT ![c.session] = @ \cup c.input]
  /\ burned' = [burned EXCEPT ![c.session] = @ \cup c.input]

(* An error before the claim, or one that leaves the file that was created *)
(* but could not be filled.                                                *)
CheckpointFails(h) ==
  LET c == call[h] IN
  /\ c.pc = "claims"
  /\ Ends(h)
  /\ \/ UNCHANGED <<claims, burned>>
     \/ c.input \cap claims[c.session] = {} /\ Leaves(c)
  /\ UNCHANGED <<installed, triggerVars, slots, reminded, snapshotVars>>

\* Mutant: a slot is written over.
TakenNever(c) == FALSE

Taken(c) == slots[c.session][c.slot] # None

(* The first free slot is the reminder's.                                  *)
CheckpointTakes(h) ==
  LET c == call[h] IN
  /\ c.pc = "slots" /\ c.slot =< MaxCheckpoints /\ ~Taken(c)
  /\ slots' = [slots EXCEPT ![c.session][c.slot] = Reason(c)]
  /\ Moves(h, "reminds")
  /\ UNCHANGED <<installed, triggerVars, claims, reminded, burned, snapshotVars>>

CheckpointTriesNext(h) ==
  LET c == call[h] IN
  /\ c.pc = "slots" /\ c.slot =< MaxCheckpoints /\ Taken(c)
  /\ Goes(h, [c EXCEPT !.slot = @ + 1])
  /\ UNCHANGED <<installed, triggerVars, checkpointVars, snapshotVars>>

(* The cap, or a slot that cannot be written, even if it was created: the  *)
(* claim is taken back, unless that fails too.                             *)
CheckpointGivesUp(h) ==
  LET c == call[h] IN
  /\ c.pc = "slots"
  /\ \/ claims' = [claims EXCEPT ![c.session] = @ \ c.input] /\ UNCHANGED burned
     \/ Leaves(c)
  /\ \/ UNCHANGED slots
     \/ /\ c.slot =< MaxCheckpoints /\ ~Taken(c)
        /\ slots' = [slots EXCEPT ![c.session][c.slot] = Spoiled]
  /\ Ends(h)
  /\ UNCHANGED <<installed, triggerVars, reminded, snapshotVars>>

CheckpointReminds(h) ==
  LET c == call[h] IN
  /\ c.pc = "reminds"
  /\ reminded' = [reminded EXCEPT ![c.session][Reason(c)] = @ + 1]
  /\ Ends(h)
  /\ UNCHANGED <<installed, triggerVars, claims, slots, burned, snapshotVars>>

(* The harness kills a hook at its deadline.                               *)
HookKilled(h) ==
  LET c == call[h] IN
  /\ c.pc # "idle"
  /\ burned' = IF c.op = "checkpoint"
               THEN [burned EXCEPT ![c.session] = @ \cup c.input] ELSE burned
  /\ Ends(h)
  /\ UNCHANGED <<installed, triggerVars, claims, slots, reminded, snapshotVars>>
-----------------------------------------------------------------------------
Next ==
  \/ \E h \in Calls :
       \/ \E op \in Ops : \E s \in Sessions : \E input \in Inputs(op) :
            HookStarts(h, op, s, input)
       \/ DaemonComputes(h) \/ TakesAnswer(h) \/ FallsBack(h)
       \/ ComputesHere(h) \/ ComputeFails(h) \/ Logs(h)
       \/ AppendReads(h) \/ AppendWrites(h) \/ AppendFails(h)
       \/ Delivers(h)
       \/ PrecompactSaves(h) \/ PrecompactFails(h) \/ Prints(h) \/ Consumes(h)
       \/ CheckpointClaims(h) \/ CheckpointFails(h) \/ CheckpointTakes(h)
       \/ CheckpointTriesNext(h) \/ CheckpointGivesUp(h) \/ CheckpointReminds(h)
       \/ HookKilled(h)
  \/ \E s \in Sessions : SnapshotExpires(s)

Spec == Init /\ [][Next]_vars
-----------------------------------------------------------------------------
PlanType == [note : Notes \cup {None}, deny : BOOLEAN]

Stages == {"idle", "asks", "answered", "computes", "logs", "reads", "writes",
           "delivers", "saves", "prints", "consumes", "claims",
           "slots", "reminds"}

CallType ==
  [pc : Stages, op : Ops \cup {None}, session : Sessions \cup {None},
   input : SUBSET (Notes \cup Reasons \cup {"compact"}), here : BOOLEAN,
   fired : SUBSET Notes, current : SUBSET Notes, plan : PlanType,
   recovery : [from : Sessions \cup {None}, number : 0..MaxSnapshots],
   slot : 0..MaxCheckpoints + 1]

(* The type invariant.                                                     *)
TypeOK ==
  /\ installed \subseteq Ops \X Sessions
  /\ call \in [Calls -> CallType]
  /\ \A h \in Calls : call[h].pc # "idle" =>
       /\ <<call[h].op, call[h].session>> \in installed
       /\ call[h].input \in Inputs(call[h].op)
  /\ marker \in [Sessions -> SUBSET Notes]
  /\ claims \in [Sessions -> SUBSET Reasons]
  /\ slots \in [Sessions -> [1..MaxCheckpoints -> Reasons \cup {None, Spoiled}]]
  /\ snaps \in [Sessions -> 0..MaxSnapshots]
  /\ written \in [Sessions -> 0..MaxSnapshots]
  /\ read \in [Sessions -> SUBSET (1..MaxSnapshots)] /\ raced \subseteq Sessions
  /\ warned \in [Sessions -> Nat] /\ races \in [Sessions -> Nat]
  /\ reminded \in [Sessions -> [Reasons -> Nat]]
  /\ burned \in [Sessions -> SUBSET Reasons]

(* However many commands a session runs, and though a late answer of the   *)
(* daemon, a failed write or a kill come between decision, mark and        *)
(* warning, it is warned at most MaxWarnings times; each hook that does    *)
(* not mark what it has decided on, because the marker has changed or was  *)
(* unreadable, may undo the others' marks, and so costs as many warnings   *)
(* more at most.                                                           *)
WarningsBounded == \A s \in Sessions : warned[s] =< MaxWarnings * (1 + races[s])

(* A command that matches a blocking policy is denied each time, by the    *)
(* daemon's decision or the hook's own, whatever the cap, the marker and   *)
(* failing writes make of warnings.                                        *)
PoliciesDeny ==
  \A h \in Calls : call[h].op = "trigger" /\ call[h].pc \in {"reads", "writes", "delivers"} =>
    (call[h].input \cap Policies # {} <=> call[h].plan.deny)

(* A session is reminded of few boundaries, and of each kind once, even by *)
(* hooks that run at the same moment.  What is not delivered is not used   *)
(* up: a claim without a slot belongs to a hook that is still at work, was *)
(* killed, or could not remove it.                                         *)
CheckpointsCapped ==
  \A s \in Sessions :
    /\ \A r \in Reasons : reminded[s][r] =< 1
    /\ Cardinality({r \in Reasons : reminded[s][r] > 0}) =< MaxCheckpoints
    /\ \A r \in claims[s] :
         \/ \E i \in 1..MaxCheckpoints : slots[s][i] = r
         \/ \E h \in Calls : call[h].pc = "slots" /\ call[h].session = s /\ call[h].input = {r}
         \/ r \in burned[s]

(* The last snapshot of a session stays until it has been printed or has   *)
(* expired, whichever hooks are killed and whichever answers are late;     *)
(* unless it was written while an earlier one was being consumed.          *)
UnreadStays ==
  \A s \in Sessions \ raced :
    written[s] # 0 /\ written[s] \notin read[s] => snaps[s] = written[s]

(* A race costs one more warning.  (trigger-hook.js:93-95, "the worst case *)
(* of each is one extra warning".)                                         *)
OneExtraPerRace == \A s \in Sessions : warned[s] =< MaxWarnings + races[s]
=============================================================================
