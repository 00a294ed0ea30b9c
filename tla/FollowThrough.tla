--------------------------- MODULE FollowThrough ---------------------------
(***************************************************************************)
(* kb follow-through and kb capture-follow-through (src/cli/), which ask   *)
(* of everything pushed at an agent whether it was acted on.  A hint or a  *)
(* warning is followed if the session reads one of its documents within    *)
(* the window; a checkpoint is answered if the session captures something  *)
(* within the window, or salvaged if the harvest does so later.  What is   *)
(* younger than the window is left out, for its verdict is still open.     *)
(*                                                                         *)
(* The database stamps its rows with whole seconds, the logs of hooks with *)
(* milliseconds; reads go on, documents are superseded, restored and purged*)
(* between two reports.  One agent; briefings and searches, which are      *)
(* joined as hints are, the counts, rates, and resampling are left out.    *)
(***************************************************************************)
EXTENDS Naturals, FiniteSets

CONSTANTS
  Docs,
  Sessions,
  TestSessions, \* isTestSession
  Second,       \* ticks of a second
  Window,       \* WINDOW_MS
  MaxTime,      \* bound: the clock
  MaxLogged     \* bound: rows and log lines

ASSUME FollowAssumption ==
  /\ TestSessions \subseteq Sessions
  /\ Second \in Nat \ {0}
  /\ Window \in Nat
  /\ MaxTime \in Nat
  /\ MaxLogged \in Nat

NoDoc == "no document"

VARIABLES
  clock,
  pushes,       \* retrievals of hints, and the lines of fires-*.jsonl
  reads,        \* retrievals of reads
  checkpoints,  \* the lines of candidates-*.jsonl
  captures,     \* write_decisions, and maintenance calls of tool_calls
  salvaged,     \* documents of a harvest: session and time
  superseded,   \* superseded_at, or 0
  purged        \* documents deleted; their ids are not given again

followVars == <<clock, pushes, reads, checkpoints, captures, salvaged, superseded, purged>>

(* CURRENT_TIMESTAMP *)
Stamp(t) == t - (t % Second)

FollowInit ==
  /\ clock = Second
  /\ pushes = {}
  /\ reads = {}
  /\ checkpoints = {}
  /\ captures = {}
  /\ salvaged = {}
  /\ superseded = [d \in Docs |-> 0]
  /\ purged = {}

-----------------------------------------------------------------------------
(* kb follow-through.                                                      *)

(* withinMeasurementWindow: an event, in a report up to some time.         *)
Eligible(at, through) == at + Window <= through

(* Of an event's rows, those of purged documents name none any more: ON    *)
(* DELETE SET NULL.  The log of warnings goes on to name them.             *)
NamedBy(e) == IF e.surface = "hint" THEN e.docs \ purged ELSE e.docs

(* markFollowed *)
FollowedBy(e, r) ==
  /\ r.session = e.session
  /\ r.doc \in NamedBy(e) \ purged
  /\ e.at <= r.at
  /\ r.at <= e.at + Window

(* surfaceStats: a hint without documents is a decline.                    *)
Verdict(e) ==
  IF e.session \in TestSessions THEN "excluded"
  ELSE IF NamedBy(e) = {} THEN "decline"
  ELSE IF \E r \in reads : FollowedBy(e, r) THEN "followed" ELSE "not followed"

-----------------------------------------------------------------------------
(* kb capture-follow-through: classifyCandidate.                           *)

CapturesOf(c) == {x \in captures : x.session = c.session}

(* Mutant: any capture so far is the answer.                               *)
ImmediateAnyTime(c) == {x \in CapturesOf(c) : c.at <= x.at}

Immediate(c) == {x \in CapturesOf(c) : c.at <= x.at /\ x.at <= c.at + Window}

Refused(c) == {x \in Immediate(c) : x.what = "refused"}
Authored(c) == Immediate(c) \ Refused(c)

(* An accepted note that was superseded by the time of the report.         *)
LaterDuplicate(c) ==
  \E x \in Authored(c) : /\ x.doc \in Docs \ purged
                         /\ x.at < superseded[x.doc]

(* What the harvest wrote, as its decision or as the document's source.    *)
Salvages(c) ==
  \/ \E x \in CapturesOf(c) : x.what = "harvested" /\ c.at + Window < x.at
  \/ \E x \in salvaged : x.session = c.session /\ x.doc \notin purged /\ c.at + Window < x.at

CaptureState(c) ==
  IF c.session \in TestSessions THEN "excluded"
  ELSE IF LaterDuplicate(c) THEN "later_duplicate_outcome"
  ELSE IF Authored(c) # {} THEN "immediate_capture"
  ELSE IF Salvages(c) THEN "delayed_salvage"
  ELSE IF Refused(c) # {} THEN "duplicate_attempt"
  ELSE "no_correlated_capture"

-----------------------------------------------------------------------------
(* What is logged.                                                         *)

Present == Docs \ purged

Logged == Cardinality(pushes) + Cardinality(reads) + Cardinality(checkpoints)
            + Cardinality(captures) + Cardinality(salvaged)

Logs == Logged < MaxLogged

(* logRetrievalResults of a hint: one event, whose rows have one time.     *)
LogsHint(s, D) ==
  /\ Logs
  /\ pushes' = pushes \cup {[surface |-> "hint", session |-> s, docs |-> D, at |-> Stamp(clock)]}
  /\ UNCHANGED <<clock, reads, checkpoints, captures, salvaged, superseded, purged>>

(* The fire of a trigger that was emitted.                                 *)
LogsFire(s, d) ==
  /\ Logs
  /\ pushes' = pushes \cup {[surface |-> "trigger", session |-> s, docs |-> {d}, at |-> clock]}
  /\ UNCHANGED <<clock, reads, checkpoints, captures, salvaged, superseded, purged>>

LogsRead(s, d) ==
  /\ Logs
  /\ reads' = reads \cup {[session |-> s, doc |-> d, at |-> Stamp(clock)]}
  /\ UNCHANGED <<clock, pushes, checkpoints, captures, salvaged, superseded, purged>>

LogsCheckpoint(s) ==
  /\ Logs
  /\ checkpoints' = checkpoints \cup {[session |-> s, at |-> clock]}
  /\ UNCHANGED <<clock, pushes, reads, captures, salvaged, superseded, purged>>

(* logWriteDecision, or logToolCall of a call that ended well and writes   *)
(* no note.                                                                *)
LogsCapture(s, what, d) ==
  /\ Logs
  /\ captures' = captures \cup {[session |-> s, what |-> what, doc |-> d, at |-> Stamp(clock)]}
  /\ UNCHANGED <<clock, pushes, reads, checkpoints, salvaged, superseded, purged>>

(* A document of a harvest is indexed.                                     *)
IndexesHarvest(s, d) ==
  /\ Logs
  /\ \A x \in salvaged : x.doc # d
  /\ salvaged' = salvaged \cup {[session |-> s, doc |-> d, at |-> Stamp(clock)]}
  /\ UNCHANGED <<clock, pushes, reads, checkpoints, captures, superseded, purged>>

(* supersedeDocument, also with unset.                                     *)
SupersedesDoc(d) ==
  /\ superseded' = [superseded EXCEPT ![d] = Stamp(clock)]
  /\ UNCHANGED <<clock, pushes, reads, checkpoints, captures, salvaged, purged>>

RestoresDoc(d) ==
  /\ superseded[d] # 0
  /\ superseded' = [superseded EXCEPT ![d] = 0]
  /\ UNCHANGED <<clock, pushes, reads, checkpoints, captures, salvaged, purged>>

(* deleteDocument *)
PurgesDoc(d) ==
  /\ purged' = purged \cup {d}
  /\ UNCHANGED <<clock, pushes, reads, checkpoints, captures, salvaged, superseded>>

Ticks ==
  /\ clock < MaxTime
  /\ clock' = clock + 1
  /\ UNCHANGED <<pushes, reads, checkpoints, captures, salvaged, superseded, purged>>

FollowNext ==
  \/ \E s \in Sessions :
       \/ \E D \in SUBSET Present : LogsHint(s, D)
       \/ LogsCheckpoint(s)
       \/ LogsCapture(s, "called", NoDoc) \/ LogsCapture(s, "refused", NoDoc)
       \/ \E d \in Present :
            \/ LogsFire(s, d) \/ LogsRead(s, d) \/ IndexesHarvest(s, d)
            \/ LogsCapture(s, "authored", d) \/ LogsCapture(s, "harvested", d)
  \/ \E d \in Present : SupersedesDoc(d) \/ RestoresDoc(d) \/ PurgesDoc(d)
  \/ Ticks

FollowSpec == FollowInit /\ [][FollowNext]_followVars

-----------------------------------------------------------------------------
(* Properties.                                                             *)

FollowTypeOK ==
  /\ clock \in Nat /\ Second <= clock
  /\ \A e \in pushes : /\ e.surface \in {"hint", "trigger"}
                       /\ e.session \in Sessions /\ e.docs \subseteq Docs
                       /\ e.at \in Nat /\ e.at <= clock
  /\ \A r \in reads : r.session \in Sessions /\ r.doc \in Docs /\ r.at \in Nat /\ r.at <= clock
  /\ \A c \in checkpoints : c.session \in Sessions /\ c.at \in Nat /\ c.at <= clock
  /\ \A x \in captures :
       /\ x.session \in Sessions /\ x.doc \in Docs \cup {NoDoc}
       /\ x.what \in {"called", "refused", "authored", "harvested"}
       /\ x.at \in Nat /\ x.at <= clock
  /\ \A x \in salvaged : x.session \in Sessions /\ x.doc \in Docs /\ x.at \in Nat /\ x.at <= clock
  /\ superseded \in [Docs -> Nat]
  /\ purged \subseteq Docs

(* Events that are eligible, and were so for a second.                     *)
Mature(at) == Eligible(at, clock - Second)

(* What a push is reported as does not change, unless one of its documents *)
(* is purged.                                                              *)
PushesSettle ==
  \A e \in pushes :
    Mature(e.at) /\ (purged' \ purged) \cap e.docs = {} => Verdict(e)' = Verdict(e)

AuthoredStates == {"immediate_capture", "later_duplicate_outcome"}

(* A checkpoint that was answered stays so, and one that was not never is  *)
(* but by the harvest, whose salvage stands until a document is purged.    *)
CheckpointsSettle ==
  \A c \in checkpoints :
    LET old == CaptureState(c)
        new == CaptureState(c)'
    IN Mature(c.at) =>
         /\ old \in AuthoredStates <=> new \in AuthoredStates
         /\ purged' = purged /\ old = "delayed_salvage" => new = old
         /\ purged' = purged /\ old # new =>
              new \in AuthoredStates \cup {"delayed_salvage"}

(* "Denominator events stop one follow window earlier so an event at the   *)
(* right edge is not silently graded as 'not followed' before it has had   *)
(* 30 minutes to be read": two reports agree on every event that was       *)
(* eligible, by a second, for the first.                                   *)
VerdictsSettle == [][PushesSettle /\ CheckpointsSettle]_followVars
=============================================================================
