------------------------------ MODULE Outcomes ------------------------------
(***************************************************************************)
(* What a retrieval came to (src/retrieval-outcomes.js).  The harvest, when*)
(* it has swept a session, reads its transcript once more: a note that was *)
(* read has helped if the session says that it uses the note to do         *)
(* something, does that, and succeeds; and was wrong if it has since been  *)
(* superseded.  An outcome is about the version that was read, and ranks   *)
(* the note as long as it has that version (src/outcome-ranking.js).       *)
(*                                                                         *)
(* One session, whose transcript grows between its sweeps.  A line says    *)
(* that a note is used for an action, that an action is called, or how a   *)
(* call ended; how the words are recognised is left out.  Rows have a time *)
(* in whole seconds, lines a finer one or, in the transcripts of some      *)
(* agents, none.  A line whose time cannot be read counts for nothing.     *)
(***************************************************************************)
EXTENDS Naturals, FiniteSets, Sequences

CONSTANTS
  Works,        \* the notes
  Versions,     \* snapshotDocumentVersion: hashes
  Tasks,        \* what an action is recognised by
  Reason,       \* what a document may be superseded by
  TickOf,       \* ticks of a second
  MaxTicks, MaxLines, MaxRetrievals, MaxTurns  \* bounds

ASSUME OutcomesAssumption ==
  /\ TickOf \in Nat \ {0}
  /\ {MaxTicks, MaxLines, MaxRetrievals, MaxTurns} \subseteq Nat
  /\ Versions # {}
  /\ "none" \notin Works

VARIABLES
  time,
  retrievals,   \* rows of the session; of no note when it has been deleted
  transcript,
  current,      \* the version of each note
  retired,      \* superseded_at and superseded_by, or none
  outcomes,     \* retrieval_outcomes
  turns         \* what was done to notes so far, up to MaxTurns

outcomeVars == <<time, retrievals, transcript, current, retired, outcomes, turns>>

Whole(t) == t - (t % TickOf)
Live == [at |-> 0, by |-> "none"]

OutcomesInit ==
  /\ time = TickOf
  /\ retrievals = <<>>
  /\ transcript = <<>>
  /\ current \in [Works -> {CHOOSE v \in Versions : TRUE}]
  /\ retired = [w \in Works |-> Live]
  /\ outcomes = {}
  /\ turns = 0

-----------------------------------------------------------------------------
(* recordHelpedRows                                                        *)

Lines == DOMAIN transcript

(* Mutant: without sameOrAfter.                                            *)
AttributesAnyTime(i, r) == transcript[i].kind = "uses" /\ transcript[i].work = r.work

(* sameOrAfter, and extractAttributedAction of this note: a line without a *)
(* time is as good as a later one.                                         *)
Attributes(i, r) ==
  /\ transcript[i].kind = "uses"
  /\ transcript[i].work = r.work
  /\ transcript[i].timed => r.at <= transcript[i].at

(* A call of what the line said; two actions that share a word are the same.*)
CallsFor(j, i) == i < j /\ transcript[j].kind = "call" /\ transcript[j].task = transcript[i].task

SucceedsFor(k, j) == j < k /\ transcript[k].kind = "ok" /\ transcript[k].call = j

First(S) == {i \in S : \A j \in S : i <= j}

(* The first line that attributes, the first call after it, and the first  *)
(* success of that call, if there are all three.                           *)
Proofs(r) ==
  {p \in Lines \X Lines : \E j \in Lines :
     /\ p[1] \in First({i \in Lines : Attributes(i, r)})
     /\ j \in First({i \in Lines : CallsFor(i, p[1])})
     /\ p[2] \in First({i \in Lines : SucceedsFor(i, j)})}

OutcomeOf(r, outcome, ref) ==
  [work |-> r.work, version |-> r.version, outcome |-> outcome, ref |-> ref]

(* retrievalRowsForSession: the rows of documents that are there.          *)
Shown == {n \in DOMAIN retrievals : retrievals[n].work \in Works}

Read == {n \in Shown : retrievals[n].read}

Helped ==
  UNION {{OutcomeOf(retrievals[n], "helped", p) : p \in Proofs(retrievals[n])} : n \in Read}

(* recordCorrectedRows, which also looks at what was merely shown.         *)
Corrected ==
  {OutcomeOf(retrievals[n], "corrected", retired[retrievals[n].work].by) :
     n \in {n \in Shown : /\ retired[retrievals[n].work] # Live
                          /\ retrievals[n].at <= retired[retrievals[n].work].at}}

(* recordRetrievalOutcomesForSession; the same row is inserted only once.  *)
RecordsOutcomes ==
  /\ outcomes' = outcomes \cup Corrected \cup Helped
  /\ UNCHANGED <<time, retrievals, transcript, current, retired, turns>>

(* outcomeAdjustmentForDoc *)
Adjustment(w) ==
  LET about == {o \in outcomes : o.work = w /\ o.version = current[w]}
  IN IF \E o \in about : o.outcome = "corrected" THEN "corrected"
     ELSE IF \E o \in about : o.outcome = "helped" THEN "helped" ELSE "none"

-----------------------------------------------------------------------------
(* logRetrieval, with the version as it is; actual is history.             *)
Retrieves(w, read) ==
  /\ Len(retrievals) < MaxRetrievals
  /\ retrievals' = Append(retrievals, [work |-> w, version |-> current[w], read |-> read,
                                       at |-> Whole(time), actual |-> time])
  /\ UNCHANGED <<time, transcript, current, retired, outcomes, turns>>

Says(line) ==
  /\ Len(transcript) < MaxLines
  /\ transcript' = Append(transcript, line)
  /\ UNCHANGED <<time, retrievals, current, retired, outcomes, turns>>

(* The times of calls and results are not compared with anything.          *)
Uses(w, t, timed) ==
  Says([kind |-> "uses", work |-> w, task |-> t, call |-> 0,
        timed |-> timed, at |-> IF timed THEN time ELSE 0])

Calls(t) ==
  Says([kind |-> "call", work |-> "none", task |-> t, call |-> 0, timed |-> FALSE, at |-> 0])

Results(j, how) ==
  /\ transcript[j].kind = "call"
  /\ \A k \in Lines : transcript[k].call # j
  /\ Says([kind |-> how, work |-> "none", task |-> transcript[j].task, call |-> j,
           timed |-> FALSE, at |-> 0])

Turn ==
  /\ turns < MaxTurns
  /\ turns' = turns + 1
  /\ UNCHANGED <<time, transcript>>

Edits(w, v) ==
  /\ Turn
  /\ v # current[w]
  /\ current' = [current EXCEPT ![w] = v]
  /\ UNCHANGED <<retrievals, retired, outcomes>>

(* supersedeDocument; unset leaves the outcomes.                           *)
Retires(w, by) ==
  /\ Turn
  /\ retired' = [retired EXCEPT ![w] = [at |-> Whole(time), by |-> by]]
  /\ UNCHANGED <<retrievals, current, outcomes>>

Reinstates(w) ==
  /\ retired[w] # Live
  /\ retired' = [retired EXCEPT ![w] = Live]
  /\ UNCHANGED <<time, retrievals, transcript, current, outcomes, turns>>

(* The document is deleted: its rows refer to none (ON DELETE SET NULL),   *)
(* its outcomes go (CASCADE), and the note, when it is indexed again, is   *)
(* another document.                                                       *)
Orphaned(row, w) == IF row.work = w THEN [row EXCEPT !.work = "none"] ELSE row

Deletes(w) ==
  /\ Turn
  /\ retrievals' = [n \in DOMAIN retrievals |-> Orphaned(retrievals[n], w)]
  /\ outcomes' = {o \in outcomes : o.work # w}
  /\ retired' = [retired EXCEPT ![w] = Live]
  /\ UNCHANGED current

TimePasses ==
  /\ time < MaxTicks
  /\ time' = time + 1
  /\ UNCHANGED <<retrievals, transcript, current, retired, outcomes, turns>>

OutcomesNext ==
  \/ RecordsOutcomes
  \/ \E w \in Works :
       \/ \E read \in BOOLEAN : Retrieves(w, read)
       \/ \E t \in Tasks, timed \in BOOLEAN : Uses(w, t, timed)
       \/ \E v \in Versions : Edits(w, v)
       \/ \E by \in Reason : Retires(w, by)
       \/ Reinstates(w) \/ Deletes(w)
  \/ \E t \in Tasks : Calls(t)
  \/ \E j \in Lines, how \in {"ok", "failed"} : Results(j, how)
  \/ TimePasses

OutcomesSpec == OutcomesInit /\ [][OutcomesNext]_outcomeVars

-----------------------------------------------------------------------------
(* Properties.                                                             *)

OutcomesTypeOK ==
  /\ time \in Nat
  /\ \A n \in DOMAIN retrievals : /\ retrievals[n].work \in Works \cup {"none"}
                                  /\ retrievals[n].version \in Versions
                                  /\ retrievals[n].at <= retrievals[n].actual
  /\ current \in [Works -> Versions]
  /\ \A o \in outcomes : o.work \in Works /\ o.version \in Versions

OutcomesOf(w, v, kind) == {o \in outcomes : o.work = w /\ o.version = v /\ o.outcome = kind}
ReadsOf(w, v) == {n \in DOMAIN retrievals : /\ retrievals[n].work = w
                                            /\ retrievals[n].version = v
                                            /\ retrievals[n].read}

(* A transcript that is read again and again as it grows never makes more  *)
(* of a note than it says: each reading of a version helped once at most,  *)
(* by a call for the same that was made and succeeded after the session    *)
(* named the note; and a note ranks for what was read in its own, present  *)
(* text.  A line with a time named the note not a second before it was     *)
(* read.  One without may have come long before the reading: nothing in    *)
(* such a transcript tells.                                                *)
OutcomesAreEarned ==
  \A w \in Works, v \in Versions :
    LET helped == OutcomesOf(w, v, "helped")
    IN /\ Cardinality(helped) <= Cardinality(ReadsOf(w, v))
       /\ \A o \in helped : \E n \in ReadsOf(w, v) :
            /\ o.ref[1] < o.ref[2]
            /\ transcript[o.ref[1]].work = w /\ transcript[o.ref[2]].kind = "ok"
            /\ transcript[o.ref[1]].task = transcript[o.ref[2]].task
            /\ transcript[o.ref[1]].timed =>
                 retrievals[n].actual < transcript[o.ref[1]].at + TickOf
       /\ Adjustment(w) # "none" => \E n \in DOMAIN retrievals :
            retrievals[n].work = w /\ retrievals[n].version = current[w]
=============================================================================
