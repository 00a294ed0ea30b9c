---------------------------- MODULE Reconciliation ----------------------------
(* kb reconcile (reconciliation.js, cli/reconcile.js): a daily job that    *)
(* asks a model about notes that the ledger of facts contradicts, and      *)
(* about entities of which it states several values.                       *)
(*                                                                         *)
(* Runs may overlap, with each other and with every writer of Facts.  A    *)
(* run waits for the model without holding anything, so what it judged may *)
(* have changed when the answer comes.  Whether transcripts support a      *)
(* judgement, and what the model says, are choices.                        *)
EXTENDS Facts

CONSTANTS
  Runs,      \* processes that run kb reconcile
  Manual,    \* those that a person started, perhaps as a dry run
  Notes,     \* the ids of notes: a later note has a greater id
  About,     \* for a note, the name and the value that it states
  Keys,      \* the entries of the queue, in the order of the keys
  Limit,     \* --limit
  MaxEvents  \* bound: changes that people make to notes, crashes of runs
             \* and appends to the log that fail, together

NoteEntry(n, m) == <<"note", n, m>>
FactEntry(s) == <<"fact", s>>

ASSUME ReconciliationAssumption ==
  /\ Manual \subseteq Runs
  /\ Notes \subseteq Nat /\ None \notin Notes
  /\ About \in [Notes -> [s : Names, o : Names]]
  /\ Keys \in Seq({NoteEntry(n, m) : n, m \in Notes} \cup {FactEntry(s) : s \in Names})
  /\ Limit \in Nat \ {0} /\ MaxEvents \in Nat

VARIABLES
  notes,     \* the text and superseded_by of each note
  cursor,    \* the key of the entry that was last decided, or 0
  acks,      \* the pairs that are marked reconcile_note_done
  logged,    \* the pairs that decisions.jsonl says are superseded
  run,       \* the runs
  events

recVars == <<notes, cursor, acks, logged, run, events>>
vars == <<factVars, recVars>>

AtRest == [pc |-> "idle", dry |-> FALSE, queue |-> << >>, before |-> << >>,
           items |-> << >>, settled |-> FALSE]

RecInit ==
  /\ notes = [n \in Notes |-> [text |-> 0, by |-> None]]
  /\ cursor = 0 /\ acks = {} /\ logged = {}
  /\ run = [r \in Runs |-> AtRest]
  /\ events = 0

Init == FactsInit /\ RecInit

Entries == {Keys[i] : i \in DOMAIN Keys}

Rank(e) == CHOOSE i \in DOMAIN Keys : Keys[i] = e
-----------------------------------------------------------------------------
(* The queue.                                                              *)

(* The fact that started last, of those that say when they did.            *)
Newest(s) ==
  LET dated == {f \in Live(s) : f.from # None} IN
  {f \in dated : \A g \in dated :
     g.from < f.from \/ (g.from = f.from /\ g.id =< f.id)}

(* supersessionEvidenceCandidates: a fact of s has ended and a newer one   *)
(* holds; the note states the old value, a later note the new one.         *)
Ended(s, o, now) ==
  \E f \in rows : f.s = s /\ f.o = o /\ f.to # None /\ f.to =< now.from

Replacing(n, now) ==
  {m \in Notes : m > n /\ notes[m].by = None /\ About[m] = [s |-> now.s, o |-> now.o]}

Candidate(n, m) ==
  LET a == About[n] IN
  /\ \A f \in Live(a.s) : f.o # a.o
  /\ \E now \in Newest(a.s) :
       /\ Ended(a.s, a.o, now)
       /\ m \in Replacing(n, now) /\ \A k \in Replacing(n, now) : k =< m
  /\ notes[n].by \in {None, m}

NoteWaits(e) ==
  /\ e[1] = "note" /\ Candidate(e[2], e[3])
  /\ e \in acks => notes[e[2]].by # e[3]

(* factGroups: more than one value is live.                                *)
FactsWait(e) == e[1] = "fact" /\ Cardinality({f.o : f \in Live(e[2])}) > 1

Waits(e) == NoteWaits(e) \/ FactsWait(e)
Queue == {e \in Entries : Waits(e)}

\* Mutant: the cursor is read as if it were never written.
TurnFromTheTop(e, k) == Rank(e)

(* The entries after the cursor come first, then the ones before it.       *)
Turn(e, k) == (Rank(e) + Len(Keys) - k - 1) % Len(Keys)

(* The first entries of the queue, in that order.                          *)
Selected(k) ==
  LET size == Cardinality(Queue)
      before(e) == {d \in Queue : Turn(d, k) < Turn(e, k)}
  IN {q \in [1..(IF size < Limit THEN size ELSE Limit) -> Queue] :
        \A i \in DOMAIN q : Cardinality(before(q[i])) = i - 1}

(* A group of facts is read here, the notes of an entry when its turn      *)
(* comes.                                                                  *)
RunStarts(r, dry) ==
  /\ Offers("reconcile") /\ run[r].pc = "idle"
  /\ Queue # {}
  /\ \E entries \in Selected(cursor) :
       LET item(e) == [entry |-> e, group |-> IF e[1] = "fact" THEN Live(e[2]) ELSE {}]
       IN run' = [run EXCEPT ![r] = [AtRest EXCEPT !.pc = "next", !.dry = dry,
                                     !.queue = [i \in DOMAIN entries |-> item(entries[i])]]]
  /\ UNCHANGED <<factVars, notes, cursor, acks, logged, events>>

Entry(r) == Head(run[r].queue).entry
Group(r) == Head(run[r].queue).group

(* An outcome: is the note superseded as the entry says, now or before?    *)
Decides(r, settled) ==
  run' = [run EXCEPT ![r] =
            [@ EXCEPT !.pc = "logs", !.settled = settled, !.before = << >>, !.items = << >>]]
-----------------------------------------------------------------------------
(* reconcileSupersession, reconcileFactGroup.                              *)

Snapshot(e) == <<notes[e[2]], notes[e[3]]>>

(* evidenceForAssertion: no transcript supports it, or one does for both.  *)
Abstains(r) ==
  /\ run[r].pc = "next"
  /\ Decides(r, FALSE)
  /\ UNCHANGED <<factVars, notes, cursor, acks, logged, events>>

Asks(r) ==
  /\ run[r].pc = "next"
  /\ \A f \in Group(r) : f.source
  /\ LET shown == IF Entry(r)[1] = "note" THEN Snapshot(Entry(r)) ELSE << >>
     IN run' = [run EXCEPT ![r] = [@ EXCEPT !.pc = "asks", !.before = shown]]
  /\ UNCHANGED <<factVars, notes, cursor, acks, logged, events>>

(* The call of the model fails, or what it says is invalid.                *)
ModelFails(r) ==
  /\ run[r].pc = "asks"
  /\ Decides(r, FALSE)
  /\ UNCHANGED <<factVars, notes, cursor, acks, logged, events>>

\* Mutant: the notes are not compared with what the model was shown.
AppliesUnchecked(r, supersede) ==
  /\ supersede /\ ~run[r].dry
  /\ notes[Entry(r)[2]].by # Entry(r)[3]

(* applySupersessionDecision, in one transaction: neither applied before,  *)
(* nor stale, nor abstained from, nor a dry run.                           *)
Applies(r, supersede) ==
  /\ supersede /\ ~run[r].dry
  /\ notes[Entry(r)[2]].by # Entry(r)[3]
  /\ run[r].before = Snapshot(Entry(r))

NoteAnswered(r, supersede) ==
  LET e == Entry(r) IN
  /\ run[r].pc = "asks" /\ e[1] = "note"
  /\ notes' = IF Applies(r, supersede) THEN [notes EXCEPT ![e[2]].by = e[3]] ELSE notes
  /\ Decides(r, notes'[e[2]].by = e[3])
  /\ UNCHANGED <<factVars, cursor, acks, logged, events>>

(* What the hash of a group covers.                                        *)
View(facts) == {<<f.id, f.o, f.from, f.source>> : f \in facts}

(* applyFactDecision compares the group outside of a transaction ...       *)
FactAnswered(r, items) ==
  LET s == Key(Entry(r)[2])
      again == Latest(s) # 0 /\ reviews[Latest(s)].items = items
  IN
  /\ run[r].pc = "asks" /\ Entry(r)[1] = "fact" /\ items \in Judgements(Group(r))
  /\ IF View(Live(s)) # View(Group(r)) \/ again \/ run[r].dry THEN Decides(r, FALSE)
     ELSE /\ Len(reviews) < MaxReviews
          /\ run' = [run EXCEPT ![r] = [@ EXCEPT !.pc = "reviews", !.items = items]]
  /\ UNCHANGED <<factVars, notes, cursor, acks, logged, events>>

(* ... and then reviews it in one.                                         *)
FactReviewed(r) ==
  LET s == Key(Entry(r)[2]) IN
  /\ run[r].pc = "reviews"
  /\ IF Accepts(s, run[r].items)
     THEN Reviewed(s, run[r].items, Seen(Group(r)))
     ELSE UNCHANGED reviews
  /\ Decides(r, FALSE)
  /\ UNCHANGED <<setup, day, ledger, alias, entity, preview, call, split>>
  /\ UNCHANGED <<notes, cursor, acks, logged, events>>
-----------------------------------------------------------------------------
(* runReconciliation, after each decision.                                 *)

Rest(r) ==
  LET rest == Tail(run[r].queue) IN
  IF rest = << >> THEN AtRest
  ELSE [AtRest EXCEPT !.pc = "next", !.dry = run[r].dry, !.queue = rest]

(* appendDecision: a dry run writes the log as well.                       *)
Logs(r) ==
  /\ run[r].pc = "logs"
  /\ logged' = logged \cup (IF run[r].settled THEN {Entry(r)} ELSE {})
  /\ run' = [run EXCEPT ![r] = IF run[r].dry THEN Rest(r) ELSE [@ EXCEPT !.pc = "saves"]]
  /\ UNCHANGED <<factVars, notes, cursor, acks, events>>

(* The cursor and the acknowledgement, in one transaction.                 *)
Saves(r) ==
  /\ run[r].pc = "saves"
  /\ cursor' = Rank(Entry(r))
  /\ acks' = acks \cup (IF run[r].settled THEN {Entry(r)} ELSE {})
  /\ run' = [run EXCEPT ![r] = Rest(r)]
  /\ UNCHANGED <<factVars, notes, logged, events>>

\* Mutant: a failed append is ignored.
DiesNot(r) ==
  /\ run[r].pc # "idle" /\ events < MaxEvents
  /\ run' = [run EXCEPT ![r] = IF @.pc = "logs" THEN [@ EXCEPT !.pc = "saves"] ELSE AtRest]
  /\ events' = events + 1
  /\ UNCHANGED <<factVars, notes, cursor, acks, logged>>

(* A failed append ends the run, as a crash does at any other step.        *)
Dies(r) ==
  /\ run[r].pc # "idle" /\ events < MaxEvents
  /\ run' = [run EXCEPT ![r] = AtRest]
  /\ events' = events + 1
  /\ UNCHANGED <<factVars, notes, cursor, acks, logged>>
-----------------------------------------------------------------------------
(* People: a note is rewritten (kb_write), or superseded by another, or    *)
(* not any more (kb supersede).  Only a run of kb reconcile looks at them. *)
Rewrites(n) ==
  /\ Offers("reconcile") /\ events < MaxEvents /\ events' = events + 1
  /\ notes' = [notes EXCEPT ![n].text = @ + 1]
  /\ UNCHANGED <<factVars, cursor, acks, logged, run>>

Supersedes(n, by) ==
  /\ Offers("reconcile") /\ events < MaxEvents /\ events' = events + 1
  /\ by \notin {n, notes[n].by} /\ notes' = [notes EXCEPT ![n].by = by]
  /\ UNCHANGED <<factVars, cursor, acks, logged, run>>
-----------------------------------------------------------------------------
Progresses(r) ==
  /\ run[r].pc # "idle"
  /\ \/ Asks(r) \/ Abstains(r) \/ ModelFails(r)
     \/ \E supersede \in BOOLEAN : NoteAnswered(r, supersede)
     \/ \E items \in Judgements(Group(r)) : FactAnswered(r, items)
     \/ FactReviewed(r) \/ Logs(r) \/ Saves(r)

Next ==
  \/ FactsNext /\ UNCHANGED recVars
  \/ \E r \in Runs :
       \/ RunStarts(r, FALSE)
       \/ (r \in Manual /\ RunStarts(r, TRUE))
       \/ Progresses(r)
       \/ Dies(r)
  \/ \E n \in Notes : Rewrites(n) \/ \E by \in Notes \cup {None} : Supersedes(n, by)

(* launchd or cron starts the job every day (jobs.js), a call of the model *)
(* has a deadline, and the other steps of a run are its own.               *)
Fairness ==
  \A r \in Runs \ Manual : WF_vars(RunStarts(r, FALSE) \/ Progresses(r))

FairSpec == Init /\ [][Next]_vars /\ Fairness
-----------------------------------------------------------------------------
(* The type invariant.                                                     *)
TypeOK ==
  /\ FactsTypeOK
  /\ notes \in [Notes -> [text : 0..MaxEvents, by : Notes \cup {None}]]
  /\ cursor \in 0..Len(Keys)
  /\ acks \cup logged \subseteq Entries
  /\ events \in 0..MaxEvents
  /\ \A r \in Runs :
       /\ run[r].pc \in {"idle", "next", "asks", "reviews", "logs", "saves"}
       /\ (run[r].pc = "idle") = (run[r].queue = << >>)
       /\ run[r].settled => run[r].pc \in {"logs", "saves"} /\ Entry(r)[1] = "note"
       /\ Len(run[r].queue) =< Limit

(* What is acknowledged, and so never looked at again, is in the log: a    *)
(* crash or a failed append between the change of the note and the log     *)
(* leaves the pair in the queue until its line is written.                 *)
AckedWereLogged == acks \subseteq logged

(* A run changes a note only if neither it nor its replacement was         *)
(* rewritten or superseded while the model judged them; the version a run  *)
(* captured is still what another run or a person left.                    *)
JudgedUnchanged ==
  [][\A r \in Runs :
       (run[r].pc = "asks" /\ run'[r].pc = "logs" /\ notes' # notes)
         => run[r].before = Snapshot(Entry(r))]_vars

(* Every entry that stays in the queue gets its turn, however often others *)
(* are abstained from, whatever the limit, and though overlapping runs     *)
(* write one cursor.                                                       *)
EveryItemGetsATurn ==
  Offers("reconcile") =>
    \A i \in DOMAIN Keys : []<>(~Waits(Keys[i]) \/ cursor = i)
=============================================================================
